SPECIFICATION Spec
CONSTANTS
    Users <- MCUsers
    Owner <- MCOwner
    Fates <- MCFates
    MaxTrials = 2
    TopIdeas = 1
    Browsers <- MCBrowsers
    MaxCopies = 2
INVARIANTS AnswersSurviveRestart NoRowIsSkipped TheEndIsFinal
PROPERTIES PageLearnsTheEnd RowsReachThePage
CHECK_DEADLOCK FALSE
