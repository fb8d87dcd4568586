SPECIFICATION Spec
CONSTANTS
    p1 = p1
    p2 = p2
    Caller = {p1, p2}
    MaxDay = 4
    MaxRevision = 1
    MaxCalls = 3
    MaxCrashes = 1
    Windows <- SomeWindows
    Settings <- AllSettings
    LegacyWriters = TRUE
    Compact = 2
    Year = 2
    ShortHistory = 1
    FirstFixed = 2
CHECK_DEADLOCK FALSE
SYMMETRY Swap
INVARIANTS ReplaceLosesNothing AnswersAreSound
