\* The command line and library callers, two symbols, two strategies, studies
\* of up to four trials, three windows.
SPECIFICATION PipelineSpec
CONSTANTS
    Params <- MCParams
    Landscapes <- MCLandscapes
    TCritical <- MCTCritical
    Callers <- MCCallers
    Symbols <- MCSymbols
    Strategies <- MCStrategies
    Known <- MCKnown
    Days <- MCDays
    Train = 4
    Test = 3
    Step = 3
    Outcomes <- MCOutcomes
INVARIANTS StudyIsHonest ValidatedByMajority EveryComboIsAccountedFor
CHECK_DEADLOCK FALSE
