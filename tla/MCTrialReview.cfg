SPECIFICATION Spec
CONSTANTS
    None = None
    NoReading = NoReading
    Skills = {0, 1, 2, 3}
    Flat = 0
    Counts = {0, 1, 2, 3, 5}
    VarianceSet = {0, 1, 2, 3}
    Dsr <- MCDsr
    Commission = 10
    ProvisionalBelow = 3
    MaxEur = 2
    CallCosts = {1}
    Trials <- MCTrials
    Configs <- MCConfigs
    Providers <- MCProviders
    DefaultWindow <- MCDefaultWindow
    MinHoldDays = 120
    Power <- MCPower
    PowerFloor = 50
    CanaryHealthy = TRUE
    LockboxOpens = TRUE
    Variances = {0, 2}
    DefaultVariance = 1
    NullVariances = {1}
    Visited = {5}
INVARIANTS CauseIsTheFirstBlocker PraiseIsEarned StricterRigorAdmitsLess OvershootsByLessThanOneCall
CHECK_DEADLOCK FALSE
