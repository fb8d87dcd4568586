\* The promise that a failed shard blocks the final write.
SPECIFICATION Spec
CONSTANTS
    None = None
    Torn = Torn
    Names <- MCNames
    Panel <- MCPanel
    AltPanels <- MCAltPanels
    SmokePanel <- MCSmokePanel
    Dials <- MCDials
    SmokeDials <- MCSmokeDials
    Windows <- MCWindows
    SmokeWindows <- MCSmokeWindows
    Coarse <- MCCoarse
    Finer <- MCFiner
    Base <- MCBase
    High <- MCHigh
    Bars <- MCBars
    Held <- MCHeld
    StaleDays <- MCStaleDays
    Ratios <- MCRatios
    Reach <- MCReach
    Crashes <- MCCrashes
    Delisted <- MCDelisted
    Cap <- MCCap
    Vol <- MCVol
    CapTertiles <- MCCapTertiles
    VolMedian = 2
    TrimDays = 5
    StaleRun = 3
    WarmupK <- MCWarmupK
    MinOverlap = 50
    MinActive = 5
    MinReadings = 2
    MinCells = 1
    MinDelisted = 1
    Quantile = 85
    MaxCrashRate = 5
    ExtendRounds = 3
    MaxRuns = 4
    MaxFaults = 1
    MaxKills = 0
INVARIANT FailureBlocksTheWrite
CHECK_DEADLOCK FALSE
