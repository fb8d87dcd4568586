SPECIFICATION FairSpec
CONSTANTS
    a1 = a1
    a2 = a2
    s1 = s1
    s2 = s2
    s3 = s3
    tA = tA
    tB = tB
    None = None
    Assets = {a1}
    AssetPool <- OneAsset
    Strategies = {s1, s3}
    Templates = {tA, tB}
    TemplateOf <- ByTemplate
    Mode = "robustness"
    OOSEnabled = TRUE
    Sharpes = {1}
    MaxRuns = 3
    IterationsPerRun = 1
    IterationSlack = 1
    TargetCandidates = 2
    PerAssetCap = 3
    PlateauEps = 1
    MinPlateauWindow = 4
    MaxConsecutiveFailures = 2
    ErrorBreaker = 1
    SkipBreaker = 1
    MaxTrialsPerHypothesis = 2
    MaxTrialsPerLineagePerDay = 3
    MaxMutationsAfterFailedGate = 1
    LineageOOSBudget = 1
    CampaignOOSBudget = 1
INVARIANTS RunAccounting VerdictsStand ChargesBuyVerdicts FamilyCaps
PROPERTY KeepsSessionPromise Termination
