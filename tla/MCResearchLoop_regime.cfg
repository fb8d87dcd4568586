SPECIFICATION Spec
CONSTANTS
    a1 = a1
    a2 = a2
    s1 = s1
    s2 = s2
    s3 = s3
    tA = tA
    tB = tB
    None = None
    Assets = {a1}
    AssetPool <- RevisitedAsset
    Strategies = {s1}
    Templates = {tA, tB}
    TemplateOf <- ByTemplate
    Mode = "regime"
    OOSEnabled = FALSE
    Sharpes = {1, 2}
    MaxRuns = 3
    IterationsPerRun = 1
    IterationSlack = 2
    TargetCandidates = 1
    PerAssetCap = 3
    PlateauEps = 1
    MinPlateauWindow = 2
    MaxConsecutiveFailures = 2
    ErrorBreaker = 2
    SkipBreaker = 2
    MaxTrialsPerHypothesis = 4
    MaxTrialsPerLineagePerDay = 4
    MaxMutationsAfterFailedGate = 1
    LineageOOSBudget = 1
    CampaignOOSBudget = 2
INVARIANTS DeadAssetIsLeft FairShare WatermarkEarned PeeksTighten
