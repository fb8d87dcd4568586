SPECIFICATION Spec
CONSTANTS
    BarsPerDay = 1
    Pad = 2
    MaxHolding = 2
    MaxRuns = 2
    Templates = {"SMACrossover", "MACDSignalCross", "RSIMeanReversion", "DynamicStrategy", "SignalRouter", "BollingerBreakout", "MultiIndicator", "SentimentAwareRebound"}
    Configs <- MCConfigs
    Decisions <- MCDecisions
INVARIANTS GatesAreKept 
PROPERTY ReboundKeepsItsWord
CHECK_DEADLOCK FALSE
