SPECIFICATION LockboxSpec
CONSTANTS
    c1 = c1
    c2 = c2
    h1 = h1
    h2 = h2
    h3 = h3
    NoVerdict = NoVerdict
    Caller = {c1, c2}
    Hash = {h1, h2, h3}
    Lineage = {l1, l2}
    Scope = {u1, u2}
    LineageBudget = 2
    CampaignBudget = 2
INVARIANTS LedgersHold AnswersStand
PROPERTY KeepsLedgerPromise
