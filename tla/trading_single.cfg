SPECIFICATION FairSpec
CONSTANTS
    a1 = a1
    a2 = a2
    i1 = i1
    i2 = i2
    s1 = s1
    s2 = s2
    w1 = w1
    w2 = w2
    NoWorker = NoWorker
    NoReq = NoReq
    Accounts = {a1}
    Instruments = {i1, i2}
    Workers = {w1}
    Strategies = {s1}
    StrategyAccount <- OneStrategy
    OrderQty <- OneLot
    Cycle <- TwoPairs
    ManualQty = {1, 3}
    PriceLevels = {1, 2}
    LossPct = 25
    PosPct = 40
    InitCash <- Cash4
    InitPos <- HoldTwo
    EditCash = {}
    EnvOps = {"sync", "window", "day"}
    MaxJobs = 2
    MaxEnv = 2
    MaxCrashes = 0
INVARIANT NoRecentDuplicates
PROPERTIES ImplementsLedger ApprovedExposureBounded LossStopHolds PendingResolves
CHECK_DEADLOCK FALSE
