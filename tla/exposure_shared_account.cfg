SPECIFICATION Spec
CONSTANTS
    a1 = a1
    a2 = a2
    i1 = i1
    i2 = i2
    s1 = s1
    s2 = s2
    w1 = w1
    w2 = w2
    NoWorker = NoWorker
    NoReq = NoReq
    Accounts = {a1}
    Instruments = {i1, i2}
    Workers = {w1}
    Strategies = {s1, s2}
    StrategyAccount <- SharedAccount
    OrderQty <- SharedLots
    Cycle <- SharedPairs
    ManualQty = {1}
    PriceLevels = {1}
    LossPct = 50
    PosPct = 25
    InitCash <- Cash10
    InitPos <- HoldNone
    EditCash = {}
    EnvOps = {}
    MaxJobs = 1
    MaxEnv = 0
    MaxCrashes = 0
PROPERTIES ApprovedExposureBounded
CHECK_DEADLOCK FALSE
