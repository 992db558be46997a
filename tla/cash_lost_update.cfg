SPECIFICATION Spec
CONSTANTS
    a1 = a1
    a2 = a2
    i1 = i1
    i2 = i2
    s1 = s1
    s2 = s2
    w1 = w1
    w2 = w2
    NoWorker = NoWorker
    NoReq = NoReq
    Accounts = {a1}
    Instruments = {i1, i2}
    Workers = {w1, w2}
    Strategies = {s1}
    StrategyAccount <- OneStrategy
    OrderQty <- OneLot
    Cycle <- OnePair
    ManualQty = {1}
    PriceLevels = {1}
    LossPct = 50
    PosPct = 50
    InitCash <- Cash10
    InitPos <- HoldNone
    EditCash = {}
    EnvOps = {}
    MaxJobs = 2
    MaxEnv = 0
    MaxCrashes = 0
PROPERTIES FillMovesCash
CHECK_DEADLOCK FALSE
