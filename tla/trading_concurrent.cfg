SPECIFICATION FairSpec
CONSTANTS
    a1 = a1
    a2 = a2
    i1 = i1
    i2 = i2
    s1 = s1
    s2 = s2
    w1 = w1
    w2 = w2
    NoWorker = NoWorker
    NoReq = NoReq
    Accounts = {a1}
    Instruments = {i1}
    Workers = {w1, w2}
    Strategies = {s1}
    StrategyAccount <- OneStrategy
    OrderQty <- OneLot
    Cycle <- OnePair
    ManualQty = {1}
    PriceLevels = {1, 2}
    LossPct = 50
    PosPct = 70
    InitCash <- Cash2
    InitPos <- HoldOne
    EditCash = {0}
    EnvOps = {"edit", "cancel"}
    MaxJobs = 2
    MaxEnv = 1
    MaxCrashes = 1
INVARIANTS TypeOK IInv BuyerOnlyWaitsInDeadlock RecordsMatchFills
PROPERTIES ImplementsPositions WorkersFinish
CHECK_DEADLOCK FALSE
