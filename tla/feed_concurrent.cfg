SPECIFICATION Spec
CONSTANTS
    hubc = hubc
    w1 = w1
    w2 = w2
    NoRow = NoRow
    NoValue = NoValue
    WatchList <- OneItem
    Kind <- ReturnKind
    Workers = {w1, w2}
    Closes = {1, 2}
    Moves <- TwoMoves
    Trained = {hubc}
    Threshold = 1
    Sessions <- FridaySessions
    FirstDay <- BeforeMonday
    LastDay = 11
    PastAsOf = FALSE
    MaxManual = 1
    MaxCrashes = 1
SYMMETRY AnyWorker
INVARIANTS
    
    
    SentWasPushed

    
CHECK_DEADLOCK FALSE
