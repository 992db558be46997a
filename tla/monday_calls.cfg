SPECIFICATION Spec
CONSTANTS
    hubc = hubc
    w1 = w1
    w2 = w2
    NoRow = NoRow
    NoValue = NoValue
    WatchList <- OneItem
    Kind <- AnchoredKind
    Workers = {w1}
    Closes = {1, 2}
    Moves <- TwoMoves
    Trained = {hubc}
    Threshold = 1
    Sessions <- TradedDays
    FirstDay <- BeforeMonday
    LastDay = 11
    PastAsOf = FALSE
    MaxManual = 0
    MaxCrashes = 0
INVARIANT
    TrainedModelsBuild
CHECK_DEADLOCK FALSE
