SPECIFICATION FairSpec
CONSTANTS
    hubc = hubc
    w1 = w1
    w2 = w2
    NoRow = NoRow
    NoValue = NoValue
    WatchList <- OneItem
    Kind <- AnchoredKind
    Workers = {w1}
    Closes = {1}
    Moves <- FlatOrUp
    Trained = {hubc}
    Threshold = 1
    Sessions <- TradedDays
    FirstDay <- BeforeMonday
    LastDay = 11
    PastAsOf = FALSE
    MaxManual = 2
    MaxCrashes = 0
INVARIANT
    SentSaysWhatWasPushed
PROPERTIES
    PushedInTime
    GradedEventually
CHECK_DEADLOCK FALSE
