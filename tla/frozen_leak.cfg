SPECIFICATION LabSpec
CONSTANTS
    hubc = hubc
    site = site
    celery = celery
    NoSkill = NoSkill
    WeekLength = 3
    MinRows = 2
    Today = 8
    Web = {site}
    Celery = {celery}
    Instrument = hubc
    Holidays = {5}
    FirstDay = 8
    Configs <- ModelConfigs
    HoldoutPercent = 20
    MinScored = 1
    Budgets <- OneEdit
    Registered = {"ridge", "trees"}
    MinWeekdayPairs = 1
    SuiteInputs <- SuiteCalls
    Skills <- SkillValues
    Symbols = {hubc}
    Lags = {0, 1}
    Window = 2
    LastRefreshDay = 3
    Instants = {3, 6}
    Selections <- Lines
    Outages <- OneProviderOut
    MaxEntries = 1
    MaxEdits = 1
    Schedule <- TwoJobs
    Retired = {"old"}
    HandMade = {"mine"}
    Crons = {"at11", "at12"}
    MaxAdminSteps = 2
    Desks = {desk1, desk2}
    TaskOf <- TaskOfKey
    Setups <- DeskSetups
    DeskBudgets <- DeskWorlds
    TrackCloses = {4, 8}
    Unit = 2
    Values <- ValuesOf
    ScoreWindow = 2
    NoValue = NoValue
    HoldoutScores <- Holdouts
    WatchItems <- Items
    TrackBudgets <- TrackWorlds
    ChartCloses = {1, 2}
    OverlayPeriods = {1, 2, 3}
    DetailRanges = {0, 1, 2}
    DefaultRange = 2
    PageRequests <- Requests
    MaxBars = 4
    MaxSyncs = 1
    NoMean = NoMean
INVARIANT FrozenScoresUnseen
CHECK_DEADLOCK FALSE
