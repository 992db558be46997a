SPECIFICATION EvalSpec
CONSTANTS
    hubc = hubc
    ogdc = ogdc
    p1 = p1
    p2 = p2
    NoScore = NoScore
    NotFinite = NotFinite
    WeekLength = 3
    Weekend = {2}
    MinTrainRows = 2
    MinRows = 3
    Today = 8
    MinWfTrainRows = 2
    MaxSearchCrashes = 1
    Bps = 4
    Estimators <- EstimatorsOf
    Baselines = {"naive"}
    CostFields = {"fit_seconds", "model_size_bytes"}
    BacktestInputs = {}
    SearchInputs <- Searches
    Outcomes <- ScorelessOutcomes
    ForecastInputs = {}
    MinFitRows <- Fits
    StrategyInputs = {}
INVARIANT
    SweepSurvivesCandidates
CHECK_DEADLOCK FALSE
