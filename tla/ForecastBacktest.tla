--------------------------- MODULE ForecastBacktest ---------------------------
(***************************************************************************)
(* One walk-forward of a forecasting predictor (forecasting.backtesting)   *)
(* and its row (forecasting.services), or the forecast of the next session *)
(* shown beside a symbol (latest_forecast).                                *)
(*                                                                         *)
(* Here a bar of day d is known, and the decision on it taken, at the      *)
(* following midnight, d + 1; the label is the next stored bar, whichever  *)
(* day that is.  Predictors come in four kinds: naive, drift, frame (the   *)
(* regressions and trees) and statistical (SARIMA, ETS).                   *)
(***************************************************************************)
EXTENDS Datasets, Sequences

CONSTANTS
    MinFitRows,       \* rows each kind of predictor needs to be fitted
    Weekend,          \* weekdays without a session
    ForecastInputs

(* Bars are of days, and some weekday has a session.                       *)
ASSUME ForecastConstants ==
    /\ \E w \in 0..(WeekLength - 1) : w \notin Weekend
    /\ \A f \in ForecastInputs :
          /\ f.bars \subseteq Nat /\ IsFiniteSet(f.bars)
          /\ f.call = "backtest" => f.start \in Nat /\ f.end \in Nat

VARIABLES
    fc,               \* arguments of the call, and the stored bars
    fcPc, fcFold,
    fcFolds,          \* result.folds: index, size and last label of the training slice
    fcPreds,          \* result.predictions, in order
    fcSkipped,        \* result.skipped_folds: index and reason
    fcRun,            \* status of the ForecastBacktestRun, "none" before run.save()
    fcLive            \* what latest_forecast returned

fcVars == <<fc, fcPc, fcFold, fcFolds, fcPreds, fcSkipped, fcRun, fcLive>>

NoForecast == [target |-> 0, error |-> "none"]

ForecastInit ==
    /\ fc \in ForecastInputs
    /\ fcPc = "start" /\ fcFold = 0
    /\ fcFolds = {} /\ fcPreds = <<>> /\ fcSkipped = {}
    /\ fcRun = "none" /\ fcLive = NoForecast

(* _history: the bars known by end.                                        *)
History(bars, end) == SortedDays({d \in bars : d < end})
Since(bars, start) == {d \in bars : d + 1 >= start}

(* Mutant: the decision is dated at the midnight the session begins.       *)
FrameAtSession(bars, start, end) ==
    LET h == History(Since(bars, start), end)
    IN  [i \in 1..(Len(h) - 1) |->
            [as_of |-> h[i], target |-> h[i + 1], known |-> h[i + 1] + 1, d |-> h[i]]]

(* assemble_training_frame: one row per stored bar but the last, decided   *)
(* at start or later; a row takes its label from the bar after its own.    *)
Frame(bars, start, end) ==
    LET h == History(Since(bars, start), end)
    IN  [i \in 1..(Len(h) - 1) |->
            [as_of |-> h[i] + 1, target |-> h[i + 1], known |-> h[i + 1] + 1, d |-> h[i]]]

FrameRows == Frame(fc.bars, fc.start, fc.end)
ForecastFolds == GenerateFolds(Len(FrameRows), fc)

(* _slice_training.                                                        *)
TrainSlice(fold) ==
    {i \in fold.train_start..fold.train_end : FrameRows[i].known <= FrameRows[fold.test_start].as_of}
FittedThrough(fold) == Max({FrameRows[i].known : i \in TrainSlice(fold)})

(* What the guards of a fitted predictor say of the first decision of a    *)
(* frame; the naive predictor has none.                                    *)
Guard(as_of, through) ==
    IF fc.predictor = "naive" THEN "none"
    ELSE IF as_of < through THEN "labels beyond decision"
    ELSE IF fc.predictor = "statistical" /\ as_of # through THEN "replay elsewhere"
    ELSE "none"

(* fit and predict_series: why a fold is skipped, if it is.             *)
FitError(fold) ==
    IF TrainSlice(fold) = {} THEN "no training rows"
    ELSE IF Cardinality(TrainSlice(fold)) < MinFitRows[fc.predictor] THEN "too few rows"
    ELSE Guard(FrameRows[fold.test_start].as_of, FittedThrough(fold))

StartRun ==
    /\ fcPc = "start" /\ fc.call = "backtest"
    /\ fcRun' = "running" /\ fcPc' = "frame"
    /\ UNCHANGED <<fc, fcFold, fcFolds, fcPreds, fcSkipped, fcLive>>

FailForecast ==
    /\ fcRun' = "failed" /\ fcPc' = "done"
    /\ UNCHANGED <<fc, fcFold, fcFolds, fcPreds, fcSkipped, fcLive>>

(* No bar, start after end, spans the form would refuse (the command       *)
(* passes them on), or too short a history for one fold.                   *)
MakeFolds ==
    /\ fcPc = "frame"
    /\ IF \/ fc.start > fc.end \/ History(fc.bars, fc.end) = <<>>
          \/ ~FoldConfig(fc) \/ DOMAIN ForecastFolds = {}
       THEN FailForecast
       ELSE /\ fcPc' = "score" /\ fcFold' = 1
            /\ UNCHANGED <<fc, fcFolds, fcPreds, fcSkipped, fcRun, fcLive>>

SkipFold(reason) ==
    /\ fcSkipped' = fcSkipped \cup {[index |-> fcFold, reason |-> reason]}
    /\ UNCHANGED <<fcFolds, fcPreds>>

KeepFold(fold) ==
    /\ fcFolds' = fcFolds \cup {[index |-> fcFold, n_train |-> Cardinality(TrainSlice(fold)),
                                 through |-> FittedThrough(fold)]}
    /\ fcPreds' = fcPreds \o
         [j \in 1..(fold.test_end - fold.test_start + 1) |->
             LET row == FrameRows[fold.test_start + j - 1]
             IN  [fold |-> fcFold, as_of |-> row.as_of, target |-> row.target, d |-> row.d]]
    /\ UNCHANGED fcSkipped

(* A fit that could be done may still raise, or not converge.              *)
WalkFold ==
    /\ fcPc = "score" /\ fcFold \in DOMAIN ForecastFolds
    /\ LET fold == ForecastFolds[fcFold]
       IN  IF FitError(fold) # "none" THEN SkipFold(FitError(fold))
           ELSE KeepFold(fold) \/ SkipFold("raised")
    /\ fcFold' = fcFold + 1
    /\ UNCHANGED <<fc, fcPc, fcRun, fcLive>>

(* A run without a fold that was scored has failed; the others are         *)
(* measured, and their predictions replayed as trades.                     *)
Measure ==
    /\ fcPc = "score" /\ fcFold \notin DOMAIN ForecastFolds
    /\ IF fcFolds = {}
       THEN FailForecast
       ELSE /\ fcPc' = "save"
            /\ UNCHANGED <<fc, fcFold, fcFolds, fcPreds, fcSkipped, fcRun, fcLive>>

(* What raises outside the loop over the folds fails the run: a history    *)
(* that is refused, a provider, a frame that is not one, a measure.        *)
WalkRaises ==
    /\ fcPc = "frame" \/ (fcPc = "score" /\ fcFold \notin DOMAIN ForecastFolds)
    /\ FailForecast

(* The last save is outside the try.  When it raises the row stays as it   *)
(* was.                                                                    *)
SaveRun ==
    /\ fcPc = "save" /\ fcPc' = "done"
    /\ fcRun' \in {"success", "running"}
    /\ UNCHANGED <<fc, fcFold, fcFolds, fcPreds, fcSkipped, fcLive>>

(* latest_forecast.                                                        *)
LastSession == Max(fc.bars)
(* Mutant: the day after, whatever weekday it is.                          *)
NextDay(d) == d + 1

NextWeekday(d) == Min({x \in (d + 1)..(d + WeekLength) : Weekday(x) \notin Weekend})
LiveFitted == {Frame(fc.bars, 0, LastSession + 1)[i].known :
                 i \in DOMAIN Frame(fc.bars, 0, LastSession + 1)}

(* assemble_prediction_frame and the predictor's guards.                   *)
LiveError(as_of, target) ==
    IF target <= LastSession \/ target < as_of THEN "target not ahead"
    ELSE IF /\ fc.predictor # "naive"
            /\ Cardinality(LiveFitted) < Max({MinFitRows[fc.predictor], 1}) THEN "too few rows"
    ELSE Guard(as_of, IF LiveFitted = {} THEN as_of ELSE Max(LiveFitted))

(* latest_forecast catches everything: a query, a fit or a forecast that   *)
(* raises, a fit that does not converge, a price that is not one, before   *)
(* the target date is known or after.                                      *)
LiveResults ==
    {[target |-> 0, error |-> "raised"]} \cup
    IF fc.bars = {} THEN {[target |-> 0, error |-> "no history"]}
    ELSE LET target == NextWeekday(LastSession)
         IN  [target : {target}, error : {LiveError(LastSession + 1, target), "raised"}]

LatestForecast ==
    /\ fcPc = "start" /\ fc.call = "latest"
    /\ fcLive' \in LiveResults
    /\ fcPc' = "done"
    /\ UNCHANGED <<fc, fcFold, fcFolds, fcPreds, fcSkipped, fcRun>>

ForecastNext ==
    StartRun \/ MakeFolds \/ WalkFold \/ Measure \/ WalkRaises \/ SaveRun \/ LatestForecast
=============================================================================
