---------------------------- MODULE ModelBacktest ----------------------------
(***************************************************************************)
(* One walk-forward run of backtesting.engine: build the rows, score fold  *)
(* after fold with a freshly fitted pipeline, replay the forecasts as      *)
(* trades, and persist everything with the run in one transaction.         *)
(*                                                                         *)
(* What a fitted pipeline predicts is outside the model: signal[d] is the  *)
(* side of the threshold its forecast for a decision on day d falls on.    *)
(***************************************************************************)
EXTENDS Datasets, TradeSimulation

CONSTANTS
    MinTrainRows,     \* MIN_TRAIN_ROWS
    BacktestInputs    \* the configurations and bars a run can start from

(* The fields of a Backtest are integers, the spans not negative, an       *)
(* instrument's bars are days, and a forecast falls on a side on each.     *)
ASSUME BacktestConstants ==
    \A b \in BacktestInputs :
        /\ b.train_span \in Nat /\ b.test_span \in Nat /\ b.step \in Nat /\ b.gap \in Nat
        /\ b.start \in Nat /\ b.end \in Nat
        /\ \A i \in DOMAIN b.bars :
              b.bars[i] \subseteq Int /\ \A d \in b.bars[i] : b.signal[d] \in {-1, 0, 1}

VARIABLES
    bt,               \* the Backtest, its model's target, and the bars
    btRows,           \* ds, the dataset the run scores
    btPc, btFold,     \* where _execute is; folds looked at so far
    btFolds,          \* fold_rows, with what each fold was fitted on
    btPreds,          \* pred_rows: [inst, fold, d, t, position]
    btSeries,         \* deduped points of each instrument, as positions by date
    btTrades,         \* trade_rows: [inst, direction, entry, exit]
    btRun             \* the BacktestRun and the rows stored under it

btVars == <<bt, btRows, btPc, btFold, btFolds, btPreds, btSeries, btTrades, btRun>>

NoResults == [folds |-> {}, preds |-> {}, trades |-> {}]

(* What Backtest.clean lets be saved, and TradingModel.clean under it.     *)
BacktestClean(b) ==
    /\ b.train_span >= 1 /\ b.test_span >= 1 /\ b.step >= 1
    /\ ValidSpec(b.spec)

BacktestInit ==
    /\ bt \in BacktestInputs /\ BacktestClean(bt)
    /\ btRows = {} /\ btPc = "build" /\ btFold = 0
    /\ btFolds = {} /\ btPreds = {} /\ btSeries = <<>> /\ btTrades = {}
    /\ btRun = [status |-> "running", error |-> "none", results |-> NoResults]

BacktestRows == Dataset(bt.spec, bt.bars, bt.start, bt.end)

(* run_backtest's except clause; what was scored so far is not kept.       *)
FailRun(error) ==
    /\ btRun' = [status |-> "failed", error |-> error, results |-> NoResults]
    /\ btPc' = "done"
    /\ UNCHANGED <<bt, btRows, btFold, btFolds, btPreds, btSeries, btTrades>>

(* Any statement may raise: reading the bars, building a pipeline, fitting *)
(* or asking it in whichever fold, measuring, replaying, storing.          *)
StepRaises == btPc # "done" /\ FailRun("raised")

(* build_dataset and generate_folds: a history that is refused, too few    *)
(* rows, or no fold.                                                       *)
BuildDataset ==
    /\ btPc = "build"
    /\ IF \/ ~HistoryLoads(bt.bars, bt.flawed, bt.end)
          \/ ~EnoughRows(BacktestRows) \/ DOMAIN DatasetFolds(BacktestRows, bt) = {}
       THEN FailRun("ValueError")
       ELSE /\ btRows' = BacktestRows
            /\ btPc' = "score" /\ btFold' = 1
            /\ UNCHANGED <<bt, btFolds, btPreds, btSeries, btTrades, btRun>>

(* _record_predictions for the rows of one test block.                     *)
Recorded(rows, index) ==
    { [inst |-> r.inst, fold |-> index, d |-> r.d, t |-> r.t,
       position |-> PositionFromForecast(bt.signal[r.d], bt.allow_short)] : r \in rows }

(* One fold: passed over, or fitted and asked; what a pipeline that raises *)
(* does is StepRaises.                                                     *)
ScoreFold ==
    /\ btPc = "score" /\ btFold \in DOMAIN DatasetFolds(btRows, bt)
    /\ LET fold   == DatasetFolds(btRows, bt)[btFold]
           fitted == TrainRows(btRows, fold)
       IN  IF Cardinality(fitted) < MinTrainRows
           THEN UNCHANGED <<btFolds, btPreds>>
           ELSE /\ btFolds' = btFolds \cup {[index |-> btFold, fitted |-> fitted]}
                /\ btPreds' = btPreds \cup Recorded(TestRows(btRows, fold), btFold)
    /\ btFold' = btFold + 1
    /\ UNCHANGED <<bt, btRows, btPc, btSeries, btTrades, btRun>>

(* The per-instrument replay, points sorted by date, of which the first of *)
(* a date stays.                                                           *)
Instruments == {p.inst : p \in btPreds}
PointDates(i) == SortedDays({p.d : p \in {q \in btPreds : q.inst = i}})
PointAt(i, d) ==
    CHOOSE p \in btPreds : /\ p.inst = i /\ p.d = d
                           /\ \A q \in btPreds : (q.inst = i /\ q.d = d) => p.fold <= q.fold
Points(i) == [k \in DOMAIN PointDates(i) |-> PointAt(i, PointDates(i)[k]).position]

Simulate ==
    /\ btPc = "score" /\ btFold \notin DOMAIN DatasetFolds(btRows, bt)
    /\ IF btFolds = {}
       THEN FailRun("ValueError")
       ELSE /\ btSeries' = [i \in Instruments |-> Points(i)]
            /\ btTrades' = { [inst |-> i, log |-> TradeLog(Points(i))] : i \in Instruments }
            /\ btPc' = "persist"
            /\ UNCHANGED <<bt, btRows, btFold, btFolds, btPreds, btRun>>

(* One transaction: the unique constraint on (run, instrument,             *)
(* target_date) rolls all of it back, and the run is FAILED.               *)
TargetTwice ==
    \E p, q \in btPreds : p # q /\ p.inst = q.inst /\ p.t = q.t

Persist ==
    /\ btPc = "persist"
    /\ IF TargetTwice
       THEN FailRun("IntegrityError")
       ELSE /\ btRun' = [status |-> "success", error |-> "none",
                         results |-> [folds |-> btFolds, preds |-> btPreds, trades |-> btTrades]]
            /\ btPc' = "done"
            /\ UNCHANGED <<bt, btRows, btFold, btFolds, btPreds, btSeries, btTrades>>

BacktestNext == BuildDataset \/ ScoreFold \/ Simulate \/ Persist \/ StepRaises
=============================================================================
