----------------------------- MODULE TrackRecord -----------------------------
(***************************************************************************)
(* Whether a weekly call may be sent, and how much to put on it: the       *)
(* leaderboard scores what became of a model's stored forecasts, the gate  *)
(* compares the score with the watch item's bar, and sizing turns the hit  *)
(* rate into a stake.  Days pass, forecasts are made and filled, closes    *)
(* are corrected and the model is edited between the steps of the job.     *)
(*                                                                         *)
(* One model, one watch item, one instrument with a bar on every day.      *)
(* Prices, returns, labels and errors count in units of 1/Unit; a rate is  *)
(* the pair of its numerator and denominator; the bars, moves and stakes   *)
(* of a watch item are percentages.                                        *)
(***************************************************************************)
EXTENDS Integers, FiniteSets, FiniteSetsExt, Functions

CONSTANTS
    TrackCloses,       \* prices a day can close at
    Unit,              \* every number is a multiple of 1/Unit
    Values,            \* what a model may forecast, by target type
    ScoreWindow,       \* DEFAULT_WINDOW
    NoValue,           \* None
    HoldoutScores,     \* the holdout metrics a training may have left
    WatchItems,        \* rows of the watchlist
    TrackBudgets

VARIABLES
    trDay,
    trClose,           \* close by day
    trModel,           \* the TradingModel; fitted is the target its artifact is for
    trPreds,           \* ModelPrediction rows by target_date
    trJob,             \* generate_weekly_signals
    trSignal,          \* the WeeklySignal it leaves
    trTouched,         \* days whose close was corrected, so far
    trUsed, trBudget

trVars == <<trDay, trClose, trModel, trPreds, trJob, trSignal, trTouched,
            trUsed, trBudget>>

Types == DOMAIN Values
NoScores == [source |-> NoValue]

(* Prices have a Unit in which every return counts; a direction is 0 or 1; *)
(* a training may have left no holdout metrics, or none with a hit rate.   *)
ASSUME TrackConstants ==
    /\ TrackCloses \subseteq Nat \ {0} /\ Unit \in Nat \ {0}
    /\ \A base \in TrackCloses : \A close \in TrackCloses : (Unit * (close - base)) % base = 0
    /\ Types \subseteq {"horizon_close", "horizon_return", "direction"}
    /\ \A type \in Types : Values[type] \subseteq Int
    /\ "direction" \in Types => Values["direction"] \subseteq {0, Unit}
    /\ \A h \in HoldoutScores :
          h = NoScores \/ (h.source = "holdout" /\ (h.da = NoValue \/ h.da \in Int \X (Nat \ {0})))
    /\ \A item \in WatchItems :
          /\ item.min_da \in Int /\ item.min_skill \in Int
          /\ item.capital \in Int /\ item.max_position \in Int /\ item.kelly \in Int
NoJob == [pc |-> "none"]
NoSignal == [status |-> "none"]

(* WatchItem.clean, every supported target type.                           *)
ItemClean(item) ==
    /\ item.min_da \in 0..100 /\ item.min_move >= 0 /\ item.capital >= 0
    /\ item.max_position > 0 /\ item.max_position <= 100 /\ item.kelly \in 0..100

TrackInit ==
    /\ trDay = 2
    /\ trClose \in [1..2 -> TrackCloses]
    /\ \E type \in Types : \E fitted \in {type, NoValue} :
          trModel = [type |-> type, is_active |-> fitted # NoValue, fitted |-> fitted]
    /\ trPreds = <<>> /\ trJob = NoJob /\ trSignal = NoSignal /\ trTouched = {}
    /\ trBudget \in TrackBudgets /\ trUsed = [kind \in DOMAIN trBudget |-> 0]

Charge(kind) ==
    /\ trUsed[kind] < trBudget[kind]
    /\ trUsed' = [trUsed EXCEPT ![kind] = @ + 1] /\ UNCHANGED trBudget
NoCharge == UNCHANGED <<trUsed, trBudget>>

-----------------------------------------------------------------------------
(* The market, the operator, and the daily jobs. *)

NextTrackDay ==
    /\ Charge("days")
    /\ trDay' = trDay + 1
    /\ \E c \in TrackCloses :
          trClose' = [d \in 1..(trDay + 1) |-> IF d <= trDay THEN trClose[d] ELSE c]
    /\ UNCHANGED <<trModel, trPreds, trJob, trSignal, trTouched>>

(* A sync stores another close for a day it has.                           *)
CorrectClose ==
    /\ Charge("corrections")
    /\ \E d \in 1..trDay : \E c \in TrackCloses \ {trClose[d]} :
          trClose' = [trClose EXCEPT ![d] = c] /\ trTouched' = trTouched \cup {d}
    /\ UNCHANGED <<trDay, trModel, trPreds, trJob, trSignal>>

(* The model form changes the target, the admin switches the model on and  *)
(* off; the artifact stays.                                                *)
EditModel ==
    /\ Charge("edits")
    /\ trModel' \in {[trModel EXCEPT !.type = type] : type \in Types} \cup
                     {[trModel EXCEPT !.is_active = ~@]}
    /\ UNCHANGED <<trDay, trClose, trPreds, trJob, trSignal, trTouched>>

Retrain ==
    /\ Charge("trainings")
    /\ trModel' = [trModel EXCEPT !.fitted = trModel.type]
    /\ UNCHANGED <<trDay, trClose, trPreds, trJob, trSignal, trTouched>>

(* modeling.prediction.predict: the artifact answers in the units of the   *)
(* target it is for.  A forecast for the same target date replaces the row *)
(* and unsets what it had been graded with.                                *)
WithForecast(model, asof, value) ==
    [t \in DOMAIN trPreds \cup {asof + 1} |->
        IF t # asof + 1 THEN trPreds[t]
        ELSE [as_of |-> asof, value |-> value, actual |-> NoValue, error |-> NoValue,
              made |-> model.fitted, filled |-> NoValue]]

MakeForecast ==
    /\ trModel.fitted # NoValue /\ Charge("forecasts")
    /\ \E asof \in {trDay - 1, trDay} : \E value \in Values[trModel.fitted] :
          trPreds' = WithForecast(trModel, asof, value)
    /\ UNCHANGED <<trDay, trClose, trModel, trJob, trSignal, trTouched>>

(* _actual_for and the error, by the target the model has now; round is to *)
(* the nearest, halves to the even.                                        *)
Round(v) ==
    LET q == v \div Unit
        r == 2 * (v % Unit)
    IN  Unit * (IF r < Unit \/ (r = Unit /\ q % 2 = 0) THEN q ELSE q + 1)
Distance(a, b) == IF a >= b THEN a - b ELSE b - a
ActualOf(type, base, close) ==
    CASE type = "horizon_close"  -> close
      [] type = "horizon_return" -> (Unit * (close - base)) \div base
      [] type = "direction"      -> IF close > base THEN Unit ELSE 0
ErrorOf(type, value, actual) ==
    IF type # "direction" THEN Distance(value, actual)
    ELSE IF Round(value) = actual THEN 0 ELSE Unit

(* backfill_actuals: only targets before today.  (WeeklySignals has the    *)
(* loop row by row.)                                                       *)
BackfillAll ==
    LET due == {t \in DOMAIN trPreds : trPreds[t].actual = NoValue /\ t < trDay}
        WithActual(p, actual) ==
            [p EXCEPT !.actual = actual, !.filled = trModel.type,
                      !.error = ErrorOf(trModel.type, p.value, actual)]
    IN  /\ due # {} /\ NoCharge
        /\ trPreds' = [t \in DOMAIN trPreds |->
               IF t \notin due THEN trPreds[t]
               ELSE WithActual(trPreds[t],
                        ActualOf(trModel.type, trClose[trPreds[t].as_of], trClose[t]))]
        /\ UNCHANGED <<trDay, trClose, trModel, trJob, trSignal, trTouched>>

-----------------------------------------------------------------------------
(* The leaderboard (build_leaderboard and _score), for this model. *)

SignOf(x) == IF x > 0 THEN 1 ELSE IF x < 0 THEN -1 ELSE 0
Total(F) == MapThenSumSet(LAMBDA x : F[x], DOMAIN F)

(* Mutant: the last close before as_of.                                    *)
BaseBefore(asof) == trClose[Max({1} \cup {d \in DOMAIN trClose : d < asof})]

(* _base_closes: the last close on or before as_of.                        *)
BaseClose(asof) == trClose[Max({d \in DOMAIN trClose : d <= asof})]

(* Graded forecasts whose target lies in the window and before today.      *)
Counted ==
    {t \in DOMAIN trPreds : trPreds[t].actual # NoValue /\ t >= trDay - ScoreWindow /\ t < trDay}

(* A classifier is measured against always calling the majority.           *)
DirectionScore ==
    LET n == Unit * Cardinality(Counted)
        right == n - Total([t \in Counted |-> trPreds[t].error])
        up == Total([t \in Counted |-> trPreds[t].actual])
        majority == Max({up, n - up})
    IN  [ source |-> "leaderboard", da |-> <<right, n>>,
          skill |-> IF majority < n THEN <<right - majority, n - majority>> ELSE NoValue ]

(* A return against no change, a price against the close before the move.  *)
MoveScore ==
    LET Base(t) == IF trModel.type = "horizon_return" THEN 0 ELSE BaseClose(trPreds[t].as_of)
        right == {t \in Counted : SignOf(trPreds[t].value - Base(t)) = SignOf(trPreds[t].actual - Base(t))}
        naive == Total([t \in Counted |-> Distance(trPreds[t].actual, Base(t))])
        wrong == Total([t \in Counted |-> trPreds[t].error])
    IN  [ source |-> "leaderboard", da |-> <<Cardinality(right), Cardinality(Counted)>>,
          skill |-> IF naive # 0 THEN <<naive - wrong, naive>> ELSE NoValue ]

(* The row of an active model; one without a graded forecast is unscored.  *)
BoardRow ==
    IF ~trModel.is_active \/ Counted = {} THEN NoScores
    ELSE IF trModel.type = "direction" THEN DirectionScore ELSE MoveScore

-----------------------------------------------------------------------------
(* generate_weekly_signals for the one item. *)

(* What the board was built from, kept for the properties.                 *)
Seen == [ preds |-> [t \in Counted |-> trPreds[t]], closes |-> trClose, type |-> trModel.type,
          is_active |-> trModel.is_active, touched |-> trTouched ]

(* The board is built once, before the watchlist is read; a build that     *)
(* raises leaves it to each gate.                                          *)
BuildBoard ==
    /\ trJob.pc = "none" /\ Charge("signals")
    /\ \E row \in {BoardRow} \cup (IF trBudget.outages > 0 THEN {NoValue} ELSE {}) :
          trJob' = [pc |-> "load", day |-> trDay, board |-> row, seen |-> Seen]
    /\ UNCHANGED <<trDay, trClose, trModel, trPreds, trSignal, trTouched>>

LoadItem ==
    /\ trJob.pc = "load" /\ NoCharge
    /\ trJob' = [ pc |-> "decide", day |-> trJob.day, board |-> trJob.board,
                  seen |-> trJob.seen, model |-> trModel ]
    /\ UNCHANGED <<trDay, trClose, trModel, trPreds, trSignal, trTouched>>

(* _live_stats and _holdout_stats: the live record, if there is one.  A    *)
(* build for this gate alone may raise again.                              *)
LiveBoards == IF trJob.board # NoValue THEN {[row |-> trJob.board, seen |-> trJob.seen]}
              ELSE {[row |-> BoardRow, seen |-> Seen], [row |-> NoScores, seen |-> <<>>]}
Stats(row, holdout) == IF row # NoScores THEN row ELSE holdout

(* evaluate_gate.                                                          *)
Passes(item, model, stats) ==
    /\ model.is_active /\ model.fitted # NoValue /\ stats # NoScores
    /\ stats.da # NoValue /\ 100 * stats.da[1] >= item.min_da * stats.da[2]
    /\ item.min_skill > 0 =>
          stats.skill # NoValue /\ 100 * stats.skill[1] >= item.min_skill * stats.skill[2]

(* _interpret against the close of the session before.                     *)
MoveOf(item, type, value, ref) ==
    LET move == IF type = "horizon_return" THEN <<value, Unit>> ELSE <<value - ref, ref>>
    IN  IF type = "direction" THEN (IF 2 * value >= Unit THEN "up" ELSE "down")
        ELSE IF 100 * move[1] >= item.min_move * move[2] THEN "up"
        ELSE IF 100 * move[1] <= -item.min_move * move[2] THEN "down" ELSE "flat"

(* suggest_size: a part of the edge, at most the cap; kelly 0 is the cap.  *)
Stake(item, da) ==
    LET edge == Max({0, 2 * da[1] - da[2]})
        cap  == item.max_position * da[2]
    IN  <<IF item.kelly = 0 THEN cap ELSE Min({item.kelly * edge, cap}), 100 * da[2]>>
Size(item, da, direction, ref) ==
    IF item.capital <= 0 \/ direction = "flat" THEN [stake |-> NoValue, shares |-> 0]
    ELSE LET stake == Stake(item, da)
         IN  [stake |-> stake, shares |-> (item.capital * Unit * stake[1]) \div (stake[2] * ref)]

(* The signal of the day: its status, and a size if it may be sent.        *)
SignalFor(item, stats, seen, direction, ref) ==
    LET passed == Passes(item, trJob.model, stats)
    IN  [ status |-> IF passed THEN "pending" ELSE "suppressed", item |-> item, ref |-> ref,
          stats |-> stats, seen |-> seen, direction |-> direction,
          size |-> IF passed THEN Size(item, stats.da, direction, ref)
                   ELSE [stake |-> NoValue, shares |-> 0] ]

(* The watch item and the metrics the last training left are those that    *)
(* were loaded with the model.                                             *)
Decide ==
    /\ trJob.pc = "decide" /\ NoCharge
    /\ IF trJob.model.fitted = NoValue
       THEN trSignal' = [status |-> "error"] /\ UNCHANGED trPreds
       ELSE \E item \in {i \in WatchItems : ItemClean(i)}, holdout \in HoldoutScores,
               live \in LiveBoards, value \in Values[trJob.model.fitted] :
              LET ref == trClose[trJob.day - 1]
                  call == MoveOf(item, trJob.model.type, value, ref)
              IN  /\ trPreds' = WithForecast(trJob.model, trJob.day, value)
                  /\ trSignal' = SignalFor(item, Stats(live.row, holdout), live.seen, call, ref)
    /\ trJob' = NoJob
    /\ UNCHANGED <<trDay, trClose, trModel, trTouched>>

TrackNext ==
    \/ NextTrackDay \/ CorrectClose \/ EditModel \/ Retrain \/ MakeForecast \/ BackfillAll
    \/ BuildBoard \/ LoadItem \/ Decide
=============================================================================
