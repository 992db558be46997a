------------------------------ MODULE Datasets ------------------------------
(***************************************************************************)
(* modeling.dataset and modeling.targets: the labelled rows of one model.  *)
(*                                                                         *)
(* Days are integers; day d begins at local midnight, which is the time    *)
(* stamp of its daily bar.  The bar of day d is known from midnight of     *)
(* d + 1 on.  bars[i] is the set of days instrument i has a bar for.  A    *)
(* row is a decision taken on the close of day d for the close of the      *)
(* target day t.                                                           *)
(***************************************************************************)
EXTENDS WalkForward, FiniteSetsExt

CONSTANTS
    WeekLength,    \* days of a week
    MinRows,       \* usable rows build_dataset asks for
    Today          \* the day timezone.now() is in

ASSUME DatasetConstants ==
    WeekLength \in Nat \ {0} /\ MinRows \in Nat /\ Today \in Nat

Weekday(d) == d % WeekLength
WeekOf(d) == d \div WeekLength

(* targets.validate_spec.                                                  *)
ValidSpec(spec) ==
    IF spec.type = "weekday_anchored"
    THEN spec.entry \in Nat /\ spec.entry < spec.exit /\ spec.exit < WeekLength
    ELSE spec.horizon \in Nat \ {0}

(* targets.build_target: the label of a decision is the close horizon bars *)
(* later, or the exit weekday of the same week; a multistep label is       *)
(* missing as soon as its last step is.  Empty when there is no such bar.  *)
TargetDays(spec, barDays, d) ==
    IF spec.type = "weekday_anchored"
    THEN {t \in barDays : WeekOf(t) = WeekOf(d) /\ Weekday(t) = spec.exit}
    ELSE {t \in barDays : Cardinality({x \in barDays : d < x /\ x <= t}) = spec.horizon}

DecisionFilter(spec, days) ==
    IF spec.type = "weekday_anchored" THEN {d \in days : Weekday(d) = spec.entry} ELSE days

(* derive_target_date: calendar arithmetic, bar or no bar.                 *)
DeriveTargetDate(spec, day) == day + spec.exit - Weekday(day)

AvailableAt(t) == t + 1      \* _avail_series: midnight after the target day
BarTime(d) == d

(* build_dataset for training over decision days first..last; known is the *)
(* moment labels must be observable by, midnight after the end date, or    *)
(* now when there is no end date.                                          *)
Rows(spec, bars, first, last, known) ==
    {r \in [inst : DOMAIN bars, d : first..last, t : first..known] :
        LET history == {b \in bars[r.inst] : BarTime(b) <= known}
        IN  /\ r.d \in DecisionFilter(spec, history)
            /\ r.t \in TargetDays(spec, history, r.d)
            /\ AvailableAt(r.t) <= known}

(* The whole build for training: a start or an end of 0 means none.        *)
FirstDecisionDay(start) == IF start = 0 THEN 1 ELSE start
KnownBy(end) == IF end = 0 THEN Today ELSE end + 1
Dataset(spec, bars, start, end) ==
    IF end = 0 THEN Rows(spec, bars, FirstDecisionDay(start), Today, Today)
    ELSE Rows(spec, bars, FirstDecisionDay(start), end, end + 1)

(* _load_history refuses an instrument without history, and one with a bar *)
(* that is flawed: an anomaly, the second of its day, or one whose prices  *)
(* or volume are out of range.                                             *)
HistoryLoads(bars, flawed, end) ==
    \A i \in DOMAIN bars :
        LET history == {b \in bars[i] : BarTime(b) <= KnownBy(end)}
        IN  history # {} /\ \A b \in history : <<i, b>> \notin flawed

EnoughRows(rows) == Cardinality(rows) >= MinRows

DecisionDays(rows) == {r.d : r \in rows}

(* sorted(set(decision_dates)).                                            *)
SortedDays(days) ==
    [k \in 1..Cardinality(days) |->
        CHOOSE d \in days : Cardinality({x \in days : x <= d}) = k]

(* The folds of a dataset march through its decision days.                 *)
TradingDays(rows) == SortedDays(DecisionDays(rows))
DatasetFolds(rows, c) == GenerateFolds(Cardinality(DecisionDays(rows)), c)

(* The masks of a fold, in backtesting.engine and in modelsearch.search    *)
(* alike: train_mask keeps what was decided inside the train block and     *)
(* whose label was observable by the first test decision.                  *)
Between(rows, first, last) ==
    LET days == TradingDays(rows)
    IN  {r \in rows : days[first] <= r.d /\ r.d <= days[last]}
TestRows(rows, fold) == Between(rows, fold.test_start, fold.test_end)
FirstDecision(rows, fold) == Min(DecisionDays(TestRows(rows, fold)))
(* Mutant: rows are purged by their decision day only.                     *)
TrainRowsUnpurged(rows, fold) == Between(rows, fold.train_start, fold.train_end)

TrainRows(rows, fold) ==
    LET start == BarTime(FirstDecision(rows, fold))
    IN  {r \in Between(rows, fold.train_start, fold.train_end) : AvailableAt(r.t) <= start}
=============================================================================
