---------------------------- MODULE BacktestProofs ----------------------------
(***************************************************************************)
(* Theorems about the backtests of Evaluations.  Of models, for any        *)
(* histories, targets, spans, steps and gaps: no fold learns from the      *)
(* future, no backtest with disjoint test blocks is refused when it is     *)
(* stored, and the trades it logs are the positions its equity curve held. *)
(* Of strategies, for bars and parameters of any size: what a replay does  *)
(* at a bar is what a live cycle would have done when that bar was the     *)
(* last, and the equity it reports is its trades' doing.  Of forecasts:    *)
(* the embargo and the predictors' guard agree, and the live panel is      *)
(* ahead.                                                                  *)
(*                                                                         *)
(* BacktestInv is the inductive invariant.  It says where the folds and    *)
(* the predictions come from; the two properties then follow from facts    *)
(* about labels (a label determines its decision) and about folds (the     *)
(* blocks march on, and the ranks of decision days with them).             *)
(*                                                                         *)
(* Each strategy looks at a window that ends at the bar, so cutting the    *)
(* history there changes nothing in it; what is left is the warm-up, where *)
(* the number of bars counts too.                                          *)
(***************************************************************************)
EXTENDS Evaluations, OrderLemmas, SequenceTheorems

-----------------------------------------------------------------------------
(* Rows and their decision days.                                           *)

\* What a bar's history is, and what a row is, for labels known by a moment.
BarHistory(b, i, known) == {x \in b.bars[i] : BarTime(x) <= known}
LastLabel(b) == IF b.end = 0 THEN Today ELSE b.end + 1
LastDecision(b) == IF b.end = 0 THEN Today ELSE b.end

\* Both branches of Dataset are Rows from a first numbered day on.
LEMMA DatasetIsRows ==
  ASSUME NEW b \in BacktestInputs
  PROVE  /\ Dataset(b.spec, b.bars, b.start, b.end) =
               Rows(b.spec, b.bars, FirstDecisionDay(b.start), LastDecision(b), LastLabel(b))
         /\ LastDecision(b) \in Nat /\ LastLabel(b) \in Nat
         /\ FirstDecisionDay(b.start) \in Nat /\ FirstDecisionDay(b.start) >= 1
<1>1. b.start \in Nat /\ b.end \in Nat /\ Today \in Nat
  BY BacktestConstants, DatasetConstants
<1> QED BY <1>1 DEF Dataset, LastDecision, LastLabel, FirstDecisionDay

\* A row of a run's dataset is a decision on a numbered day, on a bar, for a
\* label that the target gives it.
LEMMA RowTypes ==
  ASSUME NEW b \in BacktestInputs, NEW r \in Dataset(b.spec, b.bars, b.start, b.end)
  PROVE  /\ r.d \in 1..LastDecision(b) /\ r.d \in Nat /\ r.t \in Int /\ r.inst \in DOMAIN b.bars
         /\ r.d \in DecisionFilter(b.spec, BarHistory(b, r.inst, LastLabel(b)))
         /\ r.t \in TargetDays(b.spec, BarHistory(b, r.inst, LastLabel(b)), r.d)
<1> DEFINE first == FirstDecisionDay(b.start)
<1>1. r \in Rows(b.spec, b.bars, first, LastDecision(b), LastLabel(b))
  BY DatasetIsRows
<1>2. LastDecision(b) \in Nat /\ LastLabel(b) \in Nat /\ first \in Nat /\ first >= 1
  BY DatasetIsRows
<1> HIDE DEF first
<1>3. r \in [inst : DOMAIN b.bars, d : first..LastDecision(b), t : first..LastLabel(b)]
  BY <1>1 DEF Rows
<1>4. /\ r.d \in DecisionFilter(b.spec, BarHistory(b, r.inst, LastLabel(b)))
      /\ r.t \in TargetDays(b.spec, BarHistory(b, r.inst, LastLabel(b)), r.d)
  BY <1>1 DEF Rows, BarHistory
<1> QED BY <1>2, <1>3, <1>4

\* The decision days of a dataset are finitely many numbered days.
LEMMA DecisionDaysFinite ==
  ASSUME NEW b \in BacktestInputs
  PROVE  LET days == DecisionDays(Dataset(b.spec, b.bars, b.start, b.end))
         IN  days \in SUBSET Nat /\ IsFiniteSet(days)
<1> DEFINE days == DecisionDays(Dataset(b.spec, b.bars, b.start, b.end))
<1>1. LastDecision(b) \in Nat
  BY DatasetIsRows
<1>2. days \in SUBSET (1..LastDecision(b))
  BY RowTypes DEF DecisionDays
<1>3. IsFiniteSet(1..LastDecision(b))
  BY <1>1, FS_Interval
<1>4. IsFiniteSet(days)
  BY <1>2, <1>3, FS_Subset
<1>5. days \in SUBSET Nat
  BY <1>1, <1>2
<1> QED BY <1>4, <1>5

\* sorted(set(...)): the k-th of the sorted days is one of them, and the days
\* grow with k.
LEMMA SortedDaysGrow ==
  ASSUME NEW D \in SUBSET Nat, IsFiniteSet(D)
  PROVE  /\ \A k \in 1..Cardinality(D) : SortedDays(D)[k] \in D
         /\ \A j, k \in 1..Cardinality(D) : j < k => SortedDays(D)[j] < SortedDays(D)[k]
<1>1. \A k \in 1..Cardinality(D) :
         SortedDays(D)[k] \in D /\ Cardinality(Below(D, SortedDays(D)[k])) = k
  <2> TAKE k \in 1..Cardinality(D)
  <2>1. \E d \in D : Cardinality(Below(D, d)) = k
    BY EveryRank
  <2>2. SortedDays(D)[k] = CHOOSE d \in D : Cardinality(Below(D, d)) = k
    BY DEF SortedDays, Below
  <2> QED BY <2>1, <2>2
<1>2. ASSUME NEW j \in 1..Cardinality(D), NEW k \in 1..Cardinality(D), j < k
      PROVE  SortedDays(D)[j] < SortedDays(D)[k]
  <2> DEFINE a == SortedDays(D)[j]
             c == SortedDays(D)[k]
  <2>1. a \in D /\ c \in D /\ Cardinality(Below(D, a)) = j /\ Cardinality(Below(D, c)) = k
    BY <1>1
  <2>2. a \in Nat /\ c \in Nat
    BY <2>1
  <2>3. Cardinality(D) \in Nat
    BY FS_CardinalityType
  <2>4. j \in Int /\ k \in Int
    BY <2>3
  <2>5. ~(c < a)
    <3> SUFFICES ASSUME c < a PROVE FALSE
      OBVIOUS
    <3> HIDE DEF a, c
    <3>1. Cardinality(Below(D, c)) < Cardinality(Below(D, a))
      BY <2>1, RankGrows
    <3> QED BY <1>2, <2>1, <2>4, <3>1
  <2>6. a # c
    BY <1>2, <2>1, <2>4
  <2> QED BY <2>2, <2>5, <2>6
<1> QED BY <1>1, <1>2

-----------------------------------------------------------------------------
(* Labels.                                                                 *)

\* horizon: of two decisions on bars, the earlier one has more bars up to the
\* same label.
LEMMA HorizonShrinks ==
  ASSUME NEW H \in SUBSET Int, NEW d \in H, NEW e \in H, NEW t \in Int, d < e, e < t
  PROVE  Cardinality({x \in H : d < x /\ x <= t}) # Cardinality({x \in H : e < x /\ x <= t})
<1> DEFINE A == {x \in H : d < x /\ x <= t}
           B == {x \in H : e < x /\ x <= t}
<1>0. \A x \in H : x \in Int
  OBVIOUS
<1>1. A \in SUBSET (d..t) /\ IsFiniteSet(d..t)
  <2>1. d \in Int /\ \A x \in A : x \in Int /\ d <= x /\ x <= t
    BY <1>0
  <2>2. \A x \in A : x \in d..t
    <3> HIDE DEF A
    <3> QED BY <2>1
  <2> QED BY <2>1, <2>2, FS_Interval
<1>2. IsFiniteSet(A)
  BY <1>1, FS_Subset
<1>3. B \in SUBSET A
  <2>1. \A x \in H : e < x => d < x
    BY <1>0
  <2> QED BY <2>1
<1>4. e \in A /\ e \notin B
  BY <1>0
<1> HIDE DEF A, B
<1>5. Cardinality(A) = Cardinality(B) => A = B
  BY <1>2, <1>3, FS_Subset
<1> QED BY <1>4, <1>5 DEF A, B

\* A label after so many bars lies after its decision.
LEMMA HorizonIsAhead ==
  ASSUME NEW H \in SUBSET Int, NEW d \in H, NEW t \in Int,
         Cardinality({x \in H : d < x /\ x <= t}) \in Nat \ {0}
  PROVE  d < t
<1>1. {x \in H : d < x /\ x <= t} # {}
  BY FS_EmptySet
<1>2. PICK x \in H : d < x /\ x <= t
  BY <1>1
<1>3. x \in Int /\ d \in Int
  OBVIOUS
<1> QED BY <1>2, <1>3

\* A day is told by its week and its weekday.
LEMMA SameWeekSameWeekday ==
  ASSUME NEW d \in Int, NEW e \in Int, NEW n \in Nat \ {0}, d % n = e % n, d \div n = e \div n
  PROVE  d = e
  OBVIOUS

\* Two decisions on one instrument with the same label are the same decision.
LEMMA LabelDeterminesDecision ==
  ASSUME NEW b \in BacktestInputs, ValidSpec(b.spec),
         NEW r \in Dataset(b.spec, b.bars, b.start, b.end), NEW s \in Dataset(b.spec, b.bars, b.start, b.end),
         r.inst = s.inst, r.t = s.t
  PROVE  r.d = s.d
<1> DEFINE H == BarHistory(b, r.inst, LastLabel(b))
<1>1. r.d \in Nat /\ s.d \in Nat /\ r.t \in Int /\ r.inst \in DOMAIN b.bars
  BY RowTypes
<1>2. /\ r.d \in DecisionFilter(b.spec, H) /\ r.t \in TargetDays(b.spec, H, r.d)
      /\ s.d \in DecisionFilter(b.spec, H) /\ r.t \in TargetDays(b.spec, H, s.d)
  BY RowTypes
<1>3. H \in SUBSET Int
  BY <1>1, BacktestConstants DEF BarHistory
<1> HIDE DEF H
<1>4. CASE b.spec.type = "weekday_anchored"
  <2>1. /\ r.d % WeekLength = s.d % WeekLength
        /\ r.d \div WeekLength = s.d \div WeekLength
    BY <1>2, <1>4 DEF DecisionFilter, TargetDays, Weekday, WeekOf
  <2> QED BY <1>1, <2>1, DatasetConstants, SameWeekSameWeekday
<1>5. CASE b.spec.type # "weekday_anchored"
  <2>1. r.d \in H /\ s.d \in H
    BY <1>2, <1>5 DEF DecisionFilter
  <2>2. /\ Cardinality({x \in H : r.d < x /\ x <= r.t}) = b.spec.horizon
        /\ Cardinality({x \in H : s.d < x /\ x <= r.t}) = b.spec.horizon
    BY <1>2, <1>5 DEF TargetDays
  <2>3. b.spec.horizon \in Nat \ {0}
    BY <1>5 DEF ValidSpec
  <2>4. r.d < r.t /\ s.d < r.t
    BY <1>1, <1>3, <2>1, <2>2, <2>3, HorizonIsAhead
  <2>5. ~(r.d < s.d)
    BY <1>1, <1>3, <2>1, <2>2, <2>4, HorizonShrinks
  <2>6. ~(s.d < r.d)
    BY <1>1, <1>3, <2>1, <2>2, <2>4, HorizonShrinks
  <2> QED BY <1>1, <2>5, <2>6
<1> QED BY <1>4, <1>5

-----------------------------------------------------------------------------
(* Folds.                                                                  *)

\* What a fold of the dataset is: its blocks lie within the decision days.
LEMMA FoldBounds ==
  ASSUME NEW b \in BacktestInputs, BacktestClean(b), NEW n \in Nat,
         NEW k \in DOMAIN GenerateFolds(n, b)
  PROVE  LET f == GenerateFolds(n, b)[k]
         IN  /\ k \in 1..n /\ f = Fold(b, k)
             /\ f.test_start \in 1..n /\ f.test_end \in 1..n
             /\ f.test_start = b.train_span + (k - 1) * b.step + b.gap + 1
             /\ f.test_end = b.train_span + (k - 1) * b.step + b.gap + b.test_span
<1>1. k \in 1..n /\ Fold(b, k).test_end <= n /\ GenerateFolds(n, b)[k] = Fold(b, k)
  BY DEF GenerateFolds, FoldIndices
<1>2. /\ b.train_span \in Nat /\ b.test_span \in Nat /\ b.step \in Nat /\ b.gap \in Nat
      /\ b.test_span >= 1
  BY BacktestConstants DEF BacktestClean
<1>3. (k - 1) * b.step \in Nat
  <2>1. k - 1 \in Nat
    BY <1>1
  <2> QED BY <1>2, <2>1
<1>4. /\ Fold(b, k).test_start = b.train_span + (k - 1) * b.step + b.gap + 1
      /\ Fold(b, k).test_end = b.train_span + (k - 1) * b.step + b.gap + b.test_span
  BY DEF Fold
<1> HIDE DEF Fold
<1> QED BY <1>1, <1>2, <1>3, <1>4

\* A product grows by at least one step.
LEMMA StepsApart ==
  ASSUME NEW j \in Nat, NEW k \in Nat, j < k, NEW s \in Nat
  PROVE  j * s + s <= k * s
<1>1. k * s = j * s + (k - j) * s /\ j * s \in Nat /\ (k - j) * s \in Nat
  OBVIOUS
<1>2. (k - j) * s = s + (k - j - 1) * s /\ (k - j - 1) * s \in Nat
  OBVIOUS
<1> QED BY <1>1, <1>2

\* With a step of at least the test span, a later test block begins after an
\* earlier one has ended.
LEMMA BlocksMarchOn ==
  ASSUME NEW b \in BacktestInputs, BacktestClean(b), b.step >= b.test_span, NEW n \in Nat,
         NEW j \in DOMAIN GenerateFolds(n, b), NEW k \in DOMAIN GenerateFolds(n, b), j < k
  PROVE  GenerateFolds(n, b)[j].test_end < GenerateFolds(n, b)[k].test_start
<1>1. /\ b.train_span \in Nat /\ b.test_span \in Nat /\ b.step \in Nat /\ b.gap \in Nat
      /\ b.test_span >= 1
  BY BacktestConstants DEF BacktestClean
<1>2. j - 1 \in Nat /\ k - 1 \in Nat /\ j - 1 < k - 1
  BY FoldBounds
<1>3. (j - 1) * b.step + b.step <= (k - 1) * b.step
  BY <1>1, <1>2, StepsApart
<1>4. /\ GenerateFolds(n, b)[j].test_end = b.train_span + (j - 1) * b.step + b.gap + b.test_span
      /\ GenerateFolds(n, b)[k].test_start = b.train_span + (k - 1) * b.step + b.gap + 1
  BY FoldBounds
<1>5. (j - 1) * b.step \in Nat /\ (k - 1) * b.step \in Nat
  BY <1>1, <1>2
<1> QED BY <1>1, <1>3, <1>4, <1>5

\* So no decision is in two test blocks.
LEMMA BlocksAreDisjoint ==
  ASSUME NEW b \in BacktestInputs, BacktestClean(b), b.step >= b.test_span,
         NEW rows, rows = Dataset(b.spec, b.bars, b.start, b.end),
         NEW j \in DOMAIN DatasetFolds(rows, b), NEW k \in DOMAIN DatasetFolds(rows, b),
         NEW r \in TestRows(rows, DatasetFolds(rows, b)[j]),
         NEW s \in TestRows(rows, DatasetFolds(rows, b)[k]), r.d = s.d
  PROVE  ~(j < k)
<1> SUFFICES ASSUME j < k PROVE FALSE
  OBVIOUS
<1> DEFINE D == DecisionDays(rows)
           n == Cardinality(D)
<1>1. D \in SUBSET Nat /\ IsFiniteSet(D) /\ n \in Nat
  BY DecisionDaysFinite, FS_CardinalityType
<1> HIDE DEF D
<1>2. /\ DatasetFolds(rows, b)[j] = GenerateFolds(n, b)[j]
      /\ DatasetFolds(rows, b)[k] = GenerateFolds(n, b)[k]
      /\ j \in DOMAIN GenerateFolds(n, b) /\ k \in DOMAIN GenerateFolds(n, b)
  BY DEF DatasetFolds, D
<1> DEFINE last  == GenerateFolds(n, b)[j].test_end
           first == GenerateFolds(n, b)[k].test_start
<1>3. last \in 1..n /\ first \in 1..n /\ last < first
  BY <1>1, <1>2, FoldBounds, BlocksMarchOn
<1>4. r.d <= SortedDays(D)[last] /\ SortedDays(D)[first] <= s.d /\ r \in rows
  BY <1>2 DEF TestRows, Between, TradingDays, D
<1> HIDE DEF first, last
<1>5. SortedDays(D)[last] < SortedDays(D)[first]
  BY <1>1, <1>3, SortedDaysGrow
<1>6. SortedDays(D)[last] \in Nat /\ SortedDays(D)[first] \in Nat
  BY <1>1, <1>3, SortedDaysGrow
<1>7. r.d \in Nat
  BY <1>4, RowTypes
<1> QED BY <1>4, <1>5, <1>6, <1>7

\* What a fold is fitted on lies before each decision it is scored on.
LEMMA TrainBeforeTest ==
  ASSUME NEW b \in BacktestInputs, NEW rows, rows = Dataset(b.spec, b.bars, b.start, b.end), NEW fold,
         NEW r \in TrainRows(rows, fold), NEW s \in TestRows(rows, fold)
  PROVE  r.t < s.d
<1> DEFINE D == DecisionDays(TestRows(rows, fold))
<1>1. D \in SUBSET Nat /\ s.d \in D /\ s.d \in Nat
  BY RowTypes DEF DecisionDays, TestRows, Between
<1>2. Min(D) <= s.d /\ Min(D) \in Nat
  <2> HIDE DEF D
  <2> QED BY <1>1, MinOfNaturals
<1>3. r.t + 1 <= Min(D) /\ r \in rows
  BY DEF TrainRows, FirstDecision, BarTime, AvailableAt, Between
<1>4. r.t \in Int
  BY <1>3, RowTypes
<1> QED BY <1>1, <1>2, <1>3, <1>4

-----------------------------------------------------------------------------
(* The inductive invariant.                                                *)

\* A run works on one of the inputs, unless there is no run.
Configured ==
  \/ bt = <<>> /\ btPc = "done" /\ btFolds = {} /\ btPreds = {} /\ btRun.error = "none"
  \/ bt \in BacktestInputs /\ BacktestClean(bt)

\* Nothing is scored before the dataset is built, and the dataset stays.
RowsAreTheDataset ==
  /\ btPc = "build" => btFolds = {} /\ btPreds = {}
  /\ btPc \in {"score", "persist"} => btRows = BacktestRows
  /\ btPreds # {} => btRows = BacktestRows

\* What is kept is of a fold that the loop has been at.
FoldsBehind ==
  /\ btFold \in Nat
  /\ \A f \in btFolds : f.index \in Nat /\ f.index < btFold
  /\ \A p \in btPreds : p.fold \in Nat /\ p.fold < btFold

\* Each prediction is the record of a row in the test block of its fold.
PredictionsAreRecords ==
  \A p \in btPreds :
     /\ p.fold \in DOMAIN DatasetFolds(btRows, bt)
     /\ p \in Recorded(TestRows(btRows, DatasetFolds(btRows, bt)[p.fold]), p.fold)

\* Nothing is refused by the unique constraint unless a target is predicted twice.
RefusedForAReason ==
  /\ btPc # "done" => btRun.error = "none"
  /\ btRun.error = "IntegrityError" => TargetTwice

BacktestInv ==
  /\ Configured
  /\ RowsAreTheDataset
  /\ FoldsBehind
  /\ PredictionsAreRecords
  /\ RefusedForAReason
  /\ NothingLearnedFromTheFuture

\* The invariant looks at the backtest's variables only.
LEMMA BacktestInvUnchanged ==
  ASSUME BacktestInv, UNCHANGED btVars
  PROVE  BacktestInv'
  BY DEF BacktestInv, btVars, Configured, RowsAreTheDataset, FoldsBehind, PredictionsAreRecords,
         RefusedForAReason, NothingLearnedFromTheFuture, TargetTwice, BacktestRows, Recorded

\* A run starts with nothing scored.
LEMMA BacktestInvInit == EvalInit => BacktestInv
<1> USE DEF BacktestInv, Configured, RowsAreTheDataset, FoldsBehind, PredictionsAreRecords,
            RefusedForAReason, NothingLearnedFromTheFuture
<1>1. BacktestIdle => BacktestInv
  BY DEF BacktestIdle
<1>2. BacktestInit => BacktestInv
  BY DEF BacktestInit
<1> QED BY <1>1, <1>2 DEF EvalInit

\* Building the dataset, or failing to.
LEMMA BuildKeeps == BacktestInv /\ BuildDataset => BacktestInv'
<1> SUFFICES ASSUME BacktestInv, BuildDataset PROVE BacktestInv'
  OBVIOUS
<1>1. btPc = "build" /\ btFolds = {} /\ btPreds = {} /\ btFolds' = {} /\ btPreds' = {} /\ bt' = bt
  BY DEF BacktestInv, RowsAreTheDataset, BuildDataset, FailRun
<1>2. bt \in BacktestInputs /\ BacktestClean(bt) /\ Configured'
  BY <1>1 DEF BacktestInv, Configured
<1>3. RowsAreTheDataset' /\ FoldsBehind' /\ RefusedForAReason'
  BY <1>1 DEF BacktestInv, RowsAreTheDataset, FoldsBehind, RefusedForAReason, BuildDataset, FailRun,
              BacktestRows
<1>4. PredictionsAreRecords' /\ NothingLearnedFromTheFuture'
  BY <1>1 DEF PredictionsAreRecords, NothingLearnedFromTheFuture
<1> QED BY <1>2, <1>3, <1>4 DEF BacktestInv

\* Scoring a fold: what it was fitted on lies before what it is scored on, and
\* its index is new.
LEMMA ScoreKeeps == BacktestInv /\ ScoreFold => BacktestInv'
<1> SUFFICES ASSUME BacktestInv, ScoreFold PROVE BacktestInv'
  OBVIOUS
<1> DEFINE fold   == DatasetFolds(btRows, bt)[btFold]
           fitted == TrainRows(btRows, fold)
           added  == Recorded(TestRows(btRows, fold), btFold)
<1>1. /\ btPc = "score" /\ btFold \in DOMAIN DatasetFolds(btRows, bt)
      /\ UNCHANGED <<bt, btRows, btPc, btRun>>
      /\ btFold' = btFold + 1
  BY DEF ScoreFold
<1>2. \/ UNCHANGED <<btFolds, btPreds>>
      \/ /\ btFolds' = btFolds \cup {[index |-> btFold, fitted |-> fitted]}
         /\ btPreds' = btPreds \cup added
  BY DEF ScoreFold
<1>3. bt \in BacktestInputs /\ BacktestClean(bt) /\ btRows = Dataset(bt.spec, bt.bars, bt.start, bt.end)
  BY <1>1 DEF BacktestInv, Configured, RowsAreTheDataset, BacktestRows
<1>4. \A p \in added : p.fold = btFold /\ \E s \in TestRows(btRows, fold) : p.d = s.d
  BY DEF Recorded
<1> HIDE DEF added, fitted
<1>5. Configured' /\ RowsAreTheDataset'
  BY <1>1, <1>3 DEF BacktestInv, Configured, RowsAreTheDataset, BacktestRows
<1>6. FoldsBehind'
  BY <1>1, <1>2, <1>4 DEF BacktestInv, FoldsBehind
<1>7. PredictionsAreRecords'
  <2>1. \A p \in added : p.fold = btFold /\ p \in Recorded(TestRows(btRows, fold), btFold)
    BY <1>4 DEF added
  <2>2. \A S, k : Recorded(S, k)' = Recorded(S, k)
    BY <1>1 DEF Recorded
  <2> QED BY <1>1, <1>2, <2>1, <2>2 DEF BacktestInv, PredictionsAreRecords
<1>8. RefusedForAReason'
  BY <1>1 DEF BacktestInv, RefusedForAReason
<1>9. NothingLearnedFromTheFuture'
  <2> SUFFICES ASSUME NEW f \in btFolds', NEW r \in f.fitted, NEW p \in btPreds', p.fold = f.index
               PROVE  r.t < p.d
    BY DEF NothingLearnedFromTheFuture
  <2>1. CASE f \in btFolds /\ p \in btPreds
    BY <2>1 DEF BacktestInv, NothingLearnedFromTheFuture
  <2>2. CASE f \in btFolds /\ p \in added
    BY <1>4, <2>2 DEF BacktestInv, FoldsBehind
  <2>3. CASE f = [index |-> btFold, fitted |-> fitted] /\ p \in btPreds
    BY <2>3 DEF BacktestInv, FoldsBehind
  <2>4. CASE f = [index |-> btFold, fitted |-> fitted] /\ p \in added
    <3>1. r \in TrainRows(btRows, fold)
      BY <2>4 DEF fitted
    <3>2. PICK s \in TestRows(btRows, fold) : p.d = s.d
      BY <1>4, <2>4
    <3>3. r.t < s.d
      BY <1>3, <3>1, TrainBeforeTest
    <3> QED BY <3>2, <3>3
  <2> QED BY <1>2, <2>1, <2>2, <2>3, <2>4
<1> QED BY <1>5, <1>6, <1>7, <1>8, <1>9 DEF BacktestInv

\* The replay and the storing transaction leave folds and predictions alone.
LEMMA SimulateKeeps == BacktestInv /\ Simulate => BacktestInv'
<1> SUFFICES ASSUME BacktestInv, Simulate PROVE BacktestInv'
  OBVIOUS
<1>1. UNCHANGED <<bt, btRows, btFold, btFolds, btPreds>> /\ btPc = "score" /\ btPc' \in {"persist", "done"}
  BY DEF Simulate, FailRun
<1>2. \/ btPc' = "persist" /\ btRun' = btRun
      \/ btPc' = "done" /\ btRun'.error = "ValueError"
  BY DEF Simulate, FailRun
<1>3. bt \in BacktestInputs /\ BacktestClean(bt)
  BY <1>1 DEF BacktestInv, Configured
<1> QED BY <1>1, <1>2, <1>3 DEF BacktestInv, Configured, RowsAreTheDataset, FoldsBehind,
     PredictionsAreRecords, RefusedForAReason, NothingLearnedFromTheFuture, TargetTwice, BacktestRows,
     Recorded

\* The unique constraint is the one reason to fail a run that scored.
LEMMA PersistKeeps == BacktestInv /\ Persist => BacktestInv'
<1> SUFFICES ASSUME BacktestInv, Persist PROVE BacktestInv'
  OBVIOUS
<1>1. UNCHANGED <<bt, btRows, btFold, btFolds, btPreds>> /\ btPc = "persist" /\ btPc' = "done"
  BY DEF Persist, FailRun
<1>2. TargetTwice \/ btRun'.error = "none"
  BY DEF Persist, FailRun
<1>3. bt \in BacktestInputs /\ BacktestClean(bt)
  BY <1>1 DEF BacktestInv, Configured
<1> QED BY <1>1, <1>2, <1>3 DEF BacktestInv, Configured, RowsAreTheDataset, FoldsBehind,
     PredictionsAreRecords, RefusedForAReason, NothingLearnedFromTheFuture, TargetTwice, BacktestRows,
     Recorded

\* What raises leaves the run failed, and everything else as it was.
LEMMA RaiseKeeps == BacktestInv /\ StepRaises => BacktestInv'
<1> SUFFICES ASSUME BacktestInv, StepRaises PROVE BacktestInv'
  OBVIOUS
<1>1. /\ UNCHANGED <<bt, btRows, btFold, btFolds, btPreds>> /\ btPc # "done" /\ btPc' = "done"
      /\ btRun'.error = "raised"
  BY DEF StepRaises, FailRun
<1>2. bt \in BacktestInputs /\ BacktestClean(bt)
  BY <1>1 DEF BacktestInv, Configured
<1> QED BY <1>1, <1>2 DEF BacktestInv, Configured, RowsAreTheDataset, FoldsBehind,
     PredictionsAreRecords, RefusedForAReason, NothingLearnedFromTheFuture, BacktestRows, Recorded

LEMMA BacktestInvNext == BacktestInv /\ [EvalNext]_evalVars => BacktestInv'
<1> SUFFICES ASSUME BacktestInv, [EvalNext]_evalVars PROVE BacktestInv'
  OBVIOUS
<1>1. CASE BacktestNext
  BY <1>1, BuildKeeps, ScoreKeeps, SimulateKeeps, PersistKeeps, RaiseKeeps DEF BacktestNext
<1>2. CASE UNCHANGED btVars
  BY <1>2, BacktestInvUnchanged
<1> QED BY <1>1, <1>2 DEF EvalNext, evalVars

\* What the rows, the folds scored so far and the stored predictions are, at
\* every step of run_model_backtest.
THEOREM BacktestInvariant == EvalSpec => []BacktestInv
  BY BacktestInvInit, BacktestInvNext, PTL DEF EvalSpec

-----------------------------------------------------------------------------
(* What follows.                                                           *)

\* No pipeline of a walk-forward backtest was fitted on a label that was not
\* yet there when one of its test decisions was taken (backtesting/engine.py's
\* train mask), whatever the scheme, spans, gap, target and bars.
THEOREM FoldsTrainOnThePast == EvalSpec => []NothingLearnedFromTheFuture
<1>1. BacktestInv => NothingLearnedFromTheFuture
  BY DEF BacktestInv
<1> QED BY <1>1, BacktestInvariant, PTL

\* With disjoint blocks no instrument has two predictions of one target date.
LEMMA NoTargetTwice ==
  ASSUME BacktestInv, bt \in BacktestInputs, BacktestClean(bt), bt.step >= bt.test_span
  PROVE  ~TargetTwice
<1> SUFFICES ASSUME NEW p \in btPreds, NEW q \in btPreds, p # q, p.inst = q.inst, p.t = q.t
             PROVE  FALSE
  BY DEF TargetTwice
<1> DEFINE P == TestRows(btRows, DatasetFolds(btRows, bt)[p.fold])
           Q == TestRows(btRows, DatasetFolds(btRows, bt)[q.fold])
<1>1. btRows = Dataset(bt.spec, bt.bars, bt.start, bt.end)
  BY DEF BacktestInv, RowsAreTheDataset, BacktestRows
<1>2. /\ p.fold \in DOMAIN DatasetFolds(btRows, bt) /\ p.fold \in Nat
      /\ q.fold \in DOMAIN DatasetFolds(btRows, bt) /\ q.fold \in Nat
      /\ p \in Recorded(P, p.fold) /\ q \in Recorded(Q, q.fold)
  BY DEF BacktestInv, PredictionsAreRecords, FoldsBehind
<1>3. PICK r \in P : p = [inst |-> r.inst, fold |-> p.fold, d |-> r.d, t |-> r.t,
          position |-> PositionFromForecast(bt.signal[r.d], bt.allow_short)]
  BY <1>2 DEF Recorded
<1>4. PICK s \in Q : q = [inst |-> s.inst, fold |-> q.fold, d |-> s.d, t |-> s.t,
          position |-> PositionFromForecast(bt.signal[s.d], bt.allow_short)]
  BY <1>2 DEF Recorded
<1>5. r.inst = s.inst /\ r.t = s.t
  BY <1>3, <1>4
<1>6. r \in btRows /\ s \in btRows
  BY DEF TestRows, Between
<1>7. r.d = s.d
  BY <1>1, <1>5, <1>6, LabelDeterminesDecision DEF BacktestClean
<1>8. ~(p.fold < q.fold) /\ ~(q.fold < p.fold)
  <2> HIDE <1>3, <1>4
  <2> QED BY <1>1, <1>2, <1>7, BlocksAreDisjoint
<1>9. p.fold = q.fold
  BY <1>2, <1>8
<1> QED BY <1>3, <1>4, <1>5, <1>7, <1>9

\* A backtest whose step is at least its test span is never refused by
\* unique_backtest_prediction: a finished run is thrown away only when its test
\* blocks overlap (backtesting/models.py), whatever the target, spans, gap, bars.
THEOREM DisjointBacktestsAreStored == EvalSpec => []DisjointBlocksAreStored
<1>1. BacktestInv => DisjointBlocksAreStored
  <2> SUFFICES ASSUME BacktestInv, btRun.error = "IntegrityError" PROVE bt.step < bt.test_span
    BY DEF DisjointBlocksAreStored
  <2>1. bt \in BacktestInputs /\ BacktestClean(bt) /\ TargetTwice
    BY DEF BacktestInv, Configured, RefusedForAReason
  <2>2. ~(bt.step >= bt.test_span)
    BY <2>1, NoTargetTwice
  <2>3. bt.step \in Nat /\ bt.test_span \in Nat
    BY <2>1, BacktestConstants
  <2> QED BY <2>2, <2>3
<1> QED BY <1>1, BacktestInvariant, PTL

-----------------------------------------------------------------------------
(* Replays of a strategy.                                                  *)

\* A function on 1..n is a sequence of length n.
LEMMA FunctionIsSequence ==
  ASSUME NEW n \in Nat, NEW f \in [1..n -> Int]
  PROVE  f \in Seq(Int) /\ Len(f) = n
  OBVIOUS

\* What is known of the history at bar k.
Cut(closes, k) == SubSeq(closes, 1, k)

\* Cutting keeps the bars up to the cut.
LEMMA CutKeeps ==
  ASSUME NEW c \in Seq(Int), NEW k \in 1..Len(c)
  PROVE  /\ Cut(c, k) \in Seq(Int) /\ Len(Cut(c, k)) = k /\ DOMAIN Cut(c, k) = 1..k
         /\ \A j \in 1..k : Cut(c, k)[j] = c[j]
  BY DEF Cut

\* Two sequences that agree up to b have the same windows up to b.
LEMMA SameWindow ==
  ASSUME NEW c \in Seq(Int), NEW s \in Seq(Int), NEW a \in Int, a >= 1, NEW b \in Int,
         \A j \in 1..b : s[j] = c[j]
  PROVE  Total(s, a, b) = Total(c, a, b)
<1>1. SubSeq(s, a, b) = [i \in 1..(1 + b - a) |-> s[i + a - 1]]
  OBVIOUS
<1>2. SubSeq(c, a, b) = [i \in 1..(1 + b - a) |-> c[i + a - 1]]
  OBVIOUS
<1>3. \A i \in 1..(1 + b - a) : s[i + a - 1] = c[i + a - 1]
  <2> TAKE i \in 1..(1 + b - a)
  <2>1. i + a - 1 \in 1..b
    OBVIOUS
  <2> QED BY <2>1
<1>4. SubSeq(s, a, b) = SubSeq(c, a, b)
  BY <1>1, <1>2, <1>3
<1> QED BY <1>4 DEF Total

\* The crossover condition at a bar does not depend on the bars after it.
LEMMA AboveIsCausal ==
  ASSUME NEW c \in Seq(Int), NEW k \in 1..Len(c), NEW i \in Int, i <= k,
         NEW fast \in Nat \ {0}, NEW slow \in Nat \ {0}
  PROVE  Above(Cut(c, k), fast, slow, i) = Above(c, fast, slow, i)
<1>1. CASE i >= slow /\ i >= fast
  <2>1. ASSUME NEW span \in Nat \ {0}, i >= span
        PROVE  Total(Cut(c, k), i - span + 1, i) = Total(c, i - span + 1, i)
    <3>1. Cut(c, k) \in Seq(Int) /\ \A j \in 1..i : Cut(c, k)[j] = c[j]
      BY CutKeeps
    <3>2. i - span + 1 >= 1 /\ i - span + 1 \in Int
      BY <2>1
    <3> QED BY <3>1, <3>2, SameWindow
  <2> QED BY <1>1, <2>1 DEF Above
<1>2. CASE ~(i >= slow /\ i >= fast)
  BY <1>2 DEF Above
<1> QED BY <1>1, <1>2

\* ma_crossover: the same signal, but for the bar where both averages begin.
LEMMA CrossoverIsCausal ==
  ASSUME NEW c \in Seq(Int), NEW k \in 1..Len(c),
         NEW fast \in Nat \ {0}, NEW slow \in Nat \ {0}
  PROVE  \/ Crossover(c, fast, slow)[k] = Crossover(Cut(c, k), fast, slow)[k]
         \/ /\ k = slow /\ Crossover(Cut(c, k), fast, slow)[k] = "hold"
            /\ Crossover(c, fast, slow)[k] = "buy"
<1> DEFINE s == Cut(c, k)
           up(z, i) == Above(z, fast, slow, i)
           quiet(z) == Len(z) < slow + 1 \/ k < slow \/ k < fast \/ k = 1 \/ up(z, k) = up(z, k - 1)
<1>1. Len(s) = k /\ k \in DOMAIN s /\ k \in DOMAIN c /\ k <= Len(c) /\ Len(c) \in Nat
  BY CutKeeps
<1>2. Crossover(c, fast, slow)[k] = IF quiet(c) THEN "hold" ELSE IF up(c, k) THEN "buy" ELSE "sell"
  BY <1>1 DEF Crossover
<1>3. Crossover(s, fast, slow)[k] = IF quiet(s) THEN "hold" ELSE IF up(s, k) THEN "buy" ELSE "sell"
  BY <1>1 DEF Crossover
<1>4. up(s, k) = up(c, k) /\ up(s, k - 1) = up(c, k - 1)
  BY <1>1, AboveIsCausal
<1>5. CASE k = slow
  <2>1. ~up(c, k - 1)
    BY <1>5 DEF Above
  <2>2. quiet(s)
    BY <1>1, <1>5
  <2>3. ~quiet(c) => up(c, k)
    <3>1. up(c, k) \in BOOLEAN /\ up(c, k - 1) \in BOOLEAN
      BY DEF Above
    <3> QED BY <2>1, <3>1
  <2> HIDE DEF quiet, up, s
  <2> QED BY <1>2, <1>3, <1>5, <2>2, <2>3 DEF s
<1>6. CASE k < slow
  <2> quiet(s) /\ quiet(c)
    BY <1>6
  <2> QED BY <1>2, <1>3
<1>7. CASE slow < k
  <2>1. ~(Len(s) < slow + 1) /\ ~(Len(c) < slow + 1)
    BY <1>1, <1>7
  <2>2. quiet(s) <=> quiet(c)
    BY <1>4, <2>1
  <2> HIDE DEF quiet, up, s
  <2> QED BY <1>2, <1>3, <1>4, <2>2 DEF s
<1> QED BY <1>5, <1>6, <1>7

\* Gains and losses of a bar do not depend on the bars after it.
LEMMA MovesAreCausal ==
  ASSUME NEW c \in Seq(Int), NEW k \in 1..Len(c)
  PROVE  /\ Gains(c) \in Seq(Int) /\ Len(Gains(c)) = Len(c)
         /\ Losses(c) \in Seq(Int) /\ Len(Losses(c)) = Len(c)
         /\ Gains(Cut(c, k)) \in Seq(Int) /\ Len(Gains(Cut(c, k))) = k
         /\ Losses(Cut(c, k)) \in Seq(Int) /\ Len(Losses(Cut(c, k))) = k
         /\ \A j \in 1..k : Gains(Cut(c, k))[j] = Gains(c)[j] /\ Losses(Cut(c, k))[j] = Losses(c)[j]
<1>1. ASSUME NEW z \in Seq(Int)
      PROVE  /\ Gains(z) \in Seq(Int) /\ Len(Gains(z)) = Len(z)
             /\ Losses(z) \in Seq(Int) /\ Len(Losses(z)) = Len(z)
  <2>1. \A i \in 1..Len(z) : i # 1 => Gain(z, i) \in Int /\ Loss(z, i) \in Int
    BY DEF Gain, Loss
  <2>2. Gains(z) \in [1..Len(z) -> Int] /\ Losses(z) \in [1..Len(z) -> Int]
    BY <2>1 DEF Gains, Losses
  <2>3. Len(z) \in Nat
    OBVIOUS
  <2> QED BY <2>2, <2>3, FunctionIsSequence
<1>2. Cut(c, k) \in Seq(Int) /\ Len(Cut(c, k)) = k /\ DOMAIN Cut(c, k) = 1..k
      /\ \A j \in 1..k : Cut(c, k)[j] = c[j]
  BY CutKeeps
<1>3. ASSUME NEW j \in 1..k
      PROVE  Gains(Cut(c, k))[j] = Gains(c)[j] /\ Losses(Cut(c, k))[j] = Losses(c)[j]
  <2>1. j \in DOMAIN c /\ j \in DOMAIN Cut(c, k)
    BY <1>2
  <2>2. j # 1 => Gain(Cut(c, k), j) = Gain(c, j) /\ Loss(Cut(c, k), j) = Loss(c, j)
    <3> SUFFICES ASSUME j # 1 PROVE Gain(Cut(c, k), j) = Gain(c, j) /\ Loss(Cut(c, k), j) = Loss(c, j)
      OBVIOUS
    <3>1. j - 1 \in 1..k
      OBVIOUS
    <3> QED BY <1>2, <3>1 DEF Gain, Loss
  <2> QED BY <2>1, <2>2 DEF Gains, Losses
<1> QED BY <1>1, <1>2, <1>3

\* So the sums of a window of moves are the same.
LEMMA WindowsAreCausal ==
  ASSUME NEW c \in Seq(Int), NEW k \in 1..Len(c), NEW period \in Nat \ {0}, k - period + 1 >= 1
  PROVE  /\ Total(Gains(Cut(c, k)), k - period + 1, k) = Total(Gains(c), k - period + 1, k)
         /\ Total(Losses(Cut(c, k)), k - period + 1, k) = Total(Losses(c), k - period + 1, k)
<1>1. k - period + 1 \in Int /\ k \in Int
  OBVIOUS
<1>2. /\ Gains(c) \in Seq(Int) /\ Gains(Cut(c, k)) \in Seq(Int)
      /\ \A j \in 1..k : Gains(Cut(c, k))[j] = Gains(c)[j]
  BY MovesAreCausal
<1>3. /\ Losses(c) \in Seq(Int) /\ Losses(Cut(c, k)) \in Seq(Int)
      /\ \A j \in 1..k : Losses(Cut(c, k))[j] = Losses(c)[j]
  BY MovesAreCausal
<1>4. Total(Gains(Cut(c, k)), k - period + 1, k) = Total(Gains(c), k - period + 1, k)
  BY <1>1, <1>2, SameWindow
<1>5. Total(Losses(Cut(c, k)), k - period + 1, k) = Total(Losses(c), k - period + 1, k)
  BY <1>1, <1>3, SameWindow
<1> QED BY <1>4, <1>5

\* rsi: the same signal on every bar.
LEMMA ThresholdIsCausal ==
  ASSUME NEW c \in Seq(Int), NEW k \in 1..Len(c), NEW period \in Nat \ {0},
         NEW oversold, NEW overbought
  PROVE  Threshold(c, period, oversold, overbought)[k]
            = Threshold(Cut(c, k), period, oversold, overbought)[k]
<1> DEFINE s == Cut(c, k)
           gain(z) == Total(Gains(z), k - period + 1, k)
           loss(z) == Total(Losses(z), k - period + 1, k)
           rsi(z) == IF gain(z) = 0 /\ loss(z) = 0 THEN <<50, 1>>
                     ELSE IF loss(z) = 0 THEN <<100, 1>> ELSE <<100 * gain(z), gain(z) + loss(z)>>
           short(z) == Len(z) < period + 1 \/ k < period + 1
           signal(z) == IF short(z) THEN "hold"
                        ELSE IF rsi(z)[1] < oversold * rsi(z)[2] THEN "buy"
                        ELSE IF rsi(z)[1] > overbought * rsi(z)[2] THEN "sell" ELSE "hold"
<1>1. Len(s) = k /\ k \in DOMAIN s /\ k \in DOMAIN c /\ k <= Len(c) /\ Len(c) \in Nat /\ k \in Nat
  BY CutKeeps
<1>2. Threshold(c, period, oversold, overbought)[k] = signal(c)
  BY <1>1 DEF Threshold
<1>3. Threshold(s, period, oversold, overbought)[k] = signal(s)
  BY <1>1 DEF Threshold
<1>4. short(s) <=> short(c)
  BY <1>1
<1>5. ~short(c) => gain(s) = gain(c) /\ loss(s) = loss(c)
  <2> SUFFICES ASSUME ~short(c) PROVE gain(s) = gain(c) /\ loss(s) = loss(c)
    OBVIOUS
  <2>1. k - period + 1 >= 1
    BY <1>1
  <2> QED BY <2>1, WindowsAreCausal
<1>6. signal(s) = signal(c)
  <2>1. CASE short(c)
    BY <1>4, <2>1
  <2>2. CASE ~short(c)
    <3> HIDE DEF gain, loss, short
    <3> QED BY <1>4, <1>5, <2>2
  <2> QED BY <2>1, <2>2
<1> QED BY <1>2, <1>3, <1>6

\* manual: an entry is the signal of its bar, whatever bars there are.
LEMMA ManualIsCausal ==
  ASSUME NEW entries, NEW sessions, NEW n \in Nat, NEW k \in 1..n
  PROVE  Manual(entries, sessions, n)[k] = Manual(entries, sessions, k)[k]
  BY DEF Manual

-----------------------------------------------------------------------------
(* The signals of a replay.                                                *)

SignalsInv ==
  /\ (st = <<>> /\ stPc = "done" /\ stSignals = <<>>) \/ st \in StrategyInputs
  /\ stSignals = <<>> \/ stSignals = GenerateSignals(st.strategy, Closes)

LEMMA SignalsInvInit == EvalInit => SignalsInv
  BY DEF EvalInit, StrategyIdle, StrategyInit, SignalsInv

LEMMA SignalsInvNext == SignalsInv /\ [EvalNext]_evalVars => SignalsInv'
<1> SUFFICES ASSUME SignalsInv, [EvalNext]_evalVars PROVE SignalsInv'
  OBVIOUS
<1>1. CASE ComputeSignals
  BY <1>1 DEF SignalsInv, ComputeSignals, Closes
<1>2. CASE BuyBar \/ SellBar \/ HoldBar
  <2>1. UNCHANGED <<st, stSignals>> /\ stPc = "replay"
    BY <1>2 DEF BuyBar, SellBar, HoldBar, Mark, Replaying
  <2> QED BY <2>1 DEF SignalsInv, Closes
<1>3. CASE UNCHANGED stVars
  BY <1>3 DEF SignalsInv, Closes, stVars
<1> QED BY <1>1, <1>2, <1>3 DEF EvalNext, StrategyNext, evalVars

(* At each bar of a replay the signal is the one generate_signals gives    *)
(* when the history ends there, but for the crossover's first bar with     *)
(* both averages: run_backtest hands the whole history to a strategy and   *)
(* the trading cycle only what is known, and the three strategies          *)
(* (strategies/rules.py, strategies/manual.py) look back only.             *)
THEOREM ReplaysSeeNoFuture == EvalSpec => []ReplayAgreesWithLive
<1>1. SignalsInv => ReplayAgreesWithLive
  <2> SUFFICES ASSUME SignalsInv, NEW k \in DOMAIN stSignals
               PROVE  LET live == GenerateSignals(st.strategy, Cut(Closes, k))[k]
                      IN  \/ stSignals[k] = live
                          \/ st.strategy.key = "ma_crossover" /\ k = st.strategy.slow
                             /\ live = "hold" /\ stSignals[k] = "buy"
    BY DEF ReplayAgreesWithLive, Cut
  <2>1. stSignals = GenerateSignals(st.strategy, Closes) /\ st \in StrategyInputs
    <3>1. stSignals # <<>>
      OBVIOUS
    <3> QED BY <3>1 DEF SignalsInv
  <2>2. Closes \in Seq(Int)
    <3>1. st.bars \in Seq([open : Int, close : Int])
      BY <2>1, StrategyConstants
    <3> DEFINE B == st.bars
    <3>2. /\ Len(B) \in Nat /\ DOMAIN B = 1..Len(B)
          /\ \A i \in 1..Len(B) : B[i] \in [open : Int, close : Int]
      BY <3>1, LenProperties, ElementOfSeq
    <3>3. \A i \in 1..Len(B) : B[i].close \in Int
      <4> HIDE DEF B
      <4> QED BY <3>2
    <3>4. Closes \in [1..Len(st.bars) -> Int]
      BY <3>2, <3>3 DEF Closes
    <3> HIDE DEF Closes
    <3> QED BY <3>2, <3>4, FunctionIsSequence
  <2> HIDE DEF Closes
  <2>3. CASE st.strategy.key = "ma_crossover"
    <3>1. stSignals = Crossover(Closes, st.strategy.fast, st.strategy.slow)
      BY <2>1, <2>3 DEF GenerateSignals
    <3>2. k \in 1..Len(Closes)
      BY <2>2, <3>1 DEF Crossover
    <3>3. GenerateSignals(st.strategy, Cut(Closes, k))
             = Crossover(Cut(Closes, k), st.strategy.fast, st.strategy.slow)
      BY <2>3 DEF GenerateSignals
    <3>4. st.strategy.fast \in Nat \ {0} /\ st.strategy.slow \in Nat \ {0}
      BY <2>1, <2>3, StrategyConstants
    <3> QED BY <2>2, <2>3, <3>1, <3>2, <3>3, <3>4, CrossoverIsCausal
  <2>4. CASE st.strategy.key = "rsi"
    <3>1. stSignals = Threshold(Closes, st.strategy.period, st.strategy.oversold, st.strategy.overbought)
      BY <2>1, <2>4 DEF GenerateSignals
    <3>2. k \in 1..Len(Closes)
      BY <2>2, <3>1 DEF Threshold
    <3>3. GenerateSignals(st.strategy, Cut(Closes, k))
             = Threshold(Cut(Closes, k), st.strategy.period, st.strategy.oversold, st.strategy.overbought)
      BY <2>4 DEF GenerateSignals
    <3>4. st.strategy.period \in Nat \ {0}
      BY <2>1, <2>4, StrategyConstants
    <3> QED BY <2>2, <3>1, <3>2, <3>3, <3>4, ThresholdIsCausal
  <2>5. CASE st.strategy.key = "manual"
    <3>1. stSignals = Manual(st.strategy.entries, st.strategy.sessions, Len(Closes))
      BY <2>1, <2>5 DEF GenerateSignals
    <3>2. k \in 1..Len(Closes) /\ Len(Closes) \in Nat
      BY <2>2, <3>1 DEF Manual
    <3>3. Len(Cut(Closes, k)) = k
      BY <2>2, <3>2, CutKeeps
    <3>4. GenerateSignals(st.strategy, Cut(Closes, k)) = Manual(st.strategy.entries, st.strategy.sessions, k)
      BY <2>5, <3>3 DEF GenerateSignals
    <3> QED BY <3>1, <3>2, <3>4, ManualIsCausal
  <2> QED BY <2>1, <2>3, <2>4, <2>5, StrategyConstants
<1> QED BY <1>1, SignalsInvInit, SignalsInvNext, PTL DEF EvalSpec

-----------------------------------------------------------------------------
(* Forecasts: the frame and its folds.                                     *)

\* What generate_folds makes of spans it accepts: the train block, the gap
\* and the test block, one after the other in the history.
LEMMA ShapeOfFold ==
  ASSUME NEW c, FoldConfig(c), NEW n \in Nat, NEW k \in DOMAIN GenerateFolds(n, c)
  PROVE  LET f == GenerateFolds(n, c)[k]
         IN  /\ f.train_start \in 1..f.train_end
             /\ f.train_end \in 1..n /\ f.test_start \in 1..n /\ f.test_end \in 1..n
             /\ f.test_start = f.train_end + c.gap + 1
             /\ f.test_start <= f.test_end
<1>1. k \in 1..n /\ Fold(c, k).test_end <= n /\ GenerateFolds(n, c)[k] = Fold(c, k)
  BY DEF GenerateFolds, FoldIndices
<1>2. /\ c.train_span \in Nat \ {0} /\ c.test_span \in Nat \ {0} /\ c.step \in Nat /\ c.gap \in Nat
      /\ c.scheme \in {"expanding", "rolling"}
  BY DEF FoldConfig
<1> DEFINE advance == (k - 1) * c.step
<1>3. advance \in Nat
  <2>1. k - 1 \in Nat
    BY <1>1
  <2> QED BY <1>2, <2>1
<1>4. /\ Fold(c, k).train_end = c.train_span + advance
      /\ Fold(c, k).test_start = c.train_span + advance + c.gap + 1
      /\ Fold(c, k).test_end = c.train_span + advance + c.gap + c.test_span
  BY DEF Fold
<1>5. \/ Fold(c, k).train_start = (c.train_span + advance) - c.train_span + 1
      \/ Fold(c, k).train_start = 1
  <2>1. CASE c.scheme = "rolling"
    BY <2>1 DEF Fold
  <2>2. CASE c.scheme # "rolling"
    BY <2>2 DEF Fold
  <2> QED BY <2>1, <2>2
<1> HIDE DEF Fold, advance
<1> QED BY <1>1, <1>2, <1>3, <1>4, <1>5

\* Rows follow each other: a row's label is known when the next decision is
\* taken, and not before.
LEMMA FrameMarchesOn ==
  ASSUME NEW bars \in SUBSET Nat, IsFiniteSet(bars), NEW start, NEW end
  PROVE  LET frame == Frame(bars, start, end)
             n == Len(frame)
         IN  /\ n \in Nat /\ DOMAIN frame = 1..n
             /\ \A i \in 1..n : frame[i].as_of \in Nat /\ frame[i].known \in Nat
             /\ \A i \in 1..(n - 1) : frame[i].known = frame[i + 1].as_of
             /\ \A i, j \in 1..n : i < j => frame[i].as_of < frame[j].as_of
             /\ \A i \in 1..n : frame[i].as_of < frame[i].known
<1> DEFINE D == {d \in Since(bars, start) : d < end}
           m == Cardinality(D)
           h == SortedDays(D)
           n == IF m = 0 THEN 0 ELSE m - 1
           frame == Frame(bars, start, end)
<1>1. D \in SUBSET Nat /\ IsFiniteSet(D) /\ m \in Nat
  <2>1. D \in SUBSET bars
    BY DEF Since
  <2> HIDE DEF D
  <2> QED BY <2>1, FS_Subset, FS_CardinalityType
<1>2. /\ \A k \in 1..m : h[k] \in D
      /\ \A j, k \in 1..m : j < k => h[j] < h[k]
  <2> HIDE DEF D
  <2> QED BY <1>1, SortedDaysGrow
<1>3. DOMAIN h = 1..m /\ Len(h) = m
  <2>1. h = [k \in 1..m |-> h[k]]
    BY DEF SortedDays
  <2> HIDE DEF h, m
  <2> QED BY <1>1, <2>1
<1>4. frame = [i \in 1..n |-> [as_of |-> h[i] + 1, target |-> h[i + 1], known |-> h[i + 1] + 1, d |-> h[i]]]
  <2>1. 1..(Len(h) - 1) = 1..n /\ n \in Nat
    <3> HIDE DEF h, m
    <3> QED BY <1>1, <1>3
  <2>2. frame = [i \in 1..(Len(h) - 1) |->
                    [as_of |-> h[i] + 1, target |-> h[i + 1], known |-> h[i + 1] + 1, d |-> h[i]]]
    BY DEF Frame, History
  <2> HIDE DEF h, n, frame
  <2> QED BY <2>1, <2>2
<1>5. n \in Nat /\ Len(frame) = n /\ DOMAIN frame = 1..n
  <2> HIDE DEF h, m, frame
  <2> QED BY <1>1, <1>4
<1>6. ASSUME NEW i \in 1..n
      PROVE  /\ i \in 1..m /\ i + 1 \in 1..m /\ h[i] \in Nat /\ h[i + 1] \in Nat
             /\ frame[i].as_of = h[i] + 1 /\ frame[i].known = h[i + 1] + 1
  <2> HIDE DEF h, m, frame, D
  <2>1. i \in 1..m /\ i + 1 \in 1..m
    BY <1>1
  <2>2. h[i] \in Nat /\ h[i + 1] \in Nat
    BY <1>1, <1>2, <2>1
  <2> HIDE DEF n
  <2>3. frame[i] = [as_of |-> h[i] + 1, target |-> h[i + 1], known |-> h[i + 1] + 1, d |-> h[i]]
    BY <1>4
  <2> QED BY <2>1, <2>2, <2>3
<1> HIDE DEF h, m, frame, D
<1>7. \A i \in 1..(n - 1) : i \in 1..n /\ i + 1 \in 1..n
  BY <1>5
<1>8. \A i \in 1..n : frame[i].as_of < frame[i].known
  BY <1>2, <1>6
<1>9. \A i, j \in 1..n : i < j => frame[i].as_of < frame[j].as_of
  BY <1>2, <1>6
<1>10. \A i \in 1..(n - 1) : frame[i].known = frame[i + 1].as_of
  BY <1>6, <1>7
<1>11. Len(frame) \in Nat /\ DOMAIN frame = 1..Len(frame) /\ Len(frame) = n
  BY <1>5
<1>12. \A i \in 1..n : frame[i].as_of \in Nat /\ frame[i].known \in Nat
  BY <1>6
<1> HIDE DEF n
<1> QED BY <1>8, <1>9, <1>10, <1>11, <1>12 DEF frame

\* The training slice of a fold reaches the last session before the test
\* block if nothing is left out in between, and stays behind it otherwise.
LEMMA SliceOfFold ==
  ASSUME fc \in ForecastInputs, FoldConfig(fc), NEW k \in DOMAIN ForecastFolds
  PROVE  LET fold   == ForecastFolds[k]
             first  == FrameRows[fold.test_start].as_of
         IN  TrainSlice(fold) # {} =>
                /\ FittedThrough(fold) <= first /\ first \in Nat /\ FittedThrough(fold) \in Nat
                /\ FittedThrough(fold) = first <=> fc.gap = 0
<1> DEFINE n == Len(FrameRows)
           fold == ForecastFolds[k]
           lo == fold.test_start
           hi == fold.train_end
           known(i) == FrameRows[i].known
           slice == TrainSlice(fold)
           S == {known(i) : i \in slice}
<1>1. fc.bars \in SUBSET Nat /\ IsFiniteSet(fc.bars)
  BY ForecastConstants
<1>2. /\ n \in Nat
      /\ \A i \in 1..n : FrameRows[i].as_of \in Nat /\ known(i) \in Nat
      /\ \A i \in 1..(n - 1) : known(i) = FrameRows[i + 1].as_of
      /\ \A i, j \in 1..n : i < j => FrameRows[i].as_of < FrameRows[j].as_of
      /\ \A i \in 1..n : FrameRows[i].as_of < known(i)
  BY <1>1, FrameMarchesOn DEF FrameRows
<1>3. /\ fold.train_start \in 1..hi /\ hi \in 1..n /\ lo \in 1..n
      /\ lo = hi + fc.gap + 1 /\ fc.gap \in Nat
  <2>1. k \in DOMAIN GenerateFolds(n, fc) /\ fold = GenerateFolds(n, fc)[k]
    BY DEF ForecastFolds
  <2> HIDE DEF n, fold
  <2> QED BY <1>2, <2>1, ShapeOfFold DEF FoldConfig, fold
<1> SUFFICES ASSUME slice # {}
             PROVE  /\ Max(S) <= FrameRows[lo].as_of /\ FrameRows[lo].as_of \in Nat /\ Max(S) \in Nat
                    /\ Max(S) = FrameRows[lo].as_of <=> fc.gap = 0
  BY DEF FittedThrough
<1>4. slice = {i \in fold.train_start..hi : known(i) <= FrameRows[lo].as_of}
  BY DEF TrainSlice
<1> HIDE DEF n, fold, lo, hi, slice, known
<1>5. \A i \in slice : i \in 1..n /\ i <= hi /\ known(i) \in Nat /\ known(i) <= FrameRows[lo].as_of
  BY <1>2, <1>3, <1>4
<1>6. FrameRows[lo].as_of \in Nat
  BY <1>2, <1>3
<1>7. S \in SUBSET Nat /\ S # {} /\ \A y \in S : y <= FrameRows[lo].as_of
  BY <1>5
<1>8. Max(S) \in S /\ \A y \in S : y <= Max(S)
  <2> HIDE DEF S
  <2> QED BY <1>6, <1>7, MaxOfNaturals
<1>9. CASE fc.gap = 0
  <2>1. lo = hi + 1 /\ hi \in 1..(n - 1)
    BY <1>2, <1>3, <1>9
  <2>2. known(hi) = FrameRows[lo].as_of
    BY <1>2, <2>1 DEF known
  <2>3. hi \in slice
    BY <1>3, <1>4, <1>6, <2>2
  <2>4. known(hi) \in S
    BY <2>3
  <2>5. Max(S) = FrameRows[lo].as_of
    <3>1. FrameRows[lo].as_of \in S
      BY <2>2, <2>4
    <3> HIDE DEF S
    <3>2. Max(S) \in Nat /\ Max(S) <= FrameRows[lo].as_of /\ FrameRows[lo].as_of <= Max(S)
      BY <1>7, <1>8, <3>1
    <3> QED BY <1>6, <3>2
  <2> QED BY <1>6, <1>9, <2>5
<1>10. CASE fc.gap # 0
  <2>1. PICK i \in slice : Max(S) = known(i)
    BY <1>8
  <2>2. i \in 1..(n - 1) /\ i + 1 \in 1..n /\ i + 1 < lo
    BY <1>2, <1>3, <1>5, <1>10
  <2>3. known(i) < FrameRows[lo].as_of
    BY <1>2, <1>3, <2>2 DEF known
  <2> QED BY <1>5, <1>6, <1>10, <2>1, <2>3
<1> QED BY <1>9, <1>10

-----------------------------------------------------------------------------
(* Forecasts: what the guards refuse.                                      *)

\* A fold is only refused where the gap makes it so, and a statistical
\* predictor scores a fold only where there is no gap.
ForecastInv ==
  /\ fcPc # "done" => fc \in ForecastInputs
  /\ fcPc = "score" => FoldConfig(fc)
  /\ GuardsAgreeWithTheHarness

LEMMA ForecastInvInit == EvalInit => ForecastInv
<1>1. ForecastInit \/ ForecastIdle => /\ fcPc # "done" => fc \in ForecastInputs
                                      /\ fcPc # "score" /\ fcFolds = {} /\ fcSkipped = {}
  BY DEF ForecastInit, ForecastIdle
<1> QED BY <1>1 DEF EvalInit, ForecastInv, GuardsAgreeWithTheHarness

LEMMA WalkFoldKeeps == ForecastInv /\ WalkFold => ForecastInv'
<1> SUFFICES ASSUME ForecastInv, WalkFold PROVE ForecastInv'
  OBVIOUS
<1> DEFINE fold == ForecastFolds[fcFold]
           first == FrameRows[fold.test_start].as_of
<1>1. /\ fc \in ForecastInputs /\ FoldConfig(fc) /\ fcFold \in DOMAIN ForecastFolds
      /\ UNCHANGED <<fc, fcPc>>
  BY DEF WalkFold, ForecastInv
<1>2. TrainSlice(fold) # {} =>
         /\ FittedThrough(fold) <= first /\ first \in Nat /\ FittedThrough(fold) \in Nat
         /\ FittedThrough(fold) = first <=> fc.gap = 0
  BY <1>1, SliceOfFold
<1>3. fc.gap \in Nat
  BY <1>1 DEF FoldConfig
<1>4. /\ FitError(fold) # "labels beyond decision"
      /\ FitError(fold) = "replay elsewhere" => fc.gap > 0
      /\ FitError(fold) = "none" /\ fc.predictor = "statistical" => fc.gap = 0
  <2>1. CASE TrainSlice(fold) = {}
    BY <2>1 DEF FitError
  <2>2. CASE TrainSlice(fold) # {}
    <3> HIDE DEF fold
    <3>1. \/ FitError(fold) = "too few rows"
          \/ FitError(fold) = Guard(first, FittedThrough(fold))
      BY <2>2 DEF FitError, first
    <3>2. ~(first < FittedThrough(fold))
      BY <1>2, <2>2
    <3> HIDE DEF first
    <3>3. /\ Guard(first, FittedThrough(fold)) # "labels beyond decision"
          /\ Guard(first, FittedThrough(fold)) = "replay elsewhere" => first # FittedThrough(fold)
          /\ Guard(first, FittedThrough(fold)) = "none" /\ fc.predictor = "statistical"
                => first = FittedThrough(fold)
      BY <3>2 DEF Guard
    <3>4. /\ FitError(fold) # "labels beyond decision"
          /\ FitError(fold) = "replay elsewhere" => first # FittedThrough(fold)
          /\ FitError(fold) = "none" /\ fc.predictor = "statistical"
                => first = FittedThrough(fold)
      BY <3>1, <3>3
    <3>5. first = FittedThrough(fold) <=> fc.gap = 0
      BY <1>2, <2>2
    <3>6. first # FittedThrough(fold) => fc.gap > 0
      BY <1>3, <3>5
    <3> QED BY <3>4, <3>5, <3>6
  <2> QED BY <2>1, <2>2
<1>5. \/ /\ fcSkipped' = fcSkipped \cup {[index |-> fcFold, reason |-> FitError(fold)]}
         /\ fcFolds' = fcFolds
      \/ /\ fcSkipped' = fcSkipped \cup {[index |-> fcFold, reason |-> "raised"]}
         /\ fcFolds' = fcFolds
      \/ FitError(fold) = "none" /\ fcSkipped' = fcSkipped
  BY DEF WalkFold, KeepFold, SkipFold
<1> HIDE DEF fold
<1>6. GuardsAgreeWithTheHarness'
  <2>1. /\ \A s \in fcSkipped : /\ s.reason # "labels beyond decision"
                                /\ s.reason = "replay elsewhere" => fc.gap > 0
        /\ (fcFolds # {} /\ fc.predictor = "statistical") => fc.gap = 0
    BY DEF ForecastInv, GuardsAgreeWithTheHarness
  <2>2. ASSUME NEW s \in fcSkipped'
        PROVE  s.reason # "labels beyond decision" /\ (s.reason = "replay elsewhere" => fc.gap > 0)
    <3>1. CASE s \in fcSkipped
      BY <2>1, <3>1
    <3>2. CASE s = [index |-> fcFold, reason |-> FitError(fold)]
      BY <1>4, <3>2
    <3>3. CASE s = [index |-> fcFold, reason |-> "raised"]
      BY <3>3
    <3> QED BY <1>5, <3>1, <3>2, <3>3
  <2>3. (fcFolds' # {} /\ fc.predictor = "statistical") => fc.gap = 0
    BY <1>4, <1>5, <2>1
  <2> QED BY <1>1, <2>2, <2>3 DEF GuardsAgreeWithTheHarness
<1> QED BY <1>1, <1>6 DEF ForecastInv

LEMMA ForecastInvNext == ForecastInv /\ [EvalNext]_evalVars => ForecastInv'
<1> SUFFICES ASSUME ForecastInv, [EvalNext]_evalVars PROVE ForecastInv'
  OBVIOUS
<1>1. CASE MakeFolds
  <2>1. /\ UNCHANGED <<fc, fcFolds, fcSkipped>>
        /\ fcPc' = "done" \/ (fcPc = "frame" /\ fcPc' = "score" /\ FoldConfig(fc))
    BY <1>1 DEF MakeFolds, FailForecast
  <2> QED BY <2>1 DEF ForecastInv, GuardsAgreeWithTheHarness, FoldConfig
<1>2. CASE StartRun \/ Measure \/ WalkRaises \/ SaveRun \/ LatestForecast
  <2>1. /\ UNCHANGED <<fc, fcFolds, fcSkipped>>
        /\ fcPc' # "score" /\ (fcPc' # "done" => fcPc # "done")
    BY <1>2 DEF StartRun, Measure, WalkRaises, FailForecast, SaveRun, LatestForecast
  <2> QED BY <2>1 DEF ForecastInv, GuardsAgreeWithTheHarness
<1>3. CASE UNCHANGED fcVars
  BY <1>3 DEF fcVars, ForecastInv, GuardsAgreeWithTheHarness, FoldConfig
<1> QED BY <1>1, <1>2, <1>3, WalkFoldKeeps DEF EvalNext, ForecastNext, evalVars

(* The harness of a forecast backtest and the guards of the predictors     *)
(* agree: no fold is refused because its training labels reach beyond its  *)
(* first decision; a statistical predictor is only refused for its         *)
(* starting point, and only scores, as the gap has it                      *)
(* (forecasting/backtesting/engine.py).                                    *)
THEOREM GuardsAgree == EvalSpec => []GuardsAgreeWithTheHarness
<1>1. ForecastInv => GuardsAgreeWithTheHarness
  BY DEF ForecastInv
<1> QED BY <1>1, ForecastInvInit, ForecastInvNext, PTL DEF EvalSpec

-----------------------------------------------------------------------------
(* The live forecast.                                                      *)

\* A finite set of days has a last one.
LEMMA LastDay ==
  ASSUME NEW D \in SUBSET Nat, IsFiniteSet(D), D # {}
  PROVE  /\ Max(D) \in D /\ \A d \in D : d <= Max(D)
         /\ Cardinality(D) \in Nat \ {0} /\ SortedDays(D)[Cardinality(D)] = Max(D)
<1> DEFINE n == Cardinality(D)
           last == SortedDays(D)[n]
<1>1. n \in Nat \ {0}
  BY FS_EmptySet, FS_CardinalityType
<1>2. n \in 1..n
  BY <1>1
<1>3. last \in D /\ Cardinality(Below(D, last)) = n
  <2>1. \E d \in D : Cardinality(Below(D, d)) = n
    BY <1>2, EveryRank
  <2>2. last = CHOOSE d \in D : Cardinality(Below(D, d)) = n
    <3>1. \A k \in 1..n : SortedDays(D)[k] = CHOOSE d \in D : Cardinality(Below(D, d)) = k
      BY DEF SortedDays, Below
    <3> QED BY <1>2, <3>1
  <2> QED BY <2>1, <2>2
<1>4. Below(D, last) = D
  <2>1. Below(D, last) \in SUBSET D
    BY DEF Below
  <2> QED BY <1>3, <2>1, FS_Subset
<1> HIDE DEF last
<1>5. \A d \in D : d <= last
  BY <1>4 DEF Below
<1>6. Max(D) \in D /\ \A d \in D : d <= Max(D)
  BY <1>3, <1>5, MaxOfNaturals
<1>7. Max(D) = last
  <2>1. Max(D) \in Nat /\ last \in Nat
    BY <1>3, <1>6
  <2> QED BY <1>3, <1>5, <1>6, <2>1
<1> QED BY <1>1, <1>6, <1>7 DEF last

\* Within a week from any day there is each weekday.
LEMMA EachWeekday ==
  ASSUME NEW d \in Nat, NEW w \in 0..(WeekLength - 1)
  PROVE  \E x \in (d + 1)..(d + WeekLength) : Weekday(x) = w
<1> DEFINE n == WeekLength
           q == (d + 1) \div n
           r == (d + 1) % n
<1>1. n \in Nat \ {0} /\ w \in Nat /\ w < n
  BY DatasetConstants
<1>2. q \in Nat /\ r \in 0..(n - 1) /\ d + 1 = q * n + r
  <2> HIDE DEF n
  <2> QED BY <1>1
<1>3. \A p \in Nat : (p * n + w) % n = w
  <2> HIDE DEF n
  <2> QED BY <1>1
<1> HIDE DEF n, q, r
<1>4. q * n \in Nat /\ (q + 1) * n = q * n + n /\ q + 1 \in Nat
  BY <1>1, <1>2
<1> DEFINE a == q * n
           b == (q + 1) * n
<1>5. (a + w) % n = w /\ (b + w) % n = w
  BY <1>2, <1>3, <1>4
<1>6. a \in Nat /\ b = a + n /\ d + 1 = a + r
  BY <1>2, <1>4
<1> HIDE DEF a, b
<1>7. CASE w >= r
  <2>1. a + w \in (d + 1)..(d + n)
    BY <1>1, <1>2, <1>6, <1>7
  <2> QED BY <1>5, <2>1 DEF Weekday, n
<1>8. CASE w < r
  <2>1. b + w \in (d + 1)..(d + n)
    BY <1>1, <1>2, <1>6, <1>8
  <2> QED BY <1>5, <2>1 DEF Weekday, n
<1> QED BY <1>1, <1>2, <1>7, <1>8

\* What the live predictor was fitted on was known when the last bar was.
LEMMA LiveFitReachesTheLastBar ==
  ASSUME fc \in ForecastInputs, fc.bars # {}
  PROVE  /\ LastSession \in Nat
         /\ LiveFitted # {} => Max(LiveFitted) = LastSession + 1
<1> DEFINE D == fc.bars
           m == Cardinality(D)
           n == m - 1
           h == SortedDays(D)
           frame == Frame(D, 0, LastSession + 1)
<1>1. D \in SUBSET Nat /\ IsFiniteSet(D) /\ D # {}
  BY ForecastConstants
<1> HIDE DEF D
<1>2. /\ LastSession \in D /\ LastSession \in Nat /\ \A d \in D : d <= LastSession
      /\ m \in Nat \ {0} /\ h[m] = LastSession
  BY <1>1, LastDay DEF LastSession, D
<1>3. {d \in Since(D, 0) : d < LastSession + 1} = D
  BY <1>1, <1>2 DEF Since
<1>4. /\ \A k \in 1..m : h[k] \in D /\ h[k] \in Nat
      /\ DOMAIN h = 1..m /\ Len(h) = m
  <2>1. h = [k \in 1..m |-> h[k]]
    BY DEF SortedDays
  <2>2. \A k \in 1..m : h[k] \in D
    BY <1>1, SortedDaysGrow
  <2> HIDE DEF h, m
  <2> QED BY <1>1, <1>2, <2>1, <2>2
<1>5. frame = [i \in 1..(Len(h) - 1) |->
                  [as_of |-> h[i] + 1, target |-> h[i + 1], known |-> h[i + 1] + 1, d |-> h[i]]]
  BY <1>3 DEF Frame, History
<1>6. LiveFitted = {frame[i].known : i \in DOMAIN frame}
  BY DEF LiveFitted, D
<1> HIDE DEF h, m, frame
<1>7. DOMAIN frame = 1..n /\ \A i \in 1..n : frame[i].known = h[i + 1] + 1 /\ i + 1 \in 1..m
  BY <1>2, <1>4, <1>5
<1>8. LiveFitted = {h[i + 1] + 1 : i \in 1..n}
  BY <1>6, <1>7
<1>9. ASSUME LiveFitted # {} PROVE Max(LiveFitted) = LastSession + 1
  <2>1. n \in 1..n /\ n + 1 = m
    BY <1>2, <1>8, <1>9
  <2>2. LastSession + 1 \in LiveFitted
    BY <1>2, <1>8, <2>1
  <2>3. \A y \in LiveFitted : y \in Nat /\ y <= LastSession + 1
    BY <1>2, <1>4, <1>7, <1>8
  <2>4. Max(LiveFitted) \in LiveFitted /\ \A y \in LiveFitted : y <= Max(LiveFitted)
    <3>1. LiveFitted \in SUBSET Nat /\ LastSession + 1 \in Nat
      BY <1>2, <2>3
    <3> QED BY <1>9, <2>3, <3>1, MaxOfNaturals
  <2>5. Max(LiveFitted) \in Nat /\ Max(LiveFitted) <= LastSession + 1
        /\ LastSession + 1 <= Max(LiveFitted)
    BY <2>2, <2>3, <2>4
  <2> QED BY <1>2, <2>5
<1> QED BY <1>2, <1>9

\* The next weekday with a session is after the day.
LEMMA NextWeekdayIsAhead ==
  ASSUME NEW d \in Nat
  PROVE  /\ NextWeekday(d) \in Nat /\ NextWeekday(d) > d
         /\ Weekday(NextWeekday(d)) \notin Weekend
<1> DEFINE S == {x \in (d + 1)..(d + WeekLength) : Weekday(x) \notin Weekend}
<1>1. WeekLength \in Nat
  BY DatasetConstants
<1>2. S \in SUBSET Nat
  BY <1>1
<1>3. S # {}
  <2>1. PICK w \in 0..(WeekLength - 1) : w \notin Weekend
    BY ForecastConstants
  <2>2. PICK x \in (d + 1)..(d + WeekLength) : Weekday(x) = w
    BY EachWeekday
  <2> QED BY <2>1, <2>2
<1>4. Min(S) \in S
  <2> HIDE DEF S
  <2> QED BY <1>2, <1>3, MinOfNaturals
<1>5. NextWeekday(d) \in S
  BY <1>4 DEF NextWeekday
<1> QED BY <1>1, <1>5

\* So no guard stops the live forecast.
LEMMA LatestForecastIsAhead ==
  ASSUME fc \in ForecastInputs, LatestForecast
  PROVE  LiveForecastIsAhead'
<1> DEFINE guards == {"target not ahead", "labels beyond decision", "replay elsewhere"}
<1>1. fc' = fc /\ fcLive' \in LiveResults
  BY DEF LatestForecast
<1>2. LastSession' = LastSession
  BY <1>1 DEF LastSession
<1>3. LiveForecastIsAhead' <=>
        (fcLive' # NoForecast =>
            /\ fcLive'.error \notin guards
            /\ fcLive'.target # 0 => /\ fcLive'.target > LastSession
                                     /\ Weekday(fcLive'.target) \notin Weekend)
  BY <1>2 DEF LiveForecastIsAhead
<1>4. CASE fcLive'.target = 0 /\ fcLive'.error \in {"raised", "no history"}
  BY <1>3, <1>4
<1>5. ASSUME fc.bars # {}, NEW e \in {LiveError(LastSession + 1, NextWeekday(LastSession)), "raised"},
             fcLive' = [target |-> NextWeekday(LastSession), error |-> e]
      PROVE  LiveForecastIsAhead'
  <2> DEFINE last == LastSession
             target == NextWeekday(last)
             through == IF LiveFitted = {} THEN last + 1 ELSE Max(LiveFitted)
             error == LiveError(last + 1, target)
  <2>1. fcLive'.target = target /\ fcLive'.error \in {error, "raised"}
    BY <1>5
  <2>2. last \in Nat /\ target \in Nat /\ target > last /\ Weekday(target) \notin Weekend
        /\ through = last + 1
    BY <1>5, LiveFitReachesTheLastBar, NextWeekdayIsAhead
  <2>3. error \in {"none", "too few rows"}
    <3> HIDE DEF last, target, through
    <3>1. ~(target <= last \/ target < last + 1)
      BY <2>2
    <3>2. error = "too few rows" \/ error = Guard(last + 1, through)
      BY <3>1 DEF LiveError, last, target, through
    <3>3. Guard(last + 1, through) = "none"
      BY <2>2 DEF Guard
    <3> QED BY <3>2, <3>3
  <2> HIDE DEF target, error
  <2> QED BY <1>3, <2>1, <2>2, <2>3
<1>6. CASE fc.bars = {}
  <2>1. fcLive' \in {[target |-> 0, error |-> "raised"], [target |-> 0, error |-> "no history"]}
    BY <1>1, <1>6 DEF LiveResults
  <2>2. CASE fcLive' = [target |-> 0, error |-> "raised"]
    <3>1. fcLive'.target = 0 /\ fcLive'.error = "raised"
      BY <2>2
    <3> QED BY <1>4, <3>1
  <2>3. CASE fcLive' = [target |-> 0, error |-> "no history"]
    <3>1. fcLive'.target = 0 /\ fcLive'.error = "no history"
      BY <2>3
    <3> QED BY <1>4, <3>1
  <2> QED BY <2>1, <2>2, <2>3
<1>7. CASE fc.bars # {}
  <2> DEFINE t == NextWeekday(LastSession)
             E == {LiveError(LastSession + 1, t), "raised"}
  <2>1. fcLive' \in {[target |-> 0, error |-> "raised"]} \cup [target : {t}, error : E]
    BY <1>1, <1>7 DEF LiveResults
  <2> HIDE DEF t, E
  <2>2. CASE fcLive' = [target |-> 0, error |-> "raised"]
    <3>1. fcLive'.target = 0 /\ fcLive'.error = "raised"
      BY <2>2
    <3> QED BY <1>4, <3>1
  <2>3. CASE fcLive' \in [target : {t}, error : E]
    <3>1. PICK e \in E : fcLive' = [target |-> t, error |-> e]
      BY <2>3
    <3> QED BY <1>5, <1>7, <3>1 DEF t, E
  <2> QED BY <2>1, <2>2, <2>3
<1> QED BY <1>6, <1>7

(* latest_forecast is for a trading weekday after the last stored bar, and *)
(* no guard of the frame or of a predictor takes that session for one that *)
(* the fit already covers, or that it does not reach: what stops it is too *)
(* short a history or a step that raises (forecasting/services.py).        *)
THEOREM LiveForecastsAreAhead == EvalSpec => []LiveForecastIsAhead
<1>1. EvalInit => LiveForecastIsAhead
  <2>1. ForecastInit \/ ForecastIdle => fcLive = NoForecast
    BY DEF ForecastInit, ForecastIdle
  <2> QED BY <2>1 DEF EvalInit, LiveForecastIsAhead
<1>2. ForecastInv /\ LiveForecastIsAhead /\ [EvalNext]_evalVars => LiveForecastIsAhead'
  <2> SUFFICES ASSUME ForecastInv, LiveForecastIsAhead, [EvalNext]_evalVars
               PROVE  LiveForecastIsAhead'
    OBVIOUS
  <2>1. CASE UNCHANGED <<fc, fcLive>>
    BY <2>1 DEF LiveForecastIsAhead, LastSession
  <2>2. CASE LatestForecast
    <3>1. fc \in ForecastInputs
      BY <2>2 DEF ForecastInv, LatestForecast
    <3> QED BY <2>2, <3>1, LatestForecastIsAhead
  <2>3. CASE StartRun \/ MakeFolds \/ WalkFold \/ Measure \/ WalkRaises \/ SaveRun
    BY <2>1, <2>3 DEF StartRun, MakeFolds, FailForecast, WalkFold, Measure, WalkRaises, SaveRun
  <2>4. CASE UNCHANGED fcVars
    BY <2>1, <2>4 DEF fcVars
  <2> QED BY <2>2, <2>3, <2>4 DEF EvalNext, ForecastNext, evalVars
<1> QED BY <1>1, <1>2, ForecastInvInit, ForecastInvNext, PTL DEF EvalSpec

-----------------------------------------------------------------------------
(* The money of a strategy backtest.                                       *)

Pnls(trades) == [i \in 1..Len(trades) |-> trades[i].pnl]

Earning(trades) == \A i \in 1..Len(trades) : trades[i].pnl \in Int

\* The fold of the property is a sum along the log.
LEMMA ClosedIsASum ==
  ASSUME NEW T, NEW trades \in Seq(T), Earning(trades)
  PROVE  \E g : /\ RunsUp(g, Pnls(trades), Len(trades))
                /\ Closed(trades) = g[1..Len(trades)] /\ g[1..Len(trades)] \in Int
<1> DEFINE n == Len(trades)
           Sums(g) == g = [s \in SUBSET (1..n) |->
                             IF s = {} THEN 0 ELSE trades[Max(s)].pnl + g[s \ {Max(s)}]]
<1>1. n \in Nat /\ DOMAIN trades = 1..n /\ IsFiniteSet(1..n)
  BY FS_Interval
<1>2. Pnls(trades) \in [1..n -> Int]
  BY <1>1 DEF Pnls, Earning
<1>3. LastFirst(n) \in Picks(1..n)
  BY <1>1, LastFirstPicks
<1>4. \A s \in SUBSET (1..n) : s # {} =>
         /\ LastFirst(n)[s] = Max(s)
         /\ Pnls(trades)[LastFirst(n)[s]] = trades[Max(s)].pnl
  <2> SUFFICES ASSUME NEW s \in SUBSET (1..n), s # {}
               PROVE  /\ LastFirst(n)[s] = Max(s)
                      /\ Pnls(trades)[LastFirst(n)[s]] = trades[Max(s)].pnl
    OBVIOUS
  <2>1. LastFirst(n)[s] = Max(s)
    BY DEF LastFirst
  <2>2. Max(s) \in 1..n
    BY <1>3, <2>1 DEF Picks
  <2> QED BY <2>1, <2>2 DEF Pnls
<1>5. ASSUME NEW g PROVE Sums(g) <=> RunsUp(g, Pnls(trades), n)
  <2>1. [s \in SUBSET (1..n) |->
            IF s = {} THEN 0 ELSE trades[Max(s)].pnl + g[s \ {Max(s)}]]
        = [s \in SUBSET (1..n) |->
            IF s = {} THEN 0
            ELSE Pnls(trades)[LastFirst(n)[s]] + g[s \ {LastFirst(n)[s]}]]
    <3> HIDE DEF n
    <3> QED BY <1>4
  <2> QED BY <2>1 DEF RunsUp, AddsUp
<1>6. Closed(trades) = (CHOOSE g : Sums(g))[1..n]
  BY <1>1 DEF Closed, FoldLeft, MapThenFoldSet
<1> HIDE DEF n, Sums
<1>7. \E g : Sums(g)
  BY <1>1, <1>2, <1>3, <1>5, SumExists DEF RunsUp
<1>8. RunsUp(CHOOSE g : Sums(g), Pnls(trades), n)
  BY <1>5, <1>7
<1>9. (CHOOSE g : Sums(g))[1..n] \in Int
  BY <1>1, <1>2, <1>3, <1>8, SumIsIn DEF RunsUp
<1> QED BY <1>6, <1>8, <1>9 DEF n

\* An empty log earned nothing; a trade adds its profit.
LEMMA ClosedTypes ==
  ASSUME NEW T, NEW trades \in Seq(T), Earning(trades)
  PROVE  Closed(trades) \in Int
  BY ClosedIsASum

LEMMA ClosedStarts == Closed(<<>>) = 0
<1>1. <<>> \in Seq({}) /\ Len(<<>>) = 0 /\ 1..0 = {} /\ Earning(<<>>)
  BY DEF Earning
<1>2. PICK g : RunsUp(g, Pnls(<<>>), 0) /\ Closed(<<>>) = g[1..0]
  BY <1>1, ClosedIsASum
<1>3. {} \in SUBSET (1..0)
  OBVIOUS
<1>4. g[{}] = 0
  BY <1>2, <1>3 DEF RunsUp, AddsUp
<1> QED BY <1>1, <1>2, <1>4

LEMMA ClosedGrows ==
  ASSUME NEW T, NEW trades \in Seq(T), Earning(trades), NEW t \in T, t.pnl \in Int
  PROVE  /\ Earning(Append(trades, t))
         /\ Closed(Append(trades, t)) = t.pnl + Closed(trades)
<1> DEFINE n == Len(trades)
           more == Append(trades, t)
<1>1. /\ n \in Nat /\ more \in Seq(T) /\ Len(more) = n + 1
      /\ \A i \in 1..n : more[i] = trades[i]
      /\ more[n + 1] = t
  OBVIOUS
<1>2. Earning(more)
  <2> SUFFICES ASSUME NEW i \in 1..(n + 1) PROVE more[i].pnl \in Int
    BY <1>1 DEF Earning
  <2>1. i \in 1..n \/ i = n + 1
    BY <1>1
  <2> QED BY <1>1, <2>1 DEF Earning
<1>3. PICK g : RunsUp(g, Pnls(trades), n) /\ Closed(trades) = g[1..n]
  BY ClosedIsASum
<1>4. PICK h : RunsUp(h, Pnls(more), n + 1) /\ Closed(more) = h[1..(n + 1)]
  <2> HIDE DEF more
  <2> QED BY <1>1, <1>2, ClosedIsASum
<1>5. /\ \A i \in 1..n : Pnls(trades)[i] = Pnls(more)[i]
      /\ Pnls(more)[n + 1] = t.pnl
  <2> HIDE DEF more
  <2> QED BY <1>1 DEF Pnls
<1> HIDE DEF n, more
<1>6. g[1..n] = h[1..n]
  <2>1. n + 1 \in Nat /\ n <= n + 1
    BY <1>1
  <2> QED BY <1>1, <1>3, <1>4, <1>5, <2>1, SumsAgree
<1>7. h[1..(n + 1)] = t.pnl + h[1..n]
  <2>1. n + 1 \in Nat /\ n + 1 \in 1..(n + 1) /\ (n + 1) - 1 = n
    BY <1>1
  <2>2. h[1..(n + 1)] = Pnls(more)[n + 1] + h[1..((n + 1) - 1)]
    BY <1>4, <2>1, SumSteps
  <2> QED BY <1>5, <2>1, <2>2
<1> QED BY <1>2, <1>3, <1>4, <1>6, <1>7 DEF more

Trips == [entry : Int, exit : Int, shares : Nat, pnl : Int]
Fills == [bar : Int, fill : Int, fee : Int]

\* What the account holds is the initial cash, what the closed trades made
\* and the open position at its cost.
Account ==
  /\ stTrades \in Seq(Trips) /\ Earning(stTrades)
  /\ stShares \in Nat /\ stCash \in Nat /\ stEntry \in Fills
  /\ stShares = 0 => stEntry = NoEntry
  /\ stCash = ((st.initial_cash * Unit + Closed(stTrades)) - stShares * stEntry.fill) - stEntry.fee

MoneyInv ==
  /\ stPc \in {"signals", "replay", "done"}
  /\ stPc # "done" => st \in StrategyInputs
  /\ stPc = "signals" =>
        /\ stBar = 1 /\ stCash = st.initial_cash * Unit /\ stShares = 0
        /\ stEntry = NoEntry /\ stTrades = <<>> /\ stEquity = <<>>
  /\ stPc = "replay" =>
        /\ ~Refused /\ stBar \in 1..Len(st.bars) /\ Account
        /\ stEquity \in Seq(Int) /\ Len(stEquity) = stBar - 1
  /\ EquityIsExplained

\* Unit and the other rates.
LEMMA Rates == Bps \in Nat \ {0} /\ Unit \in Nat \ {0}
  BY StrategyConstants DEF Unit

\* What run_backtest has checked before it replays.
LEMMA Checked ==
  ASSUME st \in StrategyInputs, ~Refused
  PROVE  /\ st.initial_cash \in Nat \ {0}
         /\ st.commission \in 0..(Bps - 1) /\ st.slippage \in 0..(Bps - 1)
         /\ \A i \in 1..Len(st.bars) :
               st.bars[i].open \in Nat \ {0} /\ st.bars[i].close \in Nat \ {0}
<1> DEFINE bars == st.bars
<1>1. st.initial_cash \in Int /\ bars \in Seq([open : Int, close : Int])
  BY StrategyConstants
<1>2. /\ ~(st.initial_cash <= 0)
      /\ st.commission \in 0..(Bps - 1) /\ st.slippage \in 0..(Bps - 1)
      /\ \A i \in DOMAIN bars : ~(bars[i].open <= 0) /\ ~(bars[i].close <= 0)
  BY Zenon DEF Refused
<1> HIDE DEF bars
<1>3. \A i \in 1..Len(bars) : bars[i].open \in Nat \ {0} /\ bars[i].close \in Nat \ {0}
  <2> TAKE i \in 1..Len(bars)
  <2>1. i \in DOMAIN bars
    BY <1>1
  <2>2. bars[i] \in [open : Int, close : Int]
    BY <1>1, ElementOfSeq
  <2> QED BY <1>2, <2>1, <2>2
<1> QED BY <1>1, <1>2, <1>3 DEF bars

\* The price of a fill is a natural number, and of a buy a positive one.
LEMMA FillTypes ==
  ASSUME st \in StrategyInputs, ~Refused, NEW i \in 1..Len(st.bars)
  PROVE  BuyFill(i) \in Nat \ {0} /\ SellFill(i) \in Nat
<1> DEFINE p == PriceAt(i)
<1>1. p \in Nat \ {0}
  BY Checked DEF PriceAt
<1>2. Bps \in Nat \ {0} /\ st.slippage \in 0..(Bps - 1)
  BY Checked, Rates
<1>3. Bps + st.slippage \in Nat \ {0} /\ Bps - st.slippage \in Nat
  BY <1>2
<1>4. BuyFill(i) = (p * (Bps + st.slippage)) * Bps /\ SellFill(i) = (p * (Bps - st.slippage)) * Bps
  BY DEF BuyFill, SellFill
<1> HIDE DEF p
<1>5. p * (Bps + st.slippage) \in Nat \ {0} /\ p * (Bps - st.slippage) \in Nat
  BY <1>1, <1>3
<1> QED BY <1>2, <1>4, <1>5

\* A fee is at most what it is charged on.
LEMMA FeeIsBounded ==
  ASSUME st \in StrategyInputs, ~Refused, NEW shares \in Nat, NEW fill \in Nat
  PROVE  /\ Fee(shares, fill) \in Nat /\ Fee(shares, fill) <= shares * fill
         /\ Bps * Fee(shares, fill) <= (shares * fill) * st.commission
<1> DEFINE v == shares * fill
           c == st.commission
           fee == (v * c) \div Bps
<1>1. v \in Nat
  BY ProductIsNatural
<1>2. c \in Nat /\ c < Bps /\ Bps \in Nat \ {0}
  BY Checked, Rates
<1>3. Fee(shares, fill) = fee
  BY DEF Fee
<1> HIDE DEF v, c
<1>4. v * c \in Nat
  BY <1>1, <1>2, ProductIsNatural
<1>5. fee \in Nat /\ Bps * fee <= v * c
  BY <1>2, <1>4, Quotient
<1> HIDE DEF fee
<1>6. fee * Bps <= v * Bps
  <2>1. c * v <= Bps * v
    BY <1>1, <1>2, Monotone
  <2>2. c * v = v * c /\ Bps * v = v * Bps /\ Bps * fee = fee * Bps
    BY <1>1, <1>2, <1>5, Commutes
  <2>3. v * Bps \in Int /\ Bps * fee \in Int
    BY <1>1, <1>2, <1>5, ProductIsInteger
  <2> QED BY <1>4, <1>5, <2>1, <2>2, <2>3
<1>7. fee <= v
  BY <1>1, <1>2, <1>5, <1>6, Cancels
<1> QED BY <1>3, <1>5, <1>7 DEF v, c

\* A buy costs, fee included, no more than the cash there is.
LEMMA BuyIsAffordable ==
  ASSUME st \in StrategyInputs, ~Refused, stCash \in Nat, NEW i \in 1..Len(st.bars)
  PROVE  /\ Affordable(i) \in Nat
         /\ Affordable(i) * BuyFill(i) + Fee(Affordable(i), BuyFill(i)) <= stCash
<1> DEFINE q == Affordable(i)
           b == BuyFill(i)
           c == st.commission
           cost == q * b
           fee == Fee(q, b)
<1>1. b \in Nat \ {0} /\ c \in Nat /\ Bps \in Nat \ {0}
  BY FillTypes, Checked, Rates
<1>2. Bps + c \in Nat \ {0}
  BY <1>1
<1>3. q = (stCash * Bps) \div (b * (Bps + c))
  BY DEF Affordable
<1> HIDE DEF q, b, c
<1>4. b * (Bps + c) \in Nat \ {0} /\ stCash * Bps \in Nat
  BY <1>1, <1>2
<1>5. q \in Nat /\ (b * (Bps + c)) * q <= stCash * Bps
  BY <1>3, <1>4, Quotient
<1>6. cost \in Nat
  BY <1>1, <1>5, ProductIsNatural
<1>7. fee \in Nat /\ Bps * fee <= cost * c
  BY <1>1, <1>5, FeeIsBounded DEF c
<1>8. (b * (Bps + c)) * q = (cost * Bps) + (cost * c)
  <2>1. (b * (Bps + c)) * q = q * (b * (Bps + c))
    BY <1>4, <1>5, Commutes
  <2>2. q * (b * (Bps + c)) = cost * (Bps + c)
    BY <1>1, <1>2, <1>5, Commutes
  <2>3. cost * (Bps + c) = (cost * Bps) + (cost * c)
    BY <1>1, <1>6, Distributes
  <2> QED BY <2>1, <2>2, <2>3
<1> HIDE DEF cost, fee
<1>9. (cost + fee) * Bps <= stCash * Bps
  <2>1. (cost + fee) * Bps = Bps * (cost + fee) /\ Bps * (cost + fee) = (Bps * cost) + (Bps * fee)
        /\ Bps * cost = cost * Bps
    BY <1>1, <1>6, <1>7, Commutes, Distributes
  <2>2. Bps * fee \in Int /\ cost * Bps \in Int /\ cost * c \in Int
    BY <1>1, <1>6, <1>7, ProductIsInteger
  <2> QED BY <1>4, <1>5, <1>7, <1>8, <2>1, <2>2
<1>10. cost + fee <= stCash
  BY <1>1, <1>6, <1>7, <1>9, Cancels
<1> QED BY <1>5, <1>10 DEF q, b, cost, fee

\* The equity of a bar is what the account holds, its shares at the close.
LEMMA MarkExplains ==
  ASSUME st \in StrategyInputs, ~Refused, st' = st, Account',
         NEW i \in 1..Len(st.bars), Mark(i, stCash', stShares'),
         stEquity \in Seq(Int), Len(stEquity) = i - 1
  PROVE  EquityIsExplained' /\ stEquity' \in Seq(Int) /\ Len(stEquity') = i
<1> DEFINE close == st.bars[i].close
           fill == stEntry'.fill
           n == stShares'
           init == st.initial_cash * Unit
           e == stCash' + n * close * Unit
<1>1. /\ close \in Int /\ fill \in Int /\ n \in Int /\ init \in Int /\ Unit \in Int
      /\ stEntry'.fee \in Int /\ stCash' \in Nat /\ Closed(stTrades') \in Int
  <2>1. /\ close \in Int /\ n \in Int /\ st.initial_cash \in Int /\ Unit \in Int
        /\ stCash' \in Nat /\ stEntry' \in Fills
    BY Checked, Rates DEF Account
  <2>2. stTrades' \in Seq(Trips) /\ Earning(stTrades')
    BY DEF Account
  <2>3. Closed(stTrades') \in Int
    BY <2>2, ClosedTypes
  <2> QED BY <2>1, <2>3, ProductIsInteger DEF Fills
<1>2. stCash' = ((init + Closed(stTrades')) - n * fill) - stEntry'.fee
  BY DEF Account
<1>3. e \in Int /\ stEquity' = Append(stEquity, e)
  <2>1. n * close * Unit \in Int
    BY <1>1, ProductIsInteger
  <2> QED BY <1>1, <2>1 DEF Mark
<1>4. /\ stEquity' \in Seq(Int) /\ Len(stEquity') = i /\ stEquity' # <<>>
      /\ Last(stEquity') = e
  <2> HIDE DEF e
  <2> QED BY <1>3 DEF Last
<1>5. e = (init + Closed(stTrades')) + (n * (close * Unit - fill) - stEntry'.fee)
  <2> HIDE DEF close, fill, n, init
  <2>1. close * Unit \in Int /\ n * fill \in Int /\ n * (close * Unit) \in Int
    BY <1>1, ProductIsInteger
  <2>2. n * close * Unit = n * (close * Unit)
    BY <1>1, Commutes
  <2>3. n * (close * Unit - fill) = (n * (close * Unit)) - (n * fill)
    BY <1>1, <2>1, Distributes
  <2> QED BY <1>1, <1>2, <2>1, <2>2, <2>3
<1>6. EquityIsExplained'
  <2>1. /\ Last(stEquity') = (init + Closed(stTrades')) + (n * (st.bars[Len(stEquity')].close * Unit - fill) - stEntry'.fee)
        /\ stCash' >= 0
    <3> HIDE DEF e, fill, n, init
    <3> QED BY <1>1, <1>4, <1>5
  <2> QED BY <2>1 DEF EquityIsExplained
<1> QED BY <1>4, <1>6

\* A buy moves cash into the position it opens.
LEMMA BuyBalances ==
  ASSUME st \in StrategyInputs, ~Refused, stBar \in 1..Len(st.bars), Account, BuyBar
  PROVE  Account'
<1> DEFINE i == stBar
           q == Affordable(i)
           b == BuyFill(i)
           fee == Fee(q, b)
           init == st.initial_cash * Unit
<1>1. /\ st' = st /\ stTrades' = stTrades /\ stShares = 0 /\ stShares' = q
      /\ stEntry = NoEntry
  BY DEF BuyBar, Mark, Account
<1>2. q \in Nat /\ q * b + fee <= stCash /\ b \in Nat \ {0}
  BY BuyIsAffordable, FillTypes DEF Account
<1>3. fee \in Nat
  BY <1>2, FeeIsBounded
<1>4. stTrades \in Seq(Trips) /\ Earning(stTrades) /\ Closed(stTrades) \in Int
  BY ClosedTypes DEF Account
<1>5. init \in Int
  BY Checked, Rates, ProductIsInteger
<1>6. stCash = init + Closed(stTrades)
  <2>1. stCash = ((init + Closed(stTrades)) - 0 * 0) - 0
    BY <1>1 DEF Account, NoEntry
  <2> HIDE DEF init
  <2> QED BY <1>4, <1>5, <2>1
<1>7. q * b \in Nat
  BY <1>2, ProductIsNatural
<1>8. CASE q > 0
  <2>1. stCash' = stCash - q * b - fee /\ stEntry' = [bar |-> i, fill |-> b, fee |-> fee]
    BY <1>1, <1>8 DEF BuyBar
  <2>2. stCash' \in Nat
    <3> HIDE DEF q, b, fee
    <3> QED BY <1>2, <1>3, <1>7, <2>1 DEF Account
  <2>3. stEntry' \in Fills /\ stEntry'.fill = b /\ stEntry'.fee = fee
    BY <1>2, <1>3, <2>1 DEF Fills
  <2>4. stCash' = ((init + Closed(stTrades)) - q * b) - fee
    <3> HIDE DEF q, b, fee, init
    <3> QED BY <1>3, <1>4, <1>5, <1>6, <1>7, <2>1
  <2> HIDE DEF q, b, fee
  <2> QED BY <1>1, <1>2, <1>4, <1>8, <2>2, <2>3, <2>4 DEF Account
<1>9. CASE ~(q > 0)
  <2>1. stCash' = stCash /\ stEntry' = stEntry
    BY <1>1, <1>9 DEF BuyBar
  <2>2. q = 0
    <3> HIDE DEF q
    <3> QED BY <1>2, <1>9
  <2> HIDE DEF q, b, fee
  <2> QED BY <1>1, <2>1, <2>2 DEF Account
<1> QED BY <1>8, <1>9

\* A sale turns the position into cash and its profit into a trade.
LEMMA SellBalances ==
  ASSUME st \in StrategyInputs, ~Refused, stBar \in 1..Len(st.bars), Account, SellBar
  PROVE  Account'
<1> DEFINE i == stBar
           n == stShares
           s == SellFill(i)
           f == stEntry.fill
           fee == Fee(n, s)
           init == st.initial_cash * Unit
           trip == [entry |-> stEntry.bar, exit |-> i, shares |-> n,
                    pnl |-> (s - f) * n - stEntry.fee - fee]
<1>1. /\ st' = st /\ stShares' = 0 /\ stEntry' = NoEntry
      /\ stCash' = stCash + n * s - fee
      /\ stTrades' = Append(stTrades, trip)
  BY DEF SellBar, Mark
<1>2. n \in Nat /\ s \in Nat /\ stCash \in Nat /\ f \in Int /\ stEntry.fee \in Int /\ stEntry.bar \in Int
      /\ i \in Int
  BY FillTypes DEF Account, Fills
<1>3. fee \in Nat /\ fee <= n * s
  BY <1>2, FeeIsBounded
<1>4. stTrades \in Seq(Trips) /\ Earning(stTrades) /\ Closed(stTrades) \in Int
  BY ClosedTypes DEF Account
<1>5. init \in Int
  BY Checked, Rates, ProductIsInteger
<1>6. n * s \in Nat /\ n * f \in Int
  BY <1>2, ProductIsNatural, ProductIsInteger
<1>7. (s - f) * n = (n * s) - (n * f)
  <2> HIDE DEF n, s, f
  <2>1. (s - f) * n = n * (s - f)
    BY <1>2, Commutes
  <2> QED BY <1>2, <2>1, Distributes
<1>8. trip.pnl = (((n * s) - (n * f)) - stEntry.fee) - fee
  BY <1>7
<1>9. trip.pnl \in Int
  <2> HIDE DEF n, s, f, fee, trip
  <2> QED BY <1>2, <1>3, <1>6, <1>8
<1>10. trip \in Trips
  <2>1. (s - f) * n - stEntry.fee - fee \in Int
    BY <1>9
  <2> HIDE DEF s, f, fee
  <2> QED BY <1>2, <2>1 DEF Trips
<1>11. /\ Earning(stTrades') /\ Closed(stTrades') = trip.pnl + Closed(stTrades)
       /\ stTrades' \in Seq(Trips)
  <2> HIDE DEF trip
  <2>1. /\ Earning(Append(stTrades, trip))
        /\ Closed(Append(stTrades, trip)) = trip.pnl + Closed(stTrades)
    BY <1>4, <1>9, <1>10, ClosedGrows
  <2>2. Append(stTrades, trip) \in Seq(Trips)
    BY <1>4, <1>10
  <2> QED BY <1>1, <2>1, <2>2
<1>12. stCash = ((init + Closed(stTrades)) - n * f) - stEntry.fee
  BY DEF Account
<1>13. stCash' \in Nat /\ stCash' = init + Closed(stTrades')
  <2> HIDE DEF n, s, f, fee, init, trip
  <2>1. stCash' \in Nat
    BY <1>1, <1>2, <1>3, <1>6
  <2>2. init + Closed(stTrades') = stCash + (n * s - fee)
    BY <1>2, <1>3, <1>4, <1>5, <1>6, <1>8, <1>11, <1>12
  <2> QED BY <1>1, <1>2, <1>3, <1>6, <2>1, <2>2
<1>14. stCash' = ((init + Closed(stTrades')) - 0 * 0) - 0
  <2> HIDE DEF n, s, f, fee, init, trip
  <2> QED BY <1>13
<1>15. NoEntry \in Fills /\ NoEntry.fill = 0 /\ NoEntry.fee = 0
  BY DEF NoEntry, Fills
<1> HIDE DEF trip
<1> QED BY <1>1, <1>11, <1>13, <1>14, <1>15 DEF Account

LEMMA MoneyInvInit == EvalInit => MoneyInv
  BY DEF EvalInit, StrategyIdle, StrategyInit, MoneyInv, EquityIsExplained

LEMMA MoneyInvNext == MoneyInv /\ [EvalNext]_evalVars => MoneyInv'
<1> SUFFICES ASSUME MoneyInv, [EvalNext]_evalVars PROVE MoneyInv'
  OBVIOUS
<1>1. CASE ComputeSignals
  <2>1. /\ UNCHANGED <<st, stBar, stCash, stShares, stEntry, stTrades, stEquity>>
        /\ st \in StrategyInputs /\ stBar = 1 /\ stCash = st.initial_cash * Unit /\ stShares = 0
        /\ stEntry = NoEntry /\ stTrades = <<>> /\ stEquity = <<>>
    BY <1>1 DEF ComputeSignals, MoneyInv
  <2>2. EquityIsExplained'
    BY <2>1 DEF EquityIsExplained
  <2>3. CASE stPc' = "done"
    BY <2>1, <2>2, <2>3 DEF MoneyInv
  <2>4. CASE stPc' # "done"
    <3>1. stPc' = "replay" /\ ~Refused /\ st.bars # <<>>
      BY <1>1, <2>4 DEF ComputeSignals
    <3>2. st.bars \in Seq([open : Int, close : Int])
      BY <2>1, StrategyConstants
    <3>3. 1 \in 1..Len(st.bars)
      <4>1. Len(st.bars) \in Nat /\ Len(st.bars) # 0
        BY <3>1, <3>2, EmptySeq
      <4> QED BY <4>1
    <3>4. st.initial_cash * Unit \in Nat
      BY <2>1, <3>1, Checked, Rates, ProductIsNatural
    <3>5. Account
      <4>1. stTrades \in Seq(Trips) /\ Earning(stTrades) /\ Closed(stTrades) = 0
        BY <2>1, ClosedStarts DEF Earning
      <4>2. stEntry \in Fills /\ stEntry.fill = 0 /\ stEntry.fee = 0
        BY <2>1 DEF NoEntry, Fills
      <4>3. stCash = ((st.initial_cash * Unit + 0) - 0 * 0) - 0
        BY <2>1, <3>4
      <4> QED BY <2>1, <3>4, <4>1, <4>2, <4>3 DEF Account
    <3>6. Account' /\ ~Refused'
      BY <2>1, <3>1, <3>5 DEF Account, Refused
    <3>7. stEquity' \in Seq(Int) /\ Len(stEquity') = stBar' - 1
      BY <2>1
    <3> QED BY <2>1, <2>2, <3>1, <3>3, <3>6, <3>7 DEF MoneyInv
  <2> QED BY <2>3, <2>4
<1>2. ASSUME BuyBar \/ SellBar \/ HoldBar
      PROVE  MoneyInv'
  <2>1. /\ st \in StrategyInputs /\ ~Refused /\ stBar \in 1..Len(st.bars) /\ Account
        /\ stEquity \in Seq(Int) /\ Len(stEquity) = stBar - 1
    BY <1>2 DEF MoneyInv, BuyBar, SellBar, HoldBar, Replaying
  <2>2. Mark(stBar, stCash', stShares')
    BY <1>2 DEF BuyBar, SellBar, HoldBar
  <2>3. st' = st /\ stBar' = stBar + 1 /\ stPc' = IF stBar = Len(st.bars) THEN "done" ELSE "replay"
    BY <2>2 DEF Mark
  <2>4. Account'
    <3>1. CASE BuyBar
      BY <2>1, <3>1, BuyBalances
    <3>2. CASE SellBar
      BY <2>1, <3>2, SellBalances
    <3>3. CASE HoldBar
      BY <2>1, <2>3, <3>3 DEF HoldBar, Account
    <3> QED BY <1>2, <3>1, <3>2, <3>3
  <2>5. EquityIsExplained' /\ stEquity' \in Seq(Int) /\ Len(stEquity') = stBar
    BY <2>1, <2>2, <2>3, <2>4, MarkExplains
  <2>6. ~Refused'
    BY <2>1, <2>3 DEF Refused
  <2>7. Len(st.bars) \in Nat
    BY <2>1, StrategyConstants
  <2>8. stPc' = "replay" => stBar' \in 1..Len(st'.bars)
    BY <2>1, <2>3, <2>7
  <2>9. stBar' - 1 = stBar
    BY <2>1, <2>3
  <2> QED BY <2>1, <2>3, <2>4, <2>5, <2>6, <2>8, <2>9 DEF MoneyInv
<1>3. CASE UNCHANGED stVars
  BY <1>3 DEF MoneyInv, Account, Refused, EquityIsExplained, stVars
<1> QED BY <1>1, <1>2, <1>3 DEF EvalNext, StrategyNext, evalVars

(* At each bar of a replay the equity is the initial cash, the profit of   *)
(* the logged trades and what the open position has made since its fill,   *)
(* less its entry fee; the account is never overdrawn, although the fee is *)
(* charged on top of the fill (strategies/backtesting/engine.py buys       *)
(* cash // (fill * (1 + fee_rate)) shares).                                *)
THEOREM MoneyIsConserved == EvalSpec => []EquityIsExplained
<1>1. MoneyInv => EquityIsExplained
  BY DEF MoneyInv
<1> QED BY <1>1, MoneyInvInit, MoneyInvNext, PTL DEF EvalSpec

-----------------------------------------------------------------------------
(* The trade log of a model backtest.                                      *)

Sides == {-1, 0, 1}
LogRows == [direction : Sides, entry : Int, exit : Int]

\* Reading an interval keeps the log a log.
LEMMA ReadTypes ==
  ASSUME NEW pos \in Seq(Sides), NEW i \in 2..Len(pos), NEW log \in Seq(LogRows)
  PROVE  ReadInterval(pos, i, log) \in Seq(LogRows)
<1> DEFINE v == HeldInto(pos, i)
           more == [direction |-> v, entry |-> i - 1, exit |-> i]
           longer == [log EXCEPT ![Len(log)].exit = i]
<1>1. v \in Sides /\ i \in Int
  BY DEF HeldInto
<1>2. longer \in Seq(LogRows)
  <2>1. ASSUME NEW j \in 1..Len(log)
        PROVE  log[j] \in LogRows /\ [log[j] EXCEPT !.exit = i] \in LogRows
    <3>1. log[j] \in LogRows
      OBVIOUS
    <3> DEFINE r == log[j]
    <3> HIDE DEF r
    <3>2. r \in LogRows => [r EXCEPT !.exit = i] \in LogRows
      BY <1>1 DEF LogRows
    <3> QED BY <3>1, <3>2 DEF r
  <2>2. /\ Len(log) \in Nat /\ DOMAIN log = 1..Len(log)
        /\ longer = [j \in 1..Len(log) |->
                        IF j = Len(log) THEN [log[j] EXCEPT !.exit = i] ELSE log[j]]
    <3>1. Len(log) \in Nat /\ DOMAIN log = 1..Len(log)
      OBVIOUS
    <3> DEFINE last == [log[Len(log)] EXCEPT !.exit = i]
    <3> HIDE DEF last
    <3>2. longer = [log EXCEPT ![Len(log)] = last]
      BY Zenon DEF last
    <3>3. [log EXCEPT ![Len(log)] = last]
          = [j \in 1..Len(log) |-> IF j = Len(log) THEN last ELSE log[j]]
      BY <3>1
    <3> QED BY <3>1, <3>2, <3>3, Zenon DEF last
  <2> HIDE DEF longer
  <2>3. longer \in [1..Len(log) -> LogRows]
    BY <2>1, <2>2
  <2> QED BY <2>2, <2>3
<1>3. Append(log, more) \in Seq(LogRows)
  <2>1. more \in LogRows
    BY <1>1 DEF LogRows
  <2> HIDE DEF more
  <2> QED BY <2>1
<1> HIDE DEF longer, more
<1>4. ReadInterval(pos, i, log) \in {log, longer, Append(log, more)}
  BY DEF ReadInterval, longer, more
<1> QED BY <1>2, <1>3, <1>4

\* The log is read interval by interval.
LEMMA LogIsRead ==
  ASSUME NEW pos \in Seq(Sides), pos # <<>>
  PROVE  \E f \in [1..Len(pos) -> Seq(LogRows)] :
            /\ f[1] = <<>> /\ TradeLog(pos) = f[Len(pos)]
            /\ \A i \in 2..Len(pos) : f[i] = ReadInterval(pos, i, f[i - 1])
<1> DEFINE n == Len(pos)
           Step(f) == [i \in 1..n |-> IF i = 1 THEN <<>> ELSE ReadInterval(pos, i, f[i - 1])]
           run == CHOOSE f : f = Step(f)
           G == [x \in Int \X Seq(LogRows) |->
                   IF x[1] \in 2..n THEN ReadInterval(pos, x[1], x[2]) ELSE <<>>]
<1>1. n \in Nat \ {0}
  OBVIOUS
<1>2. G \in [Int \X Seq(LogRows) -> Seq(LogRows)]
  <2>1. ASSUME NEW x \in Int \X Seq(LogRows)
        PROVE  (IF x[1] \in 2..n THEN ReadInterval(pos, x[1], x[2]) ELSE <<>>) \in Seq(LogRows)
    <3>1. x[2] \in Seq(LogRows) /\ <<>> \in Seq(LogRows)
      OBVIOUS
    <3> QED BY <3>1, ReadTypes
  <2> QED BY <2>1
<1>3. ASSUME NEW f \in [1..n -> Seq(LogRows)], NEW i \in 1..n, i # 1
      PROVE  G[<<i, f[i - 1]>>] = ReadInterval(pos, i, f[i - 1])
  <2>1. <<i, f[i - 1]>> \in Int \X Seq(LogRows) /\ i \in 2..n
    BY <1>1, <1>3
  <2> DEFINE x == <<i, f[i - 1]>>
  <2>2. G[x] = IF x[1] \in 2..n THEN ReadInterval(pos, x[1], x[2]) ELSE <<>>
    BY <2>1 DEF G
  <2> QED BY <2>1, <2>2
<1> HIDE DEF G
<1>4. PICK f \in [1..n -> Seq(LogRows)] : Runs(f, 1, n, <<>>, G)
  <2>1. <<>> \in Seq(LogRows) /\ 1 \in Int /\ n \in Int
    BY <1>1
  <2> HIDE DEF n
  <2> QED BY <1>2, <2>1, RunExists
<1>5. ASSUME NEW h \in [1..n -> Seq(LogRows)]
      PROVE  Step(h) = [i \in 1..n |-> IF i = 1 THEN <<>> ELSE G[<<i, h[i - 1]>>]]
  <2> HIDE DEF n
  <2> QED BY <1>3
<1>6. f = Step(f)
  BY <1>4, <1>5 DEF Runs
<1>7. run = Step(run)
  <2> HIDE DEF Step
  <2> QED BY <1>6
<1>8. TradeLog(pos) = run[n]
  BY DEF TradeLog
<1> HIDE DEF run
<1>9. \A i \in 1..n : run[i] = f[i]
  <2> DEFINE Bad == {i \in 1..n : run[i] # f[i]}
  <2> SUFFICES ASSUME Bad # {} PROVE FALSE
    OBVIOUS
  <2>1. Bad \in SUBSET Nat
    BY <1>1
  <2>2. PICK i \in Bad : \A j \in Bad : i <= j
    <3> HIDE DEF Bad
    <3> QED BY <2>1, LeastNatural
  <2>3. i \in 1..n /\ run[i] # f[i]
    OBVIOUS
  <2>4. run[i] = IF i = 1 THEN <<>> ELSE ReadInterval(pos, i, run[i - 1])
    BY <1>7, <2>3
  <2>5. f[i] = IF i = 1 THEN <<>> ELSE ReadInterval(pos, i, f[i - 1])
    BY <1>6, <2>3
  <2>6. i # 1 => i - 1 \in 1..n /\ ~(i <= i - 1)
    BY <1>1, <2>3
  <2>7. i # 1 => run[i - 1] = f[i - 1]
    BY <2>2, <2>6
  <2> QED BY <2>3, <2>4, <2>5, <2>7
<1>10. f[1] = <<>> /\ \A i \in 2..n : f[i] = ReadInterval(pos, i, f[i - 1])
  <2>1. 1 \in 1..n /\ \A i \in 2..n : i \in 1..n /\ i # 1
    BY <1>1
  <2> HIDE DEF n
  <2> QED BY <1>6, <2>1
<1> QED BY <1>1, <1>4, <1>8, <1>9, <1>10


Covering(log, m) == {j \in DOMAIN log : log[j].entry < m /\ m <= log[j].exit}

\* What the turnover of the intervals that end by bar k is charged for.
Moved(pos) == [i \in 1..Len(pos) |->
                 IF i > 1 THEN Magnitude(HeldInto(pos, i) - HeldInto(pos, i - 1)) ELSE 0]

\* The log has what was held up to bar k; a position that is open at bar k is
\* the last trade, and its exit is still to be paid for.
LoggedAt(pos, log, m) ==
  IF HeldInto(pos, m) = 0 THEN Covering(log, m) = {}
  ELSE \E j \in Covering(log, m) : Covering(log, m) = {j} /\ log[j].direction = HeldInto(pos, m)
EndBy(log, k) == \A j \in DOMAIN log : log[j].entry < log[j].exit /\ log[j].exit <= k
OpenIsLast(pos, log, k) ==
  HeldInto(pos, k) # 0 =>
     Len(log) # 0 /\ log[Len(log)].exit = k /\ log[Len(log)].direction = HeldInto(pos, k)
Charged(pos, log, k) ==
  Summed(Moved(pos), 1..k) + Magnitude(HeldInto(pos, k)) = 2 * Len(log)

ReadUpTo(pos, log, k) ==
  /\ \A m \in 2..k : LoggedAt(pos, log, m)
  /\ EndBy(log, k)
  /\ OpenIsLast(pos, log, k)
  /\ Charged(pos, log, k)

LEMMA HeldTypes ==
  ASSUME NEW pos \in Seq(Sides), NEW i \in 1..Len(pos)
  PROVE  HeldInto(pos, i) \in Sides
<1>1. Len(pos) \in Nat
  OBVIOUS
<1>2. i > 1 => i - 1 \in 1..Len(pos)
  BY <1>1
<1>3. i > 1 => pos[i - 1] \in Sides
  BY <1>2
<1> QED BY <1>3 DEF HeldInto, Sides

LEMMA MovedTypes ==
  ASSUME NEW pos \in Seq(Sides), NEW k \in 1..Len(pos)
  PROVE  /\ Moved(pos)[k] = IF k > 1 THEN Magnitude(HeldInto(pos, k) - HeldInto(pos, k - 1)) ELSE 0
         /\ IsFiniteSet(1..k) /\ Whole(Moved(pos), 1..k)
         /\ Summed(Moved(pos), 1..k) \in Int
<1>1. k \in Nat /\ Len(pos) \in Nat /\ IsFiniteSet(1..k)
  BY FS_Interval
<1>2. Whole(Moved(pos), 1..k)
  <2> SUFFICES ASSUME NEW i \in 1..k PROVE Moved(pos)[i] \in Int
    BY DEF Whole
  <2>1. i \in 1..Len(pos) /\ (i > 1 => i - 1 \in 1..Len(pos))
    BY <1>1
  <2>2. HeldInto(pos, i) \in Sides /\ (i > 1 => HeldInto(pos, i - 1) \in Sides)
    BY <2>1, HeldTypes
  <2>3. Moved(pos)[i] = IF i > 1 THEN Magnitude(HeldInto(pos, i) - HeldInto(pos, i - 1)) ELSE 0
    BY <2>1 DEF Moved
  <2> QED BY <2>2, <2>3 DEF Magnitude, Sides
<1>3. Summed(Moved(pos), 1..k) \in Int
  BY <1>1, <1>2, SummedInteger
<1> QED BY <1>1, <1>2, <1>3 DEF Moved

\* The first bar ends no interval.
LEMMA NothingMovedYet ==
  ASSUME NEW pos \in Seq(Sides), NEW k \in 1..Len(pos), k = 1
  PROVE  Summed(Moved(pos), 1..k) = 0
<1>1. k \in 1..k /\ (1..k) \ {k} = {} /\ ~(k > 1)
  OBVIOUS
<1>2. IsFiniteSet(1..k) /\ Whole(Moved(pos), 1..k) /\ Moved(pos)[k] = 0
  BY <1>1, MovedTypes
<1>3. Summed(Moved(pos), 1..k) = Moved(pos)[k] + Summed(Moved(pos), (1..k) \ {k})
  BY <1>1, <1>2, SummedTakes
<1>4. Summed(Moved(pos), (1..k) \ {k}) = 0
  <2>1. Summed(Moved(pos), {}) = 0
    BY SummedEmpty
  <2> QED BY <1>1, <2>1, Zenon
<1> QED BY <1>2, <1>3, <1>4

\* An interval adds its own turnover.
LEMMA MovedGrows ==
  ASSUME NEW pos \in Seq(Sides), NEW k \in 2..Len(pos)
  PROVE  Summed(Moved(pos), 1..k)
         = Magnitude(HeldInto(pos, k) - HeldInto(pos, k - 1)) + Summed(Moved(pos), 1..(k - 1))
<1>1. k \in 1..Len(pos) /\ k \in 1..k /\ k > 1 /\ (1..k) \ {k} = 1..(k - 1)
  OBVIOUS
<1>2. IsFiniteSet(1..k) /\ Whole(Moved(pos), 1..k)
  BY <1>1, MovedTypes
<1>3. Summed(Moved(pos), 1..k) = Moved(pos)[k] + Summed(Moved(pos), (1..k) \ {k})
  BY <1>1, <1>2, SummedTakes
<1>4. Moved(pos)[k] = Magnitude(HeldInto(pos, k) - HeldInto(pos, k - 1))
  BY <1>1, MovedTypes
<1> QED BY <1>1, <1>3, <1>4

LEMMA ReadKeeps ==
  ASSUME NEW pos \in Seq(Sides), NEW k \in 2..Len(pos), NEW log \in Seq(LogRows),
         ReadUpTo(pos, log, k - 1)
  PROVE  ReadUpTo(pos, ReadInterval(pos, k, log), k)
<1> DEFINE v == HeldInto(pos, k)
           u == HeldInto(pos, k - 1)
           n == Len(log)
           more == ReadInterval(pos, k, log)
           s == Summed(Moved(pos), 1..k)
           t == Summed(Moved(pos), 1..(k - 1))
<1>1. /\ k \in Nat /\ n \in Nat /\ k - 1 \in 1..Len(pos) /\ k \in 1..Len(pos)
      /\ DOMAIN log = 1..n /\ k >= 2
  OBVIOUS
<1>2. v \in Sides /\ u \in Sides
  BY <1>1, HeldTypes
<1>3. \A j \in 1..n : log[j] \in LogRows /\ log[j].entry \in Int /\ log[j].exit \in Int
  <2>1. \A j \in 1..n : log[j] \in LogRows
    OBVIOUS
  <2>2. \A r \in LogRows : r.entry \in Int /\ r.exit \in Int
    BY DEF LogRows
  <2> QED BY <2>1, <2>2
<1>4. more \in Seq(LogRows)
  BY ReadTypes
<1>5. s = Magnitude(v - u) + t /\ t \in Int /\ t + Magnitude(u) = 2 * n
  <2>1. s = Magnitude(v - u) + t
    BY MovedGrows
  <2>2. t \in Int
    BY <1>1, MovedTypes
  <2>3. t + Magnitude(u) = 2 * n
    BY DEF ReadUpTo, Charged
  <2> QED BY <2>1, <2>2, <2>3
<1>6. /\ \A j \in 1..n : log[j].entry < log[j].exit /\ log[j].exit <= k - 1
      /\ u # 0 => n # 0 /\ log[n].exit = k - 1 /\ log[n].direction = u
  BY <1>1 DEF ReadUpTo, EndBy, OpenIsLast
<1>7. \A m \in 2..(k - 1) : LoggedAt(pos, log, m)
  BY DEF ReadUpTo
<1>8. \A m \in 2..k : m \in 2..(k - 1) \/ m = k
  BY <1>1
<1>9. ASSUME NEW e \in Int, e <= k - 1 PROVE e <= k /\ ~(k <= e)
  BY <1>1, <1>9
\* A position that is flat leaves the log as it is.
<1>10. CASE v = 0
  <2>1. more = log
    BY <1>10 DEF ReadInterval
  <2>2. Covering(log, k) = {}
    BY <1>1, <1>3, <1>6, <1>9 DEF Covering
  <2>3. LoggedAt(pos, log, k)
    BY <1>10, <2>2 DEF LoggedAt
  <2>4. Charged(pos, log, k)
    <3>1. s + Magnitude(v) = 2 * n
      <4> HIDE DEF s, t, u, v, n
      <4> QED BY <1>1, <1>2, <1>5, <1>10 DEF Magnitude, Sides
    <3> QED BY <3>1 DEF Charged
  <2>5. EndBy(log, k)
    BY <1>1, <1>3, <1>6, <1>9 DEF EndBy
  <2>6. OpenIsLast(pos, log, k)
    BY <1>10 DEF OpenIsLast
  <2>7. ASSUME NEW m \in 2..k PROVE LoggedAt(pos, log, m)
    <3>1. m \in 2..(k - 1) \/ m = k
      BY <1>8
    <3> QED BY <1>7, <2>3, <3>1
  <2>8. ReadUpTo(pos, log, k)
    BY <2>4, <2>5, <2>6, <2>7 DEF ReadUpTo
  <2> HIDE DEF more
  <2>9. ReadUpTo(pos, more, k)
    BY <2>1, <2>8
  <2> QED BY <2>9 DEF more
\* One that is held on prolongs the last trade.
<1>11. CASE v # 0 /\ u = v
  <2>1. more = [log EXCEPT ![n].exit = k]
    BY <1>11 DEF ReadInterval
  <2>2. n \in 1..n /\ log[n].exit = k - 1 /\ log[n].direction = v /\ log[n] \in LogRows
    BY <1>1, <1>3, <1>6, <1>11
  <2> DEFINE last == [log[n] EXCEPT !.exit = k]
  <2>3. last.entry = log[n].entry /\ last.exit = k /\ last.direction = v
    <3> DEFINE r == log[n]
    <3> HIDE DEF r
    <3>1. r \in LogRows => /\ [r EXCEPT !.exit = k].entry = r.entry
                           /\ [r EXCEPT !.exit = k].exit = k
                           /\ [r EXCEPT !.exit = k].direction = r.direction
      BY DEF LogRows
    <3> QED BY <2>2, <3>1 DEF r
  <2>4. more = [log EXCEPT ![n] = last]
    <3> HIDE DEF more, n
    <3> QED BY <2>1, Zenon
  <2> HIDE DEF last
  <2>5. /\ DOMAIN more = 1..n /\ Len(more) = n /\ more[n] = last
        /\ \A j \in 1..n : j # n => more[j] = log[j]
    <3> HIDE DEF more
    <3>1. more = [j \in 1..n |-> IF j = n THEN last ELSE log[j]]
      BY <1>1, <2>4
    <3> QED BY <1>1, <1>4, <2>2, <3>1
  <2> HIDE DEF more
  <2>6. \A j \in 1..n : /\ more[j].direction = log[j].direction /\ more[j].entry = log[j].entry
                        /\ more[j].exit = IF j = n THEN k ELSE log[j].exit
    <3> TAKE j \in 1..n
    <3>1. CASE j = n
      BY <2>2, <2>3, <2>5, <3>1
    <3>2. CASE j # n
      <4>1. more[j] = log[j]
        BY <2>5, <3>2
      <4> QED BY <3>2, <4>1
    <3> QED BY <3>1, <3>2
  <2> HIDE DEF n
  <2>7. ASSUME NEW m \in 2..(k - 1) PROVE Covering(more, m) = Covering(log, m)
    <3>1. m <= k /\ m <= k - 1
      BY <1>1
    <3>2. \A j \in 1..n : m <= more[j].exit <=> m <= log[j].exit
      BY <2>2, <2>6, <3>1
    <3> QED BY <1>1, <2>5, <2>6, <3>2 DEF Covering
  <2>8. Covering(more, k) = {n}
    <3>1. \A j \in 1..n : k <= more[j].exit <=> j = n
      <4> TAKE j \in 1..n
      <4>1. ~(k <= log[j].exit) /\ k <= k
        BY <1>1, <1>3, <1>6, <1>9
      <4> QED BY <2>6, <4>1
    <3>2. more[n].entry < k
      <4>1. \A e \in Int : e < k - 1 => e < k
        BY <1>1
      <4> QED BY <1>3, <1>6, <2>2, <2>6, <4>1
    <3> QED BY <2>2, <2>5, <3>1, <3>2 DEF Covering
  <2>9. ASSUME NEW m \in 2..k PROVE LoggedAt(pos, more, m)
    <3>1. CASE m = k
      BY <1>11, <2>2, <2>6, <2>8, <3>1 DEF LoggedAt
    <3>2. CASE m # k
      <4>1. m \in 2..(k - 1) /\ LoggedAt(pos, log, m) /\ Covering(more, m) = Covering(log, m)
        BY <1>7, <1>8, <2>7, <3>2
      <4>2. \A j \in Covering(log, m) : more[j].direction = log[j].direction
        BY <1>1, <2>6 DEF Covering
      <4> QED BY <4>1, <4>2 DEF LoggedAt
    <3> QED BY <3>1, <3>2
  <2>10. EndBy(more, k)
    <3> SUFFICES ASSUME NEW j \in 1..n PROVE more[j].entry < more[j].exit /\ more[j].exit <= k
      BY <2>5 DEF EndBy
    <3>1. /\ log[j].entry \in Int /\ log[j].exit \in Int /\ log[j].entry < log[j].exit
          /\ log[j].exit <= k - 1
      BY <1>3, <1>6
    <3>2. \A e, x \in Int : e < x /\ x <= k - 1 => e < k /\ x <= k
      BY <1>1
    <3>3. log[j].entry < k /\ log[j].exit <= k /\ k <= k
      BY <1>1, <3>1, <3>2
    <3> QED BY <2>6, <3>1, <3>3
  <2>11. OpenIsLast(pos, more, k)
    BY <1>1, <2>2, <2>5, <2>6 DEF OpenIsLast
  <2>12. Charged(pos, more, k)
    <3>1. s + Magnitude(v) = 2 * n
      <4> HIDE DEF s, t, u, v
      <4> QED BY <1>1, <1>2, <1>5, <1>11 DEF Magnitude, Sides
    <3> QED BY <2>5, <3>1 DEF Charged
  <2> QED BY <2>9, <2>10, <2>11, <2>12 DEF ReadUpTo, more
\* Another one opens a trade.
<1>12. CASE v # 0 /\ u # v
  <2> DEFINE new == [direction |-> v, entry |-> k - 1, exit |-> k]
  <2>1. more = Append(log, new)
    BY <1>12 DEF ReadInterval
  <2>2. new.direction = v /\ new.entry = k - 1 /\ new.exit = k
    OBVIOUS
  <2> HIDE DEF new, more
  <2>3. /\ DOMAIN more = 1..(n + 1) /\ Len(more) = n + 1 /\ more[n + 1] = new
        /\ \A j \in 1..n : more[j] = log[j]
    BY <2>1
  <2> HIDE DEF n
  <2>4. \A j : j \in 1..(n + 1) <=> j \in 1..n \/ j = n + 1
    BY <1>1
  <2>5. ASSUME NEW m \in 2..(k - 1) PROVE Covering(more, m) = Covering(log, m)
    <3>1. ~(more[n + 1].entry < m)
      BY <1>1, <2>2, <2>3
    <3> QED BY <1>1, <2>3, <2>4, <3>1 DEF Covering
  <2>6. Covering(more, k) = {n + 1}
    <3>1. \A j \in 1..n : ~(k <= more[j].exit)
      BY <1>3, <1>6, <1>9, <2>3
    <3>2. more[n + 1].entry < k /\ k <= more[n + 1].exit
      BY <1>1, <2>2, <2>3
    <3> QED BY <2>3, <2>4, <3>1, <3>2 DEF Covering
  <2>7. ASSUME NEW m \in 2..k PROVE LoggedAt(pos, more, m)
    <3>1. CASE m = k
      BY <1>12, <2>2, <2>3, <2>6, <3>1 DEF LoggedAt
    <3>2. CASE m # k
      <4>1. m \in 2..(k - 1) /\ LoggedAt(pos, log, m) /\ Covering(more, m) = Covering(log, m)
        BY <1>7, <1>8, <2>5, <3>2
      <4>2. \A j \in Covering(log, m) : more[j] = log[j]
        BY <1>1, <2>3 DEF Covering
      <4> QED BY <4>1, <4>2 DEF LoggedAt
    <3> QED BY <3>1, <3>2
  <2>8. EndBy(more, k)
    <3> SUFFICES ASSUME NEW j \in 1..(n + 1) PROVE more[j].entry < more[j].exit /\ more[j].exit <= k
      BY <2>3 DEF EndBy
    <3>1. CASE j = n + 1
      BY <1>1, <2>2, <2>3, <3>1
    <3>2. CASE j \in 1..n
      BY <1>3, <1>6, <1>9, <2>3, <3>2
    <3> QED BY <2>4, <3>1, <3>2
  <2>9. OpenIsLast(pos, more, k)
    BY <1>1, <2>2, <2>3 DEF OpenIsLast
  <2>10. Charged(pos, more, k)
    <3>1. s + Magnitude(v) = 2 * (n + 1)
      <4> HIDE DEF s, t, u, v
      <4> QED BY <1>1, <1>2, <1>5, <1>12 DEF Magnitude, Sides
    <3> QED BY <2>3, <3>1 DEF Charged
  <2> QED BY <2>7, <2>8, <2>9, <2>10 DEF ReadUpTo, more
<1> QED BY <1>10, <1>11, <1>12


\* The whole log has what was held, and its trades are what was charged for.
LEMMA LogHasWhatWasHeld ==
  ASSUME NEW pos \in Seq(Sides)
  PROVE  /\ \A m \in 2..Len(pos) : LoggedAt(pos, TradeLog(pos), m)
         /\ TotalTurnover(pos) = 2 * Len(TradeLog(pos))
<1> DEFINE n == Len(pos)
           Cost == [i \in DOMAIN pos |-> TurnoverAt(pos, i)]
<1>1. n \in Nat /\ DOMAIN pos = 1..n /\ (n = 0 <=> pos = <<>>)
  OBVIOUS
<1>2. TotalTurnover(pos) = Summed(Cost, 1..n)
  BY <1>1 DEF TotalTurnover, Summed
<1>3. CASE pos = <<>>
  <2>1. TradeLog(pos) = <<>> /\ Len(<<>>) = 0 /\ n = 0 /\ 1..0 = {} /\ 2..0 = {}
    BY <1>1, <1>3 DEF TradeLog
  <2>2. Summed(Cost, {}) = 0
    BY SummedEmpty
  <2> HIDE DEF n, Cost
  <2> QED BY <1>2, <2>1, <2>2 DEF n
<1>4. CASE pos # <<>>
  <2>1. PICK f \in [1..n -> Seq(LogRows)] :
            /\ f[1] = <<>> /\ TradeLog(pos) = f[n]
            /\ \A i \in 2..n : f[i] = ReadInterval(pos, i, f[i - 1])
    BY <1>4, LogIsRead
  <2>2. n \in Nat \ {0} /\ 1 \in 1..n /\ n \in 1..n
    BY <1>1, <1>4
  <2>3. ReadUpTo(pos, f[1], 1)
    <3>1. 2..1 = {} /\ HeldInto(pos, 1) = 0 /\ f[1] = <<>> /\ Len(<<>>) = 0 /\ DOMAIN <<>> = {}
      BY <2>1 DEF HeldInto
    <3>2. Summed(Moved(pos), 1..1) = 0
      BY <2>2, NothingMovedYet
    <3> QED BY <3>1, <3>2 DEF ReadUpTo, EndBy, OpenIsLast, Charged, Magnitude
  <2>4. ASSUME NEW k \in 2..n, ReadUpTo(pos, f[k - 1], k - 1)
        PROVE  ReadUpTo(pos, f[k], k)
    <3>1. f[k - 1] \in Seq(LogRows) /\ f[k] = ReadInterval(pos, k, f[k - 1])
      BY <2>1, <2>2
    <3> QED BY <2>4, <3>1, ReadKeeps
  <2>5. \A k \in 1..n : ReadUpTo(pos, f[k], k)
    <3> DEFINE Bad == {k \in 1..n : ~ReadUpTo(pos, f[k], k)}
    <3> SUFFICES ASSUME Bad # {} PROVE FALSE
      OBVIOUS
    <3>1. Bad \in SUBSET Nat
      BY <2>2
    <3>2. PICK k \in Bad : \A j \in Bad : k <= j
      <4> HIDE DEF Bad
      <4> QED BY <3>1, LeastNatural
    <3>3. k \in 1..n /\ ~ReadUpTo(pos, f[k], k)
      OBVIOUS
    <3>4. k # 1
      BY <2>3, <3>3
    <3>5. k \in 2..n /\ k - 1 \in 1..n /\ ~(k <= k - 1)
      BY <2>2, <3>3, <3>4
    <3>6. ReadUpTo(pos, f[k - 1], k - 1)
      BY <3>2, <3>5
    <3> QED BY <2>4, <3>3, <3>5, <3>6
  <2>6. ReadUpTo(pos, TradeLog(pos), n)
    BY <2>1, <2>2, <2>5
  <2> DEFINE log == TradeLog(pos)
             v == HeldInto(pos, n)
             s == Summed(Moved(pos), 1..n)
             t == Summed(Moved(pos), 1..(n - 1))
             l == Len(log)
  <2>7. s + Magnitude(v) = 2 * l /\ s \in Int /\ v \in Sides /\ l \in Nat
    <3>1. log \in Seq(LogRows)
      BY <2>1, <2>2
    <3>2. l \in Nat
      BY <3>1
    <3>3. s \in Int /\ v \in Sides
      BY <2>2, MovedTypes, HeldTypes
    <3> QED BY <2>6, <3>2, <3>3 DEF ReadUpTo, Charged
  <2>8. Summed(Cost, 1..n) = s + Magnitude(v)
    <3>1. \A i \in 1..n : Cost[i] = Moved(pos)[i] + (IF i > 1 /\ i = n THEN Magnitude(v) ELSE 0)
      <4> TAKE i \in 1..n
      <4>1. Cost[i] = TurnoverAt(pos, i)
        BY <1>1
      <4>2. Moved(pos)[i] = IF i > 1 THEN Magnitude(HeldInto(pos, i) - HeldInto(pos, i - 1)) ELSE 0
        BY DEF Moved
      <4> QED BY <4>1, <4>2 DEF TurnoverAt
    <3>2. IsFiniteSet(1..n) /\ Whole(Moved(pos), 1..n)
      BY <2>2, MovedTypes
    <3>3. \A i \in 1..n : Moved(pos)[i] \in Int
      BY <3>2 DEF Whole
    <3>4. Magnitude(v) \in Int /\ (n = 1 => v = 0 /\ Magnitude(v) = 0)
      <4>1. n = 1 => v = 0
        BY DEF HeldInto
      <4> HIDE DEF v
      <4> QED BY <2>7, <4>1 DEF Magnitude, Sides
    <3> HIDE DEF Cost, v
    <3>5. \A i \in 1..n : Cost[i] \in Int
      <4> TAKE i \in 1..n
      <4>1. Cost[i] = Moved(pos)[i] + (IF i > 1 /\ i = n THEN Magnitude(v) ELSE 0)
        BY <3>1
      <4>2. Moved(pos)[i] \in Int /\ Magnitude(v) \in Int
        BY <3>3, <3>4
      <4> QED BY <4>1, <4>2
    <3>6. Summed(Cost, 1..n) = Cost[n] + Summed(Cost, (1..n) \ {n})
      BY <2>2, <3>2, <3>5, SummedTakes DEF Whole
    <3>7. s = Moved(pos)[n] + Summed(Moved(pos), (1..n) \ {n})
      BY <2>2, <3>2, SummedTakes
    <3>8. /\ IsFiniteSet((1..n) \ {n}) /\ Whole(Moved(pos), (1..n) \ {n})
          /\ \A i \in (1..n) \ {n} : Moved(pos)[i] = Cost[i]
      <4>1. IsFiniteSet((1..n) \ {n})
        BY <3>2, FS_Subset
      <4>2. ASSUME NEW i \in (1..n) \ {n} PROVE Moved(pos)[i] = Cost[i]
        <5>1. Cost[i] = Moved(pos)[i] + 0 /\ Moved(pos)[i] \in Int
          BY <3>1, <3>3
        <5> QED BY <5>1
      <4> QED BY <3>3, <4>1, <4>2 DEF Whole
    <3>9. Summed(Moved(pos), (1..n) \ {n}) = Summed(Cost, (1..n) \ {n})
          /\ Summed(Cost, (1..n) \ {n}) \in Int
      <4>1. Summed(Moved(pos), (1..n) \ {n}) = Summed(Cost, (1..n) \ {n})
        BY <3>8, SummedSame
      <4>2. Summed(Moved(pos), (1..n) \ {n}) \in Int
        BY <3>8, SummedInteger
      <4> QED BY <4>1, <4>2
    <3>10. Cost[n] = Moved(pos)[n] + Magnitude(v)
      <4>1. Cost[n] = Moved(pos)[n] + (IF n > 1 /\ n = n THEN Magnitude(v) ELSE 0)
        BY <2>2, <3>1
      <4>2. n > 1 \/ Magnitude(v) = 0
        <5> DEFINE z == Magnitude(v)
        <5> HIDE DEF n, z
        <5> QED BY <2>2, <3>4 DEF z
      <4> HIDE DEF n
      <4> QED BY <2>2, <3>3, <3>4, <4>1, <4>2
    <3> DEFINE rest == Summed(Cost, (1..n) \ {n})
               moved == Moved(pos)[n]
    <3>11. /\ Summed(Cost, 1..n) = moved + Magnitude(v) + rest
           /\ s = moved + rest /\ rest \in Int /\ moved \in Int
      BY <2>2, <3>3, <3>6, <3>7, <3>9, <3>10
    <3> HIDE DEF rest, moved, s
    <3> QED BY <3>4, <3>11
  <2>9. TotalTurnover(pos) = 2 * l
    BY <1>2, <2>7, <2>8
  <2>10. \A m \in 2..n : LoggedAt(pos, log, m)
    BY <2>6 DEF ReadUpTo
  <2> QED BY <2>9, <2>10
<1> QED BY <1>3, <1>4

\* A recorded prediction has a side and is of a decision day of the dataset.
LEMMA PredictionsHaveSides ==
  ASSUME BacktestInv, btPc = "score", NEW p \in btPreds
  PROVE  p.position \in Sides /\ p.fold \in Nat /\ p.d \in DecisionDays(BacktestRows)
<1>1. bt \in BacktestInputs /\ btRows = BacktestRows
  BY DEF BacktestInv, Configured, RowsAreTheDataset
<1>2. p \in Recorded(TestRows(btRows, DatasetFolds(btRows, bt)[p.fold]), p.fold) /\ p.fold \in Nat
  BY DEF BacktestInv, PredictionsAreRecords, FoldsBehind
<1>3. PICK r \in btRows : /\ p.d = r.d
                          /\ p.position = PositionFromForecast(bt.signal[r.d], bt.allow_short)
  BY <1>2 DEF Recorded, TestRows, Between
<1>4. r \in Dataset(bt.spec, bt.bars, bt.start, bt.end)
  BY <1>1 DEF BacktestRows
<1>5. r.inst \in DOMAIN bt.bars /\ r.d \in DecisionFilter(bt.spec, BarHistory(bt, r.inst, LastLabel(bt)))
  BY <1>1, <1>4, RowTypes
<1>6. r.d \in bt.bars[r.inst]
  BY <1>5 DEF DecisionFilter, BarHistory
<1>7. bt.signal[r.d] \in Sides
  BY <1>1, <1>5, <1>6, BacktestConstants DEF Sides
<1>8. p.position \in Sides
  BY <1>3, <1>7 DEF PositionFromForecast, Sides
<1> QED BY <1>1, <1>2, <1>3, <1>8 DEF DecisionDays

\* The points of an instrument exist, the first of each date.
LEMMA PointsHaveSides ==
  ASSUME BacktestInv, btPc = "score", NEW i \in Instruments
  PROVE  Points(i) \in Seq(Sides)
<1> DEFINE D == {p.d : p \in {q \in btPreds : q.inst = i}}
<1>1. bt \in BacktestInputs
  BY DEF BacktestInv, Configured
<1>2. DecisionDays(BacktestRows) \in SUBSET Nat /\ IsFiniteSet(DecisionDays(BacktestRows))
  BY <1>1, DecisionDaysFinite DEF BacktestRows
<1>3. D \in SUBSET DecisionDays(BacktestRows)
  BY PredictionsHaveSides
<1>4. D \in SUBSET Nat /\ IsFiniteSet(D) /\ Cardinality(D) \in Nat
  BY <1>2, <1>3, FS_Subset, FS_CardinalityType
<1> HIDE DEF D
<1>5. PointDates(i) = SortedDays(D)
  BY DEF PointDates, D
<1>6. DOMAIN PointDates(i) = 1..Cardinality(D)
  BY <1>5 DEF SortedDays
<1>7. ASSUME NEW k \in 1..Cardinality(D)
      PROVE  PointAt(i, PointDates(i)[k]).position \in Sides
  <2> DEFINE d == PointDates(i)[k]
             Here == {q \in btPreds : q.inst = i /\ q.d = d}
             Turns == {q.fold : q \in Here}
  <2>1. d \in D
    BY <1>4, <1>5, SortedDaysGrow
  <2>2. Here # {}
    BY <2>1 DEF D
  <2>3. Turns \in SUBSET Nat /\ Turns # {}
    BY <2>2, PredictionsHaveSides
  <2>4. PICK f \in Turns : \A g \in Turns : f <= g
    <3> HIDE DEF Turns
    <3> QED BY <2>3, LeastNatural
  <2>5. PICK p \in Here : p.fold = f
    BY <2>4
  <2>6. \A q \in btPreds : (q.inst = i /\ q.d = d) => p.fold <= q.fold
    <3> SUFFICES ASSUME NEW q \in Here PROVE p.fold <= q.fold
      OBVIOUS
    <3>1. q.fold \in Turns
      OBVIOUS
    <3> QED BY <2>4, <2>5, <3>1
  <2>7. p \in btPreds /\ p.inst = i /\ p.d = d
    BY <2>5
  <2> HIDE DEF d
  <2>8. PointAt(i, d) \in btPreds
    BY <2>6, <2>7 DEF PointAt
  <2>9. PointAt(i, d).position \in Sides
    BY <2>8, PredictionsHaveSides
  <2> QED BY <2>9 DEF d
<1>8. Points(i) = [k \in 1..Cardinality(D) |-> PointAt(i, PointDates(i)[k]).position]
  BY <1>6 DEF Points
<1>9. Points(i) \in [1..Cardinality(D) -> Sides]
  BY <1>7, <1>8
<1> QED BY <1>4, <1>9

\* Every series that is replayed is a sequence of sides.
SeriesAreSides == \A i \in DOMAIN btSeries : btSeries[i] \in Seq(Sides)

LEMMA SeriesAreSidesNext ==
  BacktestInv /\ SeriesAreSides /\ [EvalNext]_evalVars => SeriesAreSides'
<1> SUFFICES ASSUME BacktestInv, SeriesAreSides, [EvalNext]_evalVars PROVE SeriesAreSides'
  OBVIOUS
<1>1. CASE UNCHANGED btSeries
  BY <1>1 DEF SeriesAreSides
<1>2. CASE Simulate
  <2>1. CASE btFolds = {}
    BY <1>1, <1>2, <2>1 DEF Simulate, FailRun
  <2>2. CASE btFolds # {}
    <3>1. btPc = "score" /\ btSeries' = [i \in Instruments |-> Points(i)]
      BY <1>2, <2>2 DEF Simulate
    <3> QED BY <3>1, PointsHaveSides DEF SeriesAreSides
  <2> QED BY <2>1, <2>2
<1>3. CASE BuildDataset \/ ScoreFold \/ Persist \/ StepRaises
  BY <1>1, <1>3 DEF BuildDataset, ScoreFold, Persist, StepRaises, FailRun
<1>4. CASE UNCHANGED btVars
  BY <1>1, <1>4 DEF btVars
<1> QED BY <1>2, <1>3, <1>4 DEF EvalNext, BacktestNext, evalVars

\* The trade log a backtest stores accounts for every interval of its equity
\* curve and every unit of turnover that was charged (backtesting/metrics.py,
\* simulate_instrument and _trade_log), whatever was forecast.
THEOREM TradesAreWhatWasHeld == EvalSpec => []LogIsWhatWasHeld
<1>1. EvalInit => SeriesAreSides
  BY DEF EvalInit, BacktestInit, BacktestIdle, SeriesAreSides
<1>2. SeriesAreSides => LogIsWhatWasHeld
  <2> SUFFICES ASSUME SeriesAreSides, NEW i \in DOMAIN btSeries
               PROVE  /\ \A m \in 2..Len(btSeries[i]) :
                            LoggedAt(btSeries[i], TradeLog(btSeries[i]), m)
                      /\ TotalTurnover(btSeries[i]) = 2 * Len(TradeLog(btSeries[i]))
    BY DEF LogIsWhatWasHeld, LoggedAt, Covering
  <2>1. btSeries[i] \in Seq(Sides)
    BY DEF SeriesAreSides
  <2> QED BY <2>1, LogHasWhatWasHeld
<1> QED BY <1>1, <1>2, BacktestInvInit, BacktestInvNext, SeriesAreSidesNext, PTL DEF EvalSpec
=============================================================================
