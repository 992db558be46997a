------------------------------ MODULE FeedProofs ------------------------------
(***************************************************************************)
(* Theorems about the weekly signal feed, for every watchlist, calendar,   *)
(* set of prices and of moves.  FeedInv holds of any number of jobs and of *)
(* any as-of date, and so does ScoreInv; OnTimeInv adds what holds while no *)
(* operator gives an earlier date, and OneJobInv what holds while one job  *)
(* runs at a time.                                                         *)
(***************************************************************************)
EXTENDS WeeklySignals, OrderLemmas, SequenceTheorems

Rows == Items \X Fridays
Labels == {"idle", "item", "store", "deliver", "sent", "fill", "filling", "grading"}
Generating == {"item", "store", "deliver", "sent"}

Jobs == [kind : {"none", "send", "recap"}, asof : 0..LastDay, dry : BOOLEAN,
         flat : BOOLEAN]
Calls == [ok : BOOLEAN, gate : BOOLEAN, ref : Prices, move : Moves \cup {NoValue}]
Outcomes == [item : Items, dir : Directions,
             status : {"error", "pending", "suppressed"}]
ToBeFilled == [row : Rows, base : Days, move : Moves]
ToBeGraded == [row : Rows, dir : Directions, ref : Prices]

FeedTypeOK ==
    /\ day \in 0..LastDay
    /\ bars \in [Days -> Prices]
    /\ pred \in [Rows -> PredictionRow \cup {NoRow}]
    /\ overtaken \subseteq Rows
    /\ sig \in [Rows -> SignalRow \cup {NoRow}]
    /\ pushed \in [Rows -> SUBSET Directions]
    /\ pc \in [Workers -> Labels]
    /\ job \in [Workers -> Jobs]
    /\ todo \in [Workers -> Seq(Items)]
    /\ call \in [Workers -> Calls]
    /\ outcomes \in [Workers -> Seq(Outcomes)]
    /\ loaded \in [Workers -> SUBSET (ToBeFilled \cup ToBeGraded)]

\* What a job holds at each of its steps.
Holds(w) ==
    /\ job[w].asof <= day
    /\ pc[w] = "store" => todo[w] # << >>
    /\ pc[w] \notin Generating => outcomes[w] = << >>
    /\ pc[w] = "sent" => /\ outcomes[w] # << >>
                         /\ pushed[Row(w, Head(outcomes[w]).item)] # {}
    /\ \A k \in DOMAIN outcomes[w] : sig[Row(w, outcomes[w][k].item)] # NoRow
    /\ pc[w] \notin {"filling", "grading"} => loaded[w] = {}
    /\ pc[w] = "filling" =>
           \A p \in loaded[w] : p \in ToBeFilled /\ pred[p.row] # NoRow /\ p.row[2] < day
    /\ pc[w] = "grading" =>
           \A s \in loaded[w] : s \in ToBeGraded /\ sig[s.row] # NoRow /\ s.row[2] < day

FeedInv ==
    /\ FeedTypeOK
    /\ \A w \in Workers : Holds(w)
    /\ SentWasPushed

\* While every job is about the day it runs on.
GradedRow(x) ==
    /\ sig[x].actual # 0 =>
          /\ x[2] < day
          /\ sig[x].actual = bars[x[2]]
          /\ sig[x].grade = Grade(sig[x].dir, sig[x].ref, sig[x].actual)
    /\ sig[x].actual = 0 => sig[x].grade = "none"
    /\ sig[x].status = "error" => sig[x].dir = "flat"

OnTime(w) ==
    /\ pc[w] # "idle" => job[w].asof = day
    /\ pc[w] = "grading" =>
           \A s \in loaded[w] : s.dir = sig[s.row].dir /\ s.ref = sig[s.row].ref

OnTimeInv ==
    /\ FeedInv
    /\ \A w \in Workers : OnTime(w)
    /\ \A x \in RowsOf(sig) : GradedRow(x)

\* What backfill_actuals holds and has saved, but for the rows that were rewritten
\* under it.
Scored(x) ==
    /\ ActualKnown(x[1], pred[x].base, x[2])
    /\ pred[x].actual = Outcome(x[1], bars[pred[x].base], bars[x[2]])
    /\ pred[x].errorOf = pred[x].move

ScoredRow(x) ==
    pred[x].actual # NoValue => x[2] < day /\ (x \in overtaken \/ Scored(x))

UpToDate(w) ==
    pc[w] = "filling" =>
        \A p \in loaded[w] :
            p.row \in overtaken \/ (p.base = pred[p.row].base /\ p.move = pred[p.row].move)

ScoreInv ==
    /\ FeedInv
    /\ \A w \in Workers : UpToDate(w)
    /\ \A x \in RowsOf(pred) : ScoredRow(x)

\* While one job runs at a time.
InStep(w) ==
    /\ \A j, k \in DOMAIN todo[w] : todo[w][j] = todo[w][k] => j = k
    /\ \A k \in DOMAIN outcomes[w] :
          /\ sig[Row(w, outcomes[w][k].item)].dir = outcomes[w][k].dir
          /\ \A j \in DOMAIN todo[w] : todo[w][j] # outcomes[w][k].item
    /\ pc[w] = "sent" =>
           Head(outcomes[w]).dir \in pushed[Row(w, Head(outcomes[w]).item)]

OneJobInv ==
    /\ FeedInv
    /\ \A w \in Workers : InStep(w)
    /\ SentSaysWhatWasPushed

-----------------------------------------------------------------------------
(* Dates and prices.                                                       *)

\* A run works on a Friday that is not before its date.
LEMMA AnchorFacts ==
  ASSUME NEW d \in 0..LastDay
  PROVE  /\ AnchorMonday(d) \in Nat
         /\ TargetDate(AnchorMonday(d)) \in Fridays
         /\ d <= TargetDate(AnchorMonday(d))
<1>1. LastDay \in Nat /\ d \in Nat /\ d <= LastDay
  BY FeedConstants
<1>2. d % 7 \in 0..6 /\ d = 7 * (d \div 7) + (d % 7) /\ d \div 7 \in Nat
  BY <1>1
<1>3. PICK q \in Nat, r \in 0..6 : d = 7 * q + r /\ d % 7 = r
  BY <1>2
<1>4. (7 * q + 4) % 7 = 4 /\ (7 * (q + 1) + 4) % 7 = 4
  BY <1>3
<1>5. CASE r <= 4
  <2>1. AnchorMonday(d) = 7 * q
    BY <1>3, <1>5 DEF AnchorMonday, Weekday
  <2> QED BY <1>1, <1>3, <1>4, <1>5, <2>1 DEF TargetDate, Fridays, Weekday
<1>6. CASE r > 4
  <2>1. AnchorMonday(d) = 7 * (q + 1)
    BY <1>3, <1>6 DEF AnchorMonday, Weekday
  <2> QED BY <1>1, <1>3, <1>4, <1>6, <2>1 DEF TargetDate, Fridays, Weekday
<1> QED BY <1>3, <1>5, <1>6

\* The signal a job works on is a row of the tables, and its session is not over
\* on the date of the job.
LEMMA RowFacts ==
  ASSUME FeedTypeOK, NEW w \in Workers, NEW it \in Items
  PROVE  Row(w, it) \in Rows /\ job[w].asof <= Row(w, it)[2]
<1>1. job[w].asof \in 0..LastDay
  BY DEF FeedTypeOK, Jobs
<1> DEFINE t == TargetDate(AnchorMonday(job[w].asof))
<1>2. t \in Fridays /\ job[w].asof <= t
  BY <1>1, AnchorFacts
<1>3. Row(w, it) = <<it, t>>
  BY DEF Row, Monday
<1> HIDE DEF t
<1> QED BY <1>2, <1>3 DEF Rows

\* What a job has built is about rows of the tables.
LEMMA OutcomeFacts ==
  ASSUME FeedTypeOK, NEW w \in Workers
  PROVE  /\ \A k \in DOMAIN outcomes[w] :
               /\ outcomes[w][k] \in Outcomes
               /\ Row(w, outcomes[w][k].item) \in Rows
         /\ outcomes[w] # << >> =>
               /\ Head(outcomes[w]) = outcomes[w][1] /\ 1 \in DOMAIN outcomes[w]
               /\ Tail(outcomes[w]) \in Seq(Outcomes)
               /\ \A k \in DOMAIN Tail(outcomes[w]) :
                     k + 1 \in DOMAIN outcomes[w] /\ Tail(outcomes[w])[k] = outcomes[w][k + 1]
<1>1. outcomes[w] \in Seq(Outcomes)
  BY DEF FeedTypeOK
<1>2. \A k \in DOMAIN outcomes[w] : outcomes[w][k] \in Outcomes
  BY <1>1, ElementOfSeq
<1>3. \A k \in DOMAIN outcomes[w] : outcomes[w][k].item \in Items
  BY <1>2 DEF Outcomes
<1>4. \A k \in DOMAIN outcomes[w] : Row(w, outcomes[w][k].item) \in Rows
  BY <1>3, RowFacts
<1>5. outcomes[w] # << >> =>
               /\ Head(outcomes[w]) = outcomes[w][1] /\ 1 \in DOMAIN outcomes[w]
               /\ Tail(outcomes[w]) \in Seq(Outcomes)
               /\ \A k \in DOMAIN Tail(outcomes[w]) :
                     k + 1 \in DOMAIN outcomes[w] /\ Tail(outcomes[w])[k] = outcomes[w][k + 1]
  <2> HIDE DEF Outcomes
  <2> QED BY <1>1
<1> QED BY <1>2, <1>4, <1>5

\* The newest bar known on a day is a bar.
LEMMA NewestBar ==
  ASSUME NEW m \in Int, KnownDays(m) # {}
  PROVE  Max(KnownDays(m)) \in Days /\ bars[Max(KnownDays(m))] # 0
<1> DEFINE S == KnownDays(m)
<1>1. S \in SUBSET (FirstDay..LastDay) /\ S # {} /\ FirstDay \in Int /\ LastDay \in Int
  BY FeedConstants DEF KnownDays, Days
<1>2. \A d \in S : d \in Days /\ bars[d] # 0
  BY DEF KnownDays
<1> HIDE DEF S
<1>3. Max(S) \in S
  BY <1>1, MaxOfIntegers
<1> QED BY <1>2, <1>3 DEF S

\* The reference close is a price.
LEMMA ReferenceTyped ==
  ASSUME FeedTypeOK, NEW m \in Int
  PROVE  ReferenceClose(m) \in Prices
<1>1. CASE KnownDays(m - 1) # {}
  BY <1>1, NewestBar DEF ReferenceClose, FeedTypeOK
<1>2. CASE KnownDays(m - 1) = {}
  BY <1>2 DEF ReferenceClose, Prices
<1> QED BY <1>1, <1>2

\* What a prediction is scored with is a number.
LEMMA OutcomeTyped ==
  ASSUME FeedTypeOK, NEW it \in Items, NEW base \in Days, NEW friday \in Days,
         ActualKnown(it, base, friday)
  PROVE  Outcome(it, bars[base], bars[friday]) \in Int
<1>1. bars[base] \in Prices /\ bars[friday] \in Prices /\ \A c \in Prices : c \in Nat
  BY FeedConstants DEF FeedTypeOK, Prices
<1>2. CASE Kind[it] \in {"weekday_anchored", "horizon_close"}
  BY <1>1, <1>2 DEF Outcome
<1>3. CASE Kind[it] = "horizon_return"
  <2>1. bars[base] \in Nat \ {0}
    BY <1>1, <1>3 DEF ActualKnown
  <2> DEFINE b == bars[base]
             c == bars[friday]
  <2>2. b \in Nat \ {0} /\ c \in Nat
    BY <1>1, <2>1
  <2>3. Outcome(it, b, c) = ((c - b) * 100) \div b
    BY <1>3 DEF Outcome
  <2> HIDE DEF b, c
  <2>4. ((c - b) * 100) \div b \in Int
    BY <2>2
  <2> QED BY <2>3, <2>4 DEF b, c
<1>4. CASE Kind[it] = "direction"
  BY <1>4 DEF Outcome
<1> QED BY <1>2, <1>3, <1>4, FeedConstants

\* A prediction that is stored is a row, and its bar is known.
LEMMA PredictionStored ==
  ASSUME FeedTypeOK, NEW x \in Rows, NEW m \in Int, KnownDays(m) # {}, NEW move \in Moves,
         StorePrediction(x, m, move)
  PROVE  /\ pred' \in [Rows -> PredictionRow \cup {NoRow}]
         /\ \A y \in Rows : pred[y] # NoRow => pred'[y] # NoRow
         /\ \A y \in Rows : y # x => pred'[y] = pred[y]
         /\ pred'[x].actual = NoValue
         /\ overtaken' \subseteq Rows
         /\ \A y : y # x => (y \in overtaken' <=> y \in overtaken)
         /\ \A v \in Workers : pc[v] = "filling" =>
               \A p \in loaded[v] : p.row = x => x \in overtaken'
<1>1. Max(KnownDays(m)) \in Days
  BY NewestBar
<1>2. Predicted(m, move) \in PredictionRow /\ Predicted(m, move).actual = NoValue
  BY <1>1 DEF Predicted, PredictionRow
<1>3. Predicted(m, move) # NoRow
  BY <1>2, FeedConstants
<1>4. pred' = [pred EXCEPT ![x] = Predicted(m, move)]
  BY DEF StorePrediction
<1>5. /\ overtaken' = overtaken \cup {x} \/ overtaken' = overtaken \ {x}
      /\ (\E v \in Workers : pc[v] = "filling" /\ \E p \in loaded[v] : p.row = x)
             => overtaken' = overtaken \cup {x}
  BY DEF StorePrediction, Overtake
<1>6. overtaken \subseteq Rows
  BY DEF FeedTypeOK
<1>7. /\ pred' \in [Rows -> PredictionRow \cup {NoRow}]
      /\ pred'[x] = Predicted(m, move)
      /\ \A y \in Rows : y # x => pred'[y] = pred[y]
  BY <1>2, <1>4 DEF FeedTypeOK
<1> QED BY <1>2, <1>3, <1>5, <1>6, <1>7

\* What is read off a forecast is a direction, and a grade is a grade.
LEMMA Readings ==
  /\ \A it, move, ref : Interpret(it, move, ref) \in Directions
  /\ \A dir, ref, close : Grade(dir, ref, close) \in {"none", "hit", "miss"}
  /\ \A ref, close : Grade("flat", ref, close) = "none"
BY DEF Interpret, Directions, Grade

\* A stored signal is a row, and keeps the actual and the grade of the old one.
LEMMA BuiltFacts ==
  ASSUME NEW old \in SignalRow \cup {NoRow}, NEW it, NEW c \in Calls
  PROVE  /\ Built(old, it, c) \in SignalRow /\ Built(old, it, c) # NoRow
         /\ Built(old, it, c).status \in {"error", "pending", "suppressed"}
         /\ Built(old, it, c).dir \in Directions
         /\ Built(old, it, c).status = "error" => Built(old, it, c).dir = "flat"
         /\ Built(old, it, c).actual = IF old = NoRow THEN 0 ELSE old.actual
         /\ Built(old, it, c).grade = IF old = NoRow THEN "none" ELSE old.grade
<1> DEFINE b == Built(old, it, c)
<1>1. b.status = Verdict(c) /\ b.ref = c.ref
      /\ b.dir = (IF c.ok THEN Interpret(it, c.move, c.ref) ELSE "flat")
      /\ b.actual = (IF old = NoRow THEN 0 ELSE old.actual)
      /\ b.grade = (IF old = NoRow THEN "none" ELSE old.grade)
  BY DEF Built
<1>2. Verdict(c) \in {"error", "pending", "suppressed"} /\ (Verdict(c) = "error" => ~ c.ok)
  BY DEF Verdict, Calls
<1>3. b.dir \in Directions
  BY <1>1, Readings DEF Directions
<1>4. b.actual \in Prices /\ b.grade \in {"none", "hit", "miss"} /\ b.ref \in Prices
  BY <1>1 DEF SignalRow, Calls, Prices
<1>5. b \in SignalRow
  <2>1. b = [status |-> b.status, dir |-> b.dir, ref |-> b.ref, actual |-> b.actual,
             grade |-> b.grade]
    BY DEF Built
  <2> HIDE DEF b
  <2> QED BY <1>1, <1>2, <1>3, <1>4, <2>1 DEF SignalRow
<1> QED BY <1>1, <1>2, <1>3, <1>5, FeedConstants

-----------------------------------------------------------------------------
(* FeedInv is inductive.                                                   *)

\* Rows and pushes are never taken back.
Grows ==
    /\ day <= day'
    /\ \A x \in Rows : /\ pushed[x] \subseteq pushed'[x]
                       /\ sig[x] # NoRow => sig'[x] # NoRow
                       /\ pred[x] # NoRow => pred'[x] # NoRow

\* A job that does not move keeps what it holds.
Still(v) ==
    /\ pc'[v] = pc[v] /\ job'[v] = job[v] /\ todo'[v] = todo[v]
    /\ outcomes'[v] = outcomes[v] /\ loaded'[v] = loaded[v]

LEMMA StillHolds ==
  ASSUME FeedTypeOK, FeedTypeOK', Grows, NEW v \in Workers, Still(v), Holds(v)
  PROVE  Holds(v)'
<1>1. \A it : Row(v, it)' = Row(v, it)
  BY DEF Row, Monday, Still
<1>2. \A k \in DOMAIN outcomes[v] : Row(v, outcomes[v][k].item) \in Rows
  BY OutcomeFacts
<1>3. outcomes[v] # << >> => Row(v, Head(outcomes[v]).item) \in Rows
  BY OutcomeFacts
<1>4. \A k \in DOMAIN outcomes[v] :
         sig[Row(v, outcomes[v][k].item)] # NoRow
             => sig'[Row(v, outcomes[v][k].item)] # NoRow
  BY <1>2 DEF Grows
<1>5. outcomes[v] # << >> /\ pushed[Row(v, Head(outcomes[v]).item)] # {}
         => pushed'[Row(v, Head(outcomes[v]).item)] # {}
  BY <1>3 DEF Grows
<1>6. /\ job[v].asof \in Int /\ day \in Int /\ day' \in Int
      /\ \A x \in Rows : x[2] \in Int
  BY FeedConstants DEF FeedTypeOK, Jobs, Rows, Fridays
<1>7. job'[v].asof <= day'
  BY <1>6 DEF Still, Grows, Holds
<1>8. pc[v] = "filling" =>
         \A p \in loaded[v] : p \in ToBeFilled /\ pred'[p.row] # NoRow /\ p.row[2] < day'
  BY <1>6 DEF Grows, Holds, ToBeFilled
<1>9. pc[v] = "grading" =>
         \A s \in loaded[v] : s \in ToBeGraded /\ sig'[s.row] # NoRow /\ s.row[2] < day'
  BY <1>6 DEF Grows, Holds, ToBeGraded
<1> QED BY <1>1, <1>4, <1>5, <1>7, <1>8, <1>9 DEF Holds, Still

\* Starting a job.
LEMMA StartKeeps ==
  ASSUME FeedInv, NEW w \in Workers, NEW kind \in {"send", "recap"}, NEW asof \in 0..day,
         NEW dry \in BOOLEAN, NEW flat \in BOOLEAN, Start(w, kind, asof, dry, flat)
  PROVE  FeedInv'
<1>0. FeedTypeOK /\ \A v \in Workers : Holds(v)
  BY DEF FeedInv
<1>1. UNCHANGED <<day, bars, pred, overtaken, sig, pushed, call, outcomes, loaded>>
  BY DEF Start, world, rows
<1>2. FeedTypeOK'
  <2>1. day \in 0..LastDay /\ LastDay \in Nat
    BY <1>0, FeedConstants DEF FeedTypeOK
  <2>2. [kind |-> kind, asof |-> asof, dry |-> dry, flat |-> flat] \in Jobs
    BY <2>1 DEF Jobs
  <2>3. pc' \in [Workers -> Labels]
    BY <1>0 DEF FeedTypeOK, Start, Goto, Labels
  <2>4. job' \in [Workers -> Jobs]
    BY <1>0, <2>2 DEF FeedTypeOK, Start
  <2>5. todo' \in [Workers -> Seq(Items)]
    BY <1>0, FeedConstants DEF FeedTypeOK, Start
  <2> QED BY <1>0, <1>1, <2>3, <2>4, <2>5 DEF FeedTypeOK
<1>3. Grows
  BY <1>0, <1>1 DEF Grows, FeedTypeOK
<1>4. \A v \in Workers : Holds(v)'
  <2> TAKE v \in Workers
  <2>1. CASE v # w
    <3>1. Still(v)
      BY <1>1, <2>1 DEF Start, Goto, Still
    <3> QED BY <1>0, <1>2, <1>3, <3>1, StillHolds
  <2>2. CASE v = w
    <3>1. outcomes[w] = << >> /\ loaded[w] = {}
      BY <1>0 DEF Start, Holds, Generating
    <3>2. pc'[w] \in {"item", "fill"} /\ job'[w].asof = asof
      BY <1>0 DEF Start, Goto, FeedTypeOK
    <3>3. asof <= day
      BY <1>0, FeedConstants DEF FeedTypeOK
    <3> QED BY <1>1, <2>2, <3>1, <3>2, <3>3 DEF Holds
  <2> QED BY <2>1, <2>2
<1> QED BY <1>1, <1>2, <1>4 DEF FeedInv, SentWasPushed, RowsOf

\* A step of one job that takes nothing back leaves what the others hold alone.
LEMMA OneMoves ==
  ASSUME FeedInv, FeedTypeOK', Grows, NEW w \in Workers,
         \A v \in Workers : v # w => Still(v), Holds(w)', SentWasPushed'
  PROVE  FeedInv'
<1>1. \A v \in Workers : Holds(v)'
  <2> TAKE v \in Workers
  <2>1. CASE v # w
    BY <2>1, StillHolds DEF FeedInv
  <2>2. CASE v = w
    BY <2>2
  <2> QED BY <2>1, <2>2
<1> QED BY <1>1 DEF FeedInv

\* The forecast of an item.
LEMMA VisitItemKeeps ==
  ASSUME FeedInv, NEW w \in Workers, VisitItem(w)
  PROVE  FeedInv'
<1> DEFINE it == Head(todo[w])
<1> DEFINE ref == ReferenceClose(Monday(w))
<1>0. FeedTypeOK /\ Holds(w)
  BY DEF FeedInv
<1>1. /\ UNCHANGED <<day, bars, sig, pushed, job, todo, outcomes, loaded>>
      /\ pc[w] = "item" /\ todo[w] # << >> /\ pc' = [pc EXCEPT ![w] = "store"]
  BY DEF VisitItem, world, Goto
<1>2. it \in Items
  BY <1>0, <1>1 DEF FeedTypeOK
<1>3. Row(w, it) \in Rows
  BY <1>0, <1>2, RowFacts
<1>11. Monday(w) \in Int
  <2>1. job[w].asof \in 0..LastDay
    BY <1>0 DEF FeedTypeOK, Jobs
  <2> QED BY <2>1, AnchorFacts DEF Monday
<1>4. ref \in Prices
  BY <1>0, <1>11, ReferenceTyped
<1>5. call' \in [Workers -> Calls] /\ pred' \in [Rows -> PredictionRow \cup {NoRow}]
      /\ overtaken' \subseteq Rows
      /\ \A x \in Rows : pred[x] # NoRow => pred'[x] # NoRow
  <2>1. CASE CanPredict(it, Monday(w))
    <3>1. PICK move \in Moves, gate \in BOOLEAN :
             /\ StorePrediction(Row(w, it), Monday(w), move)
             /\ call' = [call EXCEPT ![w] = [ok |-> TRUE, gate |-> gate, ref |-> ref,
                                             move |-> move]]
      BY <2>1 DEF VisitItem
    <3>2. KnownDays(Monday(w)) # {}
      BY <2>1 DEF CanPredict
    <3>3. [ok |-> TRUE, gate |-> gate, ref |-> ref, move |-> move] \in Calls
      BY <1>4 DEF Calls
    <3> HIDE DEF it, ref
    <3>4. call' \in [Workers -> Calls]
      BY <1>0, <3>1, <3>3 DEF FeedTypeOK
    <3> QED BY <1>0, <1>3, <1>11, <3>1, <3>2, <3>4, PredictionStored
  <2>2. CASE ~ CanPredict(it, Monday(w))
    <3>1. pred' = pred /\ overtaken' = overtaken
          /\ call' = [call EXCEPT ![w] = [NoCall EXCEPT !.ref = ref]]
      BY <2>2 DEF VisitItem
    <3>2. [NoCall EXCEPT !.ref = ref] \in Calls
      BY <1>4 DEF Calls, NoCall
    <3> QED BY <1>0, <3>1, <3>2 DEF FeedTypeOK
  <2> QED BY <2>1, <2>2
<1>6. FeedTypeOK'
  BY <1>0, <1>1, <1>5 DEF FeedTypeOK, Labels
<1>7. Grows
  BY <1>0, <1>1, <1>5 DEF Grows, FeedTypeOK
<1>8. \A v \in Workers : v # w => Still(v)
  BY <1>1 DEF Still
<1>9. Holds(w)'
  <2>1. pc'[w] = "store"
    BY <1>0, <1>1 DEF FeedTypeOK
  <2> QED BY <1>0, <1>1, <2>1 DEF Holds, Generating, Row, Monday
<1>10. SentWasPushed'
  BY <1>1 DEF FeedInv, SentWasPushed, RowsOf
<1> QED BY <1>6, <1>7, <1>8, <1>9, <1>10, OneMoves

\* The signal of an item.
LEMMA StoreSignalKeeps ==
  ASSUME FeedInv, NEW w \in Workers, StoreSignal(w)
  PROVE  FeedInv'
<1> DEFINE it == Head(todo[w])
<1> DEFINE x == Row(w, it)
<1> DEFINE s == Built(sig[x], it, call[w])
<1> DEFINE o == [item |-> it, dir |-> s.dir, status |-> s.status]
<1>0. FeedTypeOK /\ Holds(w)
  BY DEF FeedInv
<1>1. /\ UNCHANGED <<day, bars, pred, overtaken, pushed, job, loaded>>
      /\ pc[w] = "store" /\ todo[w] # << >> /\ pc' = [pc EXCEPT ![w] = "item"]
      /\ sig' = [sig EXCEPT ![x] = s]
      /\ outcomes' = [outcomes EXCEPT ![w] = Append(outcomes[w], o)]
      /\ todo' = [todo EXCEPT ![w] = Tail(todo[w])]
      /\ call' = [call EXCEPT ![w] = NoCall]
  BY <1>0 DEF StoreSignal, world, Goto, Holds
<1>2. it \in Items /\ Tail(todo[w]) \in Seq(Items)
  BY <1>0, <1>1 DEF FeedTypeOK
<1>3. x \in Rows
  BY <1>0, <1>2, RowFacts
<1>4. /\ s \in SignalRow /\ s # NoRow /\ s.status \in {"error", "pending", "suppressed"}
      /\ s.dir \in Directions
  <2>1. sig[x] \in SignalRow \cup {NoRow} /\ call[w] \in Calls
    BY <1>0, <1>3 DEF FeedTypeOK
  <2> HIDE DEF x, it
  <2> QED BY <2>1, BuiltFacts
<1>5. o \in Outcomes
  BY <1>2, <1>4 DEF Outcomes
<1> HIDE DEF it, x, s, o
<1>6. FeedTypeOK'
  <2>1. NoCall \in Calls
    BY DEF NoCall, Calls, Prices
  <2>2. sig' \in [Rows -> SignalRow \cup {NoRow}] /\ call' \in [Workers -> Calls]
        /\ todo' \in [Workers -> Seq(Items)] /\ pc' \in [Workers -> Labels]
    BY <1>0, <1>1, <1>2, <1>4, <2>1 DEF FeedTypeOK, Labels
  <2>3. outcomes' \in [Workers -> Seq(Outcomes)]
    <3> HIDE DEF Outcomes
    <3> QED BY <1>0, <1>1, <1>5 DEF FeedTypeOK
  <2> QED BY <1>0, <1>1, <2>2, <2>3 DEF FeedTypeOK
<1>7. Grows
  BY <1>0, <1>1, <1>4 DEF Grows, FeedTypeOK
<1>8. \A v \in Workers : v # w => Still(v)
  BY <1>1 DEF Still
<1>9. Holds(w)'
  <2>1. pc'[w] = "item" /\ job' = job
    BY <1>0, <1>1 DEF FeedTypeOK
  <2>2. \A i : Row(w, i)' = Row(w, i)
    BY <2>1 DEF Row, Monday
  <2>3. \A k \in DOMAIN outcomes'[w] : sig'[Row(w, outcomes'[w][k].item)] # NoRow
    <3> TAKE k \in DOMAIN outcomes'[w]
    <3>1. outcomes[w] \in Seq(Outcomes) /\ outcomes'[w] = Append(outcomes[w], o)
      BY <1>0, <1>1 DEF FeedTypeOK
    <3>2. (k \in DOMAIN outcomes[w] /\ outcomes'[w][k] = outcomes[w][k]) \/ outcomes'[w][k] = o
      <4> HIDE DEF Outcomes
      <4> QED BY <1>5, <3>1
    <3>3. CASE k \in DOMAIN outcomes[w] /\ outcomes'[w][k] = outcomes[w][k]
      <4>1. Row(w, outcomes[w][k].item) \in Rows /\ sig[Row(w, outcomes[w][k].item)] # NoRow
        BY <1>0, <3>3, OutcomeFacts DEF Holds
      <4> QED BY <1>7, <3>3, <4>1 DEF Grows
    <3>4. CASE outcomes'[w][k] = o
      <4>1. o.item = it
        BY DEF o
      <4>2. Row(w, it) = x
        BY DEF x
      <4>3. sig'[x] = s
        BY <1>0, <1>1, <1>3 DEF FeedTypeOK
      <4> QED BY <1>4, <3>4, <4>1, <4>2, <4>3
    <3> QED BY <3>2, <3>3, <3>4
  <2> QED BY <1>0, <1>1, <2>1, <2>2, <2>3 DEF Holds, Generating
<1>10. SentWasPushed'
  <2>1. \A y \in Rows : y # x => sig'[y] = sig[y]
    BY <1>0, <1>1 DEF FeedTypeOK
  <2>2. sig'[x] = s /\ s.status # "sent"
    BY <1>0, <1>1, <1>3, <1>4 DEF FeedTypeOK
  <2>3. DOMAIN sig = Rows /\ DOMAIN sig' = Rows
    BY <1>0, <1>6 DEF FeedTypeOK
  <2> QED BY <1>1, <2>1, <2>2, <2>3 DEF FeedInv, SentWasPushed, RowsOf
<1> QED BY <1>6, <1>7, <1>8, <1>9, <1>10, OneMoves

\* The end of the loop over the watchlist.
LEMMA GeneratedKeeps ==
  ASSUME FeedInv, NEW w \in Workers, Generated(w)
  PROVE  FeedInv'
<1>0. FeedTypeOK /\ Holds(w)
  BY DEF FeedInv
<1>1. /\ UNCHANGED <<day, bars, pred, overtaken, sig, pushed, job, todo, call, outcomes, loaded>>
      /\ pc[w] = "item" /\ pc' = [pc EXCEPT ![w] = "deliver"]
  BY DEF Generated, world, rows, Goto
<1>2. FeedTypeOK'
  BY <1>0, <1>1 DEF FeedTypeOK, Labels
<1>3. Grows
  BY <1>0, <1>1 DEF Grows, FeedTypeOK
<1>4. \A v \in Workers : v # w => Still(v)
  BY <1>1 DEF Still
<1>5. pc'[w] = "deliver"
  BY <1>0, <1>1 DEF FeedTypeOK
<1>6. Holds(w)'
  BY <1>0, <1>1, <1>5 DEF Holds, Generating, Row, Monday
<1>7. SentWasPushed'
  BY <1>1 DEF FeedInv, SentWasPushed, RowsOf
<1> QED BY <1>2, <1>3, <1>4, <1>6, <1>7, OneMoves

\* A job that drops the head of what it built.
LEMMA Dropped ==
  ASSUME FeedTypeOK, NEW w \in Workers, outcomes[w] # << >>, Holds(w),
         outcomes' = [outcomes EXCEPT ![w] = Tail(outcomes[w])], job' = job,
         \A x \in Rows : sig[x] # NoRow => sig'[x] # NoRow
  PROVE  /\ outcomes' \in [Workers -> Seq(Outcomes)]
         /\ \A k \in DOMAIN outcomes'[w] :
               sig'[Row(w, outcomes'[w][k].item)] # NoRow
<1>1. Tail(outcomes[w]) \in Seq(Outcomes)
  BY OutcomeFacts
<1>2. outcomes' \in [Workers -> Seq(Outcomes)] /\ outcomes'[w] = Tail(outcomes[w])
  BY <1>1 DEF FeedTypeOK
<1>3. \A k \in DOMAIN Tail(outcomes[w]) :
         sig'[Row(w, Tail(outcomes[w])[k].item)] # NoRow
  <2> TAKE k \in DOMAIN Tail(outcomes[w])
  <2>1. k + 1 \in DOMAIN outcomes[w] /\ Tail(outcomes[w])[k] = outcomes[w][k + 1]
    BY OutcomeFacts
  <2>2. Row(w, outcomes[w][k + 1].item) \in Rows
    BY <2>1, OutcomeFacts
  <2>3. sig[Row(w, outcomes[w][k + 1].item)] # NoRow
    BY <2>1 DEF Holds
  <2> QED BY <2>1, <2>2, <2>3
<1> QED BY <1>2, <1>3

\* A push.
LEMMA PushKeeps ==
  ASSUME FeedInv, NEW w \in Workers, Push(w)
  PROVE  FeedInv'
<1> DEFINE o == Head(outcomes[w])
<1>0. FeedTypeOK /\ Holds(w)
  BY DEF FeedInv
<1>1. PICK sent \in BOOLEAN :
         /\ pushed' = IF sent THEN [pushed EXCEPT ![Row(w, o.item)] = @ \cup {o.dir}]
                      ELSE pushed
         /\ pc' = [pc EXCEPT ![w] = NextAfterPush(sent)]
         /\ outcomes' = IF NextAfterPush(sent) = "sent" THEN outcomes
                        ELSE [outcomes EXCEPT ![w] = Tail(outcomes[w])]
  BY DEF Push, Goto
<1>2. /\ UNCHANGED <<day, bars, pred, overtaken, sig, job, todo, call, loaded>>
      /\ pc[w] = "deliver" /\ outcomes[w] # << >>
  BY DEF Push, world, rows
<1>3. NextAfterPush(sent) = IF sent THEN "sent" ELSE "deliver"
  BY DEF NextAfterPush
<1>4. o \in Outcomes /\ Row(w, o.item) \in Rows
  BY <1>0, <1>2, OutcomeFacts
<1>5. o.dir \in Directions
  BY <1>4 DEF Outcomes
<1> HIDE DEF o
<1>6. pushed' \in [Rows -> SUBSET Directions] /\ \A x \in Rows : pushed[x] \subseteq pushed'[x]
  BY <1>0, <1>1, <1>4, <1>5 DEF FeedTypeOK
<1>7. pc' \in [Workers -> Labels] /\ pc'[w] = NextAfterPush(sent)
  BY <1>0, <1>1, <1>3 DEF FeedTypeOK, Labels
<1>8. /\ outcomes' \in [Workers -> Seq(Outcomes)]
      /\ \A k \in DOMAIN outcomes'[w] : sig'[Row(w, outcomes'[w][k].item)] # NoRow
  <2>1. CASE sent
    BY <1>0, <1>1, <1>2, <1>3, <2>1 DEF FeedTypeOK, Holds
  <2>2. CASE ~ sent
    BY <1>0, <1>1, <1>2, <1>3, <2>2, Dropped
  <2> QED BY <2>1, <2>2
<1>9. FeedTypeOK'
  BY <1>0, <1>2, <1>6, <1>7, <1>8 DEF FeedTypeOK
<1>10. Grows
  BY <1>0, <1>2, <1>6 DEF Grows, FeedTypeOK
<1>11. \A v \in Workers : v # w => Still(v)
  BY <1>0, <1>1, <1>2 DEF Still, FeedTypeOK
<1>12. pc'[w] = "sent" => outcomes'[w] # << >> /\ pushed'[Row(w, Head(outcomes'[w]).item)] # {}
  <2> SUFFICES ASSUME pc'[w] = "sent" PROVE outcomes'[w] # << >>
                  /\ pushed'[Row(w, Head(outcomes'[w]).item)] # {}
    OBVIOUS
  <2>1. sent /\ outcomes' = outcomes
    BY <1>1, <1>3, <1>7
  <2>3. o.dir \in pushed'[Row(w, o.item)]
    BY <1>0, <1>1, <1>4, <2>1 DEF FeedTypeOK
  <2> QED BY <1>2, <2>1, <2>3 DEF o
<1>13. Holds(w)'
  <2>1. \A it : Row(w, it)' = Row(w, it)
    BY <1>2 DEF Row, Monday
  <2> QED BY <1>0, <1>2, <1>3, <1>7, <1>8, <1>12, <2>1 DEF Holds, Generating
<1>14. SentWasPushed'
  BY <1>0, <1>2, <1>6 DEF FeedInv, SentWasPushed, RowsOf, FeedTypeOK
<1> QED BY <1>9, <1>10, <1>11, <1>13, <1>14, OneMoves

\* A signal is saved as sent.
LEMMA SaveSentKeeps ==
  ASSUME FeedInv, NEW w \in Workers, SaveSent(w)
  PROVE  FeedInv'
<1> DEFINE x == Row(w, Head(outcomes[w]).item)
<1>0. FeedTypeOK /\ Holds(w)
  BY DEF FeedInv
<1>1. /\ UNCHANGED <<day, bars, pred, overtaken, pushed, job, todo, call, loaded>>
      /\ pc[w] = "sent" /\ pc' = [pc EXCEPT ![w] = "deliver"]
      /\ sig' = [sig EXCEPT ![x].status = "sent"]
      /\ outcomes' = [outcomes EXCEPT ![w] = Tail(outcomes[w])]
  BY DEF SaveSent, world, Goto
<1>2. outcomes[w] # << >> /\ pushed[x] # {}
  BY <1>0, <1>1 DEF Holds
<1>3. x \in Rows /\ sig[x] # NoRow
  <2>1. Head(outcomes[w]) = outcomes[w][1] /\ 1 \in DOMAIN outcomes[w]
    BY <1>0, <1>2, OutcomeFacts
  <2> QED BY <1>0, <2>1, OutcomeFacts DEF Holds
<1> HIDE DEF x
<1>4. /\ sig' \in [Rows -> SignalRow \cup {NoRow}]
      /\ \A y \in Rows : sig[y] # NoRow => sig'[y] # NoRow
      /\ \A y \in Rows : y # x => sig'[y] = sig[y]
  <2>1. sig[x] \in SignalRow
    BY <1>0, <1>3 DEF FeedTypeOK
  <2>2. [sig[x] EXCEPT !.status = "sent"] \in SignalRow
    BY <2>1 DEF SignalRow
  <2>3. [sig[x] EXCEPT !.status = "sent"] # NoRow
    BY <2>2, FeedConstants
  <2>4. sig' = [sig EXCEPT ![x] = [sig[x] EXCEPT !.status = "sent"]]
    BY <1>0, <1>1, <1>3, <2>1 DEF FeedTypeOK, SignalRow
  <2> DEFINE s == [sig[x] EXCEPT !.status = "sent"]
  <2> HIDE DEF s
  <2>5. s \in SignalRow /\ s # NoRow /\ sig' = [sig EXCEPT ![x] = s]
    BY <2>2, <2>3, <2>4 DEF s
  <2> QED BY <1>0, <1>3, <2>5 DEF FeedTypeOK
<1>5. /\ outcomes' \in [Workers -> Seq(Outcomes)]
      /\ \A k \in DOMAIN outcomes'[w] : sig'[Row(w, outcomes'[w][k].item)] # NoRow
  BY <1>0, <1>1, <1>2, <1>4, Dropped
<1>6. pc' \in [Workers -> Labels] /\ pc'[w] = "deliver"
  BY <1>0, <1>1 DEF FeedTypeOK, Labels
<1>7. FeedTypeOK'
  BY <1>0, <1>1, <1>4, <1>5, <1>6 DEF FeedTypeOK
<1>8. Grows
  BY <1>0, <1>1, <1>4 DEF Grows, FeedTypeOK
<1>9. \A v \in Workers : v # w => Still(v)
  BY <1>0, <1>1 DEF Still, FeedTypeOK
<1>10. Holds(w)'
  <2>1. \A it : Row(w, it)' = Row(w, it)
    BY <1>1 DEF Row, Monday
  <2> QED BY <1>0, <1>1, <1>5, <1>6, <2>1 DEF Holds, Generating
<1>11. SentWasPushed'
  <2>1. DOMAIN sig = Rows /\ DOMAIN sig' = Rows
    BY <1>0, <1>4 DEF FeedTypeOK
  <2> QED BY <1>1, <1>2, <1>4, <2>1 DEF FeedInv, SentWasPushed, RowsOf
<1> QED BY <1>7, <1>8, <1>9, <1>10, <1>11, OneMoves

\* A signal that is not delivered.
LEMMA PassOverKeeps ==
  ASSUME FeedInv, NEW w \in Workers, PassOver(w)
  PROVE  FeedInv'
<1>0. FeedTypeOK /\ Holds(w)
  BY DEF FeedInv
<1>1. /\ UNCHANGED <<day, bars, pred, overtaken, sig, pushed, pc, job, todo, call, loaded>>
      /\ pc[w] = "deliver" /\ outcomes[w] # << >>
      /\ outcomes' = [outcomes EXCEPT ![w] = Tail(outcomes[w])]
  BY DEF PassOver, world, rows
<1>2. /\ outcomes' \in [Workers -> Seq(Outcomes)]
      /\ \A k \in DOMAIN outcomes'[w] : sig'[Row(w, outcomes'[w][k].item)] # NoRow
  BY <1>0, <1>1, Dropped
<1>3. FeedTypeOK'
  BY <1>0, <1>1, <1>2 DEF FeedTypeOK
<1>4. Grows
  BY <1>0, <1>1 DEF Grows, FeedTypeOK
<1>5. \A v \in Workers : v # w => Still(v)
  BY <1>0, <1>1 DEF Still, FeedTypeOK
<1>6. Holds(w)'
  <2>1. \A it : Row(w, it)' = Row(w, it)
    BY <1>1 DEF Row, Monday
  <2> QED BY <1>0, <1>1, <1>2, <2>1 DEF Holds, Generating
<1>7. SentWasPushed'
  BY <1>1 DEF FeedInv, SentWasPushed, RowsOf
<1> QED BY <1>3, <1>4, <1>5, <1>6, <1>7, OneMoves

\* The end of a job.
LEMMA FinishKeeps ==
  ASSUME FeedInv, NEW w \in Workers, Delivered(w) \/ Recapped(w) \/ Crash(w)
  PROVE  FeedInv'
<1>0. FeedTypeOK /\ Holds(w)
  BY DEF FeedInv
<1>1. /\ UNCHANGED <<day, bars, pred, overtaken, sig, pushed>>
      /\ pc' = [pc EXCEPT ![w] = "idle"] /\ job' = [job EXCEPT ![w] = NoJob]
      /\ todo' = todo \/ todo' = [todo EXCEPT ![w] = << >>]
      /\ call' = call \/ call' = [call EXCEPT ![w] = NoCall]
      /\ (outcomes' = outcomes /\ outcomes[w] = << >>) \/ outcomes' = [outcomes EXCEPT ![w] = << >>]
      /\ (loaded' = loaded /\ loaded[w] = {}) \/ loaded' = [loaded EXCEPT ![w] = {}]
  BY <1>0 DEF Delivered, Recapped, Crash, Finish, Goto, world, rows, Holds, Generating
<1>2. FeedTypeOK'
  <2>1. NoJob \in Jobs /\ NoCall \in Calls
    BY FeedConstants DEF NoJob, Jobs, NoCall, Calls, Prices
  <2>2. pc' \in [Workers -> Labels] /\ job' \in [Workers -> Jobs] /\ call' \in [Workers -> Calls]
    BY <1>0, <1>1, <2>1 DEF FeedTypeOK, Labels
  <2>3. todo' \in [Workers -> Seq(Items)]
    <3>1. << >> \in Seq(Items)
      OBVIOUS
    <3> QED BY <1>0, <1>1, <3>1 DEF FeedTypeOK
  <2>4. outcomes' \in [Workers -> Seq(Outcomes)]
    <3>1. << >> \in Seq(Outcomes)
      OBVIOUS
    <3> HIDE DEF Outcomes
    <3> QED BY <1>0, <1>1, <3>1 DEF FeedTypeOK
  <2>5. loaded' \in [Workers -> SUBSET (ToBeFilled \cup ToBeGraded)]
    BY <1>0, <1>1 DEF FeedTypeOK
  <2> QED BY <1>0, <1>1, <2>2, <2>3, <2>4, <2>5 DEF FeedTypeOK
<1>3. Grows
  BY <1>0, <1>1 DEF Grows, FeedTypeOK
<1>4. \A v \in Workers : v # w => Still(v)
  BY <1>0, <1>1 DEF Still, FeedTypeOK
<1>5. Holds(w)'
  <2>1. outcomes'[w] = << >> /\ loaded'[w] = {} /\ pc'[w] = "idle" /\ job'[w].asof = 0
    BY <1>0, <1>1 DEF FeedTypeOK, NoJob
  <2>2. 0 <= day'
    BY <1>0, <1>1, FeedConstants DEF FeedTypeOK
  <2> QED BY <2>1, <2>2 DEF Holds
<1>6. SentWasPushed'
  BY <1>1 DEF FeedInv, SentWasPushed, RowsOf
<1> QED BY <1>2, <1>3, <1>4, <1>5, <1>6, OneMoves

\* The predictions to fill are read.
LEMMA FillKeeps ==
  ASSUME FeedInv, NEW w \in Workers, Fill(w)
  PROVE  FeedInv'
<1> DEFINE L == {[row |-> x, base |-> pred[x].base, move |-> pred[x].move] : x \in ToFill}
<1>0. FeedTypeOK /\ Holds(w)
  BY DEF FeedInv
<1>1. /\ UNCHANGED <<day, bars, pred, overtaken, sig, pushed, job, todo, call, outcomes>>
      /\ pc[w] = "fill" /\ pc' = [pc EXCEPT ![w] = "filling"]
      /\ loaded' = [loaded EXCEPT ![w] = L]
  BY DEF Fill, world, rows, Goto
<1>2. \A p \in L : p \in ToBeFilled /\ pred[p.row] # NoRow /\ p.row[2] < day
  <2> TAKE p \in L
  <2>1. PICK x \in ToFill : p = [row |-> x, base |-> pred[x].base, move |-> pred[x].move]
    OBVIOUS
  <2>2. x \in Rows /\ pred[x] # NoRow /\ x[2] < day
    BY <1>0 DEF ToFill, RowsOf, FeedTypeOK
  <2>3. pred[x].move \in Moves /\ pred[x].base \in Days
    BY <1>0, <2>2 DEF FeedTypeOK, PredictionRow
  <2>4. p.row = x /\ p \in ToBeFilled
    BY <2>1, <2>2, <2>3 DEF ToBeFilled
  <2> QED BY <2>2, <2>4
<1> HIDE DEF L
<1>3. FeedTypeOK'
  BY <1>0, <1>1, <1>2 DEF FeedTypeOK, Labels
<1>4. Grows
  BY <1>0, <1>1 DEF Grows, FeedTypeOK
<1>5. \A v \in Workers : v # w => Still(v)
  BY <1>0, <1>1 DEF Still, FeedTypeOK
<1>6. Holds(w)'
  <2>1. pc'[w] = "filling" /\ loaded'[w] = L
    BY <1>0, <1>1 DEF FeedTypeOK
  <2>2. outcomes[w] = << >>
    BY <1>0, <1>1 DEF Holds, Generating
  <2> QED BY <1>0, <1>1, <1>2, <2>1, <2>2 DEF Holds
<1>7. SentWasPushed'
  BY <1>1 DEF FeedInv, SentWasPushed, RowsOf
<1> QED BY <1>3, <1>4, <1>5, <1>6, <1>7, OneMoves

\* A prediction is filled.
LEMMA FillRowKeeps ==
  ASSUME FeedInv, NEW w \in Workers, FillRow(w)
  PROVE  FeedInv'
<1>0. FeedTypeOK /\ Holds(w)
  BY DEF FeedInv
<1>1. PICK p \in loaded[w] :
         /\ loaded' = [loaded EXCEPT ![w] = loaded[w] \ {p}]
         /\ pred' = IF ActualKnown(p.row[1], p.base, p.row[2])
                    THEN [pred EXCEPT
                            ![p.row].actual = Outcome(p.row[1], bars[p.base], bars[p.row[2]]),
                            ![p.row].errorOf = p.move]
                    ELSE pred
  BY DEF FillRow
<1>2. /\ UNCHANGED <<day, bars, overtaken, sig, pushed, pc, job, todo, call, outcomes>>
      /\ pc[w] = "filling"
  BY DEF FillRow, world
<1>3. p \in ToBeFilled /\ p.row \in Rows /\ p.base \in Days /\ p.move \in Moves
      /\ pred[p.row] # NoRow /\ p.row[2] < day
  BY <1>0, <1>2 DEF Holds, ToBeFilled
<1>4. pred' \in [Rows -> PredictionRow \cup {NoRow}]
      /\ \A x \in Rows : pred[x] # NoRow => pred'[x] # NoRow
  <2> DEFINE c == Outcome(p.row[1], bars[p.base], bars[p.row[2]])
  <2>1. ActualKnown(p.row[1], p.base, p.row[2]) => c \in Int
    <3>1. p.row[2] \in Days /\ p.row[1] \in Items
      BY <1>0, <1>3, FeedConstants DEF FeedTypeOK, Rows, Fridays, Days
    <3> QED BY <1>0, <1>3, <3>1, OutcomeTyped
  <2> HIDE DEF c
  <2>2. pred[p.row] \in PredictionRow
    BY <1>0, <1>3 DEF FeedTypeOK
  <2> DEFINE r == [pred[p.row] EXCEPT !.actual = c, !.errorOf = p.move]
  <2>3. ActualKnown(p.row[1], p.base, p.row[2]) => r \in PredictionRow /\ r # NoRow
    <3>1. ASSUME NEW q \in PredictionRow, NEW a \in Int, NEW m \in Moves
          PROVE  [q EXCEPT !.actual = a, !.errorOf = m] \in PredictionRow
      BY DEF PredictionRow
    <3>2. ActualKnown(p.row[1], p.base, p.row[2]) => r \in PredictionRow
      BY <1>3, <2>1, <2>2, <3>1
    <3> QED BY <3>2, FeedConstants
  <2>4. ActualKnown(p.row[1], p.base, p.row[2]) => pred' = [pred EXCEPT ![p.row] = r]
    BY <1>0, <1>1, <1>3, <2>2 DEF FeedTypeOK, PredictionRow, c
  <2> HIDE DEF r
  <2> QED BY <1>0, <1>1, <1>3, <2>3, <2>4 DEF FeedTypeOK
<1>5. loaded' \in [Workers -> SUBSET (ToBeFilled \cup ToBeGraded)]
      /\ loaded'[w] = loaded[w] \ {p}
  BY <1>0, <1>1 DEF FeedTypeOK
<1>6. FeedTypeOK'
  BY <1>0, <1>2, <1>4, <1>5 DEF FeedTypeOK
<1>7. Grows
  BY <1>0, <1>2, <1>4 DEF Grows, FeedTypeOK
<1>8. \A v \in Workers : v # w => Still(v)
  BY <1>0, <1>1, <1>2 DEF Still, FeedTypeOK
<1>9. Holds(w)'
  <2>1. \A q \in loaded'[w] : q \in ToBeFilled /\ pred'[q.row] # NoRow /\ q.row[2] < day
    BY <1>0, <1>2, <1>4, <1>5 DEF Holds, ToBeFilled
  <2>2. outcomes[w] = << >>
    BY <1>0, <1>2 DEF Holds, Generating
  <2> QED BY <1>0, <1>2, <2>1, <2>2 DEF Holds
<1>10. SentWasPushed'
  BY <1>2 DEF FeedInv, SentWasPushed, RowsOf
<1> QED BY <1>6, <1>7, <1>8, <1>9, <1>10, OneMoves

\* The signals to grade are read.
LEMMA FilledKeeps ==
  ASSUME FeedInv, NEW w \in Workers, Filled(w)
  PROVE  FeedInv'
<1> DEFINE L == {[row |-> x, dir |-> sig[x].dir, ref |-> sig[x].ref] :
                    x \in ToGrade(job[w].asof)}
<1>0. FeedTypeOK /\ Holds(w)
  BY DEF FeedInv
<1>1. /\ UNCHANGED <<day, bars, pred, overtaken, sig, pushed, job, todo, call, outcomes>>
      /\ pc[w] = "filling" /\ pc' = [pc EXCEPT ![w] = "grading"]
      /\ loaded' = [loaded EXCEPT ![w] = L]
  BY DEF Filled, world, rows, Goto
<1>2. \A s \in L : s \in ToBeGraded /\ sig[s.row] # NoRow /\ s.row[2] < day
  <2> TAKE s \in L
  <2>1. PICK x \in ToGrade(job[w].asof) :
           s = [row |-> x, dir |-> sig[x].dir, ref |-> sig[x].ref]
    OBVIOUS
  <2>2. x \in Rows /\ sig[x] # NoRow /\ x[2] < job[w].asof
    BY <1>0 DEF ToGrade, RowsOf, FeedTypeOK
  <2>3. sig[x].dir \in Directions /\ sig[x].ref \in Prices
    BY <1>0, <2>2 DEF FeedTypeOK, SignalRow
  <2>4. s.row = x /\ s \in ToBeGraded
    BY <2>1, <2>2, <2>3 DEF ToBeGraded
  <2>5. x[2] < day
    <3>1. x[2] \in Int /\ job[w].asof \in Int /\ day \in Int /\ job[w].asof <= day
      BY <1>0, <2>2, FeedConstants DEF FeedTypeOK, Jobs, Rows, Fridays, Holds
    <3> QED BY <2>2, <3>1
  <2> QED BY <2>2, <2>4, <2>5
<1> HIDE DEF L
<1>3. FeedTypeOK'
  BY <1>0, <1>1, <1>2 DEF FeedTypeOK, Labels
<1>4. Grows
  BY <1>0, <1>1 DEF Grows, FeedTypeOK
<1>5. \A v \in Workers : v # w => Still(v)
  BY <1>0, <1>1 DEF Still, FeedTypeOK
<1>6. Holds(w)'
  <2>1. pc'[w] = "grading" /\ loaded'[w] = L
    BY <1>0, <1>1 DEF FeedTypeOK
  <2>2. outcomes[w] = << >>
    BY <1>0, <1>1 DEF Holds, Generating
  <2> QED BY <1>0, <1>1, <1>2, <2>1, <2>2 DEF Holds
<1>7. SentWasPushed'
  BY <1>1 DEF FeedInv, SentWasPushed, RowsOf
<1> QED BY <1>3, <1>4, <1>5, <1>6, <1>7, OneMoves

\* A signal is graded.
LEMMA GradeRowKeeps ==
  ASSUME FeedInv, NEW w \in Workers, GradeRow(w)
  PROVE  FeedInv'
<1>0. FeedTypeOK /\ Holds(w)
  BY DEF FeedInv
<1>1. PICK s \in loaded[w] :
         /\ loaded' = [loaded EXCEPT ![w] = loaded[w] \ {s}]
         /\ sig' = IF bars[s.row[2]] = 0 THEN sig
                   ELSE [sig EXCEPT ![s.row].actual = bars[s.row[2]],
                                    ![s.row].grade = Grade(s.dir, s.ref, bars[s.row[2]])]
  BY DEF GradeRow
<1>2. /\ UNCHANGED <<day, bars, pred, overtaken, pushed, pc, job, todo, call, outcomes>>
      /\ pc[w] = "grading"
  BY DEF GradeRow, world
<1>3. s \in ToBeGraded /\ s.row \in Rows /\ sig[s.row] # NoRow /\ s.row[2] < day
  BY <1>0, <1>2 DEF Holds, ToBeGraded
<1>4. /\ sig' \in [Rows -> SignalRow \cup {NoRow}]
      /\ \A x \in Rows : sig[x] # NoRow => sig'[x] # NoRow
      /\ \A x \in Rows : sig[x] # NoRow => sig'[x].status = sig[x].status
      /\ \A x \in Rows : sig[x] = NoRow => sig'[x] = NoRow
  <2>1. bars[s.row[2]] \in Prices
    <3>1. s.row[2] \in Days
      BY <1>0, <1>3, FeedConstants DEF FeedTypeOK, Rows, Fridays, Days
    <3> QED BY <1>0, <3>1 DEF FeedTypeOK
  <2>2. sig[s.row] \in SignalRow
    BY <1>0, <1>3 DEF FeedTypeOK
  <2> DEFINE g == Grade(s.dir, s.ref, bars[s.row[2]])
  <2> DEFINE r == [sig[s.row] EXCEPT !.actual = bars[s.row[2]], !.grade = g]
  <2>3. g \in {"none", "hit", "miss"}
    BY Readings
  <2> HIDE DEF g
  <2>4. r \in SignalRow /\ r.status = sig[s.row].status
    BY <1>3, <2>1, <2>2, <2>3 DEF SignalRow
  <2>5. bars[s.row[2]] # 0 => sig' = [sig EXCEPT ![s.row] = r]
    BY <1>0, <1>1, <1>3, <2>2 DEF FeedTypeOK, SignalRow, g
  <2>6. r # NoRow
    BY <2>4, FeedConstants
  <2> HIDE DEF r
  <2> QED BY <1>0, <1>1, <1>3, <2>4, <2>5, <2>6 DEF FeedTypeOK
<1>5. loaded' \in [Workers -> SUBSET (ToBeFilled \cup ToBeGraded)]
      /\ loaded'[w] = loaded[w] \ {s}
  BY <1>0, <1>1 DEF FeedTypeOK
<1>6. FeedTypeOK'
  BY <1>0, <1>2, <1>4, <1>5 DEF FeedTypeOK
<1>7. Grows
  BY <1>0, <1>2, <1>4 DEF Grows, FeedTypeOK
<1>8. \A v \in Workers : v # w => Still(v)
  BY <1>0, <1>1, <1>2 DEF Still, FeedTypeOK
<1>9. Holds(w)'
  <2>1. \A q \in loaded'[w] : q \in ToBeGraded /\ sig'[q.row] # NoRow /\ q.row[2] < day
    BY <1>0, <1>2, <1>4, <1>5 DEF Holds, ToBeGraded
  <2>2. outcomes[w] = << >>
    BY <1>0, <1>2 DEF Holds, Generating
  <2> QED BY <1>0, <1>2, <2>1, <2>2 DEF Holds
<1>10. SentWasPushed'
  <2>1. DOMAIN sig = Rows /\ DOMAIN sig' = Rows
    BY <1>0, <1>4 DEF FeedTypeOK
  <2>2. \A x \in Rows : sig[x] # NoRow /\ sig[x].status = "sent" => pushed[x] # {}
    BY <2>1 DEF FeedInv, SentWasPushed, RowsOf
  <2>3. \A x \in Rows : sig'[x] # NoRow /\ sig'[x].status = "sent" => pushed[x] # {}
    BY <1>4, <2>2
  <2> QED BY <1>2, <2>1, <2>3 DEF SentWasPushed, RowsOf
<1> QED BY <1>6, <1>7, <1>8, <1>9, <1>10, OneMoves

\* An operator's forecast: a row is written and no job moves.
LEMMA HandFacts ==
  ASSUME FeedTypeOK, PredictByHand
  PROVE  \E x \in Rows, m \in Int, move \in Moves :
            KnownDays(m) # {} /\ StorePrediction(x, m, move)
<1>1. PICK it \in Items, asof \in 0..day, friday \in Fridays, move \in Moves :
         CanPredict(it, asof) /\ StorePrediction(<<it, friday>>, asof, move)
  BY DEF PredictByHand
<1>2. asof \in Int /\ <<it, friday>> \in Rows
  BY FeedConstants DEF FeedTypeOK, Rows
<1> QED BY <1>1, <1>2 DEF CanPredict

LEMMA PredictByHandKeeps ==
  ASSUME FeedInv, PredictByHand
  PROVE  FeedInv'
<1>0. FeedTypeOK
  BY DEF FeedInv
<1>1. UNCHANGED <<day, bars, sig, pushed, pc, job, todo, call, outcomes, loaded>>
  BY DEF PredictByHand, world, work
<1>2. PICK x \in Rows, m \in Int, move \in Moves :
         KnownDays(m) # {} /\ StorePrediction(x, m, move)
  BY <1>0, HandFacts
<1>3. /\ pred' \in [Rows -> PredictionRow \cup {NoRow}] /\ overtaken' \subseteq Rows
      /\ \A y \in Rows : pred[y] # NoRow => pred'[y] # NoRow
  BY <1>0, <1>2, PredictionStored
<1>4. FeedTypeOK'
  BY <1>0, <1>1, <1>3 DEF FeedTypeOK
<1>5. Grows
  BY <1>0, <1>1, <1>3 DEF Grows, FeedTypeOK
<1>6. \A v \in Workers : Still(v)
  BY <1>1 DEF Still
<1>7. \A v \in Workers : Holds(v)'
  BY <1>0, <1>4, <1>5, <1>6, StillHolds DEF FeedInv
<1> QED BY <1>1, <1>4, <1>7 DEF FeedInv, SentWasPushed, RowsOf

\* A bar is synced, or the day ends: no job moves.
LEMMA WorldKeeps ==
  ASSUME FeedInv, (\E d \in Sessions : SyncBar(d)) \/ Tomorrow
  PROVE  FeedInv'
<1>0. FeedTypeOK
  BY DEF FeedInv
<1>1. UNCHANGED <<pred, overtaken, sig, pushed, pc, job, todo, call, outcomes, loaded>>
  BY DEF SyncBar, Tomorrow, rows, work
<1>2. day' \in 0..LastDay /\ day <= day' /\ bars' \in [Days -> Prices]
  <2>1. CASE \E d \in Sessions : SyncBar(d)
    <3>1. PICK d \in Sessions, c \in Closes : day' = day /\ bars' = [bars EXCEPT ![d] = c]
      BY <2>1 DEF SyncBar
    <3>2. c \in Prices
      BY DEF Prices
    <3> QED BY <1>0, <3>1, <3>2, FeedConstants DEF FeedTypeOK
  <2>2. CASE Tomorrow
    BY <1>0, <2>2, FeedConstants DEF Tomorrow, FeedTypeOK
  <2> QED BY <2>1, <2>2
<1>3. FeedTypeOK'
  BY <1>0, <1>1, <1>2 DEF FeedTypeOK
<1>4. Grows
  BY <1>1, <1>2 DEF Grows
<1>5. \A v \in Workers : Still(v)
  BY <1>1 DEF Still
<1>6. \A v \in Workers : Holds(v)'
  BY <1>0, <1>3, <1>4, <1>5, StillHolds DEF FeedInv
<1> QED BY <1>1, <1>3, <1>6 DEF FeedInv, SentWasPushed, RowsOf

LEMMA FeedInit ==
  ASSUME Init
  PROVE  FeedInv
<1>1. day = 0 /\ day \in 0..LastDay
  BY FeedConstants DEF Init
<1>2. bars \in [Days -> Prices]
  <2>1. PICK past \in [{d \in Sessions : d < 0} -> Closes] :
           bars = [d \in Days |-> IF d \in DOMAIN past THEN past[d] ELSE 0]
    BY DEF Init
  <2>2. \A d \in Days : (IF d \in DOMAIN past THEN past[d] ELSE 0) \in Prices
    BY DEF Prices
  <2> QED BY <2>1, <2>2
<1>3. pred = [x \in Rows |-> NoRow] /\ overtaken = {} /\ sig = [x \in Rows |-> NoRow]
      /\ pushed = [x \in Rows |-> {}]
  BY DEF Init, Rows
<1>4. NoJob \in Jobs /\ NoCall \in Calls
  BY FeedConstants DEF NoJob, Jobs, NoCall, Calls, Prices
<1>5. /\ pc \in [Workers -> Labels] /\ job \in [Workers -> Jobs]
      /\ todo \in [Workers -> Seq(Items)] /\ call \in [Workers -> Calls]
      /\ outcomes \in [Workers -> Seq(Outcomes)]
      /\ loaded \in [Workers -> SUBSET (ToBeFilled \cup ToBeGraded)]
  <2>1. << >> \in Seq(Items) /\ << >> \in Seq(Outcomes)
    OBVIOUS
  <2> HIDE DEF Outcomes
  <2> QED BY <1>4, <2>1 DEF Init, Labels
<1>6. FeedTypeOK
  BY <1>1, <1>2, <1>3, <1>5 DEF FeedTypeOK
<1>7. \A w \in Workers : Holds(w)
  <2> TAKE w \in Workers
  <2>1. pc[w] = "idle" /\ job[w] = NoJob /\ outcomes[w] = << >> /\ loaded[w] = {}
    BY DEF Init
  <2>2. job[w].asof = 0
    BY <2>1 DEF NoJob
  <2> QED BY <1>1, <2>1, <2>2 DEF Holds
<1>8. SentWasPushed
  BY <1>3 DEF SentWasPushed, RowsOf
<1> QED BY <1>6, <1>7, <1>8 DEF FeedInv

\* The kinds of step of the feed.
LEMMA Steps ==
  ASSUME FeedTypeOK, [Next]_vars
  PROVE  \/ \E w \in Workers, kind \in {"send", "recap"}, asof \in 0..day,
               dry, flat \in BOOLEAN :
               /\ Start(w, kind, asof, dry, flat)
               /\ PastAsOf = FALSE => asof = day
         \/ \E w \in Workers : Step(w)
         \/ \E w \in Workers : Crash(w)
         \/ PredictByHand
         \/ (\E d \in Sessions : SyncBar(d)) \/ Tomorrow
         \/ UNCHANGED vars
<1>1. day \in Nat /\ day \in 0..day
  BY FeedConstants DEF FeedTypeOK
<1>2. ASSUME NEW w \in Workers, ScheduledSend(w) \/ ScheduledRecap(w)
      PROVE  \E kind \in {"send", "recap"} : Start(w, kind, day, FALSE, FALSE)
  BY <1>2 DEF ScheduledSend, ScheduledRecap
<1>3. ASSUME NEW w \in Workers, ManualJob(w)
      PROVE  \E kind \in {"send", "recap"}, asof \in 0..day, dry, flat \in BOOLEAN :
               /\ Start(w, kind, asof, dry, flat)
               /\ PastAsOf = FALSE => asof = day
  BY <1>1, <1>3 DEF ManualJob, AsOfDays
<1> QED BY <1>1, <1>2, <1>3 DEF Next

LEMMA FeedStep ==
  ASSUME FeedInv, [Next]_vars
  PROVE  FeedInv'
<1>0. FeedTypeOK
  BY DEF FeedInv
<1>1. CASE \E w \in Workers, kind \in {"send", "recap"}, asof \in 0..day,
              dry, flat \in BOOLEAN : Start(w, kind, asof, dry, flat)
  BY <1>1, StartKeeps
<1>2. CASE \E w \in Workers : Step(w)
  BY <1>2, VisitItemKeeps, StoreSignalKeeps, GeneratedKeeps, PushKeeps, SaveSentKeeps,
     PassOverKeeps, FinishKeeps, FillKeeps, FillRowKeeps, FilledKeeps, GradeRowKeeps DEF Step
<1>3. CASE \E w \in Workers : Crash(w)
  BY <1>3, FinishKeeps
<1>4. CASE (\E d \in Sessions : SyncBar(d)) \/ Tomorrow
  BY <1>4, WorldKeeps
<1>6. CASE PredictByHand
  BY <1>6, PredictByHandKeeps
<1>5. CASE UNCHANGED vars
  BY <1>5 DEF vars, world, rows, work, FeedInv, FeedTypeOK, Holds, SentWasPushed, RowsOf,
              Row, Monday
<1> QED BY <1>0, <1>1, <1>2, <1>3, <1>4, <1>5, <1>6, Steps

\* Every table and every job of the feed has its type in every state, whichever jobs
\* run side by side, for whichever date they are started and wherever they die.
THEOREM FeedTypes == Spec => []FeedInv
<1>1. Init => FeedInv
  BY FeedInit
<1>2. FeedInv /\ [Next]_vars => FeedInv'
  BY FeedStep
<1> QED BY <1>1, <1>2, PTL DEF Spec

\* signalfeed marks a signal SENT only after a channel took a message about it,
\* whatever other jobs did to the row between the push and the save.
THEOREM SentMeansPushed == Spec => []SentWasPushed
<1>1. FeedInv => SentWasPushed
  BY DEF FeedInv
<1> QED BY <1>1, FeedTypes, PTL

-----------------------------------------------------------------------------
(* OnTimeInv is inductive while every job is about the day it runs on: a   *)
(* job builds and pushes calls about sessions to come, and fills and grades*)
(* rows about sessions that have passed.                                   *)

\* Bars are only added.
BarsStand == /\ \A d \in Days : bars[d] # 0 => bars'[d] = bars[d]
             /\ day <= day'

\* Of a row about a session that has passed, the call and the forecast stand.
SettledCalls == \A x \in Rows : x[2] < day /\ sig[x] # NoRow =>
                    sig'[x].dir = sig[x].dir /\ sig'[x].ref = sig[x].ref

\* What a step shows besides OnTimeInv.
GradedStand == \A x \in RowsOf(sig) : sig[x].actual # 0 => sig'[x] = sig[x]
PushTimely == \A x \in DOMAIN pushed : pushed'[x] # pushed[x] => day <= x[2]
OnTimeStep == OnTimeInv' /\ GradedStand /\ PushTimely

LEMMA RowTypes ==
  ASSUME FeedTypeOK
  PROVE  /\ day \in Nat /\ day <= LastDay /\ LastDay \in Nat
         /\ \A x \in Rows : x[2] \in Nat /\ (x[2] < day => x[2] \in Days)
         /\ \A x \in Rows : sig[x] # NoRow => sig[x] \in SignalRow
         /\ \A x \in Rows : pred[x] # NoRow => pred[x] \in PredictionRow
         /\ RowsOf(sig) = {x \in Rows : sig[x] # NoRow}
         /\ RowsOf(pred) = {x \in Rows : pred[x] # NoRow}
<1>1. day \in Nat /\ day <= LastDay /\ LastDay \in Nat
  BY FeedConstants DEF FeedTypeOK
<1>2. \A x \in Rows : x[2] \in Nat /\ (x[2] < day => x[2] \in Days)
  <2> TAKE x \in Rows
  <2>1. x[2] \in 0..(LastDay + 7)
    BY DEF Rows, Fridays
  <2> QED BY <1>1, <2>1, FeedConstants DEF Days
<1> QED BY <1>1, <1>2 DEF FeedTypeOK, RowsOf

LEMMA GradedStays ==
  ASSUME FeedTypeOK, FeedTypeOK', BarsStand, NEW x \in Rows, sig[x] # NoRow, GradedRow(x),
         sig'[x] = sig[x]
  PROVE  GradedRow(x)'
<1>1. day \in Nat /\ day' \in Nat /\ x[2] \in Nat /\ day <= day'
  BY RowTypes DEF BarsStand, FeedTypeOK
<1>2. CASE sig[x].actual # 0
  <2>1. x[2] < day /\ sig[x].actual = bars[x[2]]
    BY <1>2 DEF GradedRow
  <2>2. x[2] \in Days
    BY <2>1, RowTypes
  <2>3. bars'[x[2]] = bars[x[2]]
    BY <1>2, <2>1, <2>2 DEF BarsStand
  <2>4. x[2] < day'
    BY <1>1, <2>1
  <2> QED BY <1>2, <2>1, <2>3, <2>4 DEF GradedRow
<1>3. CASE sig[x].actual = 0
  BY <1>3 DEF GradedRow
<1> QED BY <1>2, <1>3

LEMMA StillOnTime ==
  ASSUME FeedTypeOK, NEW v \in Workers, Still(v), Holds(v), OnTime(v),
         SettledCalls, day' = day \/ pc[v] = "idle"
  PROVE  OnTime(v)'
<1>1. pc'[v] # "idle" => job'[v].asof = day'
  BY DEF Still, OnTime
<1>3. pc[v] = "grading" =>
         \A s \in loaded[v] : s.dir = sig'[s.row].dir /\ s.ref = sig'[s.row].ref
  BY DEF OnTime, SettledCalls, Holds, ToBeGraded
<1> QED BY <1>1, <1>3 DEF Still, OnTime

\* One job moves; the rows are looked at one by one.
LEMMA OneOnTime ==
  ASSUME OnTimeInv, FeedInv', NEW w \in Workers, \A v \in Workers : v # w => Still(v),
         BarsStand, day' = day, SettledCalls, OnTime(w)',
         \A x \in Rows : sig'[x] # NoRow => sig'[x] = sig[x] \/ GradedRow(x)'
  PROVE  OnTimeInv'
<1>0. FeedTypeOK /\ FeedTypeOK' /\ \A v \in Workers : Holds(v)
  BY DEF OnTimeInv, FeedInv
<1>1. \A v \in Workers : OnTime(v)'
  BY <1>0, StillOnTime DEF OnTimeInv
<1>2. \A x \in Rows : sig'[x] # NoRow => GradedRow(x)'
  BY <1>0, GradedStays, RowTypes DEF OnTimeInv
<1>4. RowsOf(sig)' = {x \in Rows : sig'[x] # NoRow}
  BY <1>0 DEF RowsOf, FeedTypeOK
<1> QED BY <1>1, <1>2, <1>4 DEF OnTimeInv

\* A job on time works on a row whose session is not over.
LEMMA RowToCome ==
  ASSUME OnTimeInv, NEW w \in Workers, pc[w] # "idle", NEW it \in Items
  PROVE  Row(w, it) \in Rows /\ day <= Row(w, it)[2]
BY RowFacts DEF OnTimeInv, FeedInv, OnTime

\* A job that leaves the tables alone.
LEMMA QuietOnTime ==
  ASSUME OnTimeInv, FeedInv', NEW w \in Workers, UNCHANGED <<day, bars, pred, overtaken, sig>>,
         \A v \in Workers : v # w => Still(v), OnTime(w)'
  PROVE  OnTimeInv' /\ GradedStand
<1>1. BarsStand
  BY RowTypes DEF BarsStand, OnTimeInv, FeedInv
<1> QED BY <1>1, OneOnTime DEF SettledCalls, GradedStand

LEMMA QuietStepsOnTime ==
  ASSUME OnTimeInv, NEW w \in Workers,
         \/ \E kind \in {"send", "recap"}, dry, flat \in BOOLEAN :
               Start(w, kind, day, dry, flat)
         \/ Generated(w) \/ Push(w) \/ PassOver(w) \/ Delivered(w) \/ Fill(w) \/ Filled(w)
         \/ Recapped(w) \/ Crash(w),
         FeedInv'
  PROVE  OnTimeStep
<1>0. FeedTypeOK /\ FeedTypeOK' /\ Holds(w) /\ OnTime(w)
  BY DEF OnTimeInv, FeedInv
<1>1. UNCHANGED <<day, bars, pred, overtaken, sig>>
  BY DEF Start, Generated, Push, PassOver, Delivered, Fill, Filled, Recapped, Crash,
         world, rows
<1>2. \A v \in Workers : v # w => Still(v)
  <2>1. CASE Push(w)
    BY <1>0, <2>1 DEF Push, Goto, Still, FeedTypeOK
  <2>2. CASE ~ Push(w)
    BY <1>0, <2>2 DEF Start, Generated, PassOver, Delivered, Fill, Filled, Recapped,
       Crash, Finish, Goto, Still, FeedTypeOK
  <2> QED BY <2>1, <2>2
<1>3. OnTime(w)'
  <2>1. CASE \E kind \in {"send", "recap"}, dry, flat \in BOOLEAN :
               Start(w, kind, day, dry, flat)
    BY <1>0, <1>1, <2>1 DEF Start, Goto, OnTime, FeedTypeOK
  <2>2. CASE Generated(w) \/ PassOver(w)
    BY <1>0, <1>1, <2>2 DEF Generated, PassOver, Goto, OnTime, FeedTypeOK
  <2>3. CASE Push(w)
    <3>1. PICK sent \in BOOLEAN : pc' = [pc EXCEPT ![w] = NextAfterPush(sent)]
      BY <2>3 DEF Push, Goto
    <3>2. NextAfterPush(sent) \in {"sent", "deliver"}
      BY DEF NextAfterPush
    <3> QED BY <1>0, <1>1, <2>3, <3>1, <3>2 DEF Push, OnTime, FeedTypeOK
  <2>4. CASE Delivered(w) \/ Recapped(w) \/ Crash(w)
    BY <1>0, <1>1, <2>4 DEF Delivered, Recapped, Crash, Finish, Goto, OnTime, FeedTypeOK
  <2>5. CASE Fill(w)
    <3>2. pc'[w] = "filling" /\ job' = job /\ pc[w] = "fill"
      BY <1>0, <2>5 DEF Fill, Goto, FeedTypeOK
    <3> QED BY <1>0, <1>1, <3>2 DEF OnTime
  <2>6. CASE Filled(w)
    <3>1. \A s \in loaded'[w] : s.dir = sig[s.row].dir /\ s.ref = sig[s.row].ref
      BY <1>0, <2>6 DEF Filled, FeedTypeOK
    <3>2. pc'[w] = "grading" /\ job' = job /\ pc[w] = "filling"
      BY <1>0, <2>6 DEF Filled, Goto, FeedTypeOK
    <3> QED BY <1>0, <1>1, <3>1, <3>2 DEF OnTime
  <2> QED BY <2>1, <2>2, <2>3, <2>4, <2>5, <2>6
<1>4. PushTimely
  <2>1. CASE Push(w)
    <3>1. pc[w] = "deliver" /\ outcomes[w] # << >>
      BY <2>1 DEF Push
    <3>2. Head(outcomes[w]).item \in Items
      BY <1>0, <3>1, OutcomeFacts DEF Outcomes
    <3>3. day <= Row(w, Head(outcomes[w]).item)[2]
      BY <3>1, <3>2, RowToCome
    <3>4. \A x \in DOMAIN pushed :
             pushed'[x] # pushed[x] => x = Row(w, Head(outcomes[w]).item)
      BY <2>1 DEF Push
    <3> QED BY <3>3, <3>4 DEF PushTimely
  <2>2. CASE ~ Push(w)
    <3>1. pushed' = pushed
      BY <2>2 DEF Start, Generated, PassOver, Delivered, Fill, Filled, Recapped, Crash
    <3> QED BY <3>1 DEF PushTimely
  <2> QED BY <2>1, <2>2
<1> QED BY <1>1, <1>2, <1>3, <1>4, QuietOnTime DEF OnTimeStep

LEMMA VisitItemOnTime ==
  ASSUME OnTimeInv, NEW w \in Workers, VisitItem(w), FeedInv'
  PROVE  OnTimeStep
<1>0. FeedTypeOK /\ FeedTypeOK' /\ Holds(w) /\ OnTime(w)
  BY DEF OnTimeInv, FeedInv
<1>1. /\ UNCHANGED <<day, bars, sig, pushed, job, todo, outcomes, loaded>>
      /\ pc[w] = "item" /\ pc' = [pc EXCEPT ![w] = "store"]
  BY DEF VisitItem, world, Goto
<1>2. SettledCalls /\ GradedStand /\ PushTimely
  BY <1>1 DEF SettledCalls, GradedStand, PushTimely
<1>3. BarsStand
  BY <1>0, <1>1, RowTypes DEF BarsStand
<1>4. \A v \in Workers : v # w => Still(v)
  BY <1>1 DEF Still
<1>5. OnTime(w)'
  BY <1>0, <1>1 DEF OnTime, FeedTypeOK
<1> QED BY <1>1, <1>2, <1>3, <1>4, <1>5, OneOnTime DEF OnTimeStep

LEMMA StoreSignalOnTime ==
  ASSUME OnTimeInv, NEW w \in Workers, StoreSignal(w), FeedInv'
  PROVE  OnTimeStep
<1> DEFINE it == Head(todo[w])
<1> DEFINE x == Row(w, it)
<1> DEFINE s == Built(sig[x], it, call[w])
<1>0. FeedTypeOK /\ FeedTypeOK' /\ Holds(w) /\ OnTime(w)
  BY DEF OnTimeInv, FeedInv
<1>1. /\ UNCHANGED <<day, bars, pred, overtaken, pushed, job, loaded>>
      /\ pc[w] = "store" /\ todo[w] # << >> /\ pc' = [pc EXCEPT ![w] = "item"]
      /\ sig' = [sig EXCEPT ![x] = s]
      /\ \A v \in Workers : v # w => outcomes'[v] = outcomes[v] /\ todo'[v] = todo[v]
  BY <1>0 DEF StoreSignal, world, Goto, Holds
<1>2. it \in Items
  BY <1>0, <1>1 DEF FeedTypeOK
<1>3. x \in Rows /\ day <= x[2]
  BY <1>1, <1>2, RowToCome
<1>4. sig[x] # NoRow => sig[x].actual = 0 /\ sig[x].grade = "none"
  <2>1. sig[x] # NoRow => GradedRow(x)
    BY <1>0, <1>3, RowTypes DEF OnTimeInv
  <2>2. ~ (x[2] < day)
    BY <1>0, <1>3, RowTypes
  <2> QED BY <2>1, <2>2 DEF GradedRow
<1>5. s.actual = 0 /\ s.grade = "none" /\ (s.status = "error" => s.dir = "flat")
  <2>1. sig[x] \in SignalRow \cup {NoRow} /\ call[w] \in Calls
    BY <1>0, <1>3 DEF FeedTypeOK
  <2> HIDE DEF x, it
  <2> QED BY <1>4, <2>1, BuiltFacts
<1> HIDE DEF it, x, s
<1>6. \A y \in Rows : sig'[y] = sig[y] \/ (y = x /\ sig'[y] = s)
  BY <1>0, <1>1, <1>3 DEF FeedTypeOK
<1>7. \A y \in Rows : sig'[y] # NoRow => sig'[y] = sig[y] \/ GradedRow(y)'
  BY <1>5, <1>6 DEF GradedRow
<1>8. SettledCalls
  BY <1>0, <1>3, <1>6, RowTypes DEF SettledCalls
<1>9. PushTimely
  BY <1>1 DEF PushTimely
<1>10. GradedStand
  BY <1>0, <1>4, <1>6, RowTypes DEF GradedStand
<1>11. BarsStand
  BY <1>0, <1>1, RowTypes DEF BarsStand
<1>12. \A v \in Workers : v # w => Still(v)
  BY <1>1 DEF Still
<1>13. OnTime(w)'
  BY <1>0, <1>1 DEF OnTime, FeedTypeOK
<1> QED BY <1>1, <1>7, <1>8, <1>9, <1>10, <1>11, <1>12, <1>13, OneOnTime DEF OnTimeStep

LEMMA SaveSentOnTime ==
  ASSUME OnTimeInv, NEW w \in Workers, SaveSent(w), FeedInv'
  PROVE  OnTimeStep
<1> DEFINE x == Row(w, Head(outcomes[w]).item)
<1>0. FeedTypeOK /\ FeedTypeOK' /\ Holds(w) /\ OnTime(w)
  BY DEF OnTimeInv, FeedInv
<1>1. /\ UNCHANGED <<day, bars, pred, overtaken, pushed, job, todo, call, loaded>>
      /\ pc[w] = "sent" /\ pc' = [pc EXCEPT ![w] = "deliver"]
      /\ sig' = [sig EXCEPT ![x].status = "sent"]
      /\ outcomes' = [outcomes EXCEPT ![w] = Tail(outcomes[w])]
  BY DEF SaveSent, world, Goto
<1>2. x \in Rows /\ day <= x[2] /\ sig[x] # NoRow
  <2>1. outcomes[w] # << >>
    BY <1>0, <1>1 DEF Holds
  <2>2. Head(outcomes[w]) = outcomes[w][1] /\ 1 \in DOMAIN outcomes[w]
        /\ outcomes[w][1] \in Outcomes
    BY <1>0, <2>1, OutcomeFacts
  <2>3. Head(outcomes[w]).item \in Items
    BY <2>2 DEF Outcomes
  <2>4. sig[x] # NoRow
    BY <1>0, <2>2 DEF Holds
  <2> QED BY <1>1, <2>3, <2>4, RowToCome
<1>3. sig[x] \in SignalRow /\ sig[x].actual = 0 /\ sig[x].grade = "none"
  <2>1. GradedRow(x)
    BY <1>0, <1>2, RowTypes DEF OnTimeInv
  <2>2. ~ (x[2] < day)
    BY <1>0, <1>2, RowTypes
  <2> QED BY <1>0, <1>2, <2>1, <2>2, RowTypes DEF GradedRow
<1> HIDE DEF x
<1>4. \A y \in Rows :
         \/ sig'[y] = sig[y]
         \/ /\ y = x /\ sig'[y].actual = 0 /\ sig'[y].grade = "none"
            /\ sig'[y].status = "sent"
  BY <1>0, <1>1, <1>2, <1>3 DEF FeedTypeOK, SignalRow
<1>5. \A y \in Rows : sig'[y] # NoRow => sig'[y] = sig[y] \/ GradedRow(y)'
  BY <1>4 DEF GradedRow
<1>6. SettledCalls
  BY <1>0, <1>2, <1>4, RowTypes DEF SettledCalls
<1>7. PushTimely
  BY <1>1 DEF PushTimely
<1>8. GradedStand
  BY <1>0, <1>3, <1>4, RowTypes DEF GradedStand
<1>9. BarsStand
  BY <1>0, <1>1, RowTypes DEF BarsStand
<1>10. \A v \in Workers : v # w => Still(v)
  BY <1>0, <1>1 DEF Still, FeedTypeOK
<1>11. OnTime(w)'
  BY <1>0, <1>1 DEF OnTime, FeedTypeOK
<1> QED BY <1>1, <1>5, <1>6, <1>7, <1>8, <1>9, <1>10, <1>11, OneOnTime DEF OnTimeStep

LEMMA FillRowOnTime ==
  ASSUME OnTimeInv, NEW w \in Workers, FillRow(w), FeedInv'
  PROVE  OnTimeStep
<1>0. FeedTypeOK /\ FeedTypeOK' /\ Holds(w) /\ OnTime(w)
  BY DEF OnTimeInv, FeedInv
<1>1. /\ UNCHANGED <<day, bars, sig, pushed, pc, job, todo, call, outcomes>>
      /\ pc[w] = "filling" /\ \A v \in Workers : v # w => loaded'[v] = loaded[v]
  BY <1>0 DEF FillRow, world, FeedTypeOK
<1>2. SettledCalls /\ GradedStand /\ PushTimely
  BY <1>1 DEF SettledCalls, GradedStand, PushTimely
<1>3. BarsStand
  BY <1>0, <1>1, RowTypes DEF BarsStand
<1>4. \A v \in Workers : v # w => Still(v)
  BY <1>1 DEF Still
<1>5. OnTime(w)'
  BY <1>0, <1>1 DEF OnTime
<1> QED BY <1>1, <1>2, <1>3, <1>4, <1>5, OneOnTime DEF OnTimeStep

LEMMA GradeRowOnTime ==
  ASSUME OnTimeInv, NEW w \in Workers, GradeRow(w), FeedInv'
  PROVE  OnTimeStep
<1>0. FeedTypeOK /\ FeedTypeOK' /\ Holds(w) /\ OnTime(w)
  BY DEF OnTimeInv, FeedInv
<1>1. PICK s \in loaded[w] :
         /\ loaded' = [loaded EXCEPT ![w] = loaded[w] \ {s}]
         /\ sig' = IF bars[s.row[2]] = 0 THEN sig
                   ELSE [sig EXCEPT ![s.row].actual = bars[s.row[2]],
                                    ![s.row].grade = Grade(s.dir, s.ref, bars[s.row[2]])]
  BY DEF GradeRow
<1>2. /\ UNCHANGED <<day, bars, pred, overtaken, pushed, pc, job, todo, call, outcomes>>
      /\ pc[w] = "grading"
  BY DEF GradeRow, world
<1>3. /\ s.row \in Rows /\ sig[s.row] \in SignalRow /\ sig[s.row] # NoRow
      /\ s.row[2] < day /\ s.dir = sig[s.row].dir /\ s.ref = sig[s.row].ref
  BY <1>0, <1>2, RowTypes DEF Holds, OnTime, ToBeGraded
<1> DEFINE close == bars[s.row[2]]
<1> DEFINE g == Grade(s.dir, s.ref, close)
<1>4. GradedRow(s.row)
  BY <1>0, <1>3, RowTypes DEF OnTimeInv
<1>5. \A y \in Rows :
         \/ sig'[y] = sig[y]
         \/ /\ y = s.row /\ close # 0 /\ sig'[y].actual = close /\ sig'[y].grade = g
            /\ sig'[y].dir = sig[y].dir /\ sig'[y].ref = sig[y].ref
            /\ sig'[y].status = sig[y].status
  <2>1. \A y \in Rows : y # s.row => sig'[y] = sig[y]
    BY <1>0, <1>1 DEF FeedTypeOK
  <2>2. CASE close = 0
    BY <1>1, <2>2
  <2>3. CASE close # 0
    <3> HIDE DEF g
    <3>1. sig' = [sig EXCEPT ![s.row].actual = close, ![s.row].grade = g]
      BY <1>1, <2>3 DEF g
    <3> HIDE DEF close
    <3>2. /\ sig'[s.row].actual = close /\ sig'[s.row].grade = g
          /\ sig'[s.row].dir = sig[s.row].dir /\ sig'[s.row].ref = sig[s.row].ref
          /\ sig'[s.row].status = sig[s.row].status
      BY <1>0, <1>3, <3>1 DEF FeedTypeOK, SignalRow
    <3> QED BY <2>1, <2>3, <3>2
  <2> QED BY <2>2, <2>3
<1>6. \A y \in Rows : sig'[y] # NoRow => sig'[y] = sig[y] \/ GradedRow(y)'
  <2> SUFFICES ASSUME NEW y \in Rows, sig'[y] # sig[y] PROVE GradedRow(y)'
    OBVIOUS
  <2>1. /\ y = s.row /\ close # 0 /\ sig'[y].actual = close /\ sig'[y].grade = g
        /\ sig'[y].dir = sig[y].dir /\ sig'[y].ref = sig[y].ref
        /\ sig'[y].status = sig[y].status
    BY <1>5
  <2>2. bars' = bars /\ day' = day
    BY <1>2
  <2>3. sig[y].status = "error" => sig[y].dir = "flat"
    BY <1>4, <2>1 DEF GradedRow
  <2>4. g = Grade(sig'[y].dir, sig'[y].ref, sig'[y].actual)
    BY <1>3, <2>1
  <2> HIDE DEF g
  <2> QED BY <1>3, <2>1, <2>2, <2>3, <2>4 DEF GradedRow
<1>7. SettledCalls
  BY <1>5 DEF SettledCalls
<1>8. PushTimely
  BY <1>2 DEF PushTimely
<1>9. GradedStand
  <2> SUFFICES ASSUME NEW y \in Rows, sig[y].actual # 0, sig'[y] # sig[y] PROVE FALSE
    BY <1>0, RowTypes DEF GradedStand
  <2>1. y = s.row /\ close # 0
    BY <1>5
  <2>2. sig[y].actual = close /\ sig[y].grade = g
    BY <1>3, <1>4, <2>1 DEF GradedRow
  <2> HIDE DEF g
  <2>3. sig' = [sig EXCEPT ![s.row].actual = close, ![s.row].grade = g]
    BY <1>1, <2>1 DEF g
  <2> HIDE DEF close
  <2>4. sig'[y] = [sig[y] EXCEPT !.actual = close, !.grade = g]
    BY <1>0, <1>3, <2>1, <2>3 DEF FeedTypeOK, SignalRow
  <2>5. [sig[y] EXCEPT !.actual = close, !.grade = g] = sig[y]
    BY <1>3, <2>1, <2>2 DEF SignalRow
  <2> QED BY <2>4, <2>5
<1>10. BarsStand
  BY <1>0, <1>2, RowTypes DEF BarsStand
<1>11. \A v \in Workers : v # w => Still(v)
  BY <1>0, <1>1, <1>2 DEF Still, FeedTypeOK
<1>12. OnTime(w)'
  <2>1. loaded'[w] = loaded[w] \ {s}
    BY <1>0, <1>1 DEF FeedTypeOK
  <2>2. \A y \in Rows : sig'[y].dir = sig[y].dir /\ sig'[y].ref = sig[y].ref
    BY <1>5
  <2>3. \A q \in loaded'[w] : q.dir = sig'[q.row].dir /\ q.ref = sig'[q.row].ref
    BY <1>0, <1>2, <2>1, <2>2 DEF OnTime, Holds, ToBeGraded
  <2> QED BY <1>0, <1>2, <2>3 DEF OnTime
<1> QED BY <1>2, <1>6, <1>7, <1>8, <1>9, <1>10, <1>11, <1>12, OneOnTime DEF OnTimeStep

LEMMA WorldOnTime ==
  ASSUME OnTimeInv, PredictByHand \/ (\E d \in Sessions : SyncBar(d)) \/ Tomorrow, FeedInv'
  PROVE  OnTimeStep
<1>0. FeedTypeOK /\ FeedTypeOK' /\ \A v \in Workers : Holds(v) /\ OnTime(v)
  BY DEF OnTimeInv, FeedInv
<1>1. UNCHANGED <<sig, pushed, pc, job, todo, call, outcomes, loaded>>
  BY DEF PredictByHand, SyncBar, Tomorrow, rows, work
<1>2. BarsStand
  <2>1. CASE \E d \in Sessions : SyncBar(d)
    <3>1. PICK d \in Sessions, c \in Closes :
             day' = day /\ bars[d] = 0 /\ bars' = [bars EXCEPT ![d] = c]
      BY <2>1 DEF SyncBar
    <3> QED BY <1>0, <3>1, RowTypes DEF BarsStand, FeedTypeOK
  <2>2. CASE Tomorrow
    BY <1>0, <2>2, RowTypes DEF BarsStand, Tomorrow
  <2>3. CASE PredictByHand
    BY <1>0, <2>3, RowTypes DEF BarsStand, PredictByHand, world
  <2> QED BY <2>1, <2>2, <2>3
<1>3. SettledCalls /\ GradedStand /\ PushTimely
  BY <1>1 DEF SettledCalls, GradedStand, PushTimely
<1>4. \A v \in Workers : day' = day \/ pc[v] = "idle"
  BY DEF PredictByHand, SyncBar, Tomorrow, world
<1>5. \A v \in Workers : Still(v)
  BY <1>1 DEF Still
<1>6. \A v \in Workers : OnTime(v)'
  BY <1>0, <1>3, <1>4, <1>5, StillOnTime
<1>7. \A x \in Rows : sig'[x] # NoRow => GradedRow(x)'
  BY <1>0, <1>1, <1>2, GradedStays, RowTypes DEF OnTimeInv
<1>9. RowsOf(sig)' = {x \in Rows : sig'[x] # NoRow}
  BY <1>0 DEF RowsOf, FeedTypeOK
<1> QED BY <1>3, <1>6, <1>7, <1>9 DEF OnTimeInv, OnTimeStep

LEMMA OnTimeSteps ==
  ASSUME PastAsOf = FALSE, OnTimeInv, [Next]_vars
  PROVE  OnTimeStep
<1>0. FeedTypeOK
  BY DEF OnTimeInv, FeedInv
<1>1. FeedInv'
  BY FeedStep DEF OnTimeInv
<1>2. CASE \E w \in Workers, kind \in {"send", "recap"}, dry, flat \in BOOLEAN :
              Start(w, kind, day, dry, flat)
  BY <1>1, <1>2, QuietStepsOnTime
<1>3. CASE \E w \in Workers : Step(w)
  BY <1>1, <1>3, VisitItemOnTime, StoreSignalOnTime, QuietStepsOnTime, SaveSentOnTime,
     FillRowOnTime, GradeRowOnTime DEF Step
<1>4. CASE \E w \in Workers : Crash(w)
  BY <1>1, <1>4, QuietStepsOnTime
<1>5. CASE PredictByHand \/ (\E d \in Sessions : SyncBar(d)) \/ Tomorrow
  BY <1>1, <1>5, WorldOnTime
<1>6. CASE UNCHANGED vars
  BY <1>1, <1>6 DEF vars, world, rows, work, OnTimeStep, OnTimeInv, OnTime, RowsOf, GradedRow,
                    GradedStand, PushTimely
<1> QED BY <1>0, <1>2, <1>3, <1>4, <1>5, <1>6, Steps

LEMMA OnTimeInit ==
  ASSUME Init
  PROVE  OnTimeInv
<1>1. FeedInv
  BY FeedInit
<1>2. \A x \in Rows : sig[x] = NoRow
  BY DEF Init, Rows
<1>3. \A w \in Workers : pc[w] = "idle"
  BY DEF Init
<1>4. RowsOf(sig) = {x \in Rows : sig[x] # NoRow}
  BY <1>1, RowTypes DEF FeedInv
<1> QED BY <1>1, <1>2, <1>3, <1>4 DEF OnTimeInv, OnTime

LEMMA OnTimeAlways ==
  ASSUME PastAsOf = FALSE
  PROVE  Spec => []OnTimeInv /\ [][OnTimeStep]_vars
<1>1. Init => OnTimeInv
  BY OnTimeInit
<1>2. OnTimeInv /\ [Next]_vars => OnTimeInv' /\ OnTimeStep
  BY OnTimeSteps DEF OnTimeStep
<1> QED BY <1>1, <1>2, PTL DEF Spec

\* While every job is about the day it runs on (no earlier --as-of), a graded signal
\* shows the close of its session and the grade of the call the row shows, however
\* generate, send and recap overlap: the row recap_weekly_signals saves from an earlier
\* read has not been rebuilt in between.
THEOREM GradesMatchCalls ==
  ASSUME PastAsOf = FALSE
  PROVE  Spec => []GradeMatchesCall
<1>1. OnTimeInv => GradeMatchesCall
  <2> SUFFICES ASSUME OnTimeInv, NEW x \in RowsOf(sig)
               PROVE  /\ sig[x].actual # 0 =>
                            /\ sig[x].actual = bars[x[2]]
                            /\ sig[x].grade = Grade(sig[x].dir, sig[x].ref, sig[x].actual)
                      /\ sig[x].status = "error" \/ sig[x].dir = "flat"
                            => sig[x].grade = "none"
    BY DEF GradeMatchesCall
  <2>1. GradedRow(x)
    BY DEF OnTimeInv
  <2> QED BY <2>1, Readings DEF GradedRow
<1> QED BY <1>1, OnTimeAlways, PTL

\* Under the same hypothesis a graded signal is never changed again: not by a rebuild, a
\* late save of SENT or a second grading.
THEOREM GradedCallsAreFinal ==
  ASSUME PastAsOf = FALSE
  PROVE  Spec => GradedCallsStand
<1>1. OnTimeStep => PastAsOf \/ \A x \in RowsOf(sig) : sig[x].actual # 0 => sig'[x] = sig[x]
  BY DEF OnTimeStep, GradedStand
<1> QED BY <1>1, OnTimeAlways, PTL DEF GradedCallsStand

\* Under the same hypothesis no call is pushed on a day after the one it is about: a job
\* that starts on a weekend calls the next week (AnchorMonday).  Nothing stops one on
\* the Friday itself, before or after its close.
THEOREM PushesAreTimely ==
  ASSUME PastAsOf = FALSE
  PROVE  Spec => PushedInTime
<1>1. OnTimeStep => PastAsOf \/ \A x \in DOMAIN pushed : pushed'[x] # pushed[x] => day <= x[2]
  BY DEF OnTimeStep, PushTimely
<1> QED BY <1>1, OnTimeAlways, PTL DEF PushedInTime

-----------------------------------------------------------------------------
(* ScoreInv is inductive, whatever the as-of dates: what a backfill loop   *)
(* holds is the row, or the row was rewritten under it and is overtaken.   *)

\* A scored row stays scored when bars are added.
LEMMA ScoredStays ==
  ASSUME FeedTypeOK, FeedTypeOK', BarsStand, NEW x \in Rows, pred[x] # NoRow, ScoredRow(x),
         UNCHANGED <<pred, overtaken>>
  PROVE  ScoredRow(x)'
<1>1. day \in Nat /\ day' \in Nat /\ x[2] \in Nat /\ day <= day'
  BY RowTypes DEF BarsStand, FeedTypeOK
<1>2. CASE pred[x].actual # NoValue /\ x \notin overtaken
  <2>1. x[2] < day /\ Scored(x)
    BY <1>2 DEF ScoredRow
  <2>2. x[2] \in Days /\ x[1] \in Items /\ pred[x].base \in Days
    BY <2>1, RowTypes DEF Rows, PredictionRow
  <2>3. bars'[x[2]] = bars[x[2]]
    BY <2>1, <2>2 DEF BarsStand, Scored, ActualKnown
  <2>4. CASE Kind[x[1]] \in {"horizon_return", "direction"}
    <3>1. bars'[pred[x].base] = bars[pred[x].base]
      BY <2>1, <2>2, <2>4 DEF BarsStand, Scored, ActualKnown
    <3>2. Scored(x)'
      BY <2>1, <2>3, <3>1 DEF Scored, ActualKnown
    <3> QED BY <1>1, <2>1, <3>2 DEF ScoredRow
  <2>5. CASE Kind[x[1]] \in {"weekday_anchored", "horizon_close"}
    <3>1. \A b, k : Outcome(x[1], b, k) = k
      BY <2>5 DEF Outcome
    <3>2. Scored(x)'
      BY <2>1, <2>3, <2>5, <3>1 DEF Scored, ActualKnown
    <3> QED BY <1>1, <2>1, <3>2 DEF ScoredRow
  <2> QED BY <2>2, <2>4, <2>5, FeedConstants
<1>3. CASE pred[x].actual = NoValue \/ x \in overtaken
  BY <1>1, <1>3 DEF ScoredRow
<1> QED BY <1>2, <1>3

\* A step that leaves the predictions alone.
LEMMA QuietScore ==
  ASSUME ScoreInv, FeedInv', UNCHANGED <<pred, overtaken>>, BarsStand,
         \A w \in Workers : UpToDate(w)'
  PROVE  ScoreInv'
<1>0. FeedTypeOK /\ FeedTypeOK'
  BY DEF ScoreInv, FeedInv
<1>1. RowsOf(pred)' = RowsOf(pred) /\ RowsOf(pred) = {x \in Rows : pred[x] # NoRow}
  BY <1>0, RowTypes DEF RowsOf
<1>2. ASSUME NEW x \in RowsOf(pred) PROVE ScoredRow(x)'
  BY <1>0, <1>1, <1>2, ScoredStays DEF ScoreInv
<1> QED BY <1>1, <1>2 DEF ScoreInv

\* A prediction is stored.
LEMMA StoredScore ==
  ASSUME ScoreInv, FeedInv', NEW x \in Rows, NEW m \in Int, KnownDays(m) # {},
         NEW move \in Moves, StorePrediction(x, m, move), UNCHANGED <<day, bars, loaded>>,
         \A w \in Workers : pc'[w] = "filling" => pc[w] = "filling"
  PROVE  ScoreInv'
<1>0. FeedTypeOK /\ FeedTypeOK' /\ \A w \in Workers : Holds(w)
  BY DEF ScoreInv, FeedInv
<1>1. /\ \A y \in Rows : y # x => pred'[y] = pred[y]
      /\ pred'[x].actual = NoValue
      /\ \A y : y # x => (y \in overtaken' <=> y \in overtaken)
      /\ \A v \in Workers : pc[v] = "filling" =>
            \A p \in loaded[v] : p.row = x => x \in overtaken'
  BY <1>0, PredictionStored
<1>2. RowsOf(pred) = {y \in Rows : pred[y] # NoRow}
      /\ RowsOf(pred)' = {y \in Rows : pred'[y] # NoRow}
  BY <1>0 DEF RowsOf, FeedTypeOK
<1>3. ASSUME NEW y \in RowsOf(pred)' PROVE ScoredRow(y)'
  <2>1. CASE y = x
    BY <1>1, <2>1 DEF ScoredRow
  <2>2. CASE y # x
    <3>1. y \in RowsOf(pred) /\ pred'[y] = pred[y]
      BY <1>1, <1>2, <1>3, <2>2
    <3>2. ScoredRow(y)
      BY <3>1 DEF ScoreInv
    <3> QED BY <1>1, <2>2, <3>1, <3>2 DEF ScoredRow, Scored, ActualKnown
  <2> QED BY <2>1, <2>2
<1>4. ASSUME NEW w \in Workers PROVE UpToDate(w)'
  <2> SUFFICES ASSUME pc'[w] = "filling", NEW p \in loaded[w]
               PROVE  \/ p.row \in overtaken'
                      \/ p.base = pred'[p.row].base /\ p.move = pred'[p.row].move
    BY DEF UpToDate
  <2>1. pc[w] = "filling" /\ p.row \in Rows
    BY <1>0 DEF Holds, ToBeFilled
  <2>2. CASE p.row = x
    BY <1>1, <2>1, <2>2
  <2>3. CASE p.row # x
    BY <1>1, <2>1, <2>3 DEF ScoreInv, UpToDate
  <2> QED BY <2>2, <2>3
<1> QED BY <1>3, <1>4 DEF ScoreInv

\* A prediction is scored.
LEMMA FillRowScore ==
  ASSUME ScoreInv, FeedInv', NEW w \in Workers, FillRow(w)
  PROVE  ScoreInv'
<1>0. FeedTypeOK /\ FeedTypeOK' /\ \A v \in Workers : Holds(v) /\ UpToDate(v)
  BY DEF ScoreInv, FeedInv
<1>1. PICK p \in loaded[w] :
         /\ loaded' = [loaded EXCEPT ![w] = loaded[w] \ {p}]
         /\ pred' = IF ActualKnown(p.row[1], p.base, p.row[2])
                    THEN [pred EXCEPT
                            ![p.row].actual = Outcome(p.row[1], bars[p.base], bars[p.row[2]]),
                            ![p.row].errorOf = p.move]
                    ELSE pred
  BY DEF FillRow
<1>2. UNCHANGED <<day, bars, overtaken, pc>> /\ pc[w] = "filling"
  BY DEF FillRow, world
<1> DEFINE x == p.row
           c == Outcome(x[1], bars[p.base], bars[x[2]])
<1>3. /\ x \in Rows /\ pred[x] \in PredictionRow /\ x[2] < day
      /\ x \in overtaken \/ (p.base = pred[x].base /\ p.move = pred[x].move)
  BY <1>0, <1>2, RowTypes DEF Holds, UpToDate, ToBeFilled
<1>4. \/ pred' = pred
      \/ ActualKnown(x[1], p.base, x[2])
         /\ pred' = [pred EXCEPT ![x].actual = c, ![x].errorOf = p.move]
  BY <1>1
<1> HIDE DEF x, c
<1>5. /\ \A y \in Rows : y # x => pred'[y] = pred[y]
      /\ pred'[x].base = pred[x].base /\ pred'[x].move = pred[x].move
      /\ \/ pred'[x] = pred[x]
         \/ /\ ActualKnown(x[1], p.base, x[2])
            /\ pred'[x].actual = c /\ pred'[x].errorOf = p.move
  BY <1>0, <1>3, <1>4 DEF FeedTypeOK, PredictionRow
<1>6. RowsOf(pred) = {y \in Rows : pred[y] # NoRow}
      /\ RowsOf(pred)' = {y \in Rows : pred'[y] # NoRow}
  BY <1>0 DEF RowsOf, FeedTypeOK
<1>7. ASSUME NEW y \in RowsOf(pred)' PROVE ScoredRow(y)'
  <2>1. CASE pred'[y] = pred[y]
    <3>1. ScoredRow(y)
      BY <1>6, <1>7, <2>1 DEF ScoreInv
    <3> QED BY <1>2, <2>1, <3>1 DEF ScoredRow, Scored, ActualKnown
  <2>2. CASE pred'[y] # pred[y]
    <3>1. /\ y = x /\ ActualKnown(x[1], p.base, x[2])
          /\ pred'[x].actual = c /\ pred'[x].errorOf = p.move
      BY <1>5, <1>6, <1>7, <2>2
    <3>2. CASE x \in overtaken
      BY <1>2, <1>3, <3>1, <3>2 DEF ScoredRow
    <3>3. CASE p.base = pred[x].base /\ p.move = pred[x].move
      BY <1>2, <1>3, <1>5, <3>1, <3>3 DEF ScoredRow, Scored, ActualKnown, c
    <3> QED BY <1>3, <3>2, <3>3
  <2> QED BY <2>1, <2>2
<1>8. ASSUME NEW v \in Workers PROVE UpToDate(v)'
  <2> SUFFICES ASSUME pc[v] = "filling", NEW q \in loaded'[v]
               PROVE  \/ q.row \in overtaken
                      \/ q.base = pred'[q.row].base /\ q.move = pred'[q.row].move
    BY <1>2 DEF UpToDate
  <2>1. q \in loaded[v] /\ q.row \in Rows
    BY <1>0, <1>1 DEF FeedTypeOK, Holds, ToBeFilled
  <2>2. pred'[q.row].base = pred[q.row].base /\ pred'[q.row].move = pred[q.row].move
    BY <1>5, <2>1
  <2> QED BY <1>0, <2>1, <2>2 DEF UpToDate
<1> QED BY <1>7, <1>8 DEF ScoreInv

LEMMA ScoreStep ==
  ASSUME ScoreInv, [Next]_vars
  PROVE  ScoreInv'
<1>0. FeedInv /\ FeedTypeOK /\ \A v \in Workers : Holds(v) /\ UpToDate(v)
  BY DEF ScoreInv, FeedInv
<1>1. FeedInv'
  BY <1>0, FeedStep
<1>2. BarsStand
  <2>1. CASE \E d \in Sessions : SyncBar(d)
    <3>1. PICK d \in Sessions, k \in Closes :
             day' = day /\ bars[d] = 0 /\ bars' = [bars EXCEPT ![d] = k]
      BY <2>1 DEF SyncBar
    <3> QED BY <1>0, <3>1, RowTypes DEF BarsStand, FeedTypeOK
  <2>2. CASE Tomorrow
    BY <1>0, <2>2, RowTypes DEF BarsStand, Tomorrow
  <2>3. CASE UNCHANGED <<day, bars>>
    BY <1>0, <2>3, RowTypes DEF BarsStand
  <2>4. UNCHANGED <<day, bars>> \/ (\E d \in Sessions : SyncBar(d)) \/ Tomorrow
    BY DEF Next, ScheduledSend, ScheduledRecap, ManualJob, Start, PredictByHand, Step,
           VisitItem, StoreSignal, Generated, Push, SaveSent, PassOver, Delivered, Fill,
           FillRow, Filled, GradeRow, Recapped, Crash, world, vars
  <2> QED BY <2>1, <2>2, <2>3, <2>4
<1>3. ASSUME NEW w \in Workers, VisitItem(w) PROVE ScoreInv'
  <2> DEFINE it == Head(todo[w])
  <2>1. /\ UNCHANGED <<day, bars, loaded, job, todo>> /\ pc' = [pc EXCEPT ![w] = "store"]
        /\ todo[w] # << >>
    BY <1>3 DEF VisitItem, world, Goto
  <2>2. it \in Items /\ Monday(w) \in Int
    <3>1. job[w].asof \in 0..LastDay
      BY <1>0 DEF FeedTypeOK, Jobs
    <3> QED BY <1>0, <2>1, <3>1, AnchorFacts DEF Monday, FeedTypeOK
  <2>3. \A v \in Workers : pc'[v] = "filling" => pc[v] = "filling"
    BY <1>0, <2>1 DEF FeedTypeOK
  <2>4. CASE CanPredict(it, Monday(w))
    <3>1. PICK move \in Moves : StorePrediction(Row(w, it), Monday(w), move)
      BY <1>3, <2>4 DEF VisitItem
    <3>2. KnownDays(Monday(w)) # {} /\ Row(w, it) \in Rows
      BY <1>0, <2>2, <2>4, RowFacts DEF CanPredict
    <3> QED BY <1>1, <2>1, <2>2, <2>3, <3>1, <3>2, StoredScore
  <2>5. CASE ~ CanPredict(it, Monday(w))
    <3>1. UNCHANGED <<pred, overtaken>>
      BY <1>3, <2>5 DEF VisitItem
    <3>2. \A v \in Workers : UpToDate(v)'
      BY <1>0, <2>1, <2>3, <3>1 DEF UpToDate
    <3> QED BY <1>1, <1>2, <3>1, <3>2, QuietScore
  <2> QED BY <2>4, <2>5
<1>4. CASE PredictByHand
  <2>1. UNCHANGED <<day, bars, loaded, pc>>
    BY <1>4 DEF PredictByHand, world, work
  <2>2. PICK x \in Rows, m \in Int, move \in Moves :
           KnownDays(m) # {} /\ StorePrediction(x, m, move)
    BY <1>0, <1>4, HandFacts
  <2> QED BY <1>1, <2>1, <2>2, StoredScore
<1>5. ASSUME NEW w \in Workers, Fill(w) PROVE ScoreInv'
  <2>1. /\ UNCHANGED <<pred, overtaken>>
        /\ \A v \in Workers : v # w => pc'[v] = pc[v] /\ loaded'[v] = loaded[v]
        /\ loaded'[w] = {[row |-> x, base |-> pred[x].base, move |-> pred[x].move] : x \in ToFill}
    BY <1>0, <1>5 DEF Fill, Goto, rows, FeedTypeOK
  <2>2. \A p \in loaded'[w] : p.base = pred[p.row].base /\ p.move = pred[p.row].move
    BY <2>1
  <2>3. \A v \in Workers : UpToDate(v)'
    BY <1>0, <2>1, <2>2 DEF UpToDate
  <2> QED BY <1>1, <1>2, <2>1, <2>3, QuietScore
<1>6. ASSUME NEW w \in Workers, FillRow(w) PROVE ScoreInv'
  BY <1>1, <1>6, FillRowScore
<1>7. ASSUME UNCHANGED <<pred, overtaken>>, NEW w \in Workers, pc'[w] # "filling",
             \A v \in Workers : v # w => pc'[v] = pc[v] /\ loaded'[v] = loaded[v]
      PROVE  ScoreInv'
  <2>1. \A v \in Workers : UpToDate(v)'
    BY <1>0, <1>7 DEF UpToDate
  <2> QED BY <1>1, <1>2, <1>7, <2>1, QuietScore
<1>8. ASSUME NEW w \in Workers,
             StoreSignal(w) \/ Generated(w) \/ Push(w) \/ SaveSent(w) \/ PassOver(w)
      PROVE  ScoreInv'
  <2>1. UNCHANGED <<pred, overtaken, loaded>> /\ pc'[w] # "filling"
        /\ \A v \in Workers : v # w => pc'[v] = pc[v]
    BY <1>0, <1>8 DEF StoreSignal, Generated, Push, NextAfterPush, SaveSent, PassOver, Goto,
                      rows, FeedTypeOK
  <2> QED BY <1>7, <2>1
<1>9. ASSUME NEW w \in Workers,
             Filled(w) \/ GradeRow(w) \/ Delivered(w) \/ Recapped(w) \/ Crash(w)
      PROVE  ScoreInv'
  <2>1. UNCHANGED <<pred, overtaken>> /\ pc'[w] # "filling"
        /\ \A v \in Workers : v # w => pc'[v] = pc[v] /\ loaded'[v] = loaded[v]
    BY <1>0, <1>9 DEF Filled, GradeRow, Delivered, Recapped, Crash, Finish, Goto, rows,
                      FeedTypeOK
  <2> QED BY <1>7, <2>1
<1>10. ASSUME NEW w \in Workers, NEW kind \in {"send", "recap"}, NEW asof, NEW dry, NEW flat,
              Start(w, kind, asof, dry, flat)
       PROVE  ScoreInv'
  <2>1. UNCHANGED <<pred, overtaken, loaded>> /\ pc'[w] # "filling"
        /\ \A v \in Workers : v # w => pc'[v] = pc[v]
    BY <1>0, <1>10 DEF Start, Goto, rows, FeedTypeOK
  <2> QED BY <1>7, <2>1
<1>11. CASE (\E d \in Sessions : SyncBar(d)) \/ Tomorrow \/ UNCHANGED vars
  <2>1. UNCHANGED <<pred, overtaken, pc, loaded>>
    BY <1>11 DEF SyncBar, Tomorrow, rows, work, vars
  <2>2. \A v \in Workers : UpToDate(v)'
    BY <1>0, <2>1 DEF UpToDate
  <2> QED BY <1>1, <1>2, <2>1, <2>2, QuietScore
<1>12. CASE \E w \in Workers : Step(w)
  BY <1>3, <1>5, <1>6, <1>8, <1>9, <1>12 DEF Step
<1> QED BY <1>0, <1>4, <1>9, <1>10, <1>11, <1>12, Steps

\* For any as-of dates and any overlap of recaps, builds and hand-made forecasts: what
\* backfill_actuals has saved in a prediction is the actual and the error of the row as
\* it stands, unless the row was rewritten between the loop's read and its save.
THEOREM ErrorsAreOfTheForecast == Spec => []ErrorsMatchPredictions
<1>1. Init => ScoreInv
  <2> SUFFICES ASSUME Init PROVE ScoreInv
    OBVIOUS
  <2>1. FeedInv
    BY FeedInit
  <2>2. \A x \in Rows : pred[x] = NoRow
    BY DEF Init, Rows
  <2>3. RowsOf(pred) = {x \in Rows : pred[x] # NoRow}
    BY <2>1, RowTypes DEF FeedInv
  <2>4. \A w \in Workers : pc[w] = "idle"
    BY DEF Init
  <2> QED BY <2>1, <2>2, <2>3, <2>4 DEF ScoreInv, UpToDate
<1>2. ScoreInv /\ [Next]_vars => ScoreInv'
  BY ScoreStep
<1>3. ScoreInv => ErrorsMatchPredictions
  BY DEF ScoreInv, ErrorsMatchPredictions, ScoredRow, Scored
<1> QED BY <1>1, <1>2, <1>3, PTL DEF Spec

-----------------------------------------------------------------------------
(* OneJobInv is inductive while one job runs at a time.                    *)

\* No item is on the watchlist twice.
LEMMA WatchedOnce ==
  \A j, k \in DOMAIN WatchList : WatchList[j] = WatchList[k] => j = k
<1>1. WatchList \in Seq(Items) /\ Cardinality(Items) = Len(WatchList)
  BY FeedConstants
<1>2. DOMAIN WatchList = 1..Len(WatchList) /\ Len(WatchList) \in Nat
  BY <1>1
<1>3. IsFiniteSet(1..Len(WatchList)) /\ Cardinality(1..Len(WatchList)) = Len(WatchList)
  <2> DEFINE n == Len(WatchList)
  <2>1. n \in Nat
    BY <1>2
  <2> HIDE DEF n
  <2>2. IsFiniteSet(1..n) /\ Cardinality(1..n) = (IF 1 > n THEN 0 ELSE n - 1 + 1)
    BY <2>1, FS_Interval
  <2>3. Cardinality(1..n) = n
    BY <2>1, <2>2
  <2> QED BY <2>2, <2>3 DEF n
<1>4. WatchList \in Surjection(1..Len(WatchList), Items)
  <2>1. WatchList \in [1..Len(WatchList) -> Items]
    BY <1>1
  <2>2. \A t \in Items : \E s \in 1..Len(WatchList) : WatchList[s] = t
    BY <1>2 DEF Items
  <2> QED BY <2>1, <2>2 DEF Surjection
<1>5. WatchList \in Injection(1..Len(WatchList), Items)
  BY <1>1, <1>3, <1>4, FS_Surjection
<1> QED BY <1>2, <1>5 DEF Injection, IsInjective

\* The direction of a row that is there is not touched.
DirsStand == \A x \in Rows : sig[x] # NoRow => sig'[x].dir = sig[x].dir

\* A row marked sent says what was pushed, row by row.
SentRow(x) == sig[x] # NoRow /\ sig[x].status = "sent" => sig[x].dir \in pushed[x]

LEMMA SentByRow ==
  ASSUME FeedTypeOK
  PROVE  SentSaysWhatWasPushed <=> \A x \in Rows : SentRow(x)
BY RowTypes DEF SentSaysWhatWasPushed, SentRow

\* A job that has built nothing.
LEMMA EmptyInStep ==
  ASSUME FeedInv', NEW w \in Workers, pc'[w] # "sent", outcomes'[w] = << >>,
         \A j, k \in DOMAIN todo'[w] : todo'[w][j] = todo'[w][k] => j = k
  PROVE  InStep(w)'
BY DEF InStep

\* A job that keeps what it has built.
LEMMA KeptInStep ==
  ASSUME FeedTypeOK, NEW w \in Workers, Holds(w), InStep(w), DirsStand, job' = job,
         outcomes' = outcomes, todo'[w] = todo[w],
         pc'[w] = "sent" => /\ outcomes[w] # << >>
                            /\ Head(outcomes[w]).dir \in
                                   pushed'[Row(w, Head(outcomes[w]).item)]
  PROVE  InStep(w)'
<1>1. \A it : Row(w, it)' = Row(w, it)
  BY DEF Row, Monday
<1>2. \A k \in DOMAIN outcomes[w] :
         sig'[Row(w, outcomes[w][k].item)].dir = outcomes[w][k].dir
  BY OutcomeFacts DEF Holds, InStep, DirsStand
<1> QED BY <1>1, <1>2 DEF InStep

\* A job that drops the head of what it has built.
LEMMA DroppedInStep ==
  ASSUME FeedTypeOK, NEW w \in Workers, Holds(w), InStep(w), DirsStand, job' = job,
         outcomes[w] # << >>, outcomes' = [outcomes EXCEPT ![w] = Tail(outcomes[w])],
         todo' = todo, pc'[w] # "sent"
  PROVE  InStep(w)'
<1>1. \A it : Row(w, it)' = Row(w, it)
  BY DEF Row, Monday
<1>2. outcomes'[w] = Tail(outcomes[w])
  BY DEF FeedTypeOK
<1>3. \A k \in DOMAIN Tail(outcomes[w]) :
         /\ sig'[Row(w, Tail(outcomes[w])[k].item)].dir = Tail(outcomes[w])[k].dir
         /\ \A j \in DOMAIN todo[w] : todo[w][j] # Tail(outcomes[w])[k].item
  <2> TAKE k \in DOMAIN Tail(outcomes[w])
  <2>1. k + 1 \in DOMAIN outcomes[w] /\ Tail(outcomes[w])[k] = outcomes[w][k + 1]
    BY OutcomeFacts
  <2>2. Row(w, outcomes[w][k + 1].item) \in Rows
        /\ sig[Row(w, outcomes[w][k + 1].item)] # NoRow
    BY <2>1, OutcomeFacts DEF Holds
  <2> QED BY <2>1, <2>2 DEF InStep, DirsStand
<1>4. \A j, k \in DOMAIN todo'[w] : todo'[w][j] = todo'[w][k] => j = k
  BY DEF InStep
<1>5. \A k \in DOMAIN outcomes'[w] :
         /\ sig'[Row(w, outcomes'[w][k].item)].dir = outcomes'[w][k].dir
         /\ \A j \in DOMAIN todo'[w] : todo'[w][j] # outcomes'[w][k].item
  BY <1>2, <1>3
<1> QED BY <1>1, <1>4, <1>5 DEF InStep

\* The signal a job stores is about an item it has not built a signal for.
LEMMA StoredInStep ==
  ASSUME FeedInv, NEW w \in Workers, InStep(w), StoreSignal(w)
  PROVE  InStep(w)'
<1> DEFINE it == Head(todo[w])
<1> DEFINE x == Row(w, it)
<1> DEFINE s == Built(sig[x], it, call[w])
<1> DEFINE o == [item |-> it, dir |-> s.dir, status |-> s.status]
<1>0. FeedTypeOK /\ Holds(w)
  BY DEF FeedInv
<1>1. /\ job' = job /\ pc[w] = "store" /\ todo[w] # << >> /\ pc'[w] = "item"
      /\ sig' = [sig EXCEPT ![x] = s]
      /\ outcomes'[w] = Append(outcomes[w], o)
      /\ todo'[w] = Tail(todo[w])
  BY <1>0 DEF StoreSignal, world, Goto, Holds, FeedTypeOK
<1>2. todo[w] \in Seq(Items) /\ outcomes[w] \in Seq(Outcomes)
  BY <1>0 DEF FeedTypeOK
<1>3. /\ it = todo[w][1] /\ 1 \in DOMAIN todo[w] /\ it \in Items
      /\ \A j \in DOMAIN Tail(todo[w]) :
            /\ j \in Nat /\ j + 1 # 1 /\ j + 1 \in DOMAIN todo[w]
            /\ Tail(todo[w])[j] = todo[w][j + 1]
  BY <1>1, <1>2
<1>4. \A i : Row(w, i)' = Row(w, i)
  BY <1>1 DEF Row, Monday
<1>5. x \in Rows
  BY <1>0, <1>3, RowFacts
<1>6. o.item = it /\ o.dir = s.dir
  OBVIOUS
<1>7. sig'[x] = s /\ \A y \in Rows : y # x => sig'[y] = sig[y]
  BY <1>0, <1>1, <1>5 DEF FeedTypeOK
<1> HIDE DEF it, s, o
<1>8. \A k \in DOMAIN outcomes'[w] :
         \/ k \in DOMAIN outcomes[w] /\ outcomes'[w][k] = outcomes[w][k]
         \/ outcomes'[w][k] = o
  <2> HIDE DEF Outcomes
  <2> QED BY <1>1, <1>2
<1>9. \A j, k \in DOMAIN todo'[w] : todo'[w][j] = todo'[w][k] => j = k
  <2> SUFFICES ASSUME NEW j \in DOMAIN Tail(todo[w]), NEW k \in DOMAIN Tail(todo[w]),
                      Tail(todo[w])[j] = Tail(todo[w])[k]
               PROVE  j = k
    BY <1>1
  <2>1. j + 1 = k + 1
    BY <1>3 DEF InStep
  <2> QED BY <1>3, <2>1
<1>10. \A k \in DOMAIN outcomes'[w] :
         /\ sig'[Row(w, outcomes'[w][k].item)].dir = outcomes'[w][k].dir
         /\ \A j \in DOMAIN todo'[w] : todo'[w][j] # outcomes'[w][k].item
  <2> TAKE k \in DOMAIN outcomes'[w]
  <2>1. CASE k \in DOMAIN outcomes[w] /\ outcomes'[w][k] = outcomes[w][k]
    <3>1. outcomes[w][k].item # it
      BY <1>3, <2>1 DEF InStep
    <3>2. Row(w, outcomes[w][k].item) # x
      BY <3>1 DEF Row
    <3>3. Row(w, outcomes[w][k].item) \in Rows
      BY <1>0, <2>1, OutcomeFacts
    <3>4. sig'[Row(w, outcomes[w][k].item)].dir = outcomes[w][k].dir
      BY <1>7, <2>1, <3>2, <3>3 DEF InStep
    <3>5. \A j \in DOMAIN todo'[w] : todo'[w][j] # outcomes[w][k].item
      BY <1>1, <1>3, <2>1 DEF InStep
    <3> QED BY <2>1, <3>4, <3>5
  <2>2. CASE outcomes'[w][k] = o
    <3>1. \A j \in DOMAIN todo'[w] : todo'[w][j] # it
      BY <1>1, <1>3 DEF InStep
    <3> QED BY <1>6, <1>7, <2>2, <3>1
  <2> QED BY <1>8, <2>1, <2>2
<1> QED BY <1>1, <1>4, <1>9, <1>10 DEF InStep

LEMMA OneJobStep ==
  ASSUME \A v, w \in Workers : v = w, OneJobInv, NEW w \in Workers, Step(w), FeedInv'
  PROVE  OneJobInv'
<1>0. FeedTypeOK /\ FeedTypeOK' /\ Holds(w) /\ InStep(w) /\ \A x \in Rows : SentRow(x)
  BY SentByRow DEF OneJobInv, FeedInv
<1> SUFFICES InStep(w)' /\ \A x \in Rows : SentRow(x)'
  <2>1. SentSaysWhatWasPushed' <=> \A x \in Rows : SentRow(x)'
    BY <1>0, RowTypes DEF SentSaysWhatWasPushed, SentRow, RowsOf, FeedTypeOK
  <2> QED BY <2>1 DEF OneJobInv
<1>1. CASE StoreSignal(w)
  <2>1. InStep(w)'
    BY <1>0, <1>1, StoredInStep DEF OneJobInv
  <2>2. \A x \in Rows : sig'[x] = sig[x] \/ sig'[x].status # "sent"
    <3> DEFINE x == Row(w, Head(todo[w]))
    <3> DEFINE s == Built(sig[x], Head(todo[w]), call[w])
    <3>1. sig' = [sig EXCEPT ![x] = s]
      BY <1>1 DEF StoreSignal
    <3>2. s.status # "sent"
      BY DEF Built, Verdict
    <3> HIDE DEF x, s
    <3> QED BY <1>0, <3>1, <3>2 DEF FeedTypeOK
  <2>3. pushed' = pushed
    BY <1>1 DEF StoreSignal
  <2> QED BY <1>0, <2>1, <2>2, <2>3 DEF SentRow
<1>2. CASE VisitItem(w) \/ Generated(w)
  <2>1. sig' = sig /\ pushed' = pushed /\ job' = job /\ outcomes' = outcomes /\ todo' = todo
        /\ pc'[w] # "sent"
    BY <1>0, <1>2 DEF VisitItem, Generated, Goto, rows, FeedTypeOK
  <2>2. InStep(w)'
    BY <1>0, <2>1, KeptInStep DEF DirsStand
  <2> QED BY <1>0, <2>1, <2>2 DEF SentRow
<1>3. CASE Push(w)
  <2> DEFINE o == Head(outcomes[w])
  <2>1. PICK sent \in BOOLEAN :
           /\ pushed' = IF sent THEN [pushed EXCEPT ![Row(w, o.item)] = @ \cup {o.dir}]
                        ELSE pushed
           /\ pc' = [pc EXCEPT ![w] = NextAfterPush(sent)]
           /\ outcomes' = IF NextAfterPush(sent) = "sent" THEN outcomes
                          ELSE [outcomes EXCEPT ![w] = Tail(outcomes[w])]
    BY <1>3 DEF Push, Goto
  <2>2. sig' = sig /\ job' = job /\ todo' = todo /\ outcomes[w] # << >>
    BY <1>3 DEF Push, rows
  <2>3. \A x \in Rows : pushed[x] \subseteq pushed'[x]
    BY <1>0, <2>1 DEF FeedTypeOK
  <2>4. NextAfterPush(sent) = IF sent THEN "sent" ELSE "deliver"
    BY DEF NextAfterPush
  <2>5. pc'[w] = NextAfterPush(sent)
    BY <1>0, <2>1 DEF FeedTypeOK
  <2>6. DirsStand
    BY <2>2 DEF DirsStand
  <2>7. InStep(w)'
    <3>1. CASE sent
      <4>1. Row(w, o.item) \in Rows
        BY <1>0, <2>2, OutcomeFacts
      <4>2. o.dir \in pushed'[Row(w, o.item)]
        <5> HIDE DEF o
        <5> QED BY <1>0, <2>1, <3>1, <4>1 DEF FeedTypeOK
      <4> QED BY <1>0, <2>1, <2>2, <2>4, <2>6, <3>1, <4>2, KeptInStep
    <3>2. CASE ~ sent
      BY <1>0, <2>1, <2>2, <2>4, <2>5, <2>6, <3>2, DroppedInStep
    <3> QED BY <3>1, <3>2
  <2> QED BY <1>0, <2>2, <2>3, <2>7 DEF SentRow
<1>4. CASE SaveSent(w)
  <2> DEFINE x == Row(w, Head(outcomes[w]).item)
  <2>1. /\ pushed' = pushed /\ job' = job /\ todo' = todo
        /\ pc[w] = "sent" /\ pc'[w] = "deliver"
        /\ sig' = [sig EXCEPT ![x].status = "sent"]
        /\ outcomes' = [outcomes EXCEPT ![w] = Tail(outcomes[w])]
    BY <1>0, <1>4 DEF SaveSent, Goto, FeedTypeOK
  <2>2. outcomes[w] # << >>
    BY <1>0, <2>1 DEF Holds
  <2>3. /\ Head(outcomes[w]) = outcomes[w][1] /\ 1 \in DOMAIN outcomes[w]
        /\ x \in Rows /\ sig[x] # NoRow /\ sig[x] \in SignalRow
    BY <1>0, <2>2, OutcomeFacts, RowTypes DEF Holds
  <2>4. sig[x].dir = Head(outcomes[w]).dir /\ Head(outcomes[w]).dir \in pushed[x]
    BY <1>0, <2>1, <2>3 DEF InStep
  <2> HIDE DEF x
  <2>5. sig'[x].dir = sig[x].dir /\ \A y \in Rows : y # x => sig'[y] = sig[y]
    BY <1>0, <2>1, <2>3 DEF FeedTypeOK, SignalRow
  <2>6. DirsStand
    BY <2>5 DEF DirsStand
  <2>7. InStep(w)'
    BY <1>0, <2>1, <2>2, <2>6, DroppedInStep
  <2> QED BY <1>0, <2>1, <2>4, <2>5, <2>7 DEF SentRow
<1>5. CASE PassOver(w)
  <2>1. /\ sig' = sig /\ pushed' = pushed /\ job' = job /\ todo' = todo /\ outcomes[w] # << >>
        /\ pc[w] = "deliver" /\ pc' = pc
        /\ outcomes' = [outcomes EXCEPT ![w] = Tail(outcomes[w])]
    BY <1>5 DEF PassOver, rows
  <2>2. InStep(w)'
    BY <1>0, <2>1, DroppedInStep DEF DirsStand
  <2> QED BY <1>0, <2>1, <2>2 DEF SentRow
<1>6. CASE Delivered(w) \/ Recapped(w) \/ Fill(w) \/ FillRow(w) \/ Filled(w)
  <2>1. sig' = sig /\ pushed' = pushed /\ outcomes' = outcomes /\ todo' = todo
        /\ pc'[w] # "sent" /\ outcomes[w] = << >>
    BY <1>0, <1>6 DEF Delivered, Recapped, Fill, FillRow, Filled, Finish, Goto, rows,
                      FeedTypeOK, Holds, Generating
  <2>2. InStep(w)'
    BY <1>0, <2>1, EmptyInStep DEF InStep
  <2> QED BY <1>0, <2>1, <2>2 DEF SentRow
<1>7. CASE GradeRow(w)
  <2>1. pushed' = pushed /\ outcomes' = outcomes /\ todo' = todo /\ pc' = pc
        /\ pc[w] = "grading" /\ outcomes[w] = << >>
    BY <1>0, <1>7 DEF GradeRow, Holds, Generating
  <2>2. InStep(w)'
    BY <1>0, <2>1, EmptyInStep DEF InStep
  <2>3. \A x \in Rows : sig'[x] # NoRow =>
           /\ sig[x] # NoRow
           /\ sig'[x].dir = sig[x].dir /\ sig'[x].status = sig[x].status
    <3>1. PICK s \in loaded[w] :
             sig' = IF bars[s.row[2]] = 0 THEN sig
                    ELSE [sig EXCEPT ![s.row].actual = bars[s.row[2]],
                              ![s.row].grade = Grade(s.dir, s.ref, bars[s.row[2]])]
      BY <1>7 DEF GradeRow
    <3>2. s.row \in Rows /\ sig[s.row] # NoRow /\ sig[s.row] \in SignalRow
      BY <1>0, <2>1, RowTypes DEF Holds, ToBeGraded
    <3> DEFINE c == bars[s.row[2]]
    <3> DEFINE g == Grade(s.dir, s.ref, c)
    <3> HIDE DEF g
    <3>3. sig' = sig \/ sig' = [sig EXCEPT ![s.row].actual = c, ![s.row].grade = g]
      BY <3>1 DEF g
    <3> HIDE DEF c
    <3> DEFINE r == [sig[s.row] EXCEPT !.actual = c, !.grade = g]
    <3>4. r.dir = sig[s.row].dir /\ r.status = sig[s.row].status
      BY <3>2 DEF SignalRow
    <3>5. sig' = sig \/ sig' = [sig EXCEPT ![s.row] = r]
      BY <1>0, <3>2, <3>3 DEF FeedTypeOK, SignalRow
    <3> HIDE DEF r
    <3>6. sig \in [Rows -> SignalRow \cup {NoRow}]
      BY <1>0 DEF FeedTypeOK
    <3> QED BY <3>2, <3>4, <3>5, <3>6
  <2> QED BY <1>0, <2>1, <2>2, <2>3 DEF SentRow
<1> QED BY <1>1, <1>2, <1>3, <1>4, <1>5, <1>6, <1>7 DEF Step

LEMMA OneJobSteps ==
  ASSUME \A v, w \in Workers : v = w, OneJobInv, [Next]_vars
  PROVE  OneJobInv'
<1>0. FeedTypeOK /\ \A w \in Workers : Holds(w) /\ InStep(w)
  BY DEF OneJobInv, FeedInv
<1>1. FeedInv'
  BY FeedStep DEF OneJobInv
<1>2. ASSUME sig' = sig, pushed' = pushed, \A w \in Workers : InStep(w)'
      PROVE  OneJobInv'
  BY <1>1, <1>2 DEF OneJobInv, SentSaysWhatWasPushed, RowsOf
<1>3. ASSUME NEW w \in Workers, NEW kind \in {"send", "recap"}, NEW asof, NEW dry, NEW flat,
             Start(w, kind, asof, dry, flat)
      PROVE  OneJobInv'
  <2>1. /\ sig' = sig /\ pushed' = pushed /\ outcomes' = outcomes /\ pc'[w] # "sent"
        /\ outcomes[w] = << >> /\ (todo'[w] = WatchList \/ todo'[w] = << >>)
    BY <1>0, <1>3 DEF Start, Goto, rows, FeedTypeOK, Holds, Generating
  <2>2. InStep(w)'
    <3>1. \A j, k \in DOMAIN todo'[w] : todo'[w][j] = todo'[w][k] => j = k
      BY <2>1, WatchedOnce
    <3> QED BY <1>1, <2>1, <3>1, EmptyInStep
  <2>3. \A v \in Workers : InStep(v)'
    BY <2>2
  <2> QED BY <1>2, <2>1, <2>3
<1>4. CASE \E w \in Workers : Step(w)
  BY <1>1, <1>4, OneJobStep
<1>5. ASSUME NEW w \in Workers, Crash(w)
      PROVE  OneJobInv'
  <2>1. /\ sig' = sig /\ pushed' = pushed /\ outcomes'[w] = << >> /\ pc'[w] # "sent"
        /\ todo'[w] = << >>
    BY <1>0, <1>5 DEF Crash, Finish, Goto, rows, FeedTypeOK
  <2>2. InStep(w)'
    BY <1>1, <2>1, EmptyInStep
  <2>3. \A v \in Workers : InStep(v)'
    BY <2>2
  <2> QED BY <1>2, <2>1, <2>3
<1>6. CASE PredictByHand \/ (\E d \in Sessions : SyncBar(d)) \/ Tomorrow
  <2>1. UNCHANGED <<sig, pushed, pc, job, todo, outcomes>>
    BY <1>6 DEF PredictByHand, SyncBar, Tomorrow, rows, work
  <2>2. \A w \in Workers : InStep(w)'
    BY <1>0, <2>1 DEF InStep, Row, Monday
  <2> QED BY <1>2, <2>1, <2>2
<1>7. CASE UNCHANGED vars
  <2>1. UNCHANGED <<sig, pushed, pc, job, todo, outcomes>>
    BY <1>7 DEF vars, rows, work
  <2>2. \A w \in Workers : InStep(w)'
    BY <1>0, <2>1 DEF InStep, Row, Monday
  <2> QED BY <1>2, <2>1, <2>2
<1> QED BY <1>0, <1>3, <1>4, <1>5, <1>6, <1>7, Steps

\* With one job at a time, for any watchlist and any as-of dates, the direction a SENT
\* signal shows is one that was pushed: the track record is that of the calls the
\* subscribers got.
THEOREM SentSaysWhatWasPushedAlways ==
  ASSUME \A v, w \in Workers : v = w
  PROVE  Spec => []SentSaysWhatWasPushed
<1>1. Init => OneJobInv
  <2> SUFFICES ASSUME Init PROVE OneJobInv
    OBVIOUS
  <2>1. FeedInv
    BY FeedInit
  <2>2. \A w \in Workers : pc[w] = "idle" /\ todo[w] = << >> /\ outcomes[w] = << >>
    BY DEF Init
  <2>3. \A x \in Rows : sig[x] = NoRow
    BY DEF Init, Rows
  <2>4. SentSaysWhatWasPushed
    BY <2>1, <2>3, SentByRow DEF SentRow, FeedInv
  <2> QED BY <2>1, <2>2, <2>4 DEF OneJobInv, InStep
<1>2. OneJobInv /\ [Next]_vars => OneJobInv'
  BY OneJobSteps
<1>3. OneJobInv => SentSaysWhatWasPushed
  BY DEF OneJobInv
<1> QED BY <1>1, <1>2, <1>3, PTL DEF Spec
=============================================================================
