----------------------------- MODULE SearchProofs -----------------------------
(***************************************************************************)
(* Theorems about the model search of Evaluations, for spaces and scores   *)
(* of any size: what best_result points to, what the Pareto flags are good *)
(* for, and that no candidate is stored twice.                             *)
(*                                                                         *)
(* SearchInv says what the rows are and when they are stored; the rest are *)
(* facts about ranks and domination among finitely many rows.              *)
(***************************************************************************)
EXTENDS BacktestProofs

-----------------------------------------------------------------------------
(* Rows, ranks and domination.                                             *)

RowFields == {"key", "params", "status", "score", "cost"}

\* A row as _evaluate makes it.
IsRow(row) ==
  /\ DOMAIN row = RowFields
  /\ row.status \in {"ok", "failed"}
  /\ row.score \in {NoScore, NotFinite} \/ row.score \in Int
  /\ \A f \in CostFields : row.cost[f] \in Int

\* Finitely many rows, of which the ok ones are scored.
AreRows(rows) ==
  /\ \E n \in Nat : DOMAIN rows = 1..n
  /\ \A i \in DOMAIN rows : IsRow(rows[i])

ScoredIndices(rows) == {i \in DOMAIN rows : IsScored(rows[i])}
Better(rows) ==
  {p \in ScoredIndices(rows) \X ScoredIndices(rows) :
      \/ rows[p[1]].score > rows[p[2]].score
      \/ rows[p[1]].score = rows[p[2]].score /\ p[1] < p[2]}
Dominating(rows) ==
  {p \in ScoredIndices(rows) \X ScoredIndices(rows) : Dominates(rows[p[1]], rows[p[2]])}

\* Scored rows have numbers for scores.
LEMMA ScoredRows ==
  ASSUME NEW rows, AreRows(rows)
  PROVE  /\ IsFiniteSet(ScoredIndices(rows))
         /\ \A i \in ScoredIndices(rows) : i \in DOMAIN rows /\ i \in Int /\ rows[i].score \in Int
                                           /\ \A f \in CostFields : rows[i].cost[f] \in Int
<1>1. PICK n \in Nat : DOMAIN rows = 1..n
  BY DEF AreRows
<1>2. ScoredIndices(rows) \in SUBSET (1..n) /\ IsFiniteSet(1..n)
  BY <1>1, FS_Interval DEF ScoredIndices
<1>3. IsFiniteSet(ScoredIndices(rows))
  BY <1>2, FS_Subset
<1> QED BY <1>1, <1>3 DEF AreRows, IsRow, ScoredIndices, IsScored

\* Rank 1 is a row that no scored row beats.
LEMMA RankOneIsBest ==
  ASSUME NEW rows, AreRows(rows), NEW i \in ScoredIndices(rows)
  PROVE  RankOf(rows, i) = 1 <=> \A j \in ScoredIndices(rows) : <<j, i>> \notin Better(rows)
<1> DEFINE B == {j \in DOMAIN rows : /\ IsScored(rows[j])
                                     /\ \/ rows[j].score > rows[i].score
                                        \/ rows[j].score = rows[i].score /\ j < i}
<1>1. B \in SUBSET ScoredIndices(rows)
  BY DEF ScoredIndices
<1>2. IsFiniteSet(B) /\ Cardinality(B) \in Nat
  BY <1>1, ScoredRows, FS_Subset, FS_CardinalityType
<1>3. RankOf(rows, i) = 1 + Cardinality(B)
  BY DEF RankOf
<1>4. RankOf(rows, i) = 1 <=> B = {}
  <2> HIDE DEF B
  <2> QED BY <1>2, <1>3, FS_EmptySet
<1>5. \A j \in ScoredIndices(rows) : j \in B <=> <<j, i>> \in Better(rows)
  BY DEF Better, ScoredIndices
<1> HIDE DEF B
<1> QED BY <1>1, <1>4, <1>5

\* If a row is scored, a row has rank 1.
LEMMA SomeoneIsBest ==
  ASSUME NEW rows, AreRows(rows), ScoredIndices(rows) # {}
  PROVE  \E i \in ScoredIndices(rows) : RankOf(rows, i) = 1
<1> DEFINE D == ScoredIndices(rows)
<1>1. \A i \in D : i \in Int /\ rows[i].score \in Int
  BY ScoredRows
<1>2. IsFiniteSet(D)
  BY ScoredRows
<1> HIDE DEF D
<1>3. \A x \in D : <<x, x>> \notin Better(rows)
  BY <1>1 DEF Better, D
<1>4. \A x, y, z \in D : <<x, y>> \in Better(rows) /\ <<y, z>> \in Better(rows) => <<x, z>> \in Better(rows)
  <2> SUFFICES ASSUME NEW x \in D, NEW y \in D, NEW z \in D,
                      <<x, y>> \in Better(rows), <<y, z>> \in Better(rows)
               PROVE  <<x, z>> \in Better(rows)
    OBVIOUS
  <2>1. rows[x].score > rows[y].score \/ (rows[x].score = rows[y].score /\ x < y)
    BY DEF Better
  <2>2. rows[y].score > rows[z].score \/ (rows[y].score = rows[z].score /\ y < z)
    BY DEF Better
  <2>3. rows[x].score > rows[z].score \/ (rows[x].score = rows[z].score /\ x < z)
    BY <1>1, <2>1, <2>2
  <2> QED BY <2>3 DEF Better, D
<1>5. D \in SUBSET D /\ D # {}
  BY DEF D
<1>6. \E m \in D : \A y \in D : <<y, m>> \notin Better(rows)
  BY <1>2, <1>3, <1>4, <1>5, MinimalElement
<1> QED BY <1>6, RankOneIsBest DEF D

\* Domination is a strict partial order of the scored rows.
LEMMA DominationIsAnOrder ==
  ASSUME NEW rows, AreRows(rows)
  PROVE  /\ \A x \in ScoredIndices(rows) : <<x, x>> \notin Dominating(rows)
         /\ \A x, y, z \in ScoredIndices(rows) :
               <<x, y>> \in Dominating(rows) /\ <<y, z>> \in Dominating(rows)
                  => <<x, z>> \in Dominating(rows)
<1> DEFINE D == ScoredIndices(rows)
<1>1. \A i \in D : rows[i].score \in Int /\ \A f \in CostFields : rows[i].cost[f] \in Int
  BY ScoredRows
<1>2. ASSUME NEW x \in D PROVE <<x, x>> \notin Dominating(rows)
  BY <1>1 DEF Dominating, Dominates
<1>3. ASSUME NEW x \in D, NEW y \in D, NEW z \in D,
             <<x, y>> \in Dominating(rows), <<y, z>> \in Dominating(rows)
      PROVE  <<x, z>> \in Dominating(rows)
  <2>1. /\ rows[x].score \in Int /\ rows[y].score \in Int /\ rows[z].score \in Int
        /\ \A f \in CostFields : rows[x].cost[f] \in Int /\ rows[y].cost[f] \in Int /\ rows[z].cost[f] \in Int
    BY <1>1
  <2>2. Dominates(rows[x], rows[y]) /\ Dominates(rows[y], rows[z])
    BY <1>3 DEF Dominating
  <2>3. /\ rows[x].score >= rows[y].score /\ rows[y].score >= rows[z].score
        /\ \A f \in CostFields : rows[x].cost[f] <= rows[y].cost[f] /\ rows[y].cost[f] <= rows[z].cost[f]
        /\ rows[x].score > rows[y].score \/ \E f \in CostFields : rows[x].cost[f] < rows[y].cost[f]
    BY <2>2 DEF Dominates
  <2>4. rows[x].score >= rows[z].score /\ \A f \in CostFields : rows[x].cost[f] <= rows[z].cost[f]
    BY <2>1, <2>3
  <2>5. rows[x].score > rows[z].score \/ \E f \in CostFields : rows[x].cost[f] < rows[z].cost[f]
    BY <2>1, <2>3
  <2>6. Dominates(rows[x], rows[z])
    BY <2>4, <2>5 DEF Dominates
  <2> QED BY <2>6 DEF Dominating
<1> QED BY <1>2, <1>3

\* A scored row is on the frontier or dominated by a row that is.
LEMMA FrontierReaches ==
  ASSUME NEW rows, AreRows(rows), NEW i \in ScoredIndices(rows)
  PROVE  \E m \in ScoredIndices(rows) :
            IsPareto(rows, m) /\ (m = i \/ Dominates(rows[m], rows[i]))
<1> DEFINE D == ScoredIndices(rows)
           T == {j \in D : j = i \/ <<j, i>> \in Dominating(rows)}
<1>1. /\ IsFiniteSet(D)
      /\ \A x \in D : <<x, x>> \notin Dominating(rows)
      /\ \A x, y, z \in D : <<x, y>> \in Dominating(rows) /\ <<y, z>> \in Dominating(rows)
                               => <<x, z>> \in Dominating(rows)
  BY ScoredRows, DominationIsAnOrder
<1>2. T \in SUBSET D /\ T # {}
  OBVIOUS
<1>3. PICK m \in T : \A y \in T : <<y, m>> \notin Dominating(rows)
  <2> HIDE DEF D, T
  <2> QED BY <1>1, <1>2, MinimalElement
<1>4. \A y \in D : <<y, m>> \notin Dominating(rows)
  <2> SUFFICES ASSUME NEW y \in D, <<y, m>> \in Dominating(rows) PROVE FALSE
    OBVIOUS
  <2>1. <<y, i>> \in Dominating(rows)
    BY <1>1
  <2> QED BY <1>3, <2>1
<1>5. IsPareto(rows, m)
  BY <1>4 DEF IsPareto, Dominating, ScoredIndices
<1>6. m = i \/ Dominates(rows[m], rows[i])
  BY DEF Dominating
<1> QED BY <1>5, <1>6
-----------------------------------------------------------------------------
(* The search *)

OkHaveAScore(rows) == \A i \in DOMAIN rows : rows[i].status = "ok" => rows[i].score # NoScore
AllOkAreScored(rows) == \A i \in DOMAIN rows : rows[i].status = "ok" => IsScored(rows[i])
IsRowSeq(rows) == AreRows(rows) /\ \E S : rows \in Seq(S)

(* Rows are stored once, when the sweep has ended and every ok row has a   *)
(* finite score; the pointer is set last, to a stored row of rank 1; and the run  *)
(* is a success only between the two or after both.                        *)
RowsInv ==
  /\ IsRowSeq(shRows)
  /\ shPc \in {"expand", "sweep"} => OkHaveAScore(shRows)
StoredInv ==
  \/ shStored = <<>>
  \/ shStored = Ranked(shRows) /\ AllOkAreScored(shRows) /\ shPc \in {"finish", "best", "done"}
PointerInv ==
  shBest # EarlierBest =>
      shPc = "done" /\ shRun = "success" /\ \E i \in Winners : shBest = shStored[i]
RunInv ==
  /\ shCrashes \in Nat
  /\ shPc \in {"expand", "sweep", "finish"} => shRun = "running"
  /\ shPc = "best" => shRun = "success"
  /\ (shPc = "done" /\ shRun = "success" /\ shCrashes = 0 /\ Winners # {}) => shBest # EarlierBest
SearchInv == RowsInv /\ StoredInv /\ PointerInv /\ RunInv

\* One more row after the others.
LEMMA AppendedRow ==
  ASSUME NEW rows, IsRowSeq(rows), NEW row, IsRow(row)
  PROVE  /\ IsRowSeq(Append(rows, row))
         /\ OkHaveAScore(rows) /\ (row.status = "ok" => row.score # NoScore)
               => OkHaveAScore(Append(rows, row))
<1>1. PICK S : rows \in Seq(S)
  BY DEF IsRowSeq
<1> DEFINE U == S \cup {row}
           s == Append(rows, row)
<1>2. rows \in Seq(U) /\ row \in U
  BY <1>1
<1> HIDE DEF U
<1>3. /\ s \in Seq(U) /\ Len(s) = Len(rows) + 1 /\ Len(rows) \in Nat
      /\ \A i \in 1..Len(rows) : s[i] = rows[i]
      /\ s[Len(rows) + 1] = row
  BY <1>2, AppendProperties, LenProperties
<1>4. DOMAIN s = 1..(Len(rows) + 1) /\ DOMAIN rows = 1..Len(rows)
  BY <1>2, <1>3, LenProperties
<1>5. \A i \in DOMAIN s : (i \in DOMAIN rows /\ s[i] = rows[i]) \/ s[i] = row
  BY <1>3, <1>4
<1> HIDE DEF s
<1>6. AreRows(s)
  <2>1. Len(rows) + 1 \in Nat
    BY <1>3
  <2>2. \A i \in DOMAIN s : IsRow(s[i])
    BY <1>5 DEF IsRowSeq, AreRows
  <2> QED BY <1>4, <2>1, <2>2 DEF AreRows
<1> QED BY <1>3, <1>5, <1>6 DEF IsRowSeq, OkHaveAScore, s

\* What _evaluate makes is a row.
LEMMA EvaluatedRow ==
  ASSUME NEW c, NEW row \in Evaluations(c)
  PROVE  IsRow(row)
<1>1. IsRow(Failed(c))
  BY DEF Failed, IsRow, RowFields
<1>2. \A o \in Outcomes : IsRow(Scored(c, o))
  BY SearchConstants DEF Scored, IsRow, RowFields
<1> QED BY <1>1, <1>2 DEF Evaluations

\* Ranking adds two fields and changes none.
LEMMA RankedFields ==
  ASSUME NEW rows, AreRows(rows)
  PROVE  /\ DOMAIN Ranked(rows) = DOMAIN rows
         /\ \A i \in DOMAIN rows :
               /\ Ranked(rows)[i].key = rows[i].key
               /\ Ranked(rows)[i].params = rows[i].params
               /\ Ranked(rows)[i].status = rows[i].status
               /\ Ranked(rows)[i].score = rows[i].score
               /\ Ranked(rows)[i].cost = rows[i].cost
               /\ Ranked(rows)[i].rank = IF IsScored(rows[i]) THEN RankOf(rows, i) ELSE 0
               /\ Ranked(rows)[i].is_pareto = (IsScored(rows[i]) /\ IsPareto(rows, i))
<1>1. DOMAIN Ranked(rows) = DOMAIN rows
  BY DEF Ranked
<1>2. ASSUME NEW i \in DOMAIN rows
      PROVE  /\ Ranked(rows)[i].key = rows[i].key
             /\ Ranked(rows)[i].params = rows[i].params
             /\ Ranked(rows)[i].status = rows[i].status
             /\ Ranked(rows)[i].score = rows[i].score
             /\ Ranked(rows)[i].cost = rows[i].cost
             /\ Ranked(rows)[i].rank = IF IsScored(rows[i]) THEN RankOf(rows, i) ELSE 0
             /\ Ranked(rows)[i].is_pareto = (IsScored(rows[i]) /\ IsPareto(rows, i))
  BY DEF Ranked
<1> QED BY <1>1, <1>2

\* Nothing is stored before the sweep has ended, and what is stored is a row
\* of the sweep.
LEMMA StoredRows ==
  ASSUME SearchInv
  PROVE  \A i \in DOMAIN shStored :
            /\ DOMAIN shStored = DOMAIN shRows
            /\ shStored = Ranked(shRows) /\ AllOkAreScored(shRows) /\ AreRows(shRows)
<1>1. DOMAIN <<>> = {}
  OBVIOUS
<1>2. AreRows(shRows)
  BY DEF SearchInv, RowsInv, IsRowSeq
<1>3. shStored = <<>> \/ (shStored = Ranked(shRows) /\ AllOkAreScored(shRows))
  BY DEF SearchInv, StoredInv
<1>4. DOMAIN Ranked(shRows) = DOMAIN shRows
  BY <1>2, RankedFields
<1> QED BY <1>1, <1>2, <1>3, <1>4

LEMMA SearchInvInit == EvalInit => SearchInv
<1>1. AreRows(<<>>) /\ IsRowSeq(<<>>) /\ OkHaveAScore(<<>>)
  <2>1. <<>> \in Seq({}) /\ DOMAIN <<>> = 1..0 /\ DOMAIN <<>> = {} /\ 0 \in Nat
    OBVIOUS
  <2>2. AreRows(<<>>)
    BY <2>1 DEF AreRows
  <2> QED BY <2>1, <2>2 DEF IsRowSeq, OkHaveAScore
<1>2. ASSUME SearchInit \/ SearchIdle PROVE SearchInv
  <2>1. shRows = <<>> /\ shStored = <<>> /\ shBest = EarlierBest /\ shCrashes = 0
    BY <1>2 DEF SearchInit, SearchIdle
  <2>2. RowsInv /\ StoredInv /\ PointerInv
    BY <1>1, <2>1 DEF RowsInv, StoredInv, PointerInv
  <2>3. RunInv
    BY <1>2, <2>1 DEF RunInv, SearchInit, SearchIdle
  <2> QED BY <2>2, <2>3 DEF SearchInv
<1> QED BY <1>2 DEF EvalInit

\* One more candidate.
LEMMA EvaluateKeepsInv ==
  ASSUME SearchInv, shPc = "sweep", NEW c, NEW todo, Evaluate(c, todo)
  PROVE  SearchInv'
<1>1. PICK row \in Evaluations(c) :
         /\ shRows' = Append(shRows, row)
         /\ IF row.status = "ok" /\ row.score = NoScore
            THEN shRun' = "failed" /\ shPc' = "done"
            ELSE UNCHANGED <<shRun, shPc>>
         /\ UNCHANGED <<sh, shStored, shBest, shCrashes>>
  BY DEF Evaluate
<1>2. IsRowSeq(shRows') /\ (shPc' = "sweep" => OkHaveAScore(shRows'))
  <2>1. IsRow(row) /\ IsRowSeq(shRows) /\ OkHaveAScore(shRows)
    BY EvaluatedRow DEF SearchInv, RowsInv
  <2>2. shPc' = "sweep" => (row.status = "ok" => row.score # NoScore)
    BY <1>1
  <2> QED BY <1>1, <2>1, <2>2, AppendedRow
<1>3. shStored = <<>> /\ shBest = EarlierBest /\ shRun = "running"
  BY DEF SearchInv, StoredInv, PointerInv, RunInv
<1>4. RowsInv'
  <2>1. shPc' # "expand"
    BY <1>1
  <2> QED BY <1>2, <2>1 DEF RowsInv
<1>5. StoredInv' /\ PointerInv'
  BY <1>1, <1>3 DEF StoredInv, PointerInv
<1>6. RunInv'
  <2>1. shCrashes' = shCrashes /\ shCrashes \in Nat
    BY <1>1 DEF SearchInv, RunInv
  <2>2. \/ shPc' = "done" /\ shRun' = "failed"
        \/ shPc' = "sweep" /\ shRun' = "running"
    BY <1>1, <1>3
  <2> QED BY <2>1, <2>2 DEF RunInv
<1> QED BY <1>4, <1>5, <1>6 DEF SearchInv

LEMMA SearchInvNext == SearchInv /\ [EvalNext]_evalVars => SearchInv'
<1> SUFFICES ASSUME SearchInv, [EvalNext]_evalVars PROVE SearchInv'
  OBVIOUS
<1> USE DEF SearchInv
<1>1. CASE Expand
  <2>1. shStored = <<>> /\ shBest = EarlierBest /\ shRun = "running"
    BY <1>1 DEF StoredInv, PointerInv, RunInv, Expand
  <2>2. /\ UNCHANGED <<shRows, shStored, shBest, shCrashes>> /\ shPc = "expand"
        /\ \/ shPc' = "done" /\ shRun' = "failed"
           \/ shPc' = "sweep" /\ shRun' = shRun
    BY <1>1 DEF Expand, FailSearch
  <2>3. \/ shPc' = "done" /\ shRun' = "failed"
        \/ shPc' = "sweep" /\ shRun' = "running"
    BY <2>1, <2>2
  <2>4. RowsInv' /\ StoredInv'
    BY <2>1, <2>2, <2>3 DEF RowsInv, StoredInv
  <2>5. PointerInv'
    BY <2>1, <2>2 DEF PointerInv
  <2>6. RunInv'
    BY <2>2, <2>3 DEF RunInv
  <2> QED BY <2>4, <2>5, <2>6
<1>2. CASE Sweep
  BY <1>2, EvaluateKeepsInv DEF Sweep
<1>3. CASE TryEnsemble
  BY <1>3, EvaluateKeepsInv DEF TryEnsemble
<1>4. CASE StoreRows
  <2>1. /\ shPc = "sweep" /\ shPc' = "finish" /\ shStored' = Ranked(shRows)
        /\ UNCHANGED <<shRows, shRun, shBest, shCrashes>>
        /\ \A i \in DOMAIN shRows : shRows[i].score # NotFinite
    BY <1>4 DEF StoreRows
  <2>2. AllOkAreScored(shRows) /\ shBest = EarlierBest /\ shRun = "running"
    BY <2>1 DEF RowsInv, PointerInv, RunInv, OkHaveAScore, AllOkAreScored, IsScored
  <2>3. StoredInv'
    BY <2>1, <2>2 DEF StoredInv
  <2>4. RowsInv' /\ PointerInv' /\ RunInv'
    BY <2>1, <2>2 DEF RowsInv, PointerInv, RunInv
  <2> QED BY <2>3, <2>4
<1>5. CASE FinishRun
  <2>1. /\ shPc = "finish" /\ shPc' = "best" /\ shRun' = "success"
        /\ UNCHANGED <<shRows, shStored, shBest, shCrashes>>
    BY <1>5 DEF FinishRun
  <2>2. shBest = EarlierBest
    BY <2>1 DEF PointerInv
  <2>3. RowsInv' /\ StoredInv' /\ PointerInv' /\ RunInv'
    BY <2>1, <2>2 DEF RowsInv, StoredInv, PointerInv, RunInv
  <2> QED BY <2>3
<1>6. CASE PointBest
  <2>1. /\ shPc = "best" /\ shPc' = "done"
        /\ shBest' = IF Winners = {} THEN shBest ELSE shStored[CHOOSE i \in Winners : TRUE]
        /\ UNCHANGED <<shRows, shStored, shRun, shCrashes>>
    BY <1>6 DEF PointBest
  <2>2. shBest = EarlierBest /\ shRun = "success"
    BY <2>1 DEF PointerInv, RunInv
  <2>3. RowsInv' /\ StoredInv' /\ Winners' = Winners
    BY <2>1 DEF RowsInv, StoredInv, Winners
  <2>4. CASE Winners = {}
    BY <2>1, <2>2, <2>3, <2>4 DEF PointerInv, RunInv
  <2>5. CASE Winners # {}
    <3>1. PICK i \in Winners : shBest' = shStored[i]
      BY <2>1, <2>5
    <3>2. shBest'.rank = 1 /\ EarlierBest.rank = 0
      BY <3>1 DEF Winners, EarlierBest
    <3>3. PointerInv'
      BY <2>1, <2>2, <2>3, <3>1 DEF PointerInv
    <3>4. RunInv'
      BY <2>1, <2>2, <3>2 DEF RunInv
    <3> QED BY <2>3, <3>3, <3>4
  <2> QED BY <2>4, <2>5
<1>7. CASE StatementFails
  <2>1. /\ shPc \in {"sweep", "finish", "best"} /\ shPc' = "done" /\ shRun' = "failed"
        /\ UNCHANGED <<shRows, shStored, shBest, shCrashes>>
    BY <1>7 DEF StatementFails, FailSearch
  <2>2. shBest = EarlierBest
    BY <2>1 DEF PointerInv
  <2>3. RowsInv' /\ StoredInv' /\ PointerInv' /\ RunInv'
    BY <2>1, <2>2 DEF RowsInv, StoredInv, PointerInv, RunInv
  <2> QED BY <2>3
<1>8. CASE SearchCrash
  <2>1. /\ shPc # "done" /\ shPc' = "done" /\ shCrashes' = shCrashes + 1
        /\ UNCHANGED <<shRows, shStored, shRun, shBest>>
    BY <1>8 DEF SearchCrash
  <2>2. shBest = EarlierBest
    BY <2>1 DEF PointerInv
  <2>3. shCrashes' \in Nat /\ shCrashes' # 0
    BY <2>1 DEF RunInv
  <2>4. RowsInv' /\ StoredInv' /\ PointerInv' /\ RunInv'
    BY <2>1, <2>2, <2>3 DEF RowsInv, StoredInv, PointerInv, RunInv
  <2> QED BY <2>4
<1>9. CASE UNCHANGED shVars
  BY <1>9 DEF shVars, RowsInv, StoredInv, PointerInv, RunInv, Winners
<1> QED
  BY <1>1, <1>2, <1>3, <1>4, <1>5, <1>6, <1>7, <1>8, <1>9
     DEF EvalNext, SearchNext, evalVars

-----------------------------------------------------------------------------
(* The theorems *)

LEMMA InvMakesBestTheTopScore == SearchInv => BestIsTheTopScore
<1> SUFFICES ASSUME SearchInv PROVE BestIsTheTopScore
  OBVIOUS
<1>1. ASSUME shBest # EarlierBest
      PROVE  /\ shBest \in Range(shStored) /\ shRun = "success"
             /\ \A j \in DOMAIN shStored :
                   shStored[j].status = "ok" => shStored[j].score <= shBest.score
  <2>1. PICK i \in Winners : shBest = shStored[i]
    BY <1>1 DEF SearchInv, PointerInv
  <2>2. i \in DOMAIN shStored /\ shStored[i].rank = 1
    BY DEF Winners
  <2>3. shStored = Ranked(shRows) /\ AllOkAreScored(shRows) /\ AreRows(shRows)
        /\ DOMAIN shStored = DOMAIN shRows
    BY <2>2, StoredRows
  <2>4. i \in ScoredIndices(shRows) /\ RankOf(shRows, i) = 1
    BY <2>2, <2>3, RankedFields DEF ScoredIndices
  <2>5. \A j \in ScoredIndices(shRows) : <<j, i>> \notin Better(shRows)
    BY <2>3, <2>4, RankOneIsBest
  <2>6. ASSUME NEW j \in DOMAIN shStored, shStored[j].status = "ok"
        PROVE  shStored[j].score <= shBest.score
    <3>1. j \in ScoredIndices(shRows)
      BY <2>3, <2>6, RankedFields DEF AllOkAreScored, ScoredIndices
    <3>2. ~(shRows[j].score > shRows[i].score)
      BY <2>4, <2>5, <3>1 DEF Better
    <3>3. shRows[j].score \in Int /\ shRows[i].score \in Int
      BY <2>3, <2>4, <3>1, ScoredRows
    <3>4. shStored[j].score = shRows[j].score /\ shBest.score = shRows[i].score
      BY <2>1, <2>2, <2>3, RankedFields
    <3> QED BY <3>2, <3>3, <3>4
  <2>7. shBest \in Range(shStored)
    BY <2>1, <2>2 DEF Range
  <2> QED BY <1>1, <2>6, <2>7 DEF SearchInv, PointerInv
<1>2. ASSUME shPc = "done", shRun = "success", shCrashes = 0,
             NEW row \in Range(shStored), row.status = "ok"
      PROVE  shBest # EarlierBest
  <2>1. PICK i \in DOMAIN shStored : row = shStored[i]
    BY DEF Range
  <2>2. shStored = Ranked(shRows) /\ AllOkAreScored(shRows) /\ AreRows(shRows)
        /\ DOMAIN shStored = DOMAIN shRows
    BY <2>1, StoredRows
  <2>3. i \in ScoredIndices(shRows)
    BY <1>2, <2>1, <2>2, RankedFields DEF AllOkAreScored, ScoredIndices
  <2>4. PICK k \in ScoredIndices(shRows) : RankOf(shRows, k) = 1
    BY <2>2, <2>3, SomeoneIsBest
  <2>5. k \in Winners
    BY <2>2, <2>4, RankedFields DEF Winners, ScoredIndices
  <2> QED BY <1>2, <2>5 DEF SearchInv, RunInv
<1> QED BY <1>1, <1>2 DEF BestIsTheTopScore

LEMMA InvMakesFrontierCover == SearchInv => FrontierCovers
<1> SUFFICES ASSUME SearchInv, NEW row \in Range(shStored), row.status = "ok"
             PROVE  \E b \in Range(shStored) : b.is_pareto /\ (b = row \/ Dominates(b, row))
  BY DEF FrontierCovers
<1>1. PICK i \in DOMAIN shStored : row = shStored[i]
  BY DEF Range
<1>2. shStored = Ranked(shRows) /\ AllOkAreScored(shRows) /\ AreRows(shRows)
      /\ DOMAIN shStored = DOMAIN shRows
  BY <1>1, StoredRows
<1>3. i \in ScoredIndices(shRows)
  BY <1>1, <1>2, RankedFields DEF AllOkAreScored, ScoredIndices
<1>4. PICK m \in ScoredIndices(shRows) :
         IsPareto(shRows, m) /\ (m = i \/ Dominates(shRows[m], shRows[i]))
  BY <1>2, <1>3, FrontierReaches
<1>5. m \in DOMAIN shStored /\ IsScored(shRows[m])
  BY <1>2, <1>4 DEF ScoredIndices
<1>6. shStored[m] \in Range(shStored)
  BY <1>5 DEF Range
<1>7. shStored[m].is_pareto
  BY <1>2, <1>4, <1>5, RankedFields
<1>8. /\ shStored[m].score = shRows[m].score /\ shStored[m].cost = shRows[m].cost
      /\ shStored[i].score = shRows[i].score /\ shStored[i].cost = shRows[i].cost
  BY <1>1, <1>2, <1>5, RankedFields
<1>9. shStored[m] = row \/ Dominates(shStored[m], row)
  BY <1>1, <1>4, <1>8 DEF Dominates
<1> QED BY <1>6, <1>7, <1>9

(* When rows are stored and the pointer is set, in every order of           *)
(* statements, failures and crashes of run_search.                         *)
THEOREM SearchInvariant == EvalSpec => []SearchInv
  BY SearchInvInit, SearchInvNext, PTL DEF EvalSpec

(* A search never promotes a row that another of its rows outscores, and a *)
(* search that ends well promotes one if it scored any: run_search writes  *)
(* the rows, the run and best_result separately (modelsearch/search.py).   *)
THEOREM BestIsNeverBeaten == EvalSpec => []BestIsTheTopScore
  BY SearchInvariant, InvMakesBestTheTopScore, PTL

(* The rows pareto_flags marks are enough to choose from, for any number   *)
(* of candidates and any cost fields.                                      *)
THEOREM FrontierIsEnough == EvalSpec => []FrontierCovers
  BY SearchInvariant, InvMakesFrontierCover, PTL

-----------------------------------------------------------------------------
(* One row for each candidate. *)

Same(a, b) == a.key = b.key /\ a.params = b.params
AllDiffer(list) == \A i, j \in DOMAIN list : Same(list[i], list[j]) => i = j
NoneShared(list, other) == \A i \in DOMAIN list, j \in DOMAIN other : ~Same(list[i], other[j])

\* The candidates that were evaluated and those that wait are all different.
CandidatesInv ==
    /\ \E S : shRows \in Seq(S)
    /\ \E S : shTodo \in Seq(S)
    /\ AllDiffer(shRows) /\ AllDiffer(shTodo) /\ NoneShared(shTodo, shRows)
    /\ shPc = "expand" => sh \in SearchInputs /\ shRows = <<>>

\* Deduplication leaves candidates that differ.
LEMMA UniqueDiffer ==
    ASSUME NEW s \in SearchInputs
    PROVE  LET u == Unique(s.space)
           IN  /\ \E S : u \in Seq(S)
               /\ Len(u) \in Nat /\ DOMAIN u = 1..Len(u) /\ AllDiffer(u)
<1> DEFINE space == s.space
           F == Firsts(space)
           n == Cardinality(F)
           u == Unique(space)
<1>1. Len(space) \in Nat /\ DOMAIN space = 1..Len(space)
      /\ \A i \in DOMAIN space : space[i] = [key |-> space[i].key, params |-> space[i].params]
  BY SearchConstants
<1> HIDE DEF space
<1>2. F \in SUBSET Nat /\ F \in SUBSET (1..Len(space)) /\ IsFiniteSet(F) /\ n \in Nat
  <2>1. F \in SUBSET (1..Len(space)) /\ F \in SUBSET Nat
    BY <1>1 DEF Firsts
  <2>2. IsFiniteSet(1..Len(space))
    BY <1>1, FS_Interval
  <2> HIDE DEF F
  <2> QED BY <2>1, <2>2, FS_Subset, FS_CardinalityType
<1>3. /\ \A k \in 1..n : SortedDays(F)[k] \in F
      /\ \A j, k \in 1..n : j < k => SortedDays(F)[j] < SortedDays(F)[k]
  <2> HIDE DEF F
  <2> QED BY <1>2, SortedDaysGrow
<1>4. u = [k \in 1..n |-> space[SortedDays(F)[k]]]
  BY DEF Unique, SortedDays
<1>5. u \in Seq({space[i] : i \in F}) /\ Len(u) = n /\ DOMAIN u = 1..n
  <2> HIDE DEF F, n, u
  <2> QED BY <1>2, <1>3, <1>4
<1>6. ASSUME NEW j \in 1..n, NEW k \in 1..n, j < k PROVE ~Same(u[j], u[k])
  <2> DEFINE a == SortedDays(F)[j]
             b == SortedDays(F)[k]
  <2>1. a \in F /\ b \in F /\ a < b /\ a \in 1..Len(space) /\ b \in 1..Len(space)
    <3> HIDE DEF F, n
    <3> QED BY <1>2, <1>3, <1>6
  <2>2. u[j] = space[a] /\ u[k] = space[b]
    <3> HIDE DEF F, n, u
    <3> QED BY <1>4
  <2> HIDE DEF a, b
  <2>3. a \in 1..(b - 1)
    BY <1>1, <2>1
  <2>4. space[a] # space[b]
    BY <2>1, <2>3 DEF Firsts
  <2>5. /\ space[a] = [key |-> space[a].key, params |-> space[a].params]
        /\ space[b] = [key |-> space[b].key, params |-> space[b].params]
    BY <1>1, <2>1
  <2> HIDE DEF u
  <2> QED BY <2>2, <2>4, <2>5 DEF Same
<1>7. AllDiffer(u)
  <2> HIDE DEF u, n
  <2> SUFFICES ASSUME NEW i \in 1..n, NEW j \in 1..n, Same(u[i], u[j]), i # j PROVE FALSE
    BY <1>5 DEF AllDiffer
  <2>1. CASE i < j
    BY <1>6, <2>1
  <2>2. CASE j < i
    <3>1. Same(u[j], u[i])
      BY DEF Same
    <3> QED BY <1>6, <2>2, <3>1
  <2> QED BY <1>2, <2>1, <2>2
<1> QED BY <1>2, <1>5, <1>7 DEF space

\* The cap takes some of them, each once.
LEMMA ExpansionsDiffer ==
    ASSUME NEW s \in SearchInputs, NEW mode,
           NEW c \in Expansions(s.space, mode, s.max_candidates)
    PROVE  AllDiffer(c) /\ \E S : c \in Seq(S)
<1> DEFINE u == Unique(s.space)
           m == s.max_candidates
<1>1. m \in Nat
  BY SearchConstants
<1>2. PICK S : u \in Seq(S)
  BY UniqueDiffer
<1>3. Len(u) \in Nat /\ DOMAIN u = 1..Len(u) /\ AllDiffer(u)
  BY UniqueDiffer
<1>4. \/ c = u
      \/ Len(u) > m /\ c = SubSeq(u, 1, m)
      \/ \E p \in [1..m -> DOMAIN u] : IsInjective(p) /\ c = [k \in 1..m |-> u[p[k]]]
  BY <1>1, <1>3 DEF Expansions
<1> HIDE DEF u, m
<1>5. CASE c = u
  BY <1>2, <1>3, <1>5
<1>6. CASE Len(u) > m /\ c = SubSeq(u, 1, m)
  <2>1. c \in Seq(S) /\ DOMAIN c = 1..m /\ \A i \in 1..m : c[i] = u[i] /\ i \in DOMAIN u
    BY <1>1, <1>2, <1>3, <1>6
  <2> QED BY <1>3, <2>1 DEF AllDiffer
<1>7. ASSUME NEW p \in [1..m -> DOMAIN u], IsInjective(p), c = [k \in 1..m |-> u[p[k]]]
      PROVE  AllDiffer(c) /\ \E R : c \in Seq(R)
  <2>1. DOMAIN c = 1..m /\ DOMAIN p = 1..m /\ \A i \in 1..m : c[i] = u[p[i]] /\ p[i] \in DOMAIN u
    BY <1>7
  <2>2. \A i, j \in 1..m : p[i] = p[j] => i = j
    BY <1>7, <2>1 DEF IsInjective
  <2>3. c \in Seq({u[i] : i \in DOMAIN u})
    BY <1>1, <1>7, <2>1
  <2> QED BY <1>3, <2>1, <2>2, <2>3 DEF AllDiffer
<1> QED BY <1>4, <1>5, <1>6, <1>7

\* One more row, of a candidate that has none.
LEMMA OneMoreRow ==
    ASSUME NEW S, NEW rows \in Seq(S), NEW c, NEW row \in Evaluations(c),
           AllDiffer(rows), \A i \in DOMAIN rows : ~Same(rows[i], c)
    PROVE  /\ \E R : Append(rows, row) \in Seq(R)
           /\ AllDiffer(Append(rows, row))
           /\ \A i \in DOMAIN Append(rows, row) :
                 (i \in DOMAIN rows /\ Append(rows, row)[i] = rows[i]) \/ Same(Append(rows, row)[i], c)
<1> DEFINE U == S \cup {row}
           s == Append(rows, row)
           n == Len(rows)
<1>1. row.key = c.key /\ row.params = c.params
  BY DEF Evaluations, Failed, Scored
<1>2. rows \in Seq(U) /\ row \in U
  OBVIOUS
<1> HIDE DEF U
<1>3. /\ s \in Seq(U) /\ n \in Nat /\ DOMAIN s = 1..(n + 1) /\ DOMAIN rows = 1..n
      /\ \A i \in 1..n : s[i] = rows[i]
      /\ s[n + 1] = row
  BY <1>2, AppendProperties, LenProperties
<1> HIDE DEF s, n
<1>4. \A i \in DOMAIN s : (i \in DOMAIN rows /\ s[i] = rows[i]) \/ (i = n + 1 /\ s[i] = row)
  BY <1>3
<1>5. AllDiffer(s)
  <2> SUFFICES ASSUME NEW i \in DOMAIN s, NEW j \in DOMAIN s, Same(s[i], s[j]) PROVE i = j
    BY DEF AllDiffer
  <2>1. CASE i \in DOMAIN rows /\ s[i] = rows[i] /\ j \in DOMAIN rows /\ s[j] = rows[j]
    BY <2>1 DEF AllDiffer
  <2>2. CASE i \in DOMAIN rows /\ s[i] = rows[i] /\ s[j] = row
    BY <1>1, <2>2 DEF Same
  <2>3. CASE s[i] = row /\ j \in DOMAIN rows /\ s[j] = rows[j]
    BY <1>1, <2>3 DEF Same
  <2> QED BY <1>4, <2>1, <2>2, <2>3
<1> QED BY <1>1, <1>3, <1>4, <1>5 DEF s, Same

LEMMA CandidatesInvInit == EvalInit => CandidatesInv
<1>1. SearchInit \/ SearchIdle => /\ shRows = <<>> /\ shTodo = <<>>
                                  /\ shPc = "expand" => sh \in SearchInputs
  BY DEF SearchInit, SearchIdle
<1>2. <<>> \in Seq({}) /\ DOMAIN <<>> = {}
  OBVIOUS
<1> QED BY <1>1, <1>2 DEF EvalInit, CandidatesInv, AllDiffer, NoneShared

\* One turn of either loop, for a candidate that is in neither list.
LEMMA EvaluateKeepsCandidates ==
    ASSUME CandidatesInv, shPc = "sweep", NEW c, NEW todo, Evaluate(c, todo),
           \E S : todo \in Seq(S), AllDiffer(todo), NoneShared(todo, shRows),
           \A i \in DOMAIN shRows : ~Same(shRows[i], c),
           \A i \in DOMAIN todo : ~Same(todo[i], c)
    PROVE  CandidatesInv'
<1>1. PICK row \in Evaluations(c) : shRows' = Append(shRows, row)
  BY DEF Evaluate
<1>2. shTodo' = todo /\ shPc' # "expand"
  BY DEF Evaluate
<1>3. PICK S : shRows \in Seq(S)
  BY DEF CandidatesInv
<1>4. /\ \E R : shRows' \in Seq(R)
      /\ AllDiffer(shRows')
      /\ \A i \in DOMAIN shRows' :
            (i \in DOMAIN shRows /\ shRows'[i] = shRows[i]) \/ Same(shRows'[i], c)
  BY <1>1, <1>3, OneMoreRow DEF CandidatesInv
<1>5. NoneShared(todo, shRows')
  BY <1>4 DEF NoneShared, Same
<1> QED BY <1>2, <1>4, <1>5 DEF CandidatesInv

LEMMA CandidatesInvNext == CandidatesInv /\ [EvalNext]_evalVars => CandidatesInv'
<1> SUFFICES ASSUME CandidatesInv, [EvalNext]_evalVars PROVE CandidatesInv'
  OBVIOUS
<1>1. CASE Expand
  <2>1. sh \in SearchInputs /\ shRows = <<>>
    BY <1>1 DEF Expand, CandidatesInv
  <2>2. PICK candidates \in Expansions(sh.space, sh.mode, sh.max_candidates) :
           \/ UNCHANGED <<sh, shTodo, shRows>> /\ shPc' = "done"
           \/ shTodo' = candidates /\ shPc' = "sweep" /\ UNCHANGED <<sh, shRows>>
    BY <1>1 DEF Expand, FailSearch
  <2>3. CASE UNCHANGED <<sh, shTodo, shRows>> /\ shPc' = "done"
    BY <2>3 DEF CandidatesInv
  <2>4. CASE shTodo' = candidates /\ shPc' = "sweep" /\ UNCHANGED <<sh, shRows>>
    <3>1. AllDiffer(candidates) /\ \E S : candidates \in Seq(S)
      BY <2>1, ExpansionsDiffer
    <3>2. NoneShared(candidates, shRows)
      BY <2>1 DEF NoneShared
    <3> QED BY <2>4, <3>1, <3>2 DEF CandidatesInv
  <2> QED BY <2>2, <2>3, <2>4
<1>2. CASE Sweep
  <2>1. PICK S : shTodo \in Seq(S)
    BY DEF CandidatesInv
  <2> DEFINE c == Head(shTodo)
             todo == Tail(shTodo)
  <2>2. shPc = "sweep" /\ shTodo # <<>> /\ Evaluate(c, todo)
    BY <1>2 DEF Sweep
  <2>3. /\ 1 \in DOMAIN shTodo /\ c = shTodo[1] /\ todo \in Seq(S)
        /\ \A i \in DOMAIN todo : i + 1 \in DOMAIN shTodo /\ i + 1 # 1 /\ todo[i] = shTodo[i + 1]
        /\ \A i \in DOMAIN todo : i \in Int
    BY <2>1, <2>2
  <2> HIDE DEF c, todo
  <2>4. AllDiffer(todo)
    <3> SUFFICES ASSUME NEW i \in DOMAIN todo, NEW j \in DOMAIN todo, Same(todo[i], todo[j])
                 PROVE  i = j
      BY DEF AllDiffer
    <3>1. i + 1 = j + 1
      BY <2>3 DEF CandidatesInv, AllDiffer
    <3> QED BY <2>3, <3>1
  <2>5. NoneShared(todo, shRows)
    BY <2>3 DEF CandidatesInv, NoneShared
  <2>6. \A i \in DOMAIN shRows : ~Same(shRows[i], c)
    BY <2>3 DEF CandidatesInv, NoneShared, Same
  <2>7. \A i \in DOMAIN todo : ~Same(todo[i], c)
    BY <2>3 DEF CandidatesInv, AllDiffer
  <2> QED BY <2>2, <2>3, <2>4, <2>5, <2>6, <2>7, EvaluateKeepsCandidates
<1>3. CASE TryEnsemble
  <2>1. shPc = "sweep" /\ Evaluate(EnsembleCandidate, <<>>)
    BY <1>3 DEF TryEnsemble
  <2>2. \A i \in DOMAIN shRows : ~Same(shRows[i], EnsembleCandidate)
    BY <1>3 DEF TryEnsemble, TriesEnsemble, Same, EnsembleCandidate
  <2>3. <<>> \in Seq({}) /\ DOMAIN <<>> = {}
    OBVIOUS
  <2>4. AllDiffer(<<>>) /\ NoneShared(<<>>, shRows)
    BY <2>3 DEF AllDiffer, NoneShared
  <2> HIDE DEF EnsembleCandidate
  <2> QED BY <2>1, <2>2, <2>3, <2>4, EvaluateKeepsCandidates
<1>4. CASE StoreRows \/ FinishRun \/ PointBest \/ StatementFails \/ SearchCrash
  <2>1. UNCHANGED <<sh, shTodo, shRows>> /\ shPc' \in {"finish", "best", "done"}
    BY <1>4 DEF StoreRows, FinishRun, PointBest, StatementFails, FailSearch, SearchCrash
  <2> QED BY <2>1 DEF CandidatesInv
<1>5. CASE UNCHANGED shVars
  BY <1>5 DEF shVars, CandidatesInv
<1> QED BY <1>1, <1>2, <1>3, <1>4, <1>5 DEF EvalNext, SearchNext, evalVars

(* No candidate of a search is stored twice, the automatic ensemble        *)
(* included: unique_candidate_per_run never throws a finished sweep away   *)
(* (spaces.expand, _auto_ensemble_candidates and _store_results).          *)
THEOREM CandidatesAreStoredOnce == EvalSpec => []OneRowPerCandidate
<1>1. SearchInv /\ CandidatesInv => OneRowPerCandidate
  <2> SUFFICES ASSUME SearchInv, CandidatesInv, NEW i \in DOMAIN shStored, NEW j \in DOMAIN shStored,
                      shStored[i].key = shStored[j].key /\ shStored[i].params = shStored[j].params
               PROVE  i = j
    BY DEF OneRowPerCandidate
  <2>1. /\ shStored = Ranked(shRows) /\ AreRows(shRows) /\ DOMAIN shStored = DOMAIN shRows
    BY StoredRows
  <2>2. Same(shRows[i], shRows[j])
    BY <2>1, RankedFields DEF Same
  <2> QED BY <2>1, <2>2 DEF CandidatesInv, AllDiffer
<1>2. EvalSpec => []CandidatesInv
  BY CandidatesInvInit, CandidatesInvNext, PTL DEF EvalSpec
<1> QED BY <1>1, <1>2, SearchInvariant, PTL
=============================================================================
