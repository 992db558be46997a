------------------------------ MODULE DeskProofs ------------------------------
(***************************************************************************)
(* Theorems about the searches of Lab, for any number of web threads,      *)
(* saves, runs and promotions, and any instruments and estimators, and     *)
(* about its live record, for any days, forecasts, corrections and edits.  *)
(*                                                                         *)
(* The searches compare versions.  Every statement that changes            *)
(* what a search asks for counts one edit, so a row that was read at the   *)
(* edit of now still agrees with the search, whoever read it.  A promoted  *)
(* model reads the search twice; if nothing was saved since its candidate  *)
(* was measured, it finds both times what the sweep found.                 *)
(*                                                                         *)
(* A leaderboard row is a score of the record it was built from; it stays  *)
(* one while the record moves on, so the gate compares the item's bar with *)
(* a rate that those forecasts did have.                                   *)
(***************************************************************************)
EXTENDS Lab, OrderLemmas, FunctionTheorems, SequenceTheorems

-----------------------------------------------------------------------------
(* The invariant.                                                          *)

DeskColumns == {s.columns : s \in Setups}
DeskSymbols == {s.symbols : s \in Setups} \cup {{}}
DeskKeys == UNION {c.space : c \in DeskColumns}

SearchRow == [columns : DeskColumns, best_result : Nat]
SearchRun == [status : {"running", "success", "failed"}, asked : DeskColumns,
              messages : Nat, taken : Nat]
ResultRow == [ run : Nat, key : DeskKeys, rank : Nat,
               columns : DeskColumns, symbols : DeskSymbols, edits : Nat ]
PromotedRow == [ result : Nat, key : DeskKeys,
              columns : DeskColumns, symbols : DeskSymbols, edits : Nat ]

RowsInv ==
  /\ skEdits \in Nat
  /\ skSearch \in SearchRow /\ skSymbols \in DeskSymbols
  /\ skRuns \in Seq(SearchRun) /\ skResults \in Seq(ResultRow) /\ skModels \in Seq(PromotedRow)
  /\ skThread = [w \in Desks |-> skThread[w]]

\* What was measured at the edit of now is what the search asks for now.
IsMeasured(r) ==
  /\ r.edits <= skEdits
  /\ r.edits = skEdits => r.columns = skSearch.columns /\ r.symbols = skSymbols
ResultsInv == \A i \in DOMAIN skResults : IsMeasured(skResults[i])

TaskInv ==
  /\ skTask = NoSweep \/ skTask.pc \in {"dataset", "store", "finish", "best"}
  /\ skTask # NoSweep => skTask.run \in DOMAIN skRuns /\ skRuns[skTask.run].taken >= 1
  /\ skTask.pc \in {"dataset", "store"} =>
        /\ skTask.columns \in DeskColumns /\ skTask.edits \in Nat /\ skTask.edits <= skEdits
        /\ skTask.edits = skEdits => skTask.columns = skSearch.columns
  /\ skTask.pc = "dataset" =>
        skTask = [pc |-> "dataset", run |-> skTask.run, columns |-> skTask.columns,
                  edits |-> skTask.edits]
  /\ skTask.pc = "store" =>
        /\ skTask.symbols \in DeskSymbols
        /\ skTask.edits = skEdits => skTask.symbols = skSymbols
        /\ skTask = [pc |-> "store", run |-> skTask.run, edits |-> skTask.edits,
                     columns |-> skTask.columns, symbols |-> skTask.symbols]
  /\ skTask.pc = "best" => skRuns[skTask.run].status = "success"

\* A best result won a run that succeeded and that no worker is on, or that
\* was taken again.
IsBest(b) ==
  b # 0 =>
    /\ b \in DOMAIN skResults /\ skResults[b].rank = 1
    /\ skResults[b].run \in DOMAIN skRuns
    /\ skRuns[skResults[b].run].taken >= 1
    /\ \/ skRuns[skResults[b].run].taken > 1
       \/ /\ skRuns[skResults[b].run].status = "success"
          /\ skTask # NoSweep => skTask.run # skResults[b].run

IsPosted(s) == s.columns \in DeskColumns /\ s.symbols \in DeskSymbols
BestInv == IsBest(skSearch.best_result)
IsRequest(t) ==
  /\ t.pc = "save" => t.row \in SearchRow /\ IsBest(t.row.best_result) /\ IsPosted(t.posted)
  /\ t.pc = "symbols" => IsPosted(t.posted)
  /\ t.pc = "send" => t.run \in DOMAIN skRuns
ThreadsInv == \A w \in Desks : IsRequest(skThread[w])

\* Some thread has yet to give the model its instruments.
Copied(i) == \E w \in Desks : skThread[w].pc = "copy" /\ skThread[w].model = i

Agrees(m, r) == m.columns = r.columns /\ m.symbols = r.symbols
ModelsInv ==
  \A i \in DOMAIN skModels :
    LET m == skModels[i]
    IN  /\ m.result \in DOMAIN skResults
        /\ TaskOf[m.key] = m.columns.task
        /\ m.edits <= skEdits
        /\ m.columns = skResults[m.result].columns \/ m.edits > skResults[m.result].edits
        /\ Copied(i) \/ Agrees(m, skResults[m.result]) \/ m.edits > skResults[m.result].edits

DeskInv == RowsInv /\ ResultsInv /\ TaskInv /\ BestInv /\ ThreadsInv /\ ModelsInv

\* A behaviour that follows another component leaves the search alone.
Unused == skModels = <<>> /\ (skSearch = <<>> \/ skSearch.best_result = 0)
DeskOrUnused == IF skBudget = <<>> THEN Unused ELSE DeskInv

-----------------------------------------------------------------------------
(* Sequences.                                                              *)

\* SetToSeq lists a finite set.
LEMMA SetToSeqLists ==
  ASSUME NEW S, IsFiniteSet(S)
  PROVE  SetToSeq(S) \in Seq(S)
<1>1. PICK n \in Nat : ExistsBijection(1..n, S)
  BY FS_NatBijection
<1>2. Cardinality(S) = n
  BY <1>1, FS_CountingElements
<1>3. PICK f : f \in Bijection(1..n, S)
  BY <1>1 DEF ExistsBijection
<1>4. f \in [1..Cardinality(S) -> S] /\ IsInjective(f)
  BY <1>2, <1>3 DEF Bijection, Injection
<1>5. SetToSeq(S) \in [1..Cardinality(S) -> S]
  BY <1>4 DEF SetToSeq
<1> QED BY <1>2, <1>5

\* The rows of a sweep: one for every estimator of the space, which is finite.
LEMMA SweptRows ==
  ASSUME RowsInv, TaskInv, skTask.pc = "store", NEW winner
  PROVE  LET rows == {Candidate(key, winner) : key \in skTask.columns.space}
         IN  rows \subseteq ResultRow /\ SetToSeq(rows) \in Seq(rows)
<1> DEFINE space == skTask.columns.space
           rows == {Candidate(key, winner) : key \in space}
           F == [key \in space |-> Candidate(key, winner)]
<1>1. IsFiniteSet(space)
  BY DeskConstants DEF TaskInv, DeskColumns
<1>2. F \in [space -> rows] /\ \A r \in rows : \E key \in space : F[key] = r
  OBVIOUS
<1>3. F \in Surjection(space, rows)
  BY <1>2, Fun_IsSurj
<1>4. IsFiniteSet(rows)
  BY <1>1, <1>3, FS_Surjection
<1>5. ASSUME NEW key \in space PROVE Candidate(key, winner) \in ResultRow
  <2>1. key \in DeskKeys
    BY DEF TaskInv, DeskKeys
  <2>2. skTask.run \in Nat
    BY DEF TaskInv, RowsInv, NoSweep
  <2> QED BY <2>1, <2>2 DEF Candidate, ResultRow, TaskInv
<1> QED BY <1>4, <1>5, SetToSeqLists

-----------------------------------------------------------------------------
(* What a step leaves alone.                                               *)

\* A thread's answer moves it and no other thread.
LEMMA ServesOne ==
  ASSUME RowsInv, NEW w \in Desks, NEW request, Serves(w, request)
  PROVE  /\ skThread' = [v \in Desks |-> skThread'[v]]
         /\ skThread'[w] = request
         /\ \A v \in Desks : v # w => skThread'[v] = skThread[v]
BY DEF RowsInv, Serves

\* A request stays well formed while the best results stay so and no run goes.
LEMMA RequestStays ==
  ASSUME DeskInv, NEW v \in Desks, skThread'[v] = skThread[v],
         DOMAIN skRuns \subseteq DOMAIN skRuns',
         \A b : IsBest(b) => IsBest(b)'
  PROVE  IsRequest(skThread[v])'
BY DEF DeskInv, ThreadsInv, IsRequest, IsPosted

\* Models stay right while results are only added, edits only counted, and
\* no thread forgets its copy.
LEMMA ModelsStay ==
  ASSUME DeskInv, skModels' = skModels, skEdits' \in Nat, skEdits' >= skEdits,
         \A i \in DOMAIN skResults : i \in DOMAIN skResults' /\ skResults'[i] = skResults[i],
         \A i : Copied(i) => Copied(i)'
  PROVE  ModelsInv'
<1> SUFFICES ASSUME NEW i \in DOMAIN skModels
             PROVE  LET m == skModels[i]
                    IN  /\ m.result \in DOMAIN skResults'
                        /\ TaskOf[m.key] = m.columns.task
                        /\ m.edits <= skEdits'
                        /\ m.columns = skResults'[m.result].columns \/ m.edits > skResults'[m.result].edits
                        /\ Copied(i)' \/ Agrees(m, skResults'[m.result]) \/ m.edits > skResults'[m.result].edits
  BY DEF ModelsInv, Agrees
<1>1. skModels[i] \in PromotedRow /\ skEdits \in Nat
  BY DEF DeskInv, RowsInv
<1>2. skModels[i].edits \in Nat
  BY <1>1 DEF PromotedRow
<1> QED BY <1>1, <1>2 DEF DeskInv, ModelsInv

-----------------------------------------------------------------------------
(* Every step keeps the invariant: the form.                               *)

LEMMA OpenEditKeepsInv ==
  ASSUME DeskInv, NEW w \in Desks, OpenEdit(w)
  PROVE  DeskInv'
<1>1. PICK s \in Setups :
        Serves(w, IF FormClean(s) THEN [pc |-> "save", row |-> skSearch, posted |-> s]
                  ELSE NoRequest)
  BY DEF OpenEdit
<1>2. UNCHANGED <<skSearch, skSymbols, skRuns, skResults, skModels, skTask, skEdits>>
  BY DEF OpenEdit
<1>3. /\ skThread' = [v \in Desks |-> skThread'[v]]
      /\ skThread'[w] = NoRequest \/ skThread'[w] = [pc |-> "save", row |-> skSearch, posted |-> s]
      /\ \A v \in Desks : v # w => skThread'[v] = skThread[v]
  BY <1>1, ServesOne DEF DeskInv
<1>4. RowsInv'
  BY <1>2, <1>3 DEF DeskInv, RowsInv
<1>5. ResultsInv' /\ TaskInv' /\ BestInv' /\ (\A b : IsBest(b) => IsBest(b)')
  BY <1>2 DEF DeskInv, ResultsInv, IsMeasured, TaskInv, BestInv, IsBest
<1>6. IsRequest(skThread[w])'
  <2>1. IsPosted(s)
    BY DEF IsPosted, DeskColumns, DeskSymbols
  <2>2. skSearch \in SearchRow /\ IsBest(skSearch.best_result)'
    BY <1>2, <1>5 DEF DeskInv, RowsInv, BestInv
  <2> QED BY <1>2, <1>3, <2>1, <2>2 DEF IsRequest, NoRequest
<1>7. ThreadsInv'
  BY <1>2, <1>3, <1>5, <1>6, RequestStays DEF ThreadsInv
<1>8. \A i : Copied(i) => Copied(i)'
  BY <1>3 DEF Copied, OpenEdit, NoRequest
<1>9. ModelsInv'
  BY <1>2, <1>8, ModelsStay DEF DeskInv, RowsInv
<1> QED BY <1>4, <1>5, <1>7, <1>9 DEF DeskInv

\* Nothing was measured after the edit a save makes.
LEMMA EditsOutdate ==
  ASSUME DeskInv, skEdits' = skEdits + 1, UNCHANGED <<skRuns, skResults, skTask>>
  PROVE  ResultsInv' /\ TaskInv' /\ (\A b : IsBest(b) => IsBest(b)')
<1>1. \A i \in DOMAIN skResults : skResults[i].edits \in Nat /\ skResults[i].edits <= skEdits
  <2>1. \A i \in DOMAIN skResults : skResults[i] \in ResultRow
    BY DEF DeskInv, RowsInv
  <2>2. \A i \in DOMAIN skResults : skResults[i].edits \in Nat
    BY <2>1 DEF ResultRow
  <2> QED BY <2>2 DEF DeskInv, ResultsInv, IsMeasured
<1>2. skEdits \in Nat
  BY DEF DeskInv, RowsInv
<1>3. ResultsInv'
  BY <1>1, <1>2 DEF ResultsInv, IsMeasured
<1>4. TaskInv'
  BY <1>2 DEF DeskInv, TaskInv
<1> QED BY <1>3, <1>4 DEF IsBest

LEMMA SaveColumnsKeepsInv ==
  ASSUME DeskInv, NEW w \in Desks, SaveColumns(w)
  PROVE  DeskInv'
<1> DEFINE t == skThread[w]
<1>1. /\ t.pc = "save" /\ skEdits' = skEdits + 1
      /\ skSearch' = [t.row EXCEPT !.columns = t.posted.columns]
      /\ Serves(w, [pc |-> "symbols", posted |-> t.posted])
      /\ UNCHANGED <<skSymbols, skRuns, skResults, skModels, skTask>>
  BY DEF SaveColumns
<1>2. /\ skThread' = [v \in Desks |-> skThread'[v]]
      /\ skThread'[w] = [pc |-> "symbols", posted |-> t.posted]
      /\ \A v \in Desks : v # w => skThread'[v] = skThread[v]
  BY <1>1, ServesOne DEF DeskInv
<1>3. t.row \in SearchRow /\ IsBest(t.row.best_result) /\ IsPosted(t.posted)
  BY <1>1 DEF DeskInv, ThreadsInv, IsRequest
<1>4. skSearch' \in SearchRow /\ skSearch'.best_result = t.row.best_result
  BY <1>1, <1>3 DEF SearchRow, IsPosted
<1>5. RowsInv'
  BY <1>1, <1>2, <1>4 DEF DeskInv, RowsInv
<1>6. ResultsInv' /\ TaskInv' /\ (\A b : IsBest(b) => IsBest(b)')
  BY <1>1, EditsOutdate
<1>7. BestInv'
  BY <1>3, <1>4, <1>6 DEF BestInv
<1>8. ThreadsInv'
  <2>1. IsRequest(skThread[w])'
    BY <1>2, <1>3 DEF IsRequest, IsPosted
  <2> QED BY <1>1, <1>2, <1>6, <2>1, RequestStays DEF ThreadsInv
<1>9. ModelsInv'
  <2>1. \A i : Copied(i) => Copied(i)'
    BY <1>1, <1>2 DEF Copied
  <2> QED BY <1>1, <2>1, ModelsStay DEF DeskInv, RowsInv
<1> QED BY <1>5, <1>6, <1>7, <1>8, <1>9 DEF DeskInv

LEMMA SaveSymbolsKeepsInv ==
  ASSUME DeskInv, NEW w \in Desks, SaveSymbols(w)
  PROVE  DeskInv'
<1>1. /\ skThread[w].pc = "symbols" /\ skEdits' = skEdits + 1
      /\ skSymbols' = skThread[w].posted.symbols
      /\ Serves(w, NoRequest)
      /\ UNCHANGED <<skSearch, skRuns, skResults, skModels, skTask>>
  BY DEF SaveSymbols
<1>2. /\ skThread' = [v \in Desks |-> skThread'[v]]
      /\ skThread'[w] = NoRequest
      /\ \A v \in Desks : v # w => skThread'[v] = skThread[v]
  BY <1>1, ServesOne DEF DeskInv
<1>3. RowsInv'
  BY <1>1, <1>2 DEF DeskInv, RowsInv, ThreadsInv, IsRequest, IsPosted
<1>4. ResultsInv' /\ TaskInv' /\ (\A b : IsBest(b) => IsBest(b)')
  BY <1>1, EditsOutdate
<1>5. BestInv'
  BY <1>1, <1>4 DEF DeskInv, BestInv
<1>6. ThreadsInv'
  <2>1. IsRequest(skThread[w])'
    BY <1>2 DEF IsRequest, NoRequest
  <2> QED BY <1>1, <1>2, <1>4, <2>1, RequestStays DEF ThreadsInv
<1>7. ModelsInv'
  <2>1. \A i : Copied(i) => Copied(i)'
    BY <1>1, <1>2 DEF Copied
  <2> QED BY <1>1, <2>1, ModelsStay DEF DeskInv, RowsInv
<1> QED BY <1>3, <1>4, <1>5, <1>6, <1>7 DEF DeskInv

-----------------------------------------------------------------------------
(* Every step keeps the invariant: a run, its worker and its crashes.      *)

\* Threads and models see nothing of a step that moves neither them nor what
\* was measured before.
LEMMA WorkerLeaves ==
  ASSUME DeskInv, UNCHANGED <<skThread, skModels, skEdits>>,
         DOMAIN skRuns \subseteq DOMAIN skRuns',
         \A i \in DOMAIN skResults : i \in DOMAIN skResults' /\ skResults'[i] = skResults[i],
         \A b : IsBest(b) => IsBest(b)'
  PROVE  ThreadsInv' /\ ModelsInv'
<1>1. ThreadsInv'
  BY RequestStays DEF ThreadsInv
<1>2. \A i : Copied(i) => Copied(i)'
  BY DEF Copied
<1>3. skEdits' \in Nat /\ skEdits' >= skEdits
  BY DEF DeskInv, RowsInv
<1> QED BY <1>1, <1>2, <1>3, ModelsStay

\* One run changes and no other.
LEMMA RowOfOne ==
  ASSUME skRuns \in Seq(SearchRun), NEW r \in DOMAIN skRuns, NEW row \in SearchRun,
         skRuns' = [skRuns EXCEPT ![r] = row]
  PROVE  /\ skRuns' \in Seq(SearchRun) /\ DOMAIN skRuns' = DOMAIN skRuns
         /\ skRuns'[r] = row
         /\ \A k \in DOMAIN skRuns : k # r => skRuns'[k] = skRuns[k]
<1>1. DOMAIN skRuns = 1..Len(skRuns) /\ DOMAIN skRuns' = DOMAIN skRuns
  OBVIOUS
<1>2. skRuns' \in Seq(SearchRun)
  BY <1>1, ExceptSeq
<1> QED BY <1>1, <1>2

\* A run changes its status and no other run's.
LEMMA StatusOfOne ==
  ASSUME skRuns \in Seq(SearchRun), NEW r \in DOMAIN skRuns,
         NEW status \in {"running", "success", "failed"},
         skRuns' = [skRuns EXCEPT ![r].status = status]
  PROVE  /\ skRuns' \in Seq(SearchRun) /\ DOMAIN skRuns' = DOMAIN skRuns
         /\ skRuns'[r].status = status /\ skRuns'[r].taken = skRuns[r].taken
         /\ \A k \in DOMAIN skRuns : k # r => skRuns'[k] = skRuns[k]
<1> DEFINE row == [skRuns[r] EXCEPT !.status = status]
<1>1. skRuns[r] \in SearchRun
  OBVIOUS
<1>2. row \in SearchRun /\ row.status = status /\ row.taken = skRuns[r].taken
  BY <1>1 DEF SearchRun
<1>3. skRuns' = [skRuns EXCEPT ![r] = row]
  OBVIOUS
<1> QED BY <1>2, <1>3, RowOfOne

\* A delivery more, and no run changes otherwise.
LEMMA MessagesOfOne ==
  ASSUME skRuns \in Seq(SearchRun), NEW r \in DOMAIN skRuns,
         skRuns' = [skRuns EXCEPT ![r].messages = @ + 1]
  PROVE  /\ skRuns' \in Seq(SearchRun) /\ DOMAIN skRuns' = DOMAIN skRuns
         /\ \A k \in DOMAIN skRuns : /\ skRuns'[k].status = skRuns[k].status
                                     /\ skRuns'[k].taken = skRuns[k].taken
<1> DEFINE row == [skRuns[r] EXCEPT !.messages = @ + 1]
<1>1. skRuns[r] \in SearchRun
  OBVIOUS
<1> DEFINE old == skRuns[r]
<1>2. old.messages \in Nat /\ old = [ status |-> old.status, asked |-> old.asked,
                                      messages |-> old.messages, taken |-> old.taken ]
  BY <1>1 DEF SearchRun
<1>3. old.messages + 1 \in Nat
  BY <1>2
<1>4. row = [ status |-> old.status, asked |-> old.asked,
              messages |-> old.messages + 1, taken |-> old.taken ]
  BY <1>2
<1>5. row \in SearchRun /\ row.status = skRuns[r].status /\ row.taken = skRuns[r].taken
  BY <1>1, <1>3, <1>4 DEF SearchRun
<1>6. skRuns' = [skRuns EXCEPT ![r] = row]
  OBVIOUS
<1> QED BY <1>5, <1>6, RowOfOne

\* A task is taken off the queue: of its run nothing else changes.
LEMMA TakenOne ==
  ASSUME skRuns \in Seq(SearchRun), NEW r \in DOMAIN skRuns, skRuns[r].messages > 0,
         skRuns' = Taken(r)
  PROVE  /\ skRuns' \in Seq(SearchRun) /\ DOMAIN skRuns' = DOMAIN skRuns
         /\ skRuns'[r].taken = skRuns[r].taken + 1
         /\ \A k \in DOMAIN skRuns : k # r => skRuns'[k] = skRuns[k]
<1> DEFINE row == [skRuns[r] EXCEPT !.messages = @ - 1, !.taken = @ + 1]
<1>1. skRuns[r] \in SearchRun
  OBVIOUS
<1> DEFINE old == skRuns[r]
<1>2. /\ old.messages \in Nat /\ old.taken \in Nat
      /\ old = [ status |-> old.status, asked |-> old.asked,
                 messages |-> old.messages, taken |-> old.taken ]
  BY <1>1 DEF SearchRun
<1>3. old.messages - 1 \in Nat /\ old.taken + 1 \in Nat
  BY <1>2
<1> DEFINE sent == [old EXCEPT !.messages = old.messages - 1]
<1>4. /\ sent = [ status |-> old.status, asked |-> old.asked,
                  messages |-> old.messages - 1, taken |-> old.taken ]
      /\ row = [sent EXCEPT !.taken = old.taken + 1]
  BY <1>2
<1> HIDE DEF sent, row
<1>5. row \in SearchRun /\ row.taken = skRuns[r].taken + 1
  BY <1>1, <1>3, <1>4 DEF SearchRun
<1> USE DEF row
<1>6. skRuns' = [skRuns EXCEPT ![r] = row]
  BY DEF Taken
<1> QED BY <1>5, <1>6, RowOfOne

\* While no run's status changes and none is taken, what was said of the
\* sweeps stays so.
LEMMA RunsKept ==
  ASSUME DeskInv, UNCHANGED <<skSearch, skSymbols, skResults, skTask, skEdits>>,
         \A k \in DOMAIN skRuns : /\ k \in DOMAIN skRuns'
                                  /\ skRuns'[k].status = skRuns[k].status
                                  /\ skRuns'[k].taken = skRuns[k].taken
  PROVE  ResultsInv' /\ TaskInv' /\ BestInv' /\ (\A b : IsBest(b) => IsBest(b)')
<1>1. ResultsInv'
  BY DEF DeskInv, ResultsInv, IsMeasured
<1>2. \A b : IsBest(b) => IsBest(b)'
  BY DEF IsBest
<1>3. TaskInv'
  <2>1. CASE skTask = NoSweep
    BY <2>1 DEF TaskInv, NoSweep
  <2>2. CASE skTask # NoSweep
    BY <2>2 DEF DeskInv, TaskInv
  <2> QED BY <2>1, <2>2
<1>4. BestInv'
  BY <1>2 DEF DeskInv, BestInv
<1> QED BY <1>1, <1>2, <1>3, <1>4

LEMMA CreateSearchRunKeepsInv ==
  ASSUME DeskInv, NEW w \in Desks, CreateSearchRun(w)
  PROVE  DeskInv'
<1> DEFINE n == Len(skRuns)
<1>1. /\ skRuns' = Append(skRuns, NewSearchRun) /\ skThread[w] = NoRequest
      /\ Serves(w, [pc |-> "send", run |-> n + 1])
      /\ UNCHANGED <<skSearch, skSymbols, skResults, skModels, skTask, skEdits>>
  BY DEF CreateSearchRun
<1>2. NewSearchRun \in SearchRun /\ skRuns \in Seq(SearchRun)
  BY DEF NewSearchRun, SearchRun, DeskInv, RowsInv, SearchRow
<1>3. /\ skRuns' \in Seq(SearchRun) /\ n + 1 \in DOMAIN skRuns'
      /\ \A r \in DOMAIN skRuns : r \in DOMAIN skRuns' /\ skRuns'[r] = skRuns[r]
  BY <1>1, <1>2, AppendProperties
<1>4. /\ skThread' = [v \in Desks |-> skThread'[v]]
      /\ skThread'[w] = [pc |-> "send", run |-> n + 1]
      /\ \A v \in Desks : v # w => skThread'[v] = skThread[v]
  BY <1>1, ServesOne DEF DeskInv
<1>5. RowsInv'
  BY <1>1, <1>3, <1>4 DEF DeskInv, RowsInv
<1>6. ResultsInv' /\ TaskInv' /\ BestInv' /\ (\A b : IsBest(b) => IsBest(b)')
  BY <1>1, <1>3, RunsKept
<1>7. ThreadsInv'
  <2>1. IsRequest(skThread[w])'
    BY <1>3, <1>4 DEF IsRequest
  <2> QED BY <1>3, <1>4, <1>6, <2>1, RequestStays DEF ThreadsInv
<1>8. ModelsInv'
  <2>1. \A i : Copied(i) => Copied(i)'
    BY <1>1, <1>4 DEF Copied, NoRequest
  <2> QED BY <1>1, <2>1, ModelsStay DEF DeskInv, RowsInv
<1> QED BY <1>5, <1>6, <1>7, <1>8 DEF DeskInv

\* A thread is done with its request, and the runs are as they were but for
\* what is on the queue.
LEMMA SentOrNot ==
  ASSUME DeskInv, NEW w \in Desks, skThread[w].pc = "send", Serves(w, NoRequest),
         UNCHANGED <<skSearch, skSymbols, skResults, skModels, skTask, skEdits>>,
         skRuns' \in Seq(SearchRun), DOMAIN skRuns' = DOMAIN skRuns,
         \A k \in DOMAIN skRuns : /\ skRuns'[k].status = skRuns[k].status
                                  /\ skRuns'[k].taken = skRuns[k].taken
  PROVE  DeskInv'
<1>1. /\ skThread' = [v \in Desks |-> skThread'[v]]
      /\ skThread'[w] = NoRequest
      /\ \A v \in Desks : v # w => skThread'[v] = skThread[v]
  BY ServesOne DEF DeskInv
<1>2. RowsInv'
  BY <1>1 DEF DeskInv, RowsInv
<1>3. ResultsInv' /\ TaskInv' /\ BestInv' /\ (\A b : IsBest(b) => IsBest(b)')
  BY RunsKept
<1>4. ThreadsInv'
  <2>1. IsRequest(skThread[w])'
    BY <1>1 DEF IsRequest, NoRequest
  <2> QED BY <1>1, <1>3, <2>1, RequestStays DEF ThreadsInv
<1>5. ModelsInv'
  <2>1. \A i : Copied(i) => Copied(i)'
    BY <1>1 DEF Copied
  <2> QED BY <2>1, ModelsStay DEF DeskInv, RowsInv
<1> QED BY <1>2, <1>3, <1>4, <1>5 DEF DeskInv

LEMMA SendSearchKeepsInv ==
  ASSUME DeskInv, NEW w \in Desks, SendSearch(w) \/ SearchNotSent(w)
  PROVE  DeskInv'
<1>1. skThread[w].pc = "send" /\ skThread[w].run \in DOMAIN skRuns /\ skRuns \in Seq(SearchRun)
  BY DEF SendSearch, SearchNotSent, DeskInv, ThreadsInv, IsRequest, RowsInv
<1>2. CASE SendSearch(w)
  <2>1. /\ skRuns' = [skRuns EXCEPT ![skThread[w].run].messages = @ + 1]
        /\ Serves(w, NoRequest)
        /\ UNCHANGED <<skSearch, skSymbols, skResults, skModels, skTask, skEdits>>
    BY <1>2 DEF SendSearch
  <2> QED BY <1>1, <2>1, MessagesOfOne, SentOrNot
<1>3. CASE SearchNotSent(w)
  BY <1>1, <1>3, SentOrNot DEF SearchNotSent
<1> QED BY <1>2, <1>3

LEMMA RedeliverSearchKeepsInv ==
  ASSUME DeskInv, NEW r \in DOMAIN skRuns, RedeliverSearch(r)
  PROVE  DeskInv'
<1>1. /\ skRuns' = [skRuns EXCEPT ![r].messages = @ + 1]
      /\ UNCHANGED <<skSearch, skSymbols, skResults, skModels, skThread, skTask, skEdits>>
  BY DEF RedeliverSearch
<1>2. /\ skRuns' \in Seq(SearchRun) /\ DOMAIN skRuns' = DOMAIN skRuns
      /\ \A k \in DOMAIN skRuns : /\ skRuns'[k].status = skRuns[k].status
                                  /\ skRuns'[k].taken = skRuns[k].taken
  BY <1>1, MessagesOfOne DEF DeskInv, RowsInv
<1>3. RowsInv'
  BY <1>1, <1>2 DEF DeskInv, RowsInv
<1>4. ResultsInv' /\ TaskInv' /\ BestInv' /\ (\A b : IsBest(b) => IsBest(b)')
  BY <1>1, <1>2, RunsKept
<1> QED BY <1>1, <1>2, <1>3, <1>4, WorkerLeaves DEF DeskInv

\* A run whose best result the search has is taken a second time at least.
LEMMA TakeSearchKeepsInv ==
  ASSUME DeskInv, NEW r \in DOMAIN skRuns, TakeSearch(r)
  PROVE  DeskInv'
<1>1. /\ skTask = NoSweep /\ skRuns[r].messages > 0 /\ skRuns' = Taken(r)
      /\ skTask' = [pc |-> "dataset", run |-> r, columns |-> skSearch.columns, edits |-> skEdits]
      /\ UNCHANGED <<skSearch, skSymbols, skResults, skModels, skThread, skEdits>>
  BY DEF TakeSearch
<1>2. /\ skRuns' \in Seq(SearchRun) /\ DOMAIN skRuns' = DOMAIN skRuns
      /\ skRuns'[r].taken = skRuns[r].taken + 1
      /\ \A k \in DOMAIN skRuns : k # r => skRuns'[k] = skRuns[k]
  BY <1>1, TakenOne DEF DeskInv, RowsInv
<1>3. \A k \in DOMAIN skRuns : skRuns[k].taken \in Nat
  <2>1. \A k \in DOMAIN skRuns : skRuns[k] \in SearchRun
    BY DEF DeskInv, RowsInv
  <2> QED BY <2>1 DEF SearchRun
<1>4. RowsInv' /\ ResultsInv'
  BY <1>1, <1>2 DEF DeskInv, RowsInv, ResultsInv, IsMeasured
<1>5. \A b : IsBest(b) => IsBest(b)'
  <2> SUFFICES ASSUME NEW b, IsBest(b), b # 0 PROVE IsBest(b)'
    BY DEF IsBest
  <2> DEFINE k == skResults[b].run
  <2>1. /\ b \in DOMAIN skResults /\ skResults[b].rank = 1
        /\ k \in DOMAIN skRuns /\ skRuns[k].taken >= 1
        /\ skRuns[k].taken > 1 \/ skRuns[k].status = "success"
    BY DEF IsBest
  <2>2. CASE k = r
    <3>1. skRuns'[k].taken >= 1 /\ skRuns'[k].taken > 1
      BY <1>2, <1>3, <2>1, <2>2
    <3> QED BY <1>1, <1>2, <2>1, <3>1 DEF IsBest
  <2>3. CASE k # r
    BY <1>1, <1>2, <2>1, <2>3 DEF IsBest
  <2> QED BY <2>2, <2>3
<1>6. TaskInv'
  <2>1. skRuns'[r].taken >= 1
    BY <1>2, <1>3
  <2> QED BY <1>1, <1>2, <2>1 DEF DeskInv, RowsInv, SearchRow, TaskInv, NoSweep
<1>7. BestInv'
  BY <1>1, <1>5 DEF DeskInv, BestInv
<1> QED BY <1>1, <1>2, <1>4, <1>5, <1>6, <1>7, WorkerLeaves DEF DeskInv

LEMMA ReadDatasetKeepsInv ==
  ASSUME DeskInv, ReadDataset
  PROVE  DeskInv'
<1>1. /\ skTask.pc = "dataset"
      /\ skTask' = [pc |-> "store", run |-> skTask.run, edits |-> skTask.edits,
                    columns |-> skTask.columns, symbols |-> skSymbols]
      /\ UNCHANGED <<skSearch, skSymbols, skRuns, skResults, skModels, skThread, skEdits>>
  BY DEF ReadDataset
<1>2. RowsInv' /\ ResultsInv'
  BY <1>1 DEF DeskInv, RowsInv, ResultsInv, IsMeasured
<1>3. skTask # NoSweep
  BY <1>1 DEF NoSweep
<1>4. \A b : IsBest(b) => IsBest(b)'
  BY <1>1, <1>3 DEF IsBest
<1>5. TaskInv'
  BY <1>1, <1>3 DEF DeskInv, RowsInv, TaskInv, NoSweep
<1>6. BestInv'
  BY <1>1, <1>4 DEF DeskInv, BestInv
<1> QED BY <1>1, <1>2, <1>4, <1>5, <1>6, WorkerLeaves DEF DeskInv

LEMMA StoreCandidatesKeepsInv ==
  ASSUME DeskInv, StoreCandidates
  PROVE  DeskInv'
<1>1. PICK winner \in skTask.columns.space \cup {"none"} :
        skResults' = skResults \o
                     SetToSeq({Candidate(key, winner) : key \in skTask.columns.space})
  BY DEF StoreCandidates
<1> DEFINE rows == {Candidate(key, winner) : key \in skTask.columns.space}
           swept == SetToSeq(rows)
<1>2. /\ skTask.pc = "store" /\ skTask' = [skTask EXCEPT !.pc = "finish"]
      /\ UNCHANGED <<skSearch, skSymbols, skRuns, skModels, skThread, skEdits>>
  BY DEF StoreCandidates
<1>3. rows \subseteq ResultRow /\ swept \in Seq(rows)
  BY <1>2, SweptRows DEF DeskInv
<1>4. skResults \in Seq(ResultRow) /\ swept \in Seq(ResultRow)
  BY <1>3 DEF DeskInv, RowsInv
<1>5. /\ skResults' \in Seq(ResultRow)
      /\ Len(skResults') = Len(skResults) + Len(swept)
      /\ \A i \in 1..(Len(skResults) + Len(swept)) :
            skResults'[i] = IF i <= Len(skResults) THEN skResults[i] ELSE swept[i - Len(skResults)]
  BY <1>1, <1>4, ConcatProperties
<1>6. \A i \in DOMAIN skResults : i \in DOMAIN skResults' /\ skResults'[i] = skResults[i]
  BY <1>4, <1>5
<1>7. \A i \in DOMAIN skResults' : i \in DOMAIN skResults \/ skResults'[i] \in rows
  BY <1>3, <1>4, <1>5
<1>8. RowsInv'
  BY <1>2, <1>5 DEF DeskInv, RowsInv
<1>9. \A row \in rows : IsMeasured(row)'
  <2>1. \A row \in rows : /\ row.edits = skTask.edits
                          /\ row.columns = skTask.columns /\ row.symbols = skTask.symbols
    BY DEF Candidate
  <2>2. /\ skTask.edits <= skEdits
        /\ skTask.edits = skEdits => skTask.columns = skSearch.columns /\ skTask.symbols = skSymbols
    BY <1>2 DEF DeskInv, TaskInv
  <2> QED BY <1>2, <2>1, <2>2 DEF IsMeasured
<1>10. ResultsInv'
  BY <1>2, <1>6, <1>7, <1>9 DEF DeskInv, ResultsInv, IsMeasured
<1>11. skTask' = [ pc |-> "finish", run |-> skTask.run, edits |-> skTask.edits,
                   columns |-> skTask.columns, symbols |-> skTask.symbols ]
  BY <1>2 DEF DeskInv, TaskInv
<1>12. skTask # NoSweep
  BY <1>2 DEF NoSweep
<1>13. \A b : IsBest(b) => IsBest(b)'
  BY <1>2, <1>6, <1>11, <1>12 DEF IsBest
<1>14. TaskInv'
  BY <1>2, <1>11, <1>12 DEF DeskInv, TaskInv, NoSweep
<1>15. BestInv'
  BY <1>2, <1>13 DEF DeskInv, BestInv
<1> QED BY <1>2, <1>6, <1>8, <1>10, <1>13, <1>14, <1>15, WorkerLeaves DEF DeskInv

LEMMA FinishSearchKeepsInv ==
  ASSUME DeskInv, FinishSearch
  PROVE  DeskInv'
<1> DEFINE r == skTask.run
<1>1. /\ skTask.pc = "finish" /\ skTask' = [skTask EXCEPT !.pc = "best"]
      /\ skRuns' = [skRuns EXCEPT ![r].status = "success"]
      /\ UNCHANGED <<skSearch, skSymbols, skResults, skModels, skThread, skEdits>>
  BY DEF FinishSearch
<1>2. r \in DOMAIN skRuns /\ skRuns[r].taken >= 1
  BY <1>1 DEF DeskInv, TaskInv, NoSweep
<1>3. /\ skRuns' \in Seq(SearchRun) /\ DOMAIN skRuns' = DOMAIN skRuns
      /\ skRuns'[r].status = "success" /\ skRuns'[r].taken = skRuns[r].taken
      /\ \A k \in DOMAIN skRuns : k # r => skRuns'[k] = skRuns[k]
  BY <1>1, <1>2, StatusOfOne DEF DeskInv, RowsInv
<1>4. skTask'.pc = "best" /\ skTask'.run = r
  BY <1>1 DEF DeskInv, TaskInv
<1>5. RowsInv' /\ ResultsInv'
  BY <1>1, <1>3 DEF DeskInv, RowsInv, ResultsInv, IsMeasured
<1>6. skTask # NoSweep
  BY <1>1 DEF NoSweep
<1>7. \A b : IsBest(b) => IsBest(b)'
  BY <1>1, <1>3, <1>4, <1>6 DEF IsBest
<1>8. TaskInv'
  BY <1>2, <1>3, <1>4 DEF TaskInv
<1>9. BestInv'
  BY <1>1, <1>7 DEF DeskInv, BestInv
<1> QED BY <1>1, <1>5, <1>7, <1>8, <1>9, WorkerLeaves DEF DeskInv

LEMMA PointToBestKeepsInv ==
  ASSUME DeskInv, PointToBest
  PROVE  DeskInv'
<1>1. /\ skTask.pc = "best" /\ skTask' = NoSweep
      /\ \/ UNCHANGED skSearch
         \/ \E i \in Winners : skSearch' = [skSearch EXCEPT !.best_result = i]
      /\ UNCHANGED <<skSymbols, skRuns, skResults, skModels, skThread, skEdits>>
  BY DEF PointToBest
<1>2. skTask # NoSweep /\ skSearch \in SearchRow
  BY <1>1 DEF NoSweep, DeskInv, RowsInv
<1>3. \A b : IsBest(b) => IsBest(b)'
  BY <1>1 DEF IsBest
<1>4. skSearch' \in SearchRow /\ skSearch'.columns = skSearch.columns /\ BestInv'
  <2>1. CASE UNCHANGED skSearch
    BY <1>1, <1>2, <1>3, <2>1 DEF DeskInv, BestInv
  <2>2. CASE ~UNCHANGED skSearch
    <3>1. PICK i \in Winners : skSearch' = [skSearch EXCEPT !.best_result = i]
      BY <1>1, <2>2
    <3>2. skSearch'.best_result = i /\ skSearch'.columns = skSearch.columns
      BY <1>2, <3>1 DEF SearchRow
    <3>3. i \in Nat /\ i \in DOMAIN skResults /\ skResults[i].run = skTask.run /\ skResults[i].rank = 1
      BY DEF DeskInv, RowsInv, Winners
    <3>4. /\ skTask.run \in DOMAIN skRuns /\ skRuns[skTask.run].taken >= 1
          /\ skRuns[skTask.run].status = "success"
      BY <1>1, <1>2 DEF DeskInv, TaskInv
    <3>5. IsBest(i)'
      BY <1>1, <3>3, <3>4 DEF IsBest
    <3> QED BY <1>2, <3>1, <3>2, <3>3, <3>5 DEF SearchRow, BestInv
  <2> QED BY <2>1, <2>2
<1>5. RowsInv' /\ ResultsInv'
  BY <1>1, <1>4 DEF DeskInv, RowsInv, ResultsInv, IsMeasured
<1>6. TaskInv'
  BY <1>1 DEF TaskInv, NoSweep
<1> QED BY <1>1, <1>3, <1>4, <1>5, <1>6, WorkerLeaves DEF DeskInv

LEMMA SearchFailsKeepsInv ==
  ASSUME DeskInv, SearchFails
  PROVE  DeskInv'
<1> DEFINE r == skTask.run
<1>1. /\ skTask # NoSweep /\ skTask' = NoSweep
      /\ skRuns' = [skRuns EXCEPT ![r].status = "failed"]
      /\ UNCHANGED <<skSearch, skSymbols, skResults, skModels, skThread, skEdits>>
  BY DEF SearchFails
<1>2. r \in DOMAIN skRuns
  BY <1>1 DEF DeskInv, TaskInv
<1>3. /\ skRuns' \in Seq(SearchRun) /\ DOMAIN skRuns' = DOMAIN skRuns
      /\ skRuns'[r].taken = skRuns[r].taken
      /\ \A k \in DOMAIN skRuns : k # r => skRuns'[k] = skRuns[k]
  BY <1>1, <1>2, StatusOfOne DEF DeskInv, RowsInv
<1>4. RowsInv' /\ ResultsInv'
  BY <1>1, <1>3 DEF DeskInv, RowsInv, ResultsInv, IsMeasured
<1>5. \A b : IsBest(b) => IsBest(b)'
  BY <1>1, <1>3 DEF IsBest
<1>6. TaskInv'
  BY <1>1 DEF TaskInv, NoSweep
<1>7. BestInv'
  BY <1>1, <1>5 DEF DeskInv, BestInv
<1> QED BY <1>1, <1>4, <1>5, <1>6, <1>7, WorkerLeaves DEF DeskInv

LEMMA SweepDiesKeepsInv ==
  ASSUME DeskInv, SweepDies
  PROVE  DeskInv'
<1>1. /\ skTask' = NoSweep
      /\ UNCHANGED <<skSearch, skSymbols, skRuns, skResults, skModels, skThread, skEdits>>
  BY DEF SweepDies
<1>2. RowsInv' /\ ResultsInv'
  BY <1>1 DEF DeskInv, RowsInv, ResultsInv, IsMeasured
<1>3. \A b : IsBest(b) => IsBest(b)'
  BY <1>1 DEF IsBest
<1>4. TaskInv'
  BY <1>1 DEF TaskInv, NoSweep
<1>5. BestInv'
  BY <1>1, <1>3 DEF DeskInv, BestInv
<1> QED BY <1>1, <1>2, <1>3, <1>4, <1>5, WorkerLeaves DEF DeskInv

-----------------------------------------------------------------------------
(* Every step keeps the invariant: promotion.                              *)

LEMMA PromoteKeepsInv ==
  ASSUME DeskInv, NEW w \in Desks, Promote(w)
  PROVE  DeskInv'
<1>1. PICK i \in DOMAIN skResults :
        IF TaskOf[skResults[i].key] # skSearch.columns.task
        THEN UNCHANGED <<skModels, skThread>>
        ELSE /\ skModels' = Append(skModels,
                   [ result |-> i, key |-> skResults[i].key, columns |-> skSearch.columns,
                     symbols |-> {}, edits |-> skEdits ])
             /\ Serves(w, [pc |-> "copy", model |-> Len(skModels) + 1])
  BY DEF Promote
<1>2. /\ skThread[w] = NoRequest
      /\ UNCHANGED <<skSearch, skSymbols, skRuns, skResults, skTask, skEdits>>
  BY DEF Promote
<1>3. ResultsInv' /\ TaskInv' /\ BestInv' /\ (\A b : IsBest(b) => IsBest(b)')
  BY <1>2 DEF DeskInv, ResultsInv, IsMeasured, TaskInv, BestInv, IsBest
<1>4. CASE UNCHANGED <<skModels, skThread>>
  <2>1. RowsInv'
    BY <1>2, <1>4 DEF DeskInv, RowsInv
  <2> QED BY <1>2, <1>3, <1>4, <2>1, WorkerLeaves DEF DeskInv
<1>5. CASE ~UNCHANGED <<skModels, skThread>>
  <2> DEFINE n == Len(skModels)
             r == skResults[i]
             m == [ result |-> i, key |-> r.key, columns |-> skSearch.columns,
                    symbols |-> {}, edits |-> skEdits ]
  <2>1. /\ TaskOf[r.key] = skSearch.columns.task
        /\ skModels' = Append(skModels, m)
        /\ Serves(w, [pc |-> "copy", model |-> n + 1])
    BY <1>1, <1>5
  <2>2. /\ skThread' = [v \in Desks |-> skThread'[v]]
        /\ skThread'[w] = [pc |-> "copy", model |-> n + 1]
        /\ \A v \in Desks : v # w => skThread'[v] = skThread[v]
    BY <2>1, ServesOne DEF DeskInv
  <2>3. skModels \in Seq(PromotedRow) /\ n \in Nat /\ r \in ResultRow /\ i \in Nat
    BY DEF DeskInv, RowsInv
  <2>4. m \in PromotedRow
    BY <2>3 DEF DeskInv, RowsInv, SearchRow, ResultRow, PromotedRow, DeskSymbols
  <2>5. /\ skModels' \in Seq(PromotedRow) /\ Len(skModels') = n + 1
        /\ \A j \in 1..n : skModels'[j] = skModels[j]
        /\ skModels'[n + 1] = m
    BY <2>1, <2>3, <2>4, AppendProperties
  <2>6. RowsInv'
    BY <1>2, <2>2, <2>5 DEF DeskInv, RowsInv
  <2>7. ThreadsInv'
    <3>1. IsRequest(skThread[w])'
      BY <2>2 DEF IsRequest
    <3> QED BY <1>2, <1>3, <2>2, <3>1, RequestStays DEF ThreadsInv
  <2>8. \A j : Copied(j) => Copied(j)'
    BY <1>2, <2>2 DEF Copied, NoRequest
  <2>9. \A j : j = n + 1 => Copied(j)'
    BY <2>2 DEF Copied
  <2>10. m.columns = r.columns \/ m.edits > r.edits
    BY <2>3 DEF DeskInv, RowsInv, ResultsInv, IsMeasured, ResultRow
  <2>11. ModelsInv'
    <3> SUFFICES ASSUME NEW j \in DOMAIN skModels'
                 PROVE  LET x == skModels'[j]
                        IN  /\ x.result \in DOMAIN skResults
                            /\ TaskOf[x.key] = x.columns.task
                            /\ x.edits <= skEdits
                            /\ x.columns = skResults[x.result].columns \/ x.edits > skResults[x.result].edits
                            /\ Copied(j)' \/ Agrees(x, skResults[x.result]) \/ x.edits > skResults[x.result].edits
      BY <1>2 DEF ModelsInv, Agrees
    <3>1. CASE j = n + 1
      <4>1. skModels'[j] = m /\ Copied(j)'
        BY <2>5, <2>9, <3>1
      <4>2. m.edits <= skEdits
        BY DEF DeskInv, RowsInv
      <4> QED BY <2>1, <2>10, <4>1, <4>2
    <3>2. CASE j # n + 1
      <4>1. j \in DOMAIN skModels /\ skModels'[j] = skModels[j]
        BY <2>3, <2>5, <3>2
      <4> QED BY <2>8, <4>1 DEF DeskInv, ModelsInv
    <3> QED BY <3>1, <3>2
  <2> QED BY <1>3, <2>6, <2>7, <2>11 DEF DeskInv
<1> QED BY <1>4, <1>5

\* The second read of a promotion: what it finds is what the first one found,
\* or an edit came in between.
LEMMA CopySymbolsKeepsInv ==
  ASSUME DeskInv, NEW w \in Desks, CopySymbols(w)
  PROVE  DeskInv'
<1> DEFINE k == skThread[w].model
<1>1. /\ skThread[w].pc = "copy"
      /\ skModels' = [skModels EXCEPT ![k].symbols = skSymbols, ![k].edits = skEdits]
      /\ Serves(w, NoRequest)
      /\ UNCHANGED <<skSearch, skSymbols, skRuns, skResults, skTask, skEdits>>
  BY DEF CopySymbols
<1>2. /\ skThread' = [v \in Desks |-> skThread'[v]]
      /\ skThread'[w] = NoRequest
      /\ \A v \in Desks : v # w => skThread'[v] = skThread[v]
  BY <1>1, ServesOne DEF DeskInv
<1>3. ResultsInv' /\ TaskInv' /\ BestInv' /\ (\A b : IsBest(b) => IsBest(b)')
  BY <1>1 DEF DeskInv, ResultsInv, IsMeasured, TaskInv, BestInv, IsBest
<1>4. /\ skModels \in Seq(PromotedRow) /\ skEdits \in Nat /\ skSymbols \in DeskSymbols
      /\ skResults \in Seq(ResultRow)
  BY DEF DeskInv, RowsInv
<1>5. DOMAIN skModels' = DOMAIN skModels /\ DOMAIN skModels = 1..Len(skModels)
  BY <1>1, <1>4
<1>6. \A j \in DOMAIN skModels : j # k => skModels'[j] = skModels[j]
  BY <1>1, <1>4
<1>7. ASSUME k \in DOMAIN skModels
      PROVE  skModels'[k] = [skModels[k] EXCEPT !.symbols = skSymbols, !.edits = skEdits]
  BY <1>1, <1>4, <1>7
<1>8. \A j \in DOMAIN skModels : skModels'[j] \in PromotedRow
  <2> SUFFICES ASSUME NEW j \in DOMAIN skModels PROVE skModels'[j] \in PromotedRow
    OBVIOUS
  <2>1. skModels[j] \in PromotedRow
    BY <1>4
  <2>2. [skModels[j] EXCEPT !.symbols = skSymbols, !.edits = skEdits] \in PromotedRow
    BY <1>4, <2>1 DEF PromotedRow
  <2> QED BY <1>6, <1>7, <2>1, <2>2
<1>9. RowsInv'
  <2>1. skModels' = [j \in 1..Len(skModels) |-> skModels'[j]]
    BY <1>1, <1>5
  <2>2. skModels' \in [1..Len(skModels) -> PromotedRow] /\ Len(skModels) \in Nat
    BY <1>4, <1>5, <1>8, <2>1
  <2>3. skModels' \in Seq(PromotedRow)
    BY <2>2
  <2> QED BY <1>1, <1>2, <2>3 DEF DeskInv, RowsInv
<1>10. ThreadsInv'
  <2>1. IsRequest(skThread[w])'
    BY <1>2 DEF IsRequest, NoRequest
  <2> QED BY <1>1, <1>2, <1>3, <2>1, RequestStays DEF ThreadsInv
<1>11. ModelsInv'
  <2> SUFFICES ASSUME NEW j \in DOMAIN skModels
               PROVE  LET x == skModels'[j]
                      IN  /\ x.result \in DOMAIN skResults
                          /\ TaskOf[x.key] = x.columns.task
                          /\ x.edits <= skEdits
                          /\ x.columns = skResults[x.result].columns \/ x.edits > skResults[x.result].edits
                          /\ Copied(j)' \/ Agrees(x, skResults[x.result]) \/ x.edits > skResults[x.result].edits
    <3>1. UNCHANGED <<skResults, skEdits>> /\ DOMAIN skModels' = DOMAIN skModels
      BY <1>1, <1>5
    <3> HIDE DEF k
    <3> QED BY <3>1 DEF ModelsInv, Agrees
  <2> DEFINE m == skModels[j]
             r == skResults[m.result]
  <2>1. /\ m.result \in DOMAIN skResults /\ TaskOf[m.key] = m.columns.task
        /\ m.edits <= skEdits
        /\ m.columns = r.columns \/ m.edits > r.edits
        /\ Copied(j) \/ Agrees(m, r) \/ m.edits > r.edits
    BY DEF DeskInv, ModelsInv
  <2>2. CASE j # k
    <3>1. Copied(j) => Copied(j)'
      BY <1>2, <2>2 DEF Copied
    <3> QED BY <1>6, <2>1, <2>2, <3>1
  <2>3. CASE j = k
    <3>1. m \in PromotedRow /\ r \in ResultRow
      BY <1>4, <2>1
    <3>2. /\ skModels'[j].result = m.result /\ skModels'[j].key = m.key
          /\ skModels'[j].columns = m.columns
          /\ skModels'[j].symbols = skSymbols /\ skModels'[j].edits = skEdits
      BY <1>7, <2>3, <3>1 DEF PromotedRow
    <3>3. m.edits \in Nat /\ r.edits \in Nat
      BY <3>1 DEF PromotedRow, ResultRow
    <3>4. r.edits <= skEdits /\ (r.edits = skEdits => r.columns = skSearch.columns /\ r.symbols = skSymbols)
      BY <2>1 DEF DeskInv, ResultsInv, IsMeasured
    <3>5. r.edits = skEdits => m.columns = r.columns
      BY <1>4, <2>1, <3>3
    <3>6. skEdits > r.edits \/ (m.columns = r.columns /\ skSymbols = r.symbols)
      BY <1>4, <3>3, <3>4, <3>5
    <3> QED BY <1>4, <2>1, <3>2, <3>6 DEF Agrees
  <2> QED BY <2>2, <2>3
<1> QED BY <1>3, <1>9, <1>10, <1>11 DEF DeskInv

-----------------------------------------------------------------------------
(* The theorem.                                                            *)

LEMMA DeskNextKeepsInv ==
  ASSUME DeskInv, DeskNext
  PROVE  DeskInv'
BY OpenEditKeepsInv, SaveColumnsKeepsInv, SaveSymbolsKeepsInv, CreateSearchRunKeepsInv,
   SendSearchKeepsInv, PromoteKeepsInv, CopySymbolsKeepsInv, TakeSearchKeepsInv,
   RedeliverSearchKeepsInv, ReadDatasetKeepsInv, StoreCandidatesKeepsInv, FinishSearchKeepsInv,
   PointToBestKeepsInv, SearchFailsKeepsInv, SweepDiesKeepsInv
   DEF DeskNext

LEMMA BudgetStays ==
  ASSUME DeskNext
  PROVE  skBudget' = skBudget
<1>1. ASSUME NEW w \in Desks,
             \/ OpenEdit(w) \/ SaveColumns(w) \/ SaveSymbols(w) \/ CreateSearchRun(w)
             \/ SendSearch(w) \/ SearchNotSent(w) \/ Promote(w) \/ CopySymbols(w)
      PROVE  skBudget' = skBudget
  BY <1>1 DEF OpenEdit, SaveColumns, SaveSymbols, CreateSearchRun, SendSearch, SearchNotSent,
              Promote, CopySymbols, Count, AtNoCost
<1>2. ASSUME NEW r \in DOMAIN skRuns, TakeSearch(r) \/ RedeliverSearch(r)
      PROVE  skBudget' = skBudget
  BY <1>2 DEF TakeSearch, RedeliverSearch, Count, AtNoCost
<1>3. ReadDataset \/ StoreCandidates \/ FinishSearch \/ PointToBest \/ SearchFails \/ SweepDies
         => skBudget' = skBudget
  BY DEF ReadDataset, StoreCandidates, FinishSearch, PointToBest, SearchFails, SweepDies,
         Count, AtNoCost
<1> QED BY <1>1, <1>2, <1>3 DEF DeskNext

LEMMA DeskInvInit == LabInit => DeskOrUnused
<1>1. DeskIdle => DeskOrUnused
  BY DEF DeskIdle, DeskOrUnused, Unused
<1>2. ASSUME DeskInit PROVE DeskOrUnused
  <2>1. PICK s \in Setups : /\ skSearch = [columns |-> s.columns, best_result |-> 0]
                            /\ skSymbols = s.symbols
    BY <1>2 DEF DeskInit
  <2>2. /\ skRuns = <<>> /\ skResults = <<>> /\ skModels = <<>>
        /\ skThread = [w \in Desks |-> NoRequest] /\ skTask = NoSweep /\ skEdits = 0
    BY <1>2 DEF DeskInit
  <2>3. RowsInv
    BY <2>1, <2>2 DEF RowsInv, SearchRow, DeskColumns, DeskSymbols
  <2>4. ResultsInv /\ TaskInv /\ BestInv /\ ModelsInv
    BY <2>1, <2>2 DEF ResultsInv, TaskInv, NoSweep, BestInv, IsBest, ModelsInv
  <2>5. ThreadsInv
    BY <2>2 DEF ThreadsInv, IsRequest, NoRequest
  <2> QED BY <2>1, <2>2, <2>3, <2>4, <2>5 DEF DeskOrUnused, Unused, DeskInv
<1> QED BY <1>1, <1>2 DEF LabInit, SiteIdle

LEMMA DeskInvNext == DeskOrUnused /\ [LabNext]_labVars => DeskOrUnused'
<1> SUFFICES ASSUME DeskOrUnused, [LabNext]_labVars PROVE DeskOrUnused'
  OBVIOUS
<1>1. CASE skBudget # <<>> /\ DeskNext
  BY <1>1, DeskNextKeepsInv, BudgetStays DEF DeskOrUnused
<1>2. CASE UNCHANGED skVars
  <2>1. UNCHANGED <<skSearch, skSymbols, skRuns, skResults, skModels, skThread, skTask,
                    skEdits, skBudget>>
    BY <1>2 DEF skVars
  <2>2. CASE skBudget = <<>>
    BY <2>1, <2>2 DEF DeskOrUnused, Unused
  <2>3. CASE skBudget # <<>>
    <3>1. DeskInv
      BY <2>3 DEF DeskOrUnused
    <3>2. RowsInv' /\ ResultsInv' /\ TaskInv' /\ BestInv'
      BY <2>1, <3>1 DEF DeskInv, RowsInv, ResultsInv, IsMeasured, TaskInv, BestInv, IsBest
    <3>3. ThreadsInv' /\ ModelsInv'
      BY <2>1, <3>1, WorkerLeaves DEF IsBest
    <3> QED BY <2>1, <2>3, <3>2, <3>3 DEF DeskOrUnused, DeskInv
  <2> QED BY <2>2, <2>3
<1> QED BY <1>1, <1>2 DEF LabNext, labVars, dataVars, siteVars

LEMMA InvMakesPromotedAsMeasured == DeskOrUnused => PromotedAsMeasured
<1>1. CASE skBudget = <<>>
  BY <1>1 DEF DeskOrUnused, Unused, PromotedAsMeasured, Range
<1>2. ASSUME DeskInv PROVE PromotedAsMeasured
  <2>1. \A m \in Range(skModels) : TaskOf[m.key] = m.columns.task
    BY <1>2 DEF DeskInv, ModelsInv, Range
  <2>2. \A i \in DOMAIN skModels :
          (\A t \in Desks : skThread[t].pc = "copy" => skThread[t].model # i) =>
             LET m == skModels[i]
                 r == skResults[m.result]
             IN  \/ m.columns = r.columns /\ m.symbols = r.symbols
                 \/ m.edits > r.edits
    BY <1>2 DEF DeskInv, ModelsInv, Copied, Agrees
  <2>3. skSearch.best_result # 0 =>
          LET best == skResults[skSearch.best_result]
          IN  best.rank = 1 /\ (skRuns[best.run].status = "success" \/ skRuns[best.run].taken > 1)
    BY <1>2 DEF DeskInv, BestInv, IsBest
  <2> QED BY <2>1, <2>2, <2>3 DEF PromotedAsMeasured
<1> QED BY <1>1, <1>2 DEF DeskOrUnused

(* promote_result makes a model of what the sweep measured, or of what was *)
(* saved after the sweep had loaded the search; and the best result of a   *)
(* search won a run that succeeded, although edit() writes back the one it *)
(* had loaded: only a task that was delivered again can have turned that   *)
(* run into a failed one since.                                            *)
THEOREM PromotionsAreMeasured == LabSpec => []PromotedAsMeasured
BY DeskInvInit, DeskInvNext, InvMakesPromotedAsMeasured, PTL DEF LabSpec

-----------------------------------------------------------------------------
(* The live record.                                                        *)

Price == Nat \ {0}

LEMMA TrackRates ==
  /\ Unit \in Nat \ {0} /\ TrackCloses \in SUBSET Price
  /\ Types \in SUBSET {"horizon_close", "horizon_return", "direction"}
  /\ \A type \in Types : Values[type] \in SUBSET Int
  BY TrackConstants DEF Price

LEMMA DistanceIsNatural ==
  ASSUME NEW a \in Int, NEW b \in Int
  PROVE  Distance(a, b) \in Nat
  BY DEF Distance

\* A return has the sign of its move.
LEMMA ReturnSign ==
  ASSUME NEW base \in TrackCloses, NEW close \in TrackCloses
  PROVE  LET actual == (Unit * (close - base)) \div base
         IN  actual \in Int /\ SignOf(actual) = SignOf(close - base)
<1> DEFINE x == Unit * (close - base)
           q == x \div base
<1>1. base \in Nat \ {0} /\ close \in Nat \ {0} /\ Unit \in Nat \ {0}
  BY TrackRates DEF Price
<1>2. x \in Int /\ (x > 0 <=> close > base) /\ (x < 0 <=> close < base)
  <2> DEFINE d == close - base
  <2>1. d \in Int /\ (d > 0 <=> close > base) /\ (d < 0 <=> close < base)
    BY <1>1
  <2> HIDE DEF d
  <2>2. Unit * d \in Int /\ (Unit * d > 0 <=> d > 0) /\ (Unit * d < 0 <=> d < 0)
    BY <1>1, <2>1
  <2> QED BY <2>1, <2>2 DEF d
<1>3. x % base = 0
  BY TrackConstants
<1> HIDE DEF x
<1>4. q \in Int /\ x = base * q
  BY <1>1, <1>2, <1>3
<1> HIDE DEF q
<1>5. (x > 0 <=> q > 0) /\ (x < 0 <=> q < 0)
  BY <1>1, <1>4
<1>6. (close - base > 0 <=> q > 0) /\ (close - base < 0 <=> q < 0)
  BY <1>1, <1>2, <1>5
<1> QED BY <1>4, <1>6 DEF SignOf, q, x

\* What the actual of a target is, of two closes.
LEMMA ActualIsInteger ==
  ASSUME NEW type \in Types, NEW base \in TrackCloses, NEW close \in TrackCloses
  PROVE  /\ ActualOf(type, base, close) \in Int
         /\ type = "direction" => ActualOf(type, base, close) \in {0, Unit}
<1>1. type \in {"horizon_close", "horizon_return", "direction"} /\ Unit \in Nat \ {0} /\ close \in Int
  BY TrackRates DEF Price
<1>2. (Unit * (close - base)) \div base \in Int
  BY ReturnSign
<1> QED BY <1>1, <1>2 DEF ActualOf

\* The error of a class is none or one.
LEMMA ErrorIsNatural ==
  ASSUME NEW type \in Types, NEW value \in Int, NEW actual \in Int
  PROVE  /\ ErrorOf(type, value, actual) \in Nat
         /\ type = "direction" => ErrorOf(type, value, actual) \in {0, Unit}
  BY TrackRates, DistanceIsNatural DEF ErrorOf

LEMMA ClassRounds == Round(0) = 0 /\ Round(Unit) = Unit
<1>1. Unit \in Nat \ {0}
  BY TrackRates
<1>2. 0 \div Unit = 0 /\ 0 % Unit = 0 /\ Unit \div Unit = 1 /\ Unit % Unit = 0
  BY <1>1
<1> QED BY <1>1, <1>2 DEF Round

-----------------------------------------------------------------------------
(* What the record holds.                                                  *)

\* A forecast, and its grade by the closes of then, which may be corrected since.
FromCloses(p, t, closes, touched) ==
    {t, p.as_of} \cap touched = {} => p.actual = ActualOf(p.filled, closes[p.as_of], closes[t])
Graded(p, t, day, closes, touched) ==
    /\ t \in 1..day /\ p.filled \in Types /\ p.actual \in Int
    /\ p.error = ErrorOf(p.filled, p.value, p.actual)
    /\ FromCloses(p, t, closes, touched)
Forecasted(p, t, day, closes, touched) ==
    /\ {"actual", "filled", "error"} \subseteq DOMAIN p
    /\ t \in Nat /\ p.as_of \in 1..day /\ t = p.as_of + 1
    /\ p.made \in Types /\ p.value \in Values[p.made]
    /\ p.actual = NoValue \/ Graded(p, t, day, closes, touched)

Record(preds, day, closes, touched) ==
    /\ day \in Nat /\ day >= 2 /\ closes \in [1..day -> TrackCloses]
    /\ \A t \in DOMAIN preds : Forecasted(preds[t], t, day, closes, touched)
    /\ IsFiniteSet(DOMAIN preds)

Naive(seen) == Total([t \in DOMAIN seen.preds |-> Distance(Real(seen, t), 0)])
Missed(seen) == Total([t \in DOMAIN seen.preds |-> Distance(Foretold(seen, t), Real(seen, t))])

\* The hit rate of a board is that of the counted forecasts, and its skill what they gained.
HitRate(da, seen) ==
    \E u \in Nat \ {0} :
       /\ da[1] = u * Cardinality({t \in DOMAIN seen.preds : Called(seen, t)})
       /\ da[2] = u * Cardinality(DOMAIN seen.preds)
       /\ Cardinality({t \in DOMAIN seen.preds : Called(seen, t)}) \in Nat
       /\ Cardinality(DOMAIN seen.preds) \in Nat
SkillOf(skill, seen) ==
    skill # NoValue =>
       /\ skill = <<Naive(seen) - Missed(seen), Naive(seen)>>
       /\ Naive(seen) \in Nat \ {0} /\ Missed(seen) \in Int

Scored(row, seen) ==
    \/ row = NoScores /\ (seen = <<>> \/ ~seen.is_active \/ DOMAIN seen.preds = {})
    \/ /\ row # NoScores
       /\ row.source = "leaderboard" /\ row.da \in Int \X (Nat \ {0})
       /\ Consistent(seen) =>
             /\ HitRate(row.da, seen)
             /\ seen.type # "direction" => SkillOf(row.skill, seen)

TrackRecordInv == Record(trPreds, trDay, trClose, trTouched)

\* The close a forecast was made at is stored.
LEMMA BaseIsStored ==
  ASSUME TrackRecordInv, NEW d \in 1..trDay
  PROVE  BaseClose(d) = trClose[d]
<1> DEFINE S == {x \in DOMAIN trClose : x <= d}
<1>1. DOMAIN trClose = 1..trDay /\ trDay \in Nat
  BY DEF TrackRecordInv, Record
<1>2. S \in SUBSET (1..d) /\ d \in S /\ 1 \in Int /\ d \in Int
  BY <1>1
<1> HIDE DEF S
<1>3. Max(S) \in S /\ \A y \in S : y <= Max(S)
  BY <1>2, MaxOfIntegers
<1>4. Max(S) = d
  <2>1. Max(S) \in 1..d /\ d <= Max(S)
    BY <1>2, <1>3
  <2> QED BY <1>2, <2>1
<1> QED BY <1>4 DEF BaseClose, S

\* What the board counts.
LEMMA CountedForecasts ==
  ASSUME TrackRecordInv
  PROVE  /\ IsFiniteSet(Counted) /\ Cardinality(Counted) \in Nat
         /\ Counted # {} => Cardinality(Counted) \in Nat \ {0}
         /\ \A t \in Counted :
               /\ trPreds[t].as_of \in 1..trDay
               /\ trClose[t] \in TrackCloses /\ trClose[trPreds[t].as_of] \in TrackCloses
               /\ trPreds[t].made \in Types /\ trPreds[t].value \in Values[trPreds[t].made]
               /\ trPreds[t].value \in Int
               /\ Graded(trPreds[t], t, trDay, trClose, trTouched)
               /\ trPreds[t].error \in Nat
<1>1. Counted \in SUBSET DOMAIN trPreds /\ \A t \in Counted : trPreds[t].actual # NoValue
  BY DEF Counted
<1>2. IsFiniteSet(Counted) /\ Cardinality(Counted) \in Nat
  BY <1>1, FS_Subset, FS_CardinalityType DEF TrackRecordInv, Record
<1>3. Counted # {} => Cardinality(Counted) \in Nat \ {0}
  BY <1>2, FS_EmptySet
<1>4. ASSUME NEW t \in Counted
      PROVE  /\ trPreds[t].as_of \in 1..trDay
             /\ trClose[t] \in TrackCloses /\ trClose[trPreds[t].as_of] \in TrackCloses
             /\ trPreds[t].made \in Types /\ trPreds[t].value \in Values[trPreds[t].made]
             /\ trPreds[t].value \in Int
             /\ Graded(trPreds[t], t, trDay, trClose, trTouched)
             /\ trPreds[t].error \in Nat
  <2> DEFINE p == trPreds[t]
  <2>1. Forecasted(p, t, trDay, trClose, trTouched) /\ p.actual # NoValue
    BY <1>1 DEF TrackRecordInv, Record
  <2>2. Graded(p, t, trDay, trClose, trTouched) /\ p.as_of \in 1..trDay
        /\ p.made \in Types /\ p.value \in Values[p.made]
    BY <2>1 DEF Forecasted
  <2>3. p.value \in Int
    BY <2>2, TrackRates
  <2>4. trClose \in [1..trDay -> TrackCloses]
    BY DEF TrackRecordInv, Record
  <2>5. trClose[t] \in TrackCloses /\ trClose[p.as_of] \in TrackCloses
    BY <2>2, <2>4 DEF Graded
  <2>6. p.error \in Nat
    <3>1. p.filled \in Types /\ p.actual \in Int /\ p.error = ErrorOf(p.filled, p.value, p.actual)
      BY <2>2 DEF Graded
    <3> HIDE DEF p
    <3> QED BY <2>3, <3>1, ErrorIsNatural
  <2> QED BY <2>2, <2>3, <2>5, <2>6
<1> QED BY <1>2, <1>3, <1>4

\* The sum of what the forecasts erred.
LEMMA ErrorsAddUp ==
  ASSUME TrackRecordInv
  PROVE  LET errors == [t \in Counted |-> trPreds[t].error]
         IN  /\ Total(errors) = Summed(errors, Counted) /\ Total(errors) \in Int
<1> DEFINE errors == [t \in Counted |-> trPreds[t].error]
<1>1. DOMAIN errors = Counted
  OBVIOUS
<1>2. Whole(errors, Counted) /\ IsFiniteSet(Counted)
  BY CountedForecasts DEF Whole
<1> HIDE DEF errors
<1>3. Total(errors) = Summed(errors, Counted)
  BY <1>1 DEF Total, Summed
<1>4. Summed(errors, Counted) \in Int
  BY <1>2, SummedInteger
<1> QED BY <1>3, <1>4 DEF errors

\* What a consistent record says of a forecast.
LEMMA ConsistentForecast ==
  ASSUME TrackRecordInv, trModel.type \in Types, Consistent(Seen), NEW t \in Counted
  PROVE  LET base == trClose[trPreds[t].as_of]
         IN  /\ base \in TrackCloses /\ trClose[t] \in TrackCloses
             /\ BaseClose(trPreds[t].as_of) = base
             /\ trPreds[t].value \in Values[trModel.type] /\ trPreds[t].value \in Int
             /\ trPreds[t].actual = ActualOf(trModel.type, base, trClose[t])
             /\ trPreds[t].error = ErrorOf(trModel.type, trPreds[t].value, trPreds[t].actual)
<1> DEFINE p == trPreds[t]
<1>1. /\ DOMAIN Seen.preds = Counted /\ Seen.preds[t] = p /\ Seen.type = trModel.type
      /\ Seen.touched = trTouched
  BY DEF Seen
<1>2. p.made = trModel.type /\ p.filled = trModel.type /\ {t, p.as_of} \cap trTouched = {}
  BY <1>1 DEF Consistent
<1>3. /\ p.as_of \in 1..trDay /\ trClose[t] \in TrackCloses /\ trClose[p.as_of] \in TrackCloses
      /\ p.value \in Values[p.made] /\ p.value \in Int
      /\ Graded(p, t, trDay, trClose, trTouched)
  BY CountedForecasts
<1>4. p.actual = ActualOf(p.filled, trClose[p.as_of], trClose[t])
      /\ p.error = ErrorOf(p.filled, p.value, p.actual)
  BY <1>2, <1>3 DEF Graded, FromCloses
<1>5. BaseClose(p.as_of) = trClose[p.as_of]
  BY <1>3, BaseIsStored
<1> QED BY <1>2, <1>3, <1>4, <1>5

\* A classifier's score.
LEMMA ClassesAreEarned ==
  ASSUME TrackRecordInv, trModel.type = "direction", trModel.type \in Types, Counted # {}
  PROVE  /\ DirectionScore # NoScores
         /\ DirectionScore.source = "leaderboard" /\ DirectionScore.da \in Int \X (Nat \ {0})
         /\ Consistent(Seen) => HitRate(DirectionScore.da, Seen)
<1> DEFINE errors == [t \in Counted |-> trPreds[t].error]
           N == Cardinality(Counted)
           n == Unit * N
           right == n - Total(errors)
           da == DirectionScore.da
           Hits == {t \in DOMAIN Seen.preds : Called(Seen, t)}
           Misses == {t \in Counted : errors[t] # 0}
<1>1. DirectionScore.source = "leaderboard" /\ da[1] = right /\ da[2] = n /\ da = <<right, n>>
  BY DEF DirectionScore
<1>2. N \in Nat \ {0} /\ Unit \in Nat \ {0} /\ IsFiniteSet(Counted)
  BY CountedForecasts, TrackRates
<1>3. n \in Nat \ {0}
  <2> HIDE DEF N
  <2> QED BY <1>2
<1>4. Total(errors) \in Int /\ Total(errors) = Summed(errors, Counted)
  BY ErrorsAddUp
<1>5. da \in Int \X (Nat \ {0})
  <2> DEFINE sum == Total(errors)
  <2>1. sum \in Int
    BY <1>4
  <2> HIDE DEF n, sum
  <2>2. n - sum \in Int
    BY <1>3, <2>1
  <2>3. right = n - sum
    BY DEF sum
  <2> HIDE DEF da, right
  <2> QED BY <1>1, <1>3, <2>2, <2>3
<1>6. ASSUME Consistent(Seen)
      PROVE  HitRate(da, Seen)
  <2>1. DOMAIN Seen.preds = Counted
    BY DEF Seen
  <2>2. \A t \in Counted : errors[t] \in {0, Unit} /\ (errors[t] = 0 <=> Called(Seen, t))
    <3> TAKE t \in Counted
    <3> DEFINE p == trPreds[t]
               base == trClose[p.as_of]
    <3>1. /\ base \in TrackCloses /\ trClose[t] \in TrackCloses
          /\ p.value \in Values["direction"] /\ p.value \in Int
          /\ p.actual = ActualOf("direction", base, trClose[t])
          /\ p.error = ErrorOf("direction", p.value, p.actual)
      BY <1>6, ConsistentForecast
    <3>2. p.value \in {0, Unit}
      BY <3>1, TrackConstants
    <3>3. Round(p.value) = p.value
      BY <3>2, ClassRounds
    <3>4. p.actual = IF trClose[t] > base THEN Unit ELSE 0
      BY <3>1 DEF ActualOf
    <3>5. p.error = IF p.value = p.actual THEN 0 ELSE Unit
      BY <3>1, <3>3 DEF ErrorOf
    <3>6. trClose[t] - base > 0 <=> trClose[t] > base
      <4> DEFINE close == trClose[t]
      <4>1. base \in TrackCloses /\ close \in TrackCloses
        BY <3>1
      <4> HIDE DEF base, close
      <4>2. close - base > 0 <=> close > base
        BY <4>1, TrackRates DEF Price
      <4> QED BY <4>2 DEF close
    <3>7. errors[t] = p.error
      OBVIOUS
    <3>8. Called(Seen, t) <=> ((p.value > 0) = (trClose[t] - base > 0))
      BY DEF Called, Move, Seen
    <3> HIDE DEF errors, p, base
    <3>9. p.value = p.actual <=> ((p.value > 0) = (trClose[t] > base))
      BY <1>2, <3>2, <3>4
    <3> QED BY <1>2, <3>5, <3>6, <3>7, <3>8, <3>9
  <2>3. /\ IsFiniteSet(Misses) /\ Cardinality(Misses) \in Nat
        /\ Summed(errors, Counted) = Unit * Cardinality(Misses)
    <3>1. \A t \in Counted : errors[t] \in {0, Unit}
      BY <2>2
    <3> HIDE DEF errors
    <3> QED BY <1>2, <3>1, SummedCount
  <2>4. Hits = Counted \ Misses /\ Misses \in SUBSET Counted
    <3>1. \A t \in Counted : t \in Hits <=> t \notin Misses
      BY <2>1, <2>2
    <3>2. Hits \in SUBSET Counted /\ Misses \in SUBSET Counted
      BY <2>1
    <3> HIDE DEF Hits, Misses
    <3> QED BY <3>1, <3>2
  <2>5. Cardinality(Hits) = N - Cardinality(Misses) /\ Cardinality(Hits) \in Nat
    <3>1. Counted \cap Misses = Misses
      BY <2>4
    <3> HIDE DEF Hits, Misses
    <3>2. IsFiniteSet(Hits) /\ Cardinality(Hits) = N - Cardinality(Counted \cap Misses)
      BY <1>2, <2>4, FS_Difference
    <3> QED BY <3>1, <3>2, FS_CardinalityType
  <2>6. right = Unit * Cardinality(Hits)
    <3> DEFINE m == Cardinality(Misses)
               h == Cardinality(Hits)
               sum == Total(errors)
    <3>1. sum = Unit * m /\ m \in Nat /\ h = N - m /\ right = n - sum
      BY <1>4, <2>3, <2>5
    <3> HIDE DEF m, h, sum, right, N
    <3>2. Unit * (N - m) = (Unit * N) - (Unit * m)
      BY <1>2, <3>1, Distributes
    <3> QED BY <3>1, <3>2 DEF h
  <2> HIDE DEF Hits, da, right
  <2>7. /\ da[1] = Unit * Cardinality(Hits) /\ da[2] = Unit * Cardinality(DOMAIN Seen.preds)
        /\ Cardinality(Hits) \in Nat /\ Cardinality(DOMAIN Seen.preds) \in Nat
    BY <1>1, <1>2, <2>1, <2>5, <2>6
  <2> QED BY <1>2, <2>7 DEF HitRate, Hits
<1>7. DirectionScore # NoScores
  <2>1. "da" \in DOMAIN DirectionScore /\ "da" \notin DOMAIN NoScores
    BY DEF DirectionScore, NoScores
  <2> QED BY <2>1
<1> QED BY <1>1, <1>5, <1>6, <1>7

\* The score of a forecast move.
LEMMA MovesAreEarned ==
  ASSUME TrackRecordInv, trModel.type \in Types, trModel.type # "direction", Counted # {}
  PROVE  /\ MoveScore # NoScores
         /\ MoveScore.source = "leaderboard" /\ MoveScore.da \in Int \X (Nat \ {0})
         /\ Consistent(Seen) => HitRate(MoveScore.da, Seen) /\ SkillOf(MoveScore.skill, Seen)
<1> DEFINE Base(t) == IF trModel.type = "horizon_return" THEN 0 ELSE BaseClose(trPreds[t].as_of)
           right == {t \in Counted : SignOf(trPreds[t].value - Base(t)) = SignOf(trPreds[t].actual - Base(t))}
           moves == [t \in Counted |-> Distance(trPreds[t].actual, Base(t))]
           errors == [t \in Counted |-> trPreds[t].error]
           naive == Total(moves)
           wrong == Total(errors)
           N == Cardinality(Counted)
           Hits == {t \in DOMAIN Seen.preds : Called(Seen, t)}
<1>1. /\ MoveScore.source = "leaderboard" /\ MoveScore.da = <<Cardinality(right), N>>
      /\ MoveScore.skill = IF naive # 0 THEN <<naive - wrong, naive>> ELSE NoValue
  BY DEF MoveScore
<1>2. N \in Nat \ {0} /\ IsFiniteSet(Counted)
  BY CountedForecasts
<1>3. Cardinality(right) \in Nat
  <2>1. right \in SUBSET Counted
    OBVIOUS
  <2> HIDE DEF right
  <2> QED BY <1>2, <2>1, FS_Subset, FS_CardinalityType
<1>4. wrong \in Int
  BY ErrorsAddUp
<1>5. ASSUME Consistent(Seen)
      PROVE  HitRate(MoveScore.da, Seen) /\ SkillOf(MoveScore.skill, Seen)
  <2>1. DOMAIN Seen.preds = Counted
    BY DEF Seen
  <2>2. \A t \in Counted :
           /\ Called(Seen, t) <=> t \in right
           /\ moves[t] = Distance(Real(Seen, t), 0) /\ moves[t] \in Nat
           /\ errors[t] = Distance(Foretold(Seen, t), Real(Seen, t))
    <3> TAKE t \in Counted
    <3> DEFINE p == trPreds[t]
               base == trClose[p.as_of]
               close == trClose[t]
    <3>1. /\ base \in TrackCloses /\ close \in TrackCloses /\ BaseClose(p.as_of) = base
          /\ p.value \in Int
          /\ p.actual = ActualOf(trModel.type, base, close)
          /\ p.error = ErrorOf(trModel.type, p.value, p.actual)
      BY <1>5, ConsistentForecast
    <3>2. base \in Nat \ {0} /\ close \in Nat \ {0}
      BY <3>1, TrackRates DEF Price
    <3>3. p.error = Distance(p.value, p.actual)
      BY <3>1 DEF ErrorOf
    <3>4. Move(Seen, t) = close - base
      BY DEF Move, Seen
    <3>5. moves[t] = Distance(p.actual, Base(t)) /\ errors[t] = p.error
      OBVIOUS
    <3>6. t \in right <=> SignOf(p.value - Base(t)) = SignOf(p.actual - Base(t))
      OBVIOUS
    <3>7. Seen.type = trModel.type /\ Seen.preds[t] = p /\ Seen.closes = trClose
      BY DEF Seen
    <3>8. CASE trModel.type = "horizon_close"
      <4>1. Base(t) = base /\ p.actual = close
        BY <3>1, <3>8 DEF ActualOf
      <4>2. Called(Seen, t) <=> SignOf(p.value - base) = SignOf(close - base)
        BY <3>4, <3>7, <3>8 DEF Called
      <4>3. Real(Seen, t) = close - base /\ Foretold(Seen, t) = p.value - base
        BY <3>4, <3>7, <3>8 DEF Real, Foretold
      <4> HIDE DEF base, close, p, Base, right, moves, errors
      <4>4. /\ Distance(close, base) = Distance(close - base, 0) /\ Distance(close, base) \in Nat
            /\ Distance(p.value, close) = Distance(p.value - base, close - base)
        BY <3>1, <3>2 DEF Distance
      <4> QED BY <3>3, <3>5, <3>6, <4>1, <4>2, <4>3, <4>4
    <3>9. CASE trModel.type = "horizon_return"
      <4>1. Base(t) = 0 /\ p.actual = (Unit * (close - base)) \div base
        BY <3>1, <3>9 DEF ActualOf
      <4>2. p.actual \in Int /\ SignOf(p.actual) = SignOf(close - base)
        BY <3>1, <4>1, ReturnSign
      <4>3. Called(Seen, t) <=> SignOf(p.value) = SignOf(close - base)
        BY <3>4, <3>7, <3>9 DEF Called
      <4>4. Real(Seen, t) = p.actual /\ Foretold(Seen, t) = p.value
        BY <3>4, <3>7, <3>9, <4>1 DEF Real, Foretold
      <4> HIDE DEF base, close, p, Base, right, moves, errors
      <4>5. p.value - 0 = p.value /\ p.actual - 0 = p.actual /\ Distance(p.actual, 0) \in Nat
        BY <3>1, <4>2 DEF Distance
      <4> QED BY <3>3, <3>5, <3>6, <4>1, <4>2, <4>3, <4>4, <4>5
    <3> QED BY <3>8, <3>9, TrackRates
  <2>3. right = Hits
    <3>1. right \in SUBSET Counted
      OBVIOUS
    <3> HIDE DEF right
    <3> QED BY <2>1, <2>2, <3>1
  <2>4. naive = Naive(Seen) /\ wrong = Missed(Seen)
    <3>1. /\ moves = [t \in Counted |-> moves[t]] /\ errors = [t \in Counted |-> errors[t]]
      OBVIOUS
    <3> HIDE DEF moves, errors
    <3>2. moves = [t \in DOMAIN Seen.preds |-> Distance(Real(Seen, t), 0)]
      BY <2>1, <2>2, <3>1
    <3>3. errors = [t \in DOMAIN Seen.preds |-> Distance(Foretold(Seen, t), Real(Seen, t))]
      BY <2>1, <2>2, <3>1
    <3> QED BY <3>2, <3>3 DEF Naive, Missed
  <2>5. naive \in Nat
    <3>1. DOMAIN moves = Counted /\ \A t \in Counted : moves[t] \in Nat
      BY <2>2
    <3> HIDE DEF moves
    <3>2. Total(moves) = Summed(moves, Counted)
      BY <3>1 DEF Total, Summed
    <3>3. Nat \in {Nat, Int}
      OBVIOUS
    <3> QED BY <1>2, <3>1, <3>2, <3>3, SummedIn
  <2> HIDE DEF right, Hits, naive, wrong, N
  <2>6. SkillOf(MoveScore.skill, Seen)
    BY <1>1, <1>4, <2>4, <2>5 DEF SkillOf
  <2>7. HitRate(MoveScore.da, Seen)
    <3> DEFINE da == MoveScore.da
    <3>1. da[1] = Cardinality(right) /\ da[2] = N
      BY <1>1
    <3>2. /\ da[1] = 1 * Cardinality(Hits) /\ da[2] = 1 * Cardinality(DOMAIN Seen.preds)
          /\ Cardinality(Hits) \in Nat /\ Cardinality(DOMAIN Seen.preds) \in Nat /\ 1 \in Nat \ {0}
      BY <1>2, <1>3, <2>1, <2>3, <3>1 DEF N
    <3> HIDE DEF da
    <3> QED BY <3>2 DEF HitRate, Hits, da
  <2> QED BY <2>6, <2>7
<1>6. MoveScore # NoScores
  <2>1. "da" \in DOMAIN MoveScore /\ "da" \notin DOMAIN NoScores
    BY DEF MoveScore, NoScores
  <2> QED BY <2>1
<1> HIDE DEF right, N
<1> QED BY <1>1, <1>2, <1>3, <1>5, <1>6

LEMMA BoardIsEarned ==
  ASSUME TrackRecordInv, trModel.type \in Types, trModel.is_active \in BOOLEAN
  PROVE  Scored(BoardRow, Seen)
<1>1. DOMAIN Seen.preds = Counted /\ Seen.is_active = trModel.is_active /\ Seen.type = trModel.type
  BY DEF Seen
<1>2. CASE ~trModel.is_active \/ Counted = {}
  <2>1. BoardRow = NoScores
    BY <1>2 DEF BoardRow
  <2> QED BY <1>1, <1>2, <2>1 DEF Scored
<1>3. CASE trModel.is_active /\ Counted # {} /\ trModel.type = "direction"
  <2>1. BoardRow = DirectionScore
    BY <1>3 DEF BoardRow
  <2> QED BY <1>1, <1>3, <2>1, ClassesAreEarned DEF Scored
<1>4. CASE trModel.is_active /\ Counted # {} /\ trModel.type # "direction"
  <2>1. BoardRow = MoveScore
    BY <1>4 DEF BoardRow
  <2> QED BY <1>1, <1>4, <2>1, MovesAreEarned DEF Scored
<1> QED BY <1>2, <1>3, <1>4

-----------------------------------------------------------------------------
(* What a call that passes has earned.                                     *)

\* The hit rate the gate asks for is one of the forecasts themselves.
LEMMA HitRateIsEarned ==
  ASSUME NEW da, NEW seen, HitRate(da, seen), NEW least \in Int, 100 * da[1] >= least * da[2]
  PROVE  100 * Cardinality({t \in DOMAIN seen.preds : Called(seen, t)})
            >= least * Cardinality(DOMAIN seen.preds)
<1> DEFINE h == Cardinality({t \in DOMAIN seen.preds : Called(seen, t)})
           n == Cardinality(DOMAIN seen.preds)
<1>1. PICK u \in Nat \ {0} : da[1] = u * h /\ da[2] = u * n /\ h \in Nat /\ n \in Nat
  BY DEF HitRate
<1> HIDE DEF h, n
<1>2. least * (u * n) <= 100 * (u * h)
  <2>1. u * n \in Int /\ u * h \in Int
    BY <1>1
  <2> QED BY <1>1, <2>1
<1>3. least * (u * n) = (least * n) * u /\ 100 * (u * h) = (100 * h) * u
  BY <1>1, Commutes
<1>4. least * n \in Int /\ 100 * h \in Int
  BY <1>1
<1>5. least * n <= 100 * h
  <2> DEFINE a == least * n
             b == 100 * h
  <2>1. a \in Int /\ b \in Int /\ a * u <= b * u
    BY <1>2, <1>3, <1>4
  <2> HIDE DEF a, b
  <2>2. a <= b
    BY <1>1, <2>1, Cancels
  <2> QED BY <2>2 DEF a, b
<1> QED BY <1>4, <1>5 DEF h, n

\* A positive skill is that of a record nearer than no change.
LEMMA SkillIsEarned ==
  ASSUME NEW skill, NEW seen, SkillOf(skill, seen), skill # NoValue,
         NEW least \in Int, least > 0, 100 * skill[1] >= least * skill[2]
  PROVE  Missed(seen) < Naive(seen)
<1> DEFINE x == Missed(seen)
           n == Naive(seen)
<1>1. skill[1] = n - x /\ skill[2] = n /\ n \in Nat \ {0} /\ x \in Int
  BY DEF SkillOf
<1> HIDE DEF x, n
<1>2. least * n \in Nat \ {0}
  BY <1>1
<1>3. 100 * (n - x) > 0
  BY <1>1, <1>2
<1>4. x < n
  BY <1>1, <1>3
<1> QED BY <1>4 DEF x, n

\* A size costs no more than the item allows, nor than the edge it bets.
LEMMA SizeIsWithin ==
  ASSUME NEW item, ItemClean(item),
         item.capital \in Int, item.max_position \in Int, item.kelly \in Int,
         NEW da \in Int \X (Nat \ {0}), NEW direction, NEW ref \in Price
  PROVE  LET size == Size(item, da, direction, ref)
             cost == 100 * size.shares * ref
         IN  /\ cost <= item.capital * Unit * item.max_position
             /\ item.kelly > 0 =>
                   cost * da[2] <= item.capital * Unit * item.kelly * Max({0, 2 * da[1] - da[2]})
<1> DEFINE size == Size(item, da, direction, ref)
           shares == size.shares
           cost == 100 * shares * ref
           d == da[2]
           edge == Max({0, 2 * da[1] - da[2]})
           K == item.capital * Unit
           most == item.max_position
           kelly == item.kelly
           m == Stake(item, da)[1]
           cap == most * d
<1>1. /\ da[1] \in Int /\ d \in Nat \ {0} /\ ref \in Nat \ {0} /\ Unit \in Nat \ {0}
      /\ item.capital \in Nat /\ most \in Nat /\ kelly \in Nat
  BY TrackRates DEF ItemClean, Price
<1>2. edge \in Nat
  <2> DEFINE e == 2 * da[1] - da[2]
  <2>1. e \in Int
    BY <1>1
  <2> HIDE DEF e
  <2>2. Max({0, e}) \in Nat
    BY <2>1, MaxOfTwo
  <2> QED BY <2>2 DEF e
<1>3. K \in Nat /\ cap \in Nat /\ kelly * edge \in Nat /\ K * most \in Nat
      /\ K * kelly \in Nat /\ (K * kelly) * edge \in Nat
  <2> HIDE DEF edge, d, most, kelly
  <2>1. K \in Nat
    BY <1>1
  <2> HIDE DEF K
  <2> QED BY <1>1, <1>2, <2>1
<1>4. CASE item.capital <= 0 \/ direction = "flat"
  <2>1. shares = 0
    BY <1>4 DEF Size
  <2>2. cost = 0 /\ cost * d = 0
    <3> HIDE DEF shares, d
    <3> QED BY <1>1, <2>1
  <2> HIDE DEF cost, d, edge, K, most, kelly
  <2>3. cost <= K * most /\ cost * d <= (K * kelly) * edge
    BY <1>3, <2>2
  <2> QED BY <2>3 DEF cost, d, edge, K, most, kelly, shares, size
<1>5. CASE ~(item.capital <= 0 \/ direction = "flat")
  <2>1. m = IF kelly = 0 THEN cap ELSE Min({kelly * edge, cap})
    BY DEF Stake
  <2>2. Stake(item, da)[2] = 100 * d
    BY DEF Stake
  <2>3. shares = (K * m) \div ((100 * d) * ref)
    BY <1>5, <2>2 DEF Size
  <2> HIDE DEF m, cap, edge, d, most, kelly, K, shares
  <2>4. m \in Nat /\ m <= cap /\ (kelly > 0 => m <= kelly * edge)
    <3> DEFINE k == kelly * edge
    <3>1. k \in Int /\ cap \in Int /\ k >= 0 /\ cap >= 0
      BY <1>3
    <3> HIDE DEF k
    <3>2. Min({k, cap}) = IF k <= cap THEN k ELSE cap
      BY <3>1, MinOfTwo
    <3>3. m = IF kelly = 0 THEN cap ELSE Min({k, cap})
      BY <2>1 DEF k
    <3>4. m \in Nat /\ m <= cap /\ (kelly > 0 => m <= k)
      BY <1>1, <3>1, <3>2, <3>3
    <3> QED BY <3>4 DEF k
  <2> DEFINE q == (100 * d) * ref
  <2>5. q \in Nat \ {0} /\ K * m \in Nat
    <3>1. 100 * d \in Nat \ {0}
      BY <1>1
    <3> DEFINE h == 100 * d
    <3> HIDE DEF h
    <3>2. h * ref \in Nat \ {0}
      BY <1>1, <3>1 DEF h
    <3> QED BY <1>3, <2>4, <3>2 DEF h
  <2>6. shares \in Nat /\ q * shares <= K * m
    <3> HIDE DEF q
    <3>1. shares = (K * m) \div q
      BY <2>3 DEF q
    <3> DEFINE n == K * m
    <3> HIDE DEF n
    <3>2. n \in Nat /\ shares = n \div q
      BY <2>5, <3>1 DEF n
    <3>3. shares \in Nat /\ q * shares <= n
      BY <2>5, <3>2, Quotient
    <3> QED BY <3>3 DEF n
  <2>7. cost * d = q * shares /\ cost \in Int
    <3> DEFINE x == 100 * shares
               y == 100 * d
    <3>1. x \in Int /\ y \in Int /\ 100 \in Int /\ d \in Int /\ ref \in Int /\ shares \in Int
      BY <1>1, <2>6
    <3>2. y * shares = x * d
      <4>1. y * shares = 100 * (d * shares) /\ d * shares = shares * d /\ x * d = 100 * (shares * d)
        BY <3>1, Commutes
      <4> QED BY <4>1
    <3> HIDE DEF x, y
    <3>3. (y * ref) * shares = (x * ref) * d /\ x * ref \in Int
      <4>1. (y * ref) * shares = y * (ref * shares) /\ ref * shares = shares * ref
            /\ (y * shares) * ref = y * (shares * ref)
            /\ (x * ref) * d = x * (ref * d) /\ ref * d = d * ref /\ (x * d) * ref = x * (d * ref)
        BY <3>1, Commutes
      <4>2. x * ref \in Int
        BY <3>1
      <4> QED BY <3>2, <4>1, <4>2
    <3> QED BY <3>3 DEF x, y
  <2> HIDE DEF q, cost
  <2>8. cost <= K * most
    <3>1. K * m <= K * cap
      <4>1. m * K <= cap * K
        BY <1>3, <2>4, Monotone
      <4> QED BY <1>3, <2>4, <4>1, Commutes
    <3>2. K * cap = (K * most) * d
      BY <1>1, <1>3, Commutes DEF cap
    <3> DEFINE r == K * most
    <3> HIDE DEF r
    <3>3. r \in Int /\ K * cap = r * d /\ K * cap \in Int /\ K * m \in Int /\ q * shares \in Int
      BY <1>3, <2>4, <2>5, <2>6, <3>2 DEF r
    <3>4. cost * d <= r * d
      BY <2>6, <2>7, <3>1, <3>3
    <3>5. cost <= r
      BY <1>1, <2>7, <3>3, <3>4, Cancels
    <3> QED BY <3>5 DEF r
  <2>9. ASSUME kelly > 0
        PROVE  cost * d <= (K * kelly) * edge
    <3> DEFINE k == kelly * edge
    <3>1. m <= k /\ k \in Nat
      BY <1>3, <2>4, <2>9
    <3>2. K * k = (K * kelly) * edge
      BY <1>1, <1>2, <1>3, Commutes
    <3> HIDE DEF k
    <3>3. K * m <= K * k
      <4>1. m * K <= k * K
        BY <1>3, <2>4, <3>1, Monotone
      <4> QED BY <1>3, <2>4, <3>1, <4>1, Commutes
    <3>4. K * m \in Int /\ K * k \in Int /\ q * shares \in Int
      BY <1>3, <2>4, <2>5, <2>6, <3>1
    <3> QED BY <2>6, <2>7, <3>2, <3>3, <3>4
  <2> QED BY <2>8, <2>9 DEF cost, d, edge, K, most, kelly, shares, size
<1> QED BY <1>4, <1>5

\* What CallsAreEarned says of a signal.
Earned(signal) ==
    signal.status = "pending" =>
        LET seen == signal.seen
            right == {t \in DOMAIN seen.preds : Called(seen, t)}
            item == signal.item
            cost == 100 * signal.size.shares * signal.ref
            da == signal.stats.da
        IN  /\ signal.stats.source = "leaderboard" /\ Consistent(seen) =>
                  /\ 100 * Cardinality(right) >= item.min_da * Cardinality(DOMAIN seen.preds)
                  /\ (item.min_skill > 0 /\ seen.type # "direction") => Missed(seen) < Naive(seen)
            /\ signal.stats.source = "holdout" =>
                  seen = <<>> \/ ~seen.is_active \/ DOMAIN seen.preds = {}
            /\ cost <= item.capital * Unit * item.max_position
            /\ item.kelly > 0 =>
                  cost * da[2] <= item.capital * Unit * item.kelly * Max({0, 2 * da[1] - da[2]})

LEMMA CallsAreEarnedSays == CallsAreEarned <=> Earned(trSignal)
  BY DEF CallsAreEarned, Earned, Missed, Naive

\* The gate lets a signal through that earned it.
LEMMA SignalIsEarned ==
  ASSUME NEW item \in WatchItems, ItemClean(item), NEW holdout \in HoldoutScores,
         NEW row, NEW seen, Scored(row, seen), NEW direction, NEW ref \in Price
  PROVE  Earned(SignalFor(item, Stats(row, holdout), seen, direction, ref))
<1> DEFINE stats == Stats(row, holdout)
           signal == SignalFor(item, stats, seen, direction, ref)
           da == stats.da
           size == Size(item, da, direction, ref)
<1>1. signal.status = "pending" =>
         /\ Passes(item, trJob.model, stats)
         /\ signal.size = size
  BY DEF SignalFor
<1>2. signal.item = item /\ signal.stats = stats /\ signal.seen = seen /\ signal.ref = ref
  BY DEF SignalFor
<1>3. SUFFICES ASSUME signal.status = "pending"
               PROVE  Earned(signal)
  BY DEF Earned
<1>4. /\ item.min_da \in Int /\ item.min_skill \in Int
      /\ item.capital \in Int /\ item.max_position \in Int /\ item.kelly \in Int
  BY TrackConstants
<1>5. /\ stats # NoScores /\ da # NoValue /\ 100 * da[1] >= item.min_da * da[2]
      /\ item.min_skill > 0 =>
            stats.skill # NoValue /\ 100 * stats.skill[1] >= item.min_skill * stats.skill[2]
  BY <1>1, <1>3 DEF Passes
<1>6. \/ /\ stats = row /\ row.source = "leaderboard" /\ da \in Int \X (Nat \ {0})
         /\ Consistent(seen) =>
               /\ HitRate(da, seen)
               /\ seen.type # "direction" => SkillOf(stats.skill, seen)
      \/ /\ stats.source = "holdout" /\ da \in Int \X (Nat \ {0})
         /\ seen = <<>> \/ ~seen.is_active \/ DOMAIN seen.preds = {}
  <2>1. CASE row = NoScores
    <3>1. stats = holdout
      BY <2>1 DEF Stats
    <3>2. holdout.source = "holdout" /\ holdout.da \in Int \X (Nat \ {0})
      BY <1>5, <3>1, TrackConstants
    <3>3. seen = <<>> \/ ~seen.is_active \/ DOMAIN seen.preds = {}
      BY <2>1 DEF Scored
    <3> QED BY <3>1, <3>2, <3>3
  <2>2. CASE row # NoScores
    <3>1. stats = row
      BY <2>2 DEF Stats
    <3> HIDE DEF stats
    <3> QED BY <2>2, <3>1 DEF Scored
  <2> QED BY <2>1, <2>2
<1> HIDE DEF stats, size, signal
<1>7. /\ 100 * size.shares * ref <= item.capital * Unit * item.max_position
      /\ item.kelly > 0 => 100 * size.shares * ref * da[2]
                             <= item.capital * Unit * item.kelly * Max({0, 2 * da[1] - da[2]})
  <2>1. da \in Int \X (Nat \ {0})
    BY <1>6
  <2> HIDE DEF da
  <2> QED BY <1>4, <2>1, SizeIsWithin DEF size
<1>8. ASSUME stats.source = "leaderboard", Consistent(seen)
      PROVE  /\ 100 * Cardinality({t \in DOMAIN seen.preds : Called(seen, t)})
                  >= item.min_da * Cardinality(DOMAIN seen.preds)
             /\ (item.min_skill > 0 /\ seen.type # "direction") => Missed(seen) < Naive(seen)
  <2>1. HitRate(da, seen) /\ (seen.type # "direction" => SkillOf(stats.skill, seen))
    BY <1>6, <1>8
  <2> HIDE DEF da
  <2>2. 100 * Cardinality({t \in DOMAIN seen.preds : Called(seen, t)})
           >= item.min_da * Cardinality(DOMAIN seen.preds)
    BY <1>4, <1>5, <2>1, HitRateIsEarned
  <2>3. ASSUME item.min_skill > 0, seen.type # "direction"
        PROVE  Missed(seen) < Naive(seen)
    BY <1>4, <1>5, <2>1, <2>3, SkillIsEarned
  <2> QED BY <2>2, <2>3
<1>9. ASSUME stats.source = "holdout"
      PROVE  seen = <<>> \/ ~seen.is_active \/ DOMAIN seen.preds = {}
  BY <1>6, <1>9
<1>10. signal.size = size
  BY <1>1, <1>3
<1> QED BY <1>2, <1>7, <1>8, <1>9, <1>10 DEF Earned

-----------------------------------------------------------------------------
(* The steps of the live record.                                           *)

Model == [type : Types, is_active : BOOLEAN, fitted : Types \cup {NoValue}]

\* A board of the past is as the record was.
JobState(job, day) ==
    /\ job.pc \in {"none", "load", "decide"}
    /\ job.pc # "none" => job.day \in 2..day /\ (job.board = NoValue \/ Scored(job.board, job.seen))
    /\ job.pc = "decide" => job.model \in Model

TrackState(day, closes, model, preds, job, touched) ==
    /\ Record(preds, day, closes, touched)
    /\ model \in Model
    /\ JobState(job, day)
TrackStateInv == TrackState(trDay, trClose, trModel, trPreds, trJob, trTouched)
TrackInv == Earned(trSignal) /\ (trBudget # <<>> => TrackStateInv)

LEMMA TrackStarts == LabInit => TrackInv
<1> SUFFICES ASSUME LabInit PROVE TrackInv
  OBVIOUS
<1>1. TrackIdle \/ TrackInit
  BY DEF LabInit, SiteIdle
<1>2. trSignal = NoSignal /\ Earned(trSignal)
  BY <1>1 DEF TrackIdle, TrackInit, NoSignal, Earned
<1>3. CASE TrackIdle
  BY <1>2, <1>3 DEF TrackIdle, TrackInv
<1>4. CASE TrackInit
  <2>1. trModel \in Model
    BY <1>4 DEF TrackInit, Model
  <2>2. JobState(trJob, trDay)
    BY <1>4 DEF TrackInit, JobState, NoJob
  <2>3. DOMAIN trPreds = {} /\ trDay = 2 /\ trClose \in [1..2 -> TrackCloses]
    BY <1>4 DEF TrackInit
  <2>4. Record(trPreds, trDay, trClose, trTouched)
    BY <2>3, FS_EmptySet DEF Record
  <2> QED BY <1>2, <2>1, <2>2, <2>4 DEF TrackInv, TrackStateInv, TrackState
<1> QED BY <1>1, <1>3, <1>4

\* A new forecast has no grade yet.
LEMMA ForecastKeepsRecord ==
  ASSUME TrackRecordInv, NEW model, model.fitted \in Types, NEW asof \in 1..trDay,
         NEW value \in Values[model.fitted]
  PROVE  Record(WithForecast(model, asof, value), trDay, trClose, trTouched)
<1> DEFINE new == WithForecast(model, asof, value)
<1>1. DOMAIN new = DOMAIN trPreds \cup {asof + 1}
  BY DEF WithForecast
<1>2. IsFiniteSet(DOMAIN new)
  <2>1. IsFiniteSet(DOMAIN trPreds)
    BY DEF TrackRecordInv, Record
  <2> HIDE DEF new
  <2> QED BY <1>1, <2>1, FS_AddElement
<1>3. ASSUME NEW t \in DOMAIN new
      PROVE  Forecasted(new[t], t, trDay, trClose, trTouched)
  <2>1. CASE t # asof + 1
    BY <1>1, <1>3, <2>1 DEF WithForecast, TrackRecordInv, Record
  <2>2. CASE t = asof + 1
    <3>1. new[t] = [as_of |-> asof, value |-> value, actual |-> NoValue, error |-> NoValue,
                    made |-> model.fitted, filled |-> NoValue]
      BY <1>1, <2>2 DEF WithForecast
    <3>2. t \in Nat /\ trDay \in Nat
      BY <2>2 DEF TrackRecordInv, Record
    <3>3. /\ {"actual", "filled", "error"} \subseteq DOMAIN new[t] /\ new[t].as_of = asof
          /\ new[t].made = model.fitted /\ new[t].value = value /\ new[t].actual = NoValue
      BY <3>1
    <3> HIDE DEF new
    <3> QED BY <2>2, <3>2, <3>3 DEF Forecasted
  <2> QED BY <2>1, <2>2
<1> HIDE DEF new
<1>4. Record(new, trDay, trClose, trTouched)
  BY <1>2, <1>3 DEF TrackRecordInv, Record
<1> QED BY <1>4 DEF new

\* A grade by the closes of a day stays while these do.
LEMMA GradeStays ==
  ASSUME NEW p, NEW t, NEW day \in Nat, NEW closes, NEW touched, NEW later \in Nat, NEW after, NEW more,
         Forecasted(p, t, day, closes, touched), day <= later, touched \subseteq more,
         \A d \in 1..day : d \notin more => after[d] = closes[d]
  PROVE  Forecasted(p, t, later, after, more)
<1>1. p.as_of \in 1..later
  BY DEF Forecasted
<1>2. ASSUME Graded(p, t, day, closes, touched)
      PROVE  Graded(p, t, later, after, more)
  <2>1. t \in 1..day /\ p.as_of \in 1..day
    BY <1>2 DEF Graded, Forecasted
  <2>2. ASSUME {t, p.as_of} \cap more = {}
        PROVE  p.actual = ActualOf(p.filled, after[p.as_of], after[t])
    <3>1. {t, p.as_of} \cap touched = {} /\ t \notin more /\ p.as_of \notin more
      BY <2>2
    <3> QED BY <1>2, <2>1, <3>1 DEF Graded, FromCloses
  <2> QED BY <1>2, <2>1, <2>2 DEF Graded, FromCloses
<1> QED BY <1>1, <1>2 DEF Forecasted

LEMMA NextTrackDayKeeps == TrackStateInv /\ NextTrackDay => TrackStateInv'
<1> SUFFICES ASSUME TrackStateInv, NextTrackDay PROVE TrackStateInv'
  OBVIOUS
<1>1. /\ trDay' = trDay + 1 /\ UNCHANGED <<trModel, trPreds, trJob, trTouched>>
      /\ \E c \in TrackCloses :
            trClose' = [d \in 1..(trDay + 1) |-> IF d <= trDay THEN trClose[d] ELSE c]
  BY DEF NextTrackDay
<1>2. Record(trPreds, trDay, trClose, trTouched) /\ trModel \in Model /\ JobState(trJob, trDay)
  BY DEF TrackStateInv, TrackState
<1>3. trDay \in Nat /\ trDay >= 2 /\ trClose \in [1..trDay -> TrackCloses] /\ IsFiniteSet(DOMAIN trPreds)
  BY <1>2 DEF Record
<1>4. trClose' \in [1..(trDay + 1) -> TrackCloses] /\ \A d \in 1..trDay : trClose'[d] = trClose[d]
  <2>1. PICK c \in TrackCloses :
            trClose' = [d \in 1..(trDay + 1) |-> IF d <= trDay THEN trClose[d] ELSE c]
    BY <1>1
  <2>2. \A d \in 1..(trDay + 1) : d <= trDay => trClose[d] \in TrackCloses
    BY <1>3
  <2> QED BY <1>3, <2>1, <2>2
<1>5. \A t \in DOMAIN trPreds : Forecasted(trPreds[t], t, trDay + 1, trClose', trTouched)
  <2> TAKE t \in DOMAIN trPreds
  <2>1. Forecasted(trPreds[t], t, trDay, trClose, trTouched)
    BY <1>2 DEF Record
  <2>2. trDay + 1 \in Nat /\ trDay <= trDay + 1
    BY <1>3
  <2> QED BY <1>3, <1>4, <2>1, <2>2, GradeStays
<1>6. Record(trPreds, trDay + 1, trClose', trTouched)
  BY <1>3, <1>4, <1>5 DEF Record
<1>7. JobState(trJob, trDay + 1)
  BY <1>2, <1>3 DEF JobState
<1> QED BY <1>1, <1>2, <1>6, <1>7 DEF TrackStateInv, TrackState

LEMMA CorrectCloseKeeps == TrackStateInv /\ CorrectClose => TrackStateInv'
<1> SUFFICES ASSUME TrackStateInv, CorrectClose PROVE TrackStateInv'
  OBVIOUS
<1>1. PICK d \in 1..trDay, c \in TrackCloses :
         trClose' = [trClose EXCEPT ![d] = c] /\ trTouched' = trTouched \cup {d}
  BY DEF CorrectClose
<1>2. UNCHANGED <<trDay, trModel, trPreds, trJob>>
  BY DEF CorrectClose
<1>3. Record(trPreds, trDay, trClose, trTouched) /\ trModel \in Model /\ JobState(trJob, trDay)
  BY DEF TrackStateInv, TrackState
<1>4. trDay \in Nat /\ trDay >= 2 /\ trClose \in [1..trDay -> TrackCloses] /\ IsFiniteSet(DOMAIN trPreds)
  BY <1>3 DEF Record
<1>5. trClose' \in [1..trDay -> TrackCloses]
      /\ \A x \in 1..trDay : x \notin trTouched' => trClose'[x] = trClose[x]
  BY <1>1, <1>4
<1>6. \A t \in DOMAIN trPreds : Forecasted(trPreds[t], t, trDay, trClose', trTouched')
  <2> TAKE t \in DOMAIN trPreds
  <2>1. Forecasted(trPreds[t], t, trDay, trClose, trTouched)
    BY <1>3 DEF Record
  <2>2. trDay <= trDay /\ trTouched \subseteq trTouched'
    BY <1>1, <1>4
  <2> QED BY <1>4, <1>5, <2>1, <2>2, GradeStays
<1>7. Record(trPreds, trDay, trClose', trTouched')
  BY <1>4, <1>5, <1>6 DEF Record
<1> QED BY <1>2, <1>3, <1>7 DEF TrackStateInv, TrackState

LEMMA EditModelKeeps == TrackStateInv /\ EditModel => TrackStateInv'
<1> SUFFICES ASSUME TrackStateInv, EditModel PROVE TrackStateInv'
  OBVIOUS
<1>1. UNCHANGED <<trDay, trClose, trPreds, trJob, trTouched>>
  BY DEF EditModel
<1>2. Record(trPreds, trDay, trClose, trTouched) /\ trModel \in Model /\ JobState(trJob, trDay)
  BY DEF TrackStateInv, TrackState
<1>3. (\E type \in Types : trModel' = [trModel EXCEPT !.type = type])
      \/ trModel' = [trModel EXCEPT !.is_active = ~@]
  BY DEF EditModel
<1>4. trModel' \in Model
  BY <1>2, <1>3 DEF Model
<1> QED BY <1>1, <1>2, <1>4 DEF TrackStateInv, TrackState

LEMMA RetrainKeeps == TrackStateInv /\ Retrain => TrackStateInv'
<1> SUFFICES ASSUME TrackStateInv, Retrain PROVE TrackStateInv'
  OBVIOUS
<1>1. /\ UNCHANGED <<trDay, trClose, trPreds, trJob, trTouched>>
      /\ trModel' = [trModel EXCEPT !.fitted = trModel.type]
  BY DEF Retrain
<1>2. Record(trPreds, trDay, trClose, trTouched) /\ trModel \in Model /\ JobState(trJob, trDay)
  BY DEF TrackStateInv, TrackState
<1>3. trModel' \in Model
  BY <1>1, <1>2 DEF Model
<1> QED BY <1>1, <1>2, <1>3 DEF TrackStateInv, TrackState

LEMMA MakeForecastKeeps == TrackStateInv /\ MakeForecast => TrackStateInv'
<1> SUFFICES ASSUME TrackStateInv, MakeForecast PROVE TrackStateInv'
  OBVIOUS
<1>1. UNCHANGED <<trDay, trClose, trModel, trJob, trTouched>>
  BY DEF MakeForecast
<1>2. Record(trPreds, trDay, trClose, trTouched) /\ trModel \in Model /\ JobState(trJob, trDay)
  BY DEF TrackStateInv, TrackState
<1>3. trModel.fitted \in Types
  BY <1>2 DEF MakeForecast, Model
<1>4. PICK asof \in {trDay - 1, trDay}, value \in Values[trModel.fitted] :
         trPreds' = WithForecast(trModel, asof, value)
  BY DEF MakeForecast
<1>5. asof \in 1..trDay
  BY <1>2 DEF Record
<1>6. Record(trPreds', trDay, trClose, trTouched)
  BY <1>2, <1>3, <1>4, <1>5, ForecastKeepsRecord DEF TrackRecordInv
<1> QED BY <1>1, <1>2, <1>6 DEF TrackStateInv, TrackState

LEMMA BackfillAllKeeps == TrackStateInv /\ BackfillAll => TrackStateInv'
<1> SUFFICES ASSUME TrackStateInv, BackfillAll PROVE TrackStateInv'
  OBVIOUS
<1> DEFINE due == {t \in DOMAIN trPreds : trPreds[t].actual = NoValue /\ t < trDay}
           actual(t) == ActualOf(trModel.type, trClose[trPreds[t].as_of], trClose[t])
           graded(t) == [trPreds[t] EXCEPT !.actual = actual(t), !.filled = trModel.type,
                             !.error = ErrorOf(trModel.type, trPreds[t].value, actual(t))]
<1>1. /\ UNCHANGED <<trDay, trClose, trModel, trJob, trTouched>>
      /\ trPreds' = [t \in DOMAIN trPreds |-> IF t \notin due THEN trPreds[t] ELSE graded(t)]
  BY DEF BackfillAll
<1>2. Record(trPreds, trDay, trClose, trTouched) /\ trModel \in Model /\ JobState(trJob, trDay)
  BY DEF TrackStateInv, TrackState
<1>3. trDay \in Nat /\ trDay >= 2 /\ trClose \in [1..trDay -> TrackCloses] /\ IsFiniteSet(DOMAIN trPreds)
  BY <1>2 DEF Record
<1>4. DOMAIN trPreds' = DOMAIN trPreds
  BY <1>1
<1>5. ASSUME NEW t \in DOMAIN trPreds
      PROVE  Forecasted(trPreds'[t], t, trDay, trClose, trTouched)
  <2>1. Forecasted(trPreds[t], t, trDay, trClose, trTouched)
    BY <1>2 DEF Record
  <2>2. CASE t \notin due
    BY <1>1, <2>1, <2>2
  <2>3. CASE t \in due
    <3> DEFINE p == trPreds[t]
               new == graded(t)
               type == trModel.type
    <3>1. trPreds'[t] = new /\ t < trDay
      BY <1>1, <2>3
    <3>2. /\ {"actual", "filled", "error"} \subseteq DOMAIN p /\ p.as_of \in 1..trDay /\ t = p.as_of + 1
          /\ p.made \in Types /\ p.value \in Values[p.made] /\ t \in Nat
      BY <2>1 DEF Forecasted
    <3>3. /\ DOMAIN new = DOMAIN p /\ new.actual = actual(t) /\ new.filled = type
          /\ new.error = ErrorOf(type, p.value, actual(t))
          /\ new.as_of = p.as_of /\ new.made = p.made /\ new.value = p.value
      BY <3>2
    <3>4. t \in 1..trDay /\ trClose[p.as_of] \in TrackCloses /\ trClose[t] \in TrackCloses
      BY <1>3, <3>1, <3>2
    <3>5. type \in Types
      BY <1>2 DEF Model
    <3>6. actual(t) \in Int
      BY <3>4, <3>5, ActualIsInteger
    <3> HIDE DEF new, actual
    <3>7. Graded(new, t, trDay, trClose, trTouched)
      BY <3>3, <3>4, <3>5, <3>6 DEF Graded, FromCloses, actual
    <3>8. Forecasted(new, t, trDay, trClose, trTouched)
      BY <3>2, <3>3, <3>7 DEF Forecasted
    <3> QED BY <3>1, <3>8
  <2> QED BY <2>2, <2>3
<1>6. Record(trPreds', trDay, trClose, trTouched)
  BY <1>3, <1>4, <1>5 DEF Record
<1> QED BY <1>1, <1>2, <1>6 DEF TrackStateInv, TrackState

LEMMA BuildBoardKeeps == TrackStateInv /\ BuildBoard => TrackStateInv'
<1> SUFFICES ASSUME TrackStateInv, BuildBoard PROVE TrackStateInv'
  OBVIOUS
<1>1. UNCHANGED <<trDay, trClose, trModel, trPreds, trTouched>>
  BY DEF BuildBoard
<1>2. Record(trPreds, trDay, trClose, trTouched) /\ trModel \in Model /\ JobState(trJob, trDay)
  BY DEF TrackStateInv, TrackState
<1>3. PICK row \in {BoardRow, NoValue} :
         trJob' = [pc |-> "load", day |-> trDay, board |-> row, seen |-> Seen]
  BY DEF BuildBoard
<1>4. Scored(BoardRow, Seen)
  BY <1>2, BoardIsEarned DEF TrackRecordInv, Model
<1>5. trDay \in 2..trDay
  BY <1>2 DEF Record
<1>6. JobState(trJob', trDay)
  BY <1>3, <1>4, <1>5 DEF JobState
<1> QED BY <1>1, <1>2, <1>6 DEF TrackStateInv, TrackState

LEMMA LoadItemKeeps == TrackStateInv /\ LoadItem => TrackStateInv'
<1> SUFFICES ASSUME TrackStateInv, LoadItem PROVE TrackStateInv'
  OBVIOUS
<1>1. /\ UNCHANGED <<trDay, trClose, trModel, trPreds, trTouched>> /\ trJob.pc = "load"
      /\ trJob' = [ pc |-> "decide", day |-> trJob.day, board |-> trJob.board,
                    seen |-> trJob.seen, model |-> trModel ]
  BY DEF LoadItem
<1>2. Record(trPreds, trDay, trClose, trTouched) /\ trModel \in Model /\ JobState(trJob, trDay)
  BY DEF TrackStateInv, TrackState
<1>3. JobState(trJob', trDay)
  BY <1>1, <1>2 DEF JobState
<1> QED BY <1>1, <1>2, <1>3 DEF TrackStateInv, TrackState

LEMMA DecideKeeps == TrackStateInv /\ Decide => TrackStateInv' /\ Earned(trSignal)'
<1> SUFFICES ASSUME TrackStateInv, Decide PROVE TrackStateInv' /\ Earned(trSignal')
  BY DEF Earned
<1>1. UNCHANGED <<trDay, trClose, trModel, trTouched>> /\ trJob.pc = "decide" /\ trJob' = NoJob
  BY DEF Decide
<1>2. Record(trPreds, trDay, trClose, trTouched) /\ trModel \in Model /\ JobState(trJob, trDay)
  BY DEF TrackStateInv, TrackState
<1>3. JobState(trJob', trDay)
  BY <1>1 DEF JobState, NoJob
<1>4. /\ trJob.day \in 2..trDay /\ trJob.model \in Model
      /\ trJob.board = NoValue \/ Scored(trJob.board, trJob.seen)
  BY <1>1, <1>2 DEF JobState
<1>5. ASSUME Record(trPreds', trDay, trClose, trTouched)
      PROVE  TrackStateInv'
  BY <1>1, <1>2, <1>3, <1>5 DEF TrackStateInv, TrackState
<1>6. CASE trJob.model.fitted = NoValue
  <2>1. trSignal' = [status |-> "error"] /\ UNCHANGED trPreds
    BY <1>6 DEF Decide
  <2>2. Earned(trSignal')
    BY <2>1 DEF Earned
  <2> QED BY <1>2, <1>5, <2>1, <2>2
<1>7. CASE trJob.model.fitted # NoValue
  <2> DEFINE ref == trClose[trJob.day - 1]
  <2>1. PICK item \in {i \in WatchItems : ItemClean(i)}, holdout \in HoldoutScores,
             live \in LiveBoards, value \in Values[trJob.model.fitted] :
           /\ trPreds' = WithForecast(trJob.model, trJob.day, value)
           /\ trSignal' = SignalFor(item, Stats(live.row, holdout), live.seen,
                                    MoveOf(item, trJob.model.type, value, ref), ref)
    BY <1>7 DEF Decide
  <2>2. trJob.model.fitted \in Types /\ trJob.day \in 1..trDay
    BY <1>4, <1>7 DEF Model
  <2>3. Record(trPreds', trDay, trClose, trTouched)
    BY <1>2, <2>1, <2>2, ForecastKeepsRecord DEF TrackRecordInv
  <2>4. ref \in Price
    <3>1. trDay \in Nat /\ trClose \in [1..trDay -> TrackCloses] /\ trJob.day - 1 \in 1..trDay
      BY <1>2, <1>4 DEF Record
    <3> QED BY <3>1, TrackRates
  <2>5. Scored(live.row, live.seen)
    <3>1. CASE trJob.board # NoValue
      <4>1. live = [row |-> trJob.board, seen |-> trJob.seen]
        BY <3>1 DEF LiveBoards
      <4> QED BY <1>4, <3>1, <4>1
    <3>2. CASE trJob.board = NoValue
      <4>1. live \in {[row |-> BoardRow, seen |-> Seen], [row |-> NoScores, seen |-> <<>>]}
        BY <3>2 DEF LiveBoards
      <4>2. Scored(BoardRow, Seen)
        BY <1>2, BoardIsEarned DEF TrackRecordInv, Model
      <4>3. Scored(NoScores, <<>>)
        BY DEF Scored
      <4>4. CASE live = [row |-> BoardRow, seen |-> Seen]
        <5>1. live.row = BoardRow /\ live.seen = Seen
          BY <4>4
        <5> QED BY <4>2, <5>1
      <4>5. CASE live = [row |-> NoScores, seen |-> <<>>]
        <5>1. live.row = NoScores /\ live.seen = <<>>
          BY <4>5
        <5> QED BY <4>3, <5>1
      <4> QED BY <4>1, <4>4, <4>5
    <3> QED BY <3>1, <3>2
  <2>6. Earned(trSignal')
    BY <2>1, <2>4, <2>5, SignalIsEarned
  <2> QED BY <1>5, <2>3, <2>6
<1> QED BY <1>6, <1>7

LEMMA TrackSteps == TrackInv /\ [LabNext]_labVars => TrackInv'
<1> SUFFICES ASSUME TrackInv, [LabNext]_labVars PROVE TrackInv'
  OBVIOUS
<1>1. ASSUME UNCHANGED trVars
      PROVE  TrackInv'
  BY <1>1 DEF trVars, TrackInv, TrackStateInv
<1>2. ASSUME trBudget # <<>>, TrackNext
      PROVE  TrackInv'
  <2>1. TrackStateInv /\ Earned(trSignal)
    BY <1>2 DEF TrackInv
  <2>2. TrackStateInv' /\ Earned(trSignal)'
    <3>1. CASE NextTrackDay
      BY <2>1, <3>1, NextTrackDayKeeps DEF NextTrackDay
    <3>2. CASE CorrectClose
      BY <2>1, <3>2, CorrectCloseKeeps DEF CorrectClose
    <3>3. CASE EditModel
      BY <2>1, <3>3, EditModelKeeps DEF EditModel
    <3>4. CASE Retrain
      BY <2>1, <3>4, RetrainKeeps DEF Retrain
    <3>5. CASE MakeForecast
      BY <2>1, <3>5, MakeForecastKeeps DEF MakeForecast
    <3>6. CASE BackfillAll
      BY <2>1, <3>6, BackfillAllKeeps DEF BackfillAll
    <3>7. CASE BuildBoard
      BY <2>1, <3>7, BuildBoardKeeps DEF BuildBoard
    <3>8. CASE LoadItem
      BY <2>1, <3>8, LoadItemKeeps DEF LoadItem
    <3>9. CASE Decide
      BY <2>1, <3>9, DecideKeeps
    <3> QED BY <1>2, <3>1, <3>2, <3>3, <3>4, <3>5, <3>6, <3>7, <3>8, <3>9 DEF TrackNext
  <2> QED BY <2>2 DEF TrackInv
<1> QED BY <1>1, <1>2 DEF LabNext, labVars, siteVars

\* A call that is sent on the live record or on the holdout earned it there, and its size costs
\* no more than the item and the edge allow (CallsAreEarned), whatever was made, filled,
\* corrected, edited and retrained while the leaderboard was on its way to the gate.
THEOREM SentCallsAreEarned == LabSpec => []CallsAreEarned
<1>1. LabInit => TrackInv
  BY TrackStarts
<1>2. TrackInv /\ [LabNext]_labVars => TrackInv'
  BY TrackSteps
<1>3. TrackInv => CallsAreEarned
  BY CallsAreEarnedSays DEF TrackInv
<1> QED BY <1>1, <1>2, <1>3, PTL DEF LabSpec
=============================================================================
