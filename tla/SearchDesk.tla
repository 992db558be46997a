------------------------------ MODULE SearchDesk ------------------------------
(***************************************************************************)
(* One model search as the site sees it: web threads edit it, start its    *)
(* runs and promote results to models, while a worker sweeps.  A search is *)
(* a row of columns and a table of instruments, saved one after the other; *)
(* a save writes every column of the row the request loaded.  What a sweep *)
(* does is ModelSearch; here a run is its statements.                      *)
(***************************************************************************)
EXTENDS Integers, FiniteSets, SequencesExt

CONSTANTS
    Desks,           \* web threads
    TaskOf,          \* the registry: what kind of problem an estimator is for
    Setups,          \* what the operator may post: [columns, symbols]
    DeskBudgets      \* how often each kind of event may happen

ASSUME DeskConstants == \A s \in Setups : IsFiniteSet(s.columns.space)

VARIABLES
    skSearch,        \* the ModelSearch row: [columns, best_result], 0 for none
    skSymbols,       \* its instruments
    skRuns,          \* ModelSearchRun rows
    skResults,       \* ModelSearchResult rows
    skModels,        \* TradingModel rows made from results
    skThread,        \* the request each web thread serves
    skTask,          \* the run the worker is on
    skEdits,         \* statements that changed what the search asks for, so far
    skUsed, skBudget

skVars == <<skSearch, skSymbols, skRuns, skResults, skModels, skThread, skTask,
            skEdits, skUsed, skBudget>>

NoRequest == [pc |-> "none"]
NoSweep == [pc |-> "none"]

(* ModelSearchForm.clean: a valid target, and every estimator of the space *)
(* is for that kind of problem.  ModelSearch.clean says the same.          *)
FormClean(s) ==
    /\ s.symbols # {} /\ s.columns.space # {}
    /\ \A key \in s.columns.space : TaskOf[key] = s.columns.task

DeskInit ==
    /\ \E s \in Setups : /\ FormClean(s)
                         /\ skSearch = [columns |-> s.columns, best_result |-> 0]
                         /\ skSymbols = s.symbols
    /\ skRuns = <<>> /\ skResults = <<>> /\ skModels = <<>>
    /\ skThread = [w \in Desks |-> NoRequest] /\ skTask = NoSweep /\ skEdits = 0
    /\ skBudget \in DeskBudgets /\ skUsed = [kind \in DOMAIN skBudget |-> 0]

Count(kind) ==
    /\ skUsed[kind] < skBudget[kind]
    /\ skUsed' = [skUsed EXCEPT ![kind] = @ + 1] /\ UNCHANGED skBudget
AtNoCost == UNCHANGED <<skUsed, skBudget>>

Serves(w, request) == skThread' = [skThread EXCEPT ![w] = request]

-----------------------------------------------------------------------------
(* The form. *)

(* edit(): the row is loaded, then the posted data is cleaned; a form that *)
(* is not clean is shown again.                                            *)
OpenEdit(w) ==
    /\ skThread[w] = NoRequest /\ Count("edits")
    /\ \E s \in Setups :
          Serves(w, IF FormClean(s) THEN [pc |-> "save", row |-> skSearch, posted |-> s]
                                    ELSE NoRequest)
    /\ UNCHANGED <<skSearch, skSymbols, skRuns, skResults, skModels, skTask, skEdits>>

(* _save: obj.save(), best_result as it was loaded, then the instruments.  *)
SaveColumns(w) ==
    /\ skThread[w].pc = "save"
    /\ skSearch' = [skThread[w].row EXCEPT !.columns = skThread[w].posted.columns]
    /\ Serves(w, [pc |-> "symbols", posted |-> skThread[w].posted])
    /\ skEdits' = skEdits + 1
    /\ AtNoCost /\ UNCHANGED <<skSymbols, skRuns, skResults, skModels, skTask>>

SaveSymbols(w) ==
    /\ skThread[w].pc = "symbols"
    /\ skSymbols' = skThread[w].posted.symbols
    /\ Serves(w, NoRequest) /\ skEdits' = skEdits + 1
    /\ AtNoCost /\ UNCHANGED <<skSearch, skRuns, skResults, skModels, skTask>>

-----------------------------------------------------------------------------
(* A run: the button of the page, and the worker. *)

(* A ModelSearchRun row, and told here only: what the search asked for     *)
(* when it was made, the deliveries of its task still to come, and how     *)
(* often a worker took it.                                                 *)
NewSearchRun == [status |-> "running", asked |-> skSearch.columns, messages |-> 0, taken |-> 0]

(* start_search_run: the row is committed, then .delay() sends the task,   *)
(* unless the broker refuses it or the thread dies.                        *)
CreateSearchRun(w) ==
    /\ skThread[w] = NoRequest /\ Count("runs")
    /\ skRuns' = Append(skRuns, NewSearchRun)
    /\ Serves(w, [pc |-> "send", run |-> Len(skRuns) + 1])
    /\ UNCHANGED <<skSearch, skSymbols, skResults, skModels, skTask, skEdits>>

SendSearch(w) ==
    /\ skThread[w].pc = "send"
    /\ skRuns' = [skRuns EXCEPT ![skThread[w].run].messages = @ + 1]
    /\ Serves(w, NoRequest)
    /\ AtNoCost /\ UNCHANGED <<skSearch, skSymbols, skResults, skModels, skTask, skEdits>>

SearchNotSent(w) ==
    /\ skThread[w].pc = "send" /\ Count("failures")
    /\ Serves(w, NoRequest)
    /\ UNCHANGED <<skSearch, skSymbols, skRuns, skResults, skModels, skTask, skEdits>>

(* The broker delivers a task once more.                                   *)
RedeliverSearch(r) ==
    /\ skRuns[r].messages > 0 /\ Count("copies")
    /\ skRuns' = [skRuns EXCEPT ![r].messages = @ + 1]
    /\ UNCHANGED <<skSearch, skSymbols, skResults, skModels, skThread, skTask, skEdits>>

(* A worker takes a task, of a run that was swept before too.              *)
Taken(r) == [skRuns EXCEPT ![r].messages = @ - 1, ![r].taken = @ + 1]

(* Mutant: the search as it was when the button was pressed.               *)
TakeAsked(r) ==
    /\ skTask = NoSweep /\ skRuns[r].messages > 0
    /\ skRuns' = Taken(r)
    /\ skTask' = [pc |-> "dataset", run |-> r, columns |-> skRuns[r].asked, edits |-> skEdits]
    /\ AtNoCost /\ UNCHANGED <<skSearch, skSymbols, skResults, skModels, skThread, skEdits>>

(* run_model_search_task loads the search when it begins; the run's status *)
(* stays what it is until the sweep ends.                                  *)
TakeSearch(r) ==
    /\ skTask = NoSweep /\ skRuns[r].messages > 0
    /\ skRuns' = Taken(r)
    /\ skTask' = [pc |-> "dataset", run |-> r, columns |-> skSearch.columns, edits |-> skEdits]
    /\ AtNoCost /\ UNCHANGED <<skSearch, skSymbols, skResults, skModels, skThread, skEdits>>

(* build_dataset queries the instruments.                                  *)
ReadDataset ==
    /\ skTask.pc = "dataset"
    /\ skTask' = [pc |-> "store", run |-> skTask.run, edits |-> skTask.edits,
                  columns |-> skTask.columns, symbols |-> skSymbols]
    /\ AtNoCost
    /\ UNCHANGED <<skSearch, skSymbols, skRuns, skResults, skModels, skThread, skEdits>>

(* A ModelSearchResult row, with what it was measured on.                  *)
Candidate(key, winner) ==
    [ run |-> skTask.run, key |-> key, rank |-> IF key = winner THEN 1 ELSE 2,
      columns |-> skTask.columns, symbols |-> skTask.symbols, edits |-> skTask.edits ]

(* unique_candidate_per_run: an earlier sweep of the run stored one of the *)
(* candidates.                                                             *)
StoredBefore ==
    \E i \in DOMAIN skResults :
        skResults[i].run = skTask.run /\ skResults[i].key \in skTask.columns.space

(* bulk_create: a row for every candidate, of which one may be the best.   *)
StoreCandidates ==
    /\ skTask.pc = "store" /\ ~StoredBefore
    /\ \E winner \in skTask.columns.space \cup {"none"} :
          skResults' = skResults \o SetToSeq({Candidate(key, winner) : key \in skTask.columns.space})
    /\ skTask' = [skTask EXCEPT !.pc = "finish"]
    /\ AtNoCost /\ UNCHANGED <<skSearch, skSymbols, skRuns, skModels, skThread, skEdits>>

FinishSearch ==
    /\ skTask.pc = "finish"
    /\ skRuns' = [skRuns EXCEPT ![skTask.run].status = "success"]
    /\ skTask' = [skTask EXCEPT !.pc = "best"]
    /\ AtNoCost
    /\ UNCHANGED <<skSearch, skSymbols, skResults, skModels, skThread, skEdits>>

(* save(update_fields=["best_result"]): a row of rank 1, the first by      *)
(* score if an earlier sweep left one too.                                 *)
Winners == {i \in DOMAIN skResults : skResults[i].run = skTask.run /\ skResults[i].rank = 1}
PointToBest ==
    /\ skTask.pc = "best"
    /\ \/ Winners = {} /\ UNCHANGED skSearch
       \/ \E i \in Winners : skSearch' = [skSearch EXCEPT !.best_result = i]
    /\ skTask' = NoSweep
    /\ AtNoCost
    /\ UNCHANGED <<skSymbols, skRuns, skResults, skModels, skThread, skEdits>>

(* Any exception: candidates that are there already, too little data, a    *)
(* statement that raises.  best_result stays what it was.                  *)
SearchFails ==
    /\ skTask # NoSweep
    /\ IF skTask.pc = "store" /\ StoredBefore THEN AtNoCost ELSE Count("failures")
    /\ skRuns' = [skRuns EXCEPT ![skTask.run].status = "failed"]
    /\ skTask' = NoSweep
    /\ UNCHANGED <<skSearch, skSymbols, skResults, skModels, skThread, skEdits>>

(* The worker's process dies.                                              *)
SweepDies ==
    /\ skTask # NoSweep /\ Count("failures")
    /\ skTask' = NoSweep
    /\ UNCHANGED <<skSearch, skSymbols, skRuns, skResults, skModels, skThread, skEdits>>

-----------------------------------------------------------------------------
(* Promotion. *)

(* promote_result reads the search of now; TradingModel.full_clean refuses *)
(* an estimator that is not for its target.                                *)
Promote(w) ==
    /\ skThread[w] = NoRequest /\ Count("promotions")
    /\ \E i \in DOMAIN skResults :
          IF TaskOf[skResults[i].key] # skSearch.columns.task
          THEN UNCHANGED <<skModels, skThread>>
          ELSE /\ skModels' = Append(skModels,
                     [ result |-> i, key |-> skResults[i].key, columns |-> skSearch.columns,
                       symbols |-> {}, edits |-> skEdits ])
               /\ Serves(w, [pc |-> "copy", model |-> Len(skModels) + 1])
    /\ UNCHANGED <<skSearch, skSymbols, skRuns, skResults, skTask, skEdits>>

(* model.instruments.set(search.instruments.all())                         *)
CopySymbols(w) ==
    /\ skThread[w].pc = "copy"
    /\ skModels' = [skModels EXCEPT ![skThread[w].model].symbols = skSymbols,
                                    ![skThread[w].model].edits = skEdits]
    /\ Serves(w, NoRequest)
    /\ AtNoCost
    /\ UNCHANGED <<skSearch, skSymbols, skRuns, skResults, skTask, skEdits>>

DeskNext ==
    \/ \E w \in Desks : \/ OpenEdit(w) \/ SaveColumns(w) \/ SaveSymbols(w)
                        \/ CreateSearchRun(w) \/ SendSearch(w) \/ SearchNotSent(w)
                        \/ Promote(w) \/ CopySymbols(w)
    \/ \E r \in DOMAIN skRuns : TakeSearch(r) \/ RedeliverSearch(r)
    \/ ReadDataset \/ StoreCandidates \/ FinishSearch \/ PointToBest \/ SearchFails \/ SweepDies
=============================================================================
