----------------------------- MODULE ModelSearch -----------------------------
(***************************************************************************)
(* One run of modelsearch.search: expand the search space, fit and score   *)
(* each candidate on one shared dataset, try an ensemble of the winners,   *)
(* rank them, and write the results, the run and the search's best_result  *)
(* in three separate statements.                                           *)
(*                                                                         *)
(* What a fit scores and costs is any choice of Outcomes.  A parameter set *)
(* is a value of the configuration; the ensemble's is the list of its      *)
(* members.                                                                *)
(***************************************************************************)
EXTENDS Datasets, Sequences, SequencesExt

CONSTANTS
    MinWfTrainRows,    \* MIN_WF_TRAIN_ROWS
    Estimators,        \* the registered estimators of each task
    Baselines,         \* estimators the registry marks as baselines
    CostFields,        \* COST_FIELDS
    Outcomes,          \* [score, cost] of a fit that does not raise
    NoScore,           \* the metrics have no value for the score key
    NotFinite,         \* their value is infinite or not a number
    SearchInputs,
    MaxSearchCrashes

(* Scores and costs are numbers, if a fit has a score; a space is a list   *)
(* of candidates, and the cap a number.                                    *)
ASSUME SearchConstants ==
    /\ \A o \in Outcomes : /\ o.score \in {NoScore, NotFinite} \/ o.score \in Int
                           /\ \A f \in CostFields : o.cost[f] \in Int
    /\ \A s \in SearchInputs :
          /\ s.max_candidates \in Nat
          /\ Len(s.space) \in Nat /\ DOMAIN s.space = 1..Len(s.space)
          /\ \A i \in DOMAIN s.space :
                s.space[i] = [key |-> s.space[i].key, params |-> s.space[i].params]

VARIABLES
    sh,                \* the ModelSearch and the bars its instruments have
    shPc,
    shTodo,            \* candidates not evaluated yet
    shRows,            \* evaluated candidates, in order
    shStored,          \* ModelSearchResult rows of the run
    shRun,             \* status of the ModelSearchRun
    shBest,            \* ModelSearch.best_result: 0 for a row of an earlier run
    shCrashes

shVars == <<sh, shPc, shTodo, shRows, shStored, shRun, shBest, shCrashes>>

Ensemble == "voting_ensemble"
EarlierBest == [rank |-> 0]

(* What ModelSearch.clean lets be saved, spaces.validate included: every   *)
(* estimator of the space is one for the target's kind of problem.         *)
SearchClean(s) ==
    /\ s.space # <<>> /\ \A i \in DOMAIN s.space : s.space[i].key \in Estimators[s.task]
    /\ s.max_candidates >= 1
    /\ s.wf.train_span >= 1 /\ s.wf.test_span >= 1 /\ s.wf.step >= 1
    /\ ValidSpec(s.spec)

SearchInit ==
    /\ sh \in SearchInputs /\ SearchClean(sh)
    /\ shPc = "expand" /\ shTodo = <<>> /\ shRows = <<>> /\ shStored = <<>>
    /\ shRun = "running" /\ shBest = EarlierBest /\ shCrashes = 0

(* run_search's except clause: rows already stored stay.                   *)
FailSearch ==
    /\ shRun' = "failed" /\ shPc' = "done"
    /\ UNCHANGED <<sh, shTodo, shRows, shStored, shBest, shCrashes>>

(* Mutant: equal candidates are kept.                                      *)
Everywhere(space) == DOMAIN space

(* spaces.expand: sh.space is the grid products one after the other; the   *)
(* first of equal candidates stays, then the cap.                          *)
Firsts(space) == {k \in DOMAIN space : \A j \in 1..(k - 1) : space[j] # space[k]}
Unique(space) ==
    LET places == SortedDays(Firsts(space)) IN [k \in DOMAIN places |-> space[places[k]]]

(* The seeded sample is any max_candidates of them, in any order.          *)
Expansions(space, mode, max_candidates) ==
    LET unique == Unique(space)
    IN  IF Len(unique) <= max_candidates THEN {unique}
        ELSE IF mode = "grid" THEN {SubSeq(unique, 1, max_candidates)}
        ELSE { [k \in 1..max_candidates |-> unique[pick[k]]] :
               pick \in {p \in [1..max_candidates -> DOMAIN unique] : IsInjective(p)} }

SearchRows == Dataset(sh.spec, sh.bars, sh.start, sh.end)

Expand ==
    /\ shPc = "expand"
    /\ \E candidates \in Expansions(sh.space, sh.mode, sh.max_candidates) :
          IF \/ ~HistoryLoads(sh.bars, sh.flawed, sh.end) \/ ~EnoughRows(SearchRows)
             \/ sh.walk_forward /\ DOMAIN DatasetFolds(SearchRows, sh.wf) = {}
          THEN FailSearch
          ELSE /\ shTodo' = candidates /\ shPc' = "sweep"
               /\ UNCHANGED <<sh, shRows, shStored, shRun, shBest, shCrashes>>

(* Folds of _score_candidate_walk_forward that are not passed over.        *)
UsedFolds ==
    LET folds == DatasetFolds(SearchRows, sh.wf)
    IN  {k \in DOMAIN folds : Cardinality(TrainRows(SearchRows, folds[k])) >= MinWfTrainRows}

(* _evaluate: any exception makes a FAILED row.  In walk-forward mode a    *)
(* missing score is such an exception, in holdout mode it is not.          *)
Failed(c) == [key |-> c.key, params |-> c.params, status |-> "failed",
              score |-> NoScore, cost |-> [f \in CostFields |-> 0]]
Scored(c, o) == [key |-> c.key, params |-> c.params, status |-> "ok",
                 score |-> o.score, cost |-> o.cost]
Evaluations(c) ==
    {Failed(c)} \cup
    { IF sh.walk_forward /\ (UsedFolds = {} \/ o.score = NoScore)
      THEN Failed(c) ELSE Scored(c, o) : o \in Outcomes }

(* One turn of either loop: np.isfinite(None) is a TypeError.              *)
Evaluate(c, todo) ==
    \E row \in Evaluations(c) :
        /\ shRows' = Append(shRows, row)
        /\ shTodo' = todo
        /\ IF row.status = "ok" /\ row.score = NoScore
           THEN shRun' = "failed" /\ shPc' = "done"
           ELSE UNCHANGED <<shRun, shPc>>
        /\ UNCHANGED <<sh, shStored, shBest, shCrashes>>

Sweep ==
    /\ shPc = "sweep" /\ shTodo # <<>>
    /\ Evaluate(Head(shTodo), Tail(shTodo))

(* _auto_ensemble_candidates: the distinct keys that may be a member, best *)
(* score first and, of equals, the key scored first.                       *)
IsScored(row) == row.status = "ok" /\ row.score \notin {NoScore, NotFinite}
Eligible(i) ==
    /\ IsScored(shRows[i])
    /\ shRows[i].key # Ensemble /\ shRows[i].key \notin Baselines
KeyScores(key) == {shRows[i].score : i \in {j \in DOMAIN shRows : Eligible(j) /\ shRows[j].key = key}}
FirstRow(key) == Min({i \in DOMAIN shRows : Eligible(i) /\ shRows[i].key = key})
RankedKeys ==
    SetToSortSeq({shRows[i].key : i \in {j \in DOMAIN shRows : Eligible(j)}},
        LAMBDA a, b : LET x == Max(KeyScores(a)) y == Max(KeyScores(b))
                      IN  x > y \/ (x = y /\ FirstRow(a) < FirstRow(b)))
Members == SubSeq(RankedKeys, 1, Min({sh.auto_ensemble_top_k, Len(RankedKeys)}))
EnsembleCandidate == [key |-> Ensemble, params |-> Members]
TriesEnsemble ==
    /\ sh.task = "regression" /\ sh.auto_ensemble_top_k >= 2 /\ Len(Members) >= 2
    /\ \A i \in DOMAIN shRows :
          ~(shRows[i].key = Ensemble /\ shRows[i].params = Members)

(* After the sweep the ensemble is one more candidate, at most once.       *)
TryEnsemble ==
    /\ shPc = "sweep" /\ shTodo = <<>> /\ TriesEnsemble
    /\ Evaluate(EnsembleCandidate, <<>>)

(* Ranks by score, stable, over the scored rows; pareto_flags over the     *)
(* score and every cost.                                                   *)
(* Mutant: the lowest score ranks first.                                   *)
RankFromBelow(rows, i) ==
    1 + Cardinality({j \in DOMAIN rows : IsScored(rows[j]) /\
            (rows[j].score < rows[i].score \/ (rows[j].score = rows[i].score /\ j < i))})

RankOf(rows, i) ==
    1 + Cardinality({j \in DOMAIN rows :
            /\ IsScored(rows[j])
            /\ \/ rows[j].score > rows[i].score
               \/ rows[j].score = rows[i].score /\ j < i})
(* Mutant: a row dominates its equals, itself included.                    *)
DominatesEquals(b, a) ==
    b.score >= a.score /\ \A f \in CostFields : b.cost[f] <= a.cost[f]

Dominates(b, a) ==
    /\ b.score >= a.score /\ \A f \in CostFields : b.cost[f] <= a.cost[f]
    /\ b.score > a.score \/ \E f \in CostFields : b.cost[f] < a.cost[f]
IsPareto(rows, i) == \A j \in DOMAIN rows : IsScored(rows[j]) => ~Dominates(rows[j], rows[i])

Ranked(rows) ==
    [i \in DOMAIN rows |->
        [key |-> rows[i].key, params |-> rows[i].params, status |-> rows[i].status,
         score |-> rows[i].score, cost |-> rows[i].cost,
         rank |-> IF IsScored(rows[i]) THEN RankOf(rows, i) ELSE 0,
         is_pareto |-> IsScored(rows[i]) /\ IsPareto(rows, i)]]

(* One bulk insert.  The metrics are JSON, which has no such number: a row *)
(* whose score is not finite is refused, and all the others with it.       *)
StoreRows ==
    /\ shPc = "sweep" /\ shTodo = <<>> /\ ~TriesEnsemble
    /\ \A i \in DOMAIN shRows : shRows[i].score # NotFinite
    /\ shStored' = Ranked(shRows) /\ shPc' = "finish"
    /\ UNCHANGED <<sh, shTodo, shRows, shRun, shBest, shCrashes>>

FinishRun ==
    /\ shPc = "finish"
    /\ shRun' = "success" /\ shPc' = "best"
    /\ UNCHANGED <<sh, shTodo, shRows, shStored, shBest, shCrashes>>

Winners == {i \in DOMAIN shStored : shStored[i].rank = 1}

PointBest ==
    /\ shPc = "best"
    /\ shBest' = IF Winners = {} THEN shBest ELSE shStored[CHOOSE i \in Winners : TRUE]
    /\ shPc' = "done"
    /\ UNCHANGED <<sh, shTodo, shRows, shStored, shRun, shCrashes>>

(* A statement after the sweep raises.                                     *)
StatementFails ==
    /\ \/ shPc = "sweep" /\ shTodo = <<>> /\ ~TriesEnsemble
       \/ shPc \in {"finish", "best"}
    /\ FailSearch

(* The worker dies; the task is not delivered again.                       *)
SearchCrash ==
    /\ shPc # "done" /\ shCrashes < MaxSearchCrashes
    /\ shPc' = "done" /\ shCrashes' = shCrashes + 1
    /\ UNCHANGED <<sh, shTodo, shRows, shStored, shRun, shBest>>

SearchNext ==
    \/ Expand \/ Sweep \/ TryEnsemble \/ StoreRows \/ FinishRun \/ PointBest
    \/ StatementFails \/ SearchCrash
=============================================================================
