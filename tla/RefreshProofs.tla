----------------------------- MODULE RefreshProofs -----------------------------
(***************************************************************************)
(* Theorems about the data chain, the beat schedule, the symbol page and   *)
(* the weekday suite of Lab, for any instruments, instants, lags, windows, *)
(* jobs, histories and lists of estimators.                                *)
(*                                                                         *)
(* Features reproduce because they depend on nothing but the rows of the   *)
(* instrument that date from no later than the decision day, and on which  *)
(* providers work.                                                         *)
(***************************************************************************)
EXTENDS Lab, OrderLemmas, SequenceTheorems

-----------------------------------------------------------------------------
(* Features.                                                               *)

\* The rows of an instrument dated no later than a day.
Dated(facts, symbol, day) == {x \in facts : x.symbol = symbol /\ DateOf(x.at) <= day}

Instantaneous(facts) == \A x \in facts : x.at \in Nat

\* What works in both features alike on those rows only.
LEMMA FeaturesOfDatedFacts ==
  ASSUME NEW A, Instantaneous(A), NEW B, Instantaneous(B), NEW symbol, NEW as_of \in Nat,
         Dated(A, symbol, DateOf(as_of)) = Dated(B, symbol, DateOf(as_of)),
         NEW inA \in SUBSET Providers, NEW inB \in SUBSET Providers
  PROVE  SameColumns(FeatureRow(A, symbol, as_of, inA), FeatureRow(B, symbol, as_of, inB))
<1>1. \A x : x \in A /\ x.at <= as_of => DateOf(x.at) <= DateOf(as_of)
  BY DEF Instantaneous, DateOf
<1>2. \A x : x \in B /\ x.at <= as_of => DateOf(x.at) <= DateOf(as_of)
  BY DEF Instantaneous, DateOf
<1>3. \A x : x.symbol = symbol =>
         (x \in A /\ DateOf(x.at) <= DateOf(as_of) <=> x \in B /\ DateOf(x.at) <= DateOf(as_of))
  BY DEF Dated
<1>4. \A x : x.symbol = symbol => (x \in A /\ x.at <= as_of <=> x \in B /\ x.at <= as_of)
  BY <1>1, <1>2, <1>3
<1>5. BarsTo(A, symbol, as_of) = BarsTo(B, symbol, as_of)
  BY <1>4 DEF BarsTo, Of
<1>6. Lagged(A, symbol, as_of) = Lagged(B, symbol, as_of)
  BY <1>5 DEF Lagged
<1>7. \A kind : Within(A, kind, symbol, as_of) = Within(B, kind, symbol, as_of)
  BY <1>4 DEF Within, Of
<1>8. \A x \in A \cup B : DateOf(x.at) \in Int /\ DateOf(as_of) \in Int
  BY DEF Instantaneous, DateOf
<1>9. LatestReport(A, symbol, as_of) = LatestReport(B, symbol, as_of)
  <2> DEFINE E(facts) == {x \in Of(facts, "report", symbol) : DateOf(x.at) < DateOf(as_of)}
  <2>1. \A x : x \in E(A) <=> x \in E(B)
    BY <1>3, <1>8 DEF Of
  <2>2. E(A) = E(B)
    BY <2>1
  <2> QED BY <2>2 DEF LatestReport
<1>10. ManualEntry(A, symbol, as_of) = ManualEntry(B, symbol, as_of)
  BY <1>3, <1>8 DEF ManualEntry, Of
<1>11. ASSUME NEW provider \in inA \cap inB
       PROVE  Source(provider, A, symbol, as_of) = Source(provider, B, symbol, as_of)
  BY <1>5, <1>7, <1>9, <1>11 DEF Source
<1> QED BY <1>6, <1>10, <1>11 DEF FeatureRow, Bundle, SameColumns

-----------------------------------------------------------------------------
(* Rows.                                                                   *)

ForecastInv(f) ==
  /\ f.decided \in Nat /\ Instantaneous(f.known)
  /\ \E working \in SUBSET Providers :
        f.features = FeatureRow(f.known, f.symbol, f.decided, working)

(* Every forecast has the features of the rows known at its moment.        *)
RefreshInv ==
  /\ dfDay \in Nat
  /\ Instantaneous(dfFacts)
  /\ \A f \in dfForecasts : ForecastInv(f)

LEMMA HeadlinesHaveInstants ==
  ASSUME NEW headlines \in Headlines
  PROVE  Instantaneous(headlines)
<1>1. CASE headlines = {}
  BY <1>1 DEF Instantaneous
<1>2. CASE headlines # {}
  <2>1. PICK s \in Symbols, t \in {x \in Instants : x <= Now} : headlines = {Fact("news", s, t, 0)}
    BY <1>2 DEF Headlines
  <2>2. t \in Nat
    BY RefreshConstants
  <2> QED BY <2>1, <2>2 DEF Instantaneous, Fact
<1> QED BY <1>1, <1>2

LEMMA RefreshInvInit == LabInit => RefreshInv
<1>1. RefreshInit \/ RefreshIdle => dfDay \in Nat /\ dfFacts = {} /\ dfForecasts = {}
  BY RefreshConstants DEF RefreshInit, RefreshIdle
<1> QED BY <1>1 DEF LabInit, DataIdle, RefreshInv, Instantaneous

LEMMA RefreshInvNext == RefreshInv /\ [LabNext]_labVars => RefreshInv'
<1> SUFFICES ASSUME RefreshInv, [LabNext]_labVars PROVE RefreshInv'
  OBVIOUS
<1>0. dfDay \in Nat /\ Instantaneous(dfFacts)
  BY DEF RefreshInv
<1>1. CASE Instantaneous(dfFacts)' /\ dfForecasts' = dfForecasts /\ dfDay' \in Nat
  BY <1>1 DEF RefreshInv, ForecastInv
<1>2. CASE StartPipeline \/ BackfillActuals \/ ExitPipeline
  <2>1. dfFacts' = dfFacts /\ dfForecasts' = dfForecasts /\ (dfDay' = dfDay + 1 \/ dfDay' = dfDay)
    BY <1>2 DEF StartPipeline, BackfillActuals, ExitPipeline
  <2> QED BY <1>0, <1>1, <2>1
<1>3. CASE SyncMarketData
  <2>1. PICK synced \in SUBSET Symbols : dfFacts' = Upsert(BarsOf(synced))
    BY <1>3 DEF SyncMarketData
  <2>2. Instantaneous(BarsOf(synced))
    BY <1>0 DEF Instantaneous, BarsOf, Fact
  <2>3. dfForecasts' = dfForecasts /\ dfDay' = dfDay
    BY <1>3 DEF SyncMarketData
  <2> QED BY <1>0, <1>1, <2>1, <2>2, <2>3 DEF Instantaneous, Upsert
<1>4. CASE SyncResearch \/ JobRaises
  <2>1. dfForecasts' = dfForecasts /\ dfDay' = dfDay
    BY <1>4 DEF SyncResearch, JobRaises
  <2>2. dfFacts' = dfFacts \/ \E headlines \in Headlines : dfFacts' = KeepOrAdd(headlines)
    BY <1>4 DEF SyncResearch, JobRaises
  <2>3. Instantaneous(dfFacts)'
    BY <1>0, <2>2, HeadlinesHaveInstants DEF Instantaneous, KeepOrAdd
  <2> QED BY <1>0, <1>1, <2>1, <2>3
<1>5. CASE LoadFundamentals \/ LoadMentions \/ EnterSignal \/ EditSignal
  <2>1. dfForecasts' = dfForecasts /\ dfDay' = dfDay
    BY <1>5 DEF LoadFundamentals, LoadMentions, EnterSignal, EditSignal, Enter
  <2>2. \A kind, s : \A t \in Instants : Fact(kind, s, t, dfEntered).at \in Nat
    BY RefreshConstants DEF Fact
  <2>3. \A x \in dfFacts' : \/ x \in dfFacts
                            \/ \E kind, s : \E t \in Instants : x = Fact(kind, s, t, dfEntered)
    <3>1. CASE LoadFundamentals
      BY <3>1 DEF LoadFundamentals, Upsert, Entry
    <3>2. CASE LoadMentions
      BY <3>2 DEF LoadMentions, KeepOrAdd, Entry
    <3>3. CASE EnterSignal
      BY <3>3 DEF EnterSignal
    <3>4. CASE EditSignal
      BY <3>4 DEF EditSignal
    <3> QED BY <1>5, <3>1, <3>2, <3>3, <3>4
  <2>4. Instantaneous(dfFacts)'
    BY <1>0, <2>2, <2>3 DEF Instantaneous
  <2> QED BY <1>0, <1>1, <2>1, <2>4
<1>6. CASE RunModelPredictions
  <2>1. UNCHANGED <<dfDay, dfFacts>>
    BY <1>6 DEF RunModelPredictions
  <2>2. ASSUME NEW s \in Symbols, BarsTo(dfFacts, s, Now) # {}
        PROVE  Max({b.at : b \in BarsTo(dfFacts, s, Now)}) \in Nat
    <3> DEFINE S == {b.at : b \in BarsTo(dfFacts, s, Now)}
    <3>1. \A b \in BarsTo(dfFacts, s, Now) : b.at \in Nat /\ b.at <= Now
      BY <1>0 DEF Instantaneous, BarsTo, Of
    <3>2. S \in SUBSET Nat /\ S # {} /\ \A y \in S : y <= Now
      BY <2>2, <3>1
    <3>3. Now \in Nat
      BY <1>0 DEF Now
    <3> HIDE DEF S
    <3>4. Max(S) \in S
      BY <3>2, <3>3, MaxOfNaturals
    <3> QED BY <3>2, <3>4 DEF S
  <2>3. ASSUME NEW f \in dfForecasts' PROVE ForecastInv(f)'
    <3>1. CASE f \in dfForecasts
      BY <2>1, <3>1 DEF RefreshInv, ForecastInv
    <3>2. CASE f \notin dfForecasts
      <4>1. PICK working \in [Symbols -> {Providers \ broken : broken \in Outages}],
                 s \in {s \in Symbols : BarsTo(dfFacts, s, Now) # {}} :
               f = [ symbol |-> s, decided |-> Max({b.at : b \in BarsTo(dfFacts, s, Now)}),
                     features |-> FeatureRow(dfFacts, s, Max({b.at : b \in BarsTo(dfFacts, s, Now)}),
                                             working[s]),
                     known |-> dfFacts ]
        BY <1>6, <3>2 DEF RunModelPredictions
      <4>2. /\ f.decided \in Nat /\ f.known = dfFacts
            /\ f.features = FeatureRow(f.known, f.symbol, f.decided, working[s])
        BY <2>2, <4>1
      <4>3. working[s] \in SUBSET Providers
        BY <4>1
      <4> QED BY <1>0, <4>2, <4>3 DEF ForecastInv
    <3> QED BY <3>1, <3>2
  <2> QED BY <1>0, <2>1, <2>3 DEF RefreshInv, Instantaneous
<1>7. CASE UNCHANGED dfVars
  BY <1>0, <1>1, <1>7 DEF dfVars, Instantaneous
<1> QED
  BY <1>2, <1>3, <1>4, <1>5, <1>6, <1>7 DEF LabNext, RefreshNext, labVars, dataVars

\* What became of those rows since is the only reason for other features.
LEMMA InvMakesFeaturesReproduce == RefreshInv => FeaturesReproduce
<1> SUFFICES ASSUME RefreshInv, NEW f \in dfForecasts, NEW working \in SUBSET Providers,
                    ~ \E x \in (dfFacts \ f.known) \cup (f.known \ dfFacts) :
                         x.symbol = f.symbol /\ DateOf(x.at) <= DateOf(f.decided)
             PROVE  SameColumns(FeatureRow(dfFacts, f.symbol, f.decided, working), f.features)
  BY DEF FeaturesReproduce
<1>1. /\ f.decided \in Nat /\ Instantaneous(f.known) /\ Instantaneous(dfFacts)
      /\ \E past \in SUBSET Providers : f.features = FeatureRow(f.known, f.symbol, f.decided, past)
  BY DEF RefreshInv, ForecastInv
<1>2. Dated(dfFacts, f.symbol, DateOf(f.decided)) = Dated(f.known, f.symbol, DateOf(f.decided))
  BY DEF Dated
<1> QED BY <1>1, <1>2, FeaturesOfDatedFacts

(* The features of a forecast are those a later training builds for its    *)
(* decision, where no provider raises, unless a row of the instrument that *)
(* dates from no later than the decision day came, went or was corrected   *)
(* in between (modeling/features.py, research/services.py, the providers   *)
(* of research/providers and strategies/views.py).                         *)
THEOREM FeaturesAreReproducible == LabSpec => []FeaturesReproduce
<1>1. LabInit /\ [][LabNext]_labVars => []RefreshInv
  BY RefreshInvInit, RefreshInvNext, PTL
<1> QED BY <1>1, InvMakesFeaturesReproduce, PTL DEF LabSpec

-----------------------------------------------------------------------------
(* The beat schedule.                                                      *)

AdminCount == bsAdminSteps \in Nat

(* seed_periodic_tasks removes its own rows only, and the tasks on         *)
(* crontabs that no task used when it looked for orphans.                  *)
THEOREM SeedingKeepsHandMade == LabSpec => HandMadeTasksStay
<1>1. LabInit => AdminCount
  <2>1. ScheduleInit => AdminCount
    BY DEF ScheduleInit, AdminCount
  <2>2. ScheduleIdle => AdminCount
    BY ScheduleConstants DEF ScheduleIdle, AdminCount
  <2> QED BY <2>1, <2>2 DEF LabInit, DataIdle
<1>2. AdminCount /\ [LabNext]_labVars => AdminCount'
  <2> SUFFICES ASSUME AdminCount, [LabNext]_labVars PROVE AdminCount'
    OBVIOUS
  <2>1. CASE ScheduleNext
    <3>1. AdminStep => bsAdminSteps' = bsAdminSteps + 1
      BY DEF AdminStep
    <3>2. bsAdminSteps' = bsAdminSteps \/ AdminStep
      <4>1. AdminAddsCrontab \/ AdminSavesTask \/ AdminChangesTask => AdminStep
        BY DEF AdminAddsCrontab, AdminSavesTask, AdminChangesTask
      <4>2. StartSeeding \/ UpsertJob \/ PruneStale \/ LookForOrphans \/ DeleteOrphans
               => bsAdminSteps' = bsAdminSteps
        BY DEF StartSeeding, UpsertJob, PruneStale, LookForOrphans, DeleteOrphans
      <4> QED BY <2>1, <4>1, <4>2 DEF ScheduleNext
    <3> QED BY <3>1, <3>2 DEF AdminCount
  <2>2. CASE UNCHANGED bsVars
    BY <2>2 DEF AdminCount, bsVars
  <2> QED BY <2>1, <2>2 DEF LabNext, labVars, dataVars
<1>3. ASSUME AdminCount, [LabNext]_labVars, NEW t \in bsTasks \ bsTasks'
      PROVE  \/ Owned(t)
             \/ bsAdminSteps' # bsAdminSteps
             \/ bsSeed.pc = "delete" /\ t.crontab \notin bsSeed.used
  <2>1. ASSUME AdminStep PROVE bsAdminSteps' # bsAdminSteps
    BY <1>3, <2>1 DEF AdminCount, AdminStep
  <2>2. CASE AdminAddsCrontab \/ AdminSavesTask \/ AdminChangesTask
    BY <2>1, <2>2 DEF AdminAddsCrontab, AdminSavesTask, AdminChangesTask
  <2>3. CASE UpsertJob
    BY <2>3 DEF UpsertJob
  <2>4. CASE PruneStale
    BY <2>4 DEF PruneStale, Stale
  <2>5. CASE DeleteOrphans
    <3>1. t.crontab \notin bsSeed.used
      BY <2>5 DEF DeleteOrphans
    <3> QED BY <2>5, <3>1 DEF DeleteOrphans
  <2>6. CASE StartSeeding \/ LookForOrphans \/ UNCHANGED bsVars
    BY <2>6 DEF StartSeeding, LookForOrphans, bsVars
  <2> QED BY <1>3, <2>2, <2>3, <2>4, <2>5, <2>6 DEF LabNext, ScheduleNext, labVars, dataVars
<1>4. AdminCount /\ [LabNext]_labVars =>
         [\A t \in bsTasks \ bsTasks' :
             Owned(t) \/ bsAdminSteps' # bsAdminSteps \/
             (bsSeed.pc = "delete" /\ t.crontab \notin bsSeed.used)]_labVars
  BY <1>3
<1> QED BY <1>1, <1>2, <1>4, PTL DEF LabSpec, HandMadeTasksStay

-----------------------------------------------------------------------------
(* The pipeline.                                                           *)

JobNames == {Jobs[i] : i \in DOMAIN Jobs}
Attempted == [i \in DOMAIN dfRun.outcomes |-> dfRun.outcomes[i][1]]
Raised == {i \in DOMAIN dfRun.outcomes : dfRun.outcomes[i][2] = "raised"}

PipelineTypes ==
    /\ dfRun = [ exit |-> dfRun.exit, selected |-> dfRun.selected, todo |-> dfRun.todo,
                 outcomes |-> dfRun.outcomes, failed |-> dfRun.failed,
                 fail_fast |-> dfRun.fail_fast ]
    /\ dfRun.selected \in Seq(JobNames) /\ dfRun.todo \in Seq(JobNames)
    /\ dfRun.failed \in Seq(JobNames) /\ dfRun.outcomes \in Seq(JobNames \X {"ok", "raised"})

\* The jobs of a pipeline are behind it or before it, in their order; one
\* that raised is among the failed, and the last one attempted when the
\* command was told to stop there.
PipelineInv ==
    dfRun.exit \in {"running", "success", "failure"} =>
        /\ PipelineTypes
        /\ dfRun.failed = <<>> <=> Raised = {}
        /\ IF dfRun.fail_fast /\ Raised # {}
           THEN /\ Raised = {Len(dfRun.outcomes)} /\ dfRun.todo = <<>>
                /\ IsPrefix(Attempted, dfRun.selected)
           ELSE Attempted \o dfRun.todo = dfRun.selected
        /\ dfRun.exit # "running" => dfRun.todo = <<>>
        /\ dfRun.exit = "success" => dfRun.failed = <<>>
        /\ dfRun.exit = "failure" => dfRun.failed # <<>>

\* To attempt the first of the jobs to do moves it from one list to the other.
LEMMA AttemptMoves ==
    ASSUME NEW S, NEW a \in Seq(S), NEW t \in Seq(S), t # <<>>
    PROVE  /\ Head(t) \in S /\ Tail(t) \in Seq(S) /\ Append(a, Head(t)) \in Seq(S)
           /\ Append(a, Head(t)) \o Tail(t) = a \o t
           /\ IsPrefix(Append(a, Head(t)), a \o t)
<1>1. /\ Len(t) \in Nat \ {0} /\ Len(a) \in Nat
      /\ Head(t) = t[1] /\ Head(t) \in S /\ Tail(t) \in Seq(S) /\ Len(Tail(t)) = Len(t) - 1
      /\ \A i \in 1..(Len(t) - 1) : Tail(t)[i] = t[i + 1]
  OBVIOUS
<1> DEFINE b == Append(a, Head(t))
<1>2. /\ b \in Seq(S) /\ Len(b) = Len(a) + 1
      /\ \A i \in 1..Len(b) : b[i] = IF i <= Len(a) THEN a[i] ELSE t[1]
  BY <1>1
<1> HIDE DEF b
<1>3. /\ (b \o Tail(t)) \in Seq(S) /\ (a \o t) \in Seq(S)
      /\ Len(b \o Tail(t)) = Len(a) + Len(t) /\ Len(a \o t) = Len(a) + Len(t)
      /\ \A i \in 1..(Len(a) + Len(t)) : (a \o t)[i] = IF i <= Len(a) THEN a[i] ELSE t[i - Len(a)]
  BY <1>1, <1>2
<1>4. ASSUME NEW i \in 1..(Len(a) + Len(t)) PROVE (b \o Tail(t))[i] = (a \o t)[i]
  <2>1. CASE i <= Len(b)
    <3>1. (b \o Tail(t))[i] = b[i]
      BY <1>1, <1>2, <2>1
    <3> QED BY <1>1, <1>2, <1>3, <2>1, <3>1
  <2>2. CASE i > Len(b)
    <3>1. (b \o Tail(t))[i] = Tail(t)[i - Len(b)]
      BY <1>1, <1>2, <2>2, ConcatProperties
    <3>2. i - Len(b) \in 1..(Len(t) - 1) /\ i - Len(b) + 1 = i - Len(a)
      BY <1>1, <1>2, <2>2
    <3>3. Tail(t)[i - Len(b)] = t[i - Len(a)]
      BY <1>1, <3>2
    <3> QED BY <1>1, <1>2, <1>3, <2>2, <3>1, <3>3
  <2> QED BY <1>1, <1>2, <2>1, <2>2
<1>5. b \o Tail(t) = a \o t
  BY <1>3, <1>4, SeqEqual
<1>6. IsPrefix(b, b \o Tail(t))
  <2>1. Len(b) <= Len(b \o Tail(t))
    BY <1>1, <1>2, <1>3
  <2>2. SubSeq(b, 1, Len(b)) = SubSeq(b \o Tail(t), 1, Len(b))
    BY <1>1, <1>2, <1>3
  <2> QED BY <2>1, <2>2 DEF IsPrefix
<1> QED BY <1>1, <1>2, <1>5, <1>6 DEF b

\* What an attempt at the first job leaves, in either outcome.
LEMMA Attempt ==
    ASSUME PipelineInv, dfRun.exit = "running", dfRun.todo # <<>>,
           NEW how \in {"ok", "raised"}, NEW todo, NEW failed,
           dfRun' = [dfRun EXCEPT !.todo = todo, !.failed = failed,
                                  !.outcomes = Append(@, <<Head(dfRun.todo), how>>)],
           how = "ok" => todo = Tail(dfRun.todo) /\ failed = dfRun.failed,
           how = "raised" => /\ todo = IF dfRun.fail_fast THEN <<>> ELSE Tail(dfRun.todo)
                             /\ failed = Append(dfRun.failed, Head(dfRun.todo))
    PROVE  PipelineInv'
<1> DEFINE a == dfRun.outcomes
           n == Len(a)
           p == <<Head(dfRun.todo), how>>
<1>1. /\ PipelineTypes /\ (dfRun.failed = <<>> <=> Raised = {})
      /\ ~(dfRun.fail_fast /\ Raised # {}) /\ Attempted \o dfRun.todo = dfRun.selected
  BY DEF PipelineInv
<1>2. /\ a \in Seq(JobNames \X {"ok", "raised"}) /\ n \in Nat /\ DOMAIN a = 1..n
      /\ Attempted \in Seq(JobNames) /\ Len(Attempted) = n /\ DOMAIN Attempted = 1..n
      /\ \A i \in 1..n : Attempted[i] = a[i][1]
  <2>1. a \in Seq(JobNames \X {"ok", "raised"})
    BY <1>1 DEF PipelineTypes
  <2>2. \A i \in 1..n : a[i][1] \in JobNames
    BY <2>1
  <2> QED BY <2>1, <2>2, IsASeq DEF Attempted
<1>3. /\ Head(dfRun.todo) \in JobNames /\ Tail(dfRun.todo) \in Seq(JobNames)
      /\ Append(Attempted, Head(dfRun.todo)) \in Seq(JobNames)
      /\ Append(Attempted, Head(dfRun.todo)) \o Tail(dfRun.todo) = dfRun.selected
      /\ IsPrefix(Append(Attempted, Head(dfRun.todo)), dfRun.selected)
  <2>1. dfRun.todo \in Seq(JobNames) /\ Attempted \in Seq(JobNames) /\ dfRun.todo # <<>>
    BY <1>1, <1>2 DEF PipelineTypes
  <2>2. /\ Head(dfRun.todo) \in JobNames /\ Tail(dfRun.todo) \in Seq(JobNames)
        /\ Append(Attempted, Head(dfRun.todo)) \in Seq(JobNames)
        /\ Append(Attempted, Head(dfRun.todo)) \o Tail(dfRun.todo) = Attempted \o dfRun.todo
        /\ IsPrefix(Append(Attempted, Head(dfRun.todo)), Attempted \o dfRun.todo)
    <3> HIDE DEF a, n, p
    <3>1. \A x, t \in Seq(JobNames) : t # <<>> =>
             /\ Head(t) \in JobNames /\ Tail(t) \in Seq(JobNames) /\ Append(x, Head(t)) \in Seq(JobNames)
             /\ Append(x, Head(t)) \o Tail(t) = x \o t
             /\ IsPrefix(Append(x, Head(t)), x \o t)
      BY AttemptMoves, Zenon
    <3> QED BY <2>1, <3>1, Zenon
  <2> QED BY <1>1, <2>2
<1>4. /\ dfRun'.exit = dfRun.exit /\ dfRun'.selected = dfRun.selected /\ dfRun'.todo = todo
      /\ dfRun'.outcomes = Append(a, p) /\ dfRun'.failed = failed
      /\ dfRun'.fail_fast = dfRun.fail_fast
      /\ dfRun' = [ exit |-> dfRun'.exit, selected |-> dfRun'.selected, todo |-> dfRun'.todo,
                    outcomes |-> dfRun'.outcomes, failed |-> dfRun'.failed,
                    fail_fast |-> dfRun'.fail_fast ]
  BY <1>1 DEF PipelineTypes
<1>5. /\ Append(a, p) \in Seq(JobNames \X {"ok", "raised"}) /\ Len(Append(a, p)) = n + 1
      /\ \A i \in 1..(n + 1) : Append(a, p)[i] = IF i <= n THEN a[i] ELSE p
  BY <1>2, <1>3
<1>6. Attempted' = Append(Attempted, Head(dfRun.todo))
  <2>1. DOMAIN dfRun'.outcomes = 1..(n + 1)
    BY <1>2, <1>4, <1>5
  <2>2. /\ Append(Attempted, Head(dfRun.todo)) \in Seq(JobNames)
        /\ Len(Append(Attempted, Head(dfRun.todo))) = n + 1
        /\ \A i \in 1..(n + 1) : Append(Attempted, Head(dfRun.todo))[i]
              = IF i <= n THEN Attempted[i] ELSE Head(dfRun.todo)
    BY <1>2, <1>3
  <2>3. Attempted' = [i \in 1..(n + 1) |-> dfRun'.outcomes[i][1]]
    BY <2>1 DEF Attempted
  <2>4. \A i \in 1..(n + 1) : dfRun'.outcomes[i][1] = Append(Attempted, Head(dfRun.todo))[i]
    BY <1>2, <1>4, <1>5, <2>2
  <2>5. Append(Attempted, Head(dfRun.todo)) =
           [i \in 1..(n + 1) |-> Append(Attempted, Head(dfRun.todo))[i]]
    BY <2>2, IsASeq
  <2> QED BY <2>3, <2>4, <2>5
<1>7. Raised' = IF how = "raised" THEN Raised \cup {n + 1} ELSE Raised
  <2>1. Raised' = {i \in 1..(n + 1) : Append(a, p)[i][2] = "raised"}
    BY <1>4, <1>5 DEF Raised
  <2>2. Raised = {i \in 1..n : a[i][2] = "raised"}
    BY <1>2 DEF Raised
  <2>3. Append(a, p)[n + 1] = p /\ p[2] = how /\ \A i \in 1..n : Append(a, p)[i] = a[i]
    BY <1>2, <1>5
  <2>4. 1..(n + 1) = 1..n \cup {n + 1} /\ n + 1 \notin 1..n
    BY <1>2
  <2> HIDE DEF p, a
  <2> QED BY <2>1, <2>2, <2>3, <2>4
<1>8. /\ todo \in Seq(JobNames) /\ failed \in Seq(JobNames)
      /\ failed = <<>> <=> how = "ok" /\ Raised = {}
  <2>1. CASE how = "ok"
    BY <1>1, <1>3, <2>1 DEF PipelineTypes
  <2>2. CASE how = "raised"
    <3>1. dfRun.failed \in Seq(JobNames)
      BY <1>1 DEF PipelineTypes
    <3>2. /\ Append(dfRun.failed, Head(dfRun.todo)) \in Seq(JobNames)
          /\ Len(Append(dfRun.failed, Head(dfRun.todo))) = Len(dfRun.failed) + 1
          /\ Len(dfRun.failed) \in Nat
      BY <1>3, <3>1
    <3>3. failed \in Seq(JobNames) /\ failed # <<>>
      BY <2>2, <3>2
    <3>4. todo \in Seq(JobNames)
      <4>1. todo = <<>> \/ todo = Tail(dfRun.todo)
        BY <2>2
      <4>2. <<>> \in Seq(JobNames)
        BY EmptySeq
      <4> QED BY <1>3, <4>1, <4>2
    <3> QED BY <2>2, <3>3, <3>4
  <2> QED BY <2>1, <2>2
<1>9. PipelineTypes'
  BY <1>1, <1>4, <1>5, <1>8 DEF PipelineTypes
<1>10. (dfRun.failed = <<>>)' <=> (Raised = {})'
  BY <1>4, <1>7, <1>8
<1>11. IF dfRun'.fail_fast /\ Raised' # {}
       THEN /\ Raised' = {Len(dfRun'.outcomes)} /\ dfRun'.todo = <<>>
            /\ IsPrefix(Attempted', dfRun'.selected)
       ELSE Attempted' \o dfRun'.todo = dfRun'.selected
  <2>1. CASE dfRun.fail_fast /\ how = "raised"
    <3>1. Raised' = {n + 1} /\ todo = <<>>
      BY <1>1, <1>7, <2>1
    <3> QED BY <1>3, <1>4, <1>5, <1>6, <2>1, <3>1
  <2>2. CASE ~(dfRun.fail_fast /\ how = "raised")
    <3>1. todo = Tail(dfRun.todo) /\ ~(dfRun'.fail_fast /\ Raised' # {})
      BY <1>1, <1>4, <1>7, <2>2
    <3> QED BY <1>3, <1>4, <1>6, <3>1
  <2> QED BY <2>1, <2>2
<1> QED BY <1>4, <1>9, <1>10, <1>11 DEF PipelineInv

LEMMA PipelineInvInit == LabInit => PipelineInv
<1>1. RefreshInit \/ RefreshIdle => dfRun = [exit |-> "none"]
  BY DEF RefreshInit, RefreshIdle
<1> QED BY <1>1 DEF LabInit, DataIdle, PipelineInv

LEMMA SelectedIsSequence ==
    ASSUME NEW line PROVE Selected(line) \in Seq(JobNames)
<1> DEFINE kept == {i \in DOMAIN Jobs : (line.only = {} \/ Jobs[i] \in line.only) /\ Jobs[i] \notin line.skip}
<1>1. DOMAIN Jobs = 1..4
  BY DEF Jobs
<1>2. IsFiniteSet(kept) /\ Cardinality(kept) \in Nat
  <2>1. kept \in SUBSET (1..4)
    BY <1>1
  <2>2. \A n \in Nat : IsFiniteSet(1..n)
    BY FS_Interval
  <2> HIDE DEF kept
  <2>3. IsFiniteSet(1..4)
    BY <2>2
  <2> QED BY <2>1, <2>3, FS_Subset, FS_CardinalityType
<1>3. ASSUME NEW k \in 1..Cardinality(kept)
      PROVE  \E i \in kept : Cardinality({x \in kept : x <= i}) = k
  <2>1. kept \in SUBSET Nat
    BY <1>1
  <2> HIDE DEF kept
  <2> QED BY <1>2, <1>3, <2>1, EveryRank DEF Below
<1>4. ASSUME NEW k \in 1..Cardinality(kept)
      PROVE  Jobs[CHOOSE i \in kept : Cardinality({x \in kept : x <= i}) = k] \in JobNames
  BY <1>3 DEF JobNames
<1> DEFINE pick(k) == Jobs[CHOOSE i \in kept : Cardinality({x \in kept : x <= i}) = k]
<1>5. Selected(line) = [k \in 1..Cardinality(kept) |-> pick(k)]
  BY DEF Selected
<1>6. \A k \in 1..Cardinality(kept) : pick(k) \in JobNames
  BY <1>4
<1> HIDE DEF kept, pick
<1> QED BY <1>2, <1>5, <1>6, IsASeq

LEMMA PipelineInvNext == PipelineInv /\ [LabNext]_labVars => PipelineInv'
<1> SUFFICES ASSUME PipelineInv, [LabNext]_labVars PROVE PipelineInv'
  OBVIOUS
<1>1. CASE UNCHANGED dfRun
  BY <1>1 DEF PipelineInv, PipelineTypes, Raised, Attempted
<1>2. CASE StartPipeline
  <2>1. PICK line \in Selections :
           dfRun' = [ exit |-> IF Selected(line) = <<>> THEN "success" ELSE "running",
                      selected |-> Selected(line), todo |-> Selected(line),
                      outcomes |-> <<>>, failed |-> <<>>, fail_fast |-> line.fail_fast ]
    BY <1>2 DEF StartPipeline
  <2>2. Selected(line) \in Seq(JobNames) /\ <<>> \in Seq(JobNames)
        /\ <<>> \in Seq(JobNames \X {"ok", "raised"})
    BY SelectedIsSequence, EmptySeq
  <2>3. /\ dfRun'.selected = Selected(line) /\ dfRun'.todo = Selected(line)
        /\ dfRun'.outcomes = <<>> /\ dfRun'.failed = <<>> /\ dfRun'.fail_fast = line.fail_fast
        /\ dfRun'.exit = IF Selected(line) = <<>> THEN "success" ELSE "running"
    BY <2>1
  <2>4. PipelineTypes'
    BY <2>1, <2>2, <2>3 DEF PipelineTypes
  <2>5. Raised' = {} /\ Attempted' = <<>>
    BY <2>3 DEF Raised, Attempted
  <2>6. <<>> \o Selected(line) = Selected(line)
    BY <2>2, ConcatEmptySeq
  <2> HIDE DEF Selected
  <2> QED BY <2>3, <2>4, <2>5, <2>6 DEF PipelineInv
<1>3. ASSUME NEW job, Running(job), Succeeded(job) PROVE PipelineInv'
  <2>1. dfRun.exit = "running" /\ dfRun.todo # <<>> /\ job = Head(dfRun.todo)
    BY <1>3 DEF Running
  <2>2. dfRun' = [dfRun EXCEPT !.todo = Tail(dfRun.todo), !.failed = dfRun.failed,
                               !.outcomes = Append(@, <<Head(dfRun.todo), "ok">>)]
    BY <1>3, <2>1 DEF Succeeded, PipelineInv, PipelineTypes
  <2> QED BY <2>1, <2>2, Attempt
<1>4. CASE JobRaises
  <2>1. /\ dfRun.exit = "running" /\ dfRun.todo # <<>>
        /\ dfRun' = [dfRun EXCEPT !.todo = IF dfRun.fail_fast THEN <<>> ELSE Tail(dfRun.todo),
                                  !.failed = Append(dfRun.failed, Head(dfRun.todo)),
                                  !.outcomes = Append(@, <<Head(dfRun.todo), "raised">>)]
    BY <1>4 DEF JobRaises
  <2> QED BY <2>1, Attempt
<1>5. CASE ExitPipeline
  <2>1. /\ dfRun.exit = "running" /\ dfRun.todo = <<>>
        /\ dfRun' = [dfRun EXCEPT !.exit = IF dfRun.failed = <<>> THEN "success" ELSE "failure"]
    BY <1>5 DEF ExitPipeline
  <2>2. PipelineTypes
    BY <2>1 DEF PipelineInv
  <2>3. /\ dfRun'.selected = dfRun.selected /\ dfRun'.todo = <<>> /\ dfRun'.outcomes = dfRun.outcomes
        /\ dfRun'.failed = dfRun.failed /\ dfRun'.fail_fast = dfRun.fail_fast
        /\ dfRun'.exit = IF dfRun.failed = <<>> THEN "success" ELSE "failure"
    BY <2>1, <2>2 DEF PipelineTypes
  <2>4. PipelineTypes'
    BY <2>1, <2>2, <2>3 DEF PipelineTypes
  <2>5. Raised' = Raised /\ Attempted' = Attempted
    BY <2>3 DEF Raised, Attempted
  <2>6. /\ dfRun.failed = <<>> <=> Raised = {}
        /\ IF dfRun.fail_fast /\ Raised # {}
           THEN Raised = {Len(dfRun.outcomes)} /\ IsPrefix(Attempted, dfRun.selected)
           ELSE Attempted \o dfRun.todo = dfRun.selected
    BY <2>1 DEF PipelineInv
  <2>7. /\ dfRun'.failed = <<>> <=> Raised' = {}
        /\ IF dfRun'.fail_fast /\ Raised' # {}
           THEN /\ Raised' = {Len(dfRun'.outcomes)} /\ dfRun'.todo = <<>>
                /\ IsPrefix(Attempted', dfRun'.selected)
           ELSE Attempted' \o dfRun'.todo = dfRun'.selected
    BY <2>1, <2>3, <2>5, <2>6
  <2>8. /\ dfRun'.exit # "running" => dfRun'.todo = <<>>
        /\ dfRun'.exit = "success" => dfRun'.failed = <<>>
        /\ dfRun'.exit = "failure" => dfRun'.failed # <<>>
    BY <2>3
  <2> QED BY <2>4, <2>7, <2>8 DEF PipelineInv
<1>6. ASSUME RefreshNext PROVE PipelineInv'
  <2>1. CASE SyncMarketData \/ SyncResearch \/ RunModelPredictions \/ BackfillActuals
    <3>1. \E job : Running(job) /\ Succeeded(job)
      BY <2>1 DEF SyncMarketData, SyncResearch, RunModelPredictions, BackfillActuals
    <3> QED BY <1>3, <3>1
  <2>2. CASE LoadFundamentals \/ LoadMentions \/ EnterSignal \/ EditSignal
    BY <1>1, <2>2 DEF LoadFundamentals, LoadMentions, EnterSignal, EditSignal, Enter
  <2> QED BY <1>2, <1>4, <1>5, <1>6, <2>1, <2>2 DEF RefreshNext
<1>7. CASE UNCHANGED dfVars
  BY <1>1, <1>7 DEF dfVars
<1> QED BY <1>6, <1>7 DEF LabNext, labVars, dataVars

(* run_daily_pipeline's exit status is the truth about its jobs: a failure *)
(* exactly when one raised; every selected job was attempted, in order,    *)
(* unless the command was told to stop at the first that raised.           *)
THEOREM PipelineReportsItsFailures == LabSpec => []PipelineTellsFailures
<1>1. PipelineInv => PipelineTellsFailures
  <2> SUFFICES ASSUME PipelineInv, dfRun.exit \in {"success", "failure"}
               PROVE  /\ dfRun.exit = "failure" <=> Raised # {}
                      /\ IF dfRun.fail_fast /\ Raised # {}
                         THEN Raised = {Len(Attempted)} /\ IsPrefix(Attempted, dfRun.selected)
                         ELSE Attempted = dfRun.selected
    BY DEF PipelineTellsFailures, Attempted, Raised
  <2>1. /\ PipelineTypes /\ dfRun.todo = <<>> /\ (dfRun.failed = <<>> <=> Raised = {})
        /\ IF dfRun.fail_fast /\ Raised # {}
           THEN Raised = {Len(dfRun.outcomes)} /\ IsPrefix(Attempted, dfRun.selected)
           ELSE Attempted \o <<>> = dfRun.selected
        /\ dfRun.exit = "success" => dfRun.failed = <<>>
        /\ dfRun.exit = "failure" => dfRun.failed # <<>>
    BY DEF PipelineInv
  <2>2. Attempted \in Seq(JobNames) /\ Len(Attempted) = Len(dfRun.outcomes)
    <3> DEFINE a == dfRun.outcomes
    <3>1. a \in Seq(JobNames \X {"ok", "raised"})
      BY <2>1 DEF PipelineTypes
    <3>2. Len(a) \in Nat /\ DOMAIN a = 1..Len(a) /\ \A i \in 1..Len(a) : a[i][1] \in JobNames
      BY <3>1
    <3>3. Attempted = [i \in 1..Len(a) |-> a[i][1]]
      BY <3>2 DEF Attempted
    <3> HIDE DEF a
    <3> QED BY <3>2, <3>3 DEF a
  <2>3. Attempted \o <<>> = Attempted
    BY <2>2, ConcatEmptySeq
  <2> QED BY <2>1, <2>2, <2>3
<1>2. LabInit /\ [][LabNext]_labVars => []PipelineInv
  BY PipelineInvInit, PipelineInvNext, PTL
<1> QED BY <1>1, <1>2, PTL DEF LabSpec

-----------------------------------------------------------------------------
(* The averages of a symbol page.                                          *)

Means == {NoMean} \cup (Int \X Int)

\* A sum between two bars is a sum over the bars between.
LEMMA SumBetweenIsSummed ==
  ASSUME NEW values, NEW first, NEW last
  PROVE  SumBetween(values, first, last) = Summed(values, first..last)
  BY DEF SumBetween, Summed

\* The running sum of the last p values.
LEMMA RunningSum ==
  ASSUME NEW values \in Seq(Int), NEW p \in Nat \ {0}, NEW run,
         run = [i \in 0..Len(values) |->
                  IF i = 0 THEN 0
                  ELSE run[i - 1] + values[i] - (IF i > p THEN values[i - p] ELSE 0)]
  PROVE  \A i \in 0..Len(values) :
            run[i] = Summed(values, (IF i > p THEN i - p + 1 ELSE 1)..i)
<1> DEFINE From(i) == IF i > p THEN i - p + 1 ELSE 1
           Bad == {i \in 0..Len(values) : run[i] # Summed(values, From(i)..i)}
<1>1. ASSUME Bad # {} PROVE FALSE
  <2>1. PICK i \in Bad : \A j \in Bad : i <= j
    <3>1. Bad \in SUBSET Nat
      OBVIOUS
    <3> HIDE DEF Bad
    <3> QED BY <1>1, <3>1, LeastNatural
  <2>2. i # 0
    <3>1. From(0)..0 = {}
      OBVIOUS
    <3>2. run[0] = 0
      OBVIOUS
    <3> QED BY <3>1, <3>2, SummedEmpty
  <2>3. i \in 1..Len(values) /\ i - 1 \in 0..Len(values) /\ i \in Nat
    BY <2>2
  <2>4. run[i - 1] = Summed(values, From(i - 1)..(i - 1))
    <3>1. i - 1 \notin Bad
      <4> HIDE DEF Bad
      <4> QED BY <2>1, <2>3
    <3> QED BY <2>3, <3>1
  <2>5. run[i] = run[i - 1] + values[i] - (IF i > p THEN values[i - p] ELSE 0)
    BY <2>2
  <2> DEFINE U == From(i - 1)..i
  <2>6. IsFiniteSet(U) /\ i \in U /\ U \ {i} = From(i - 1)..(i - 1) /\ U \in SUBSET (1..Len(values))
    <3>1. From(i - 1) \in 1..i
      BY <2>3
    <3> DEFINE a == From(i - 1)
    <3> HIDE DEF From
    <3>2. a \in Int /\ a >= 1 /\ a <= i /\ i \in Int /\ i <= Len(values) /\ Len(values) \in Int
      BY <2>3, <3>1
    <3> HIDE DEF a
    <3>3. IsFiniteSet(a..i)
      BY <3>2, FS_Interval
    <3>4. i \in a..i /\ (a..i) \ {i} = a..(i - 1) /\ a..i \in SUBSET (1..Len(values))
      BY <3>2
    <3> QED BY <3>3, <3>4 DEF a
  <2>7. Whole(values, U)
    BY <2>6 DEF Whole
  <2>8. Summed(values, U) = values[i] + run[i - 1]
    <3> HIDE DEF U, From, Bad
    <3>1. Summed(values, U) = values[i] + Summed(values, U \ {i})
      BY <2>6, <2>7, SummedTakes
    <3> QED BY <2>4, <2>6, <3>1
  <2>9. values[i] \in Int /\ run[i - 1] \in Int
    <3>1. Whole(values, U \ {i}) /\ IsFiniteSet(U \ {i})
      BY <2>6, <2>7, FS_Subset DEF Whole
    <3>2. Summed(values, U \ {i}) \in Int
      <4> HIDE DEF U
      <4> QED BY <3>1, SummedInteger
    <3>3. values[i] \in Int
      BY <2>6, <2>7 DEF Whole
    <3> HIDE DEF U, From, Bad
    <3>4. run[i - 1] \in Int
      BY <2>4, <2>6, <3>2
    <3> QED BY <3>3, <3>4
  <2>10. CASE i > p
    <3>1. From(i - 1) = i - p /\ From(i) = i - p + 1
      BY <2>3, <2>10
    <3>2. i - p \in U /\ U \ {i - p} = From(i)..i
      BY <2>3, <2>10, <3>1
    <3>3. Summed(values, U) = values[i - p] + Summed(values, U \ {i - p})
      <4> HIDE DEF U
      <4> QED BY <2>6, <2>7, <3>2, SummedTakes
    <3>4. values[i - p] \in Int
      BY <2>7, <3>2 DEF Whole
    <3>5. Summed(values, U \ {i - p}) \in Int
      <4>1. Whole(values, U \ {i - p}) /\ IsFiniteSet(U \ {i - p})
        BY <2>6, <2>7, FS_Subset DEF Whole
      <4> HIDE DEF U
      <4> QED BY <4>1, SummedInteger
    <3>6. run[i] = Summed(values, U \ {i - p})
      <4> DEFINE s == Summed(values, U \ {i - p})
                 gone == values[i - p]
                 new == values[i]
                 old == run[i - 1]
      <4>1. run[i] = old + new - gone
        BY <2>5, <2>10
      <4>2. gone + s = new + old /\ s \in Int /\ gone \in Int /\ new \in Int /\ old \in Int
        BY <2>8, <2>9, <3>3, <3>4, <3>5
      <4>3. old + new - gone = s
        <5> HIDE DEF U, Bad, From, s, gone, new, old
        <5> QED BY <4>2
      <4> QED BY <4>1, <4>3
    <3> QED BY <3>2, <3>6
  <2>11. CASE ~(i > p)
    <3>1. From(i - 1) = 1 /\ From(i) = 1
      BY <2>3, <2>11
    <3>2. run[i] = Summed(values, U)
      <4> HIDE DEF U, Bad
      <4> QED BY <2>5, <2>8, <2>9, <2>11
    <3> QED BY <3>1, <3>2
  <2> QED BY <2>10, <2>11
<1> QED BY <1>1

\* _sma computes the means it is named for.
LEMMA SmaValues ==
  ASSUME NEW values \in Seq(Int), NEW p \in Nat \ {0}
  PROVE  /\ DOMAIN Sma(values, p) = 1..Len(values)
         /\ \A i \in 1..Len(values) :
               Sma(values, p)[i] = IF i < p THEN NoMean
                                   ELSE <<SumBetween(values, i - p + 1, i), p>>
<1> DEFINE Gone(i) == IF i > p THEN values[i - p] ELSE 0
           Step(f) == [i \in 0..Len(values) |-> IF i = 0 THEN 0 ELSE f[i - 1] + values[i] - Gone(i)]
           run == CHOOSE f : f = Step(f)
           G == [x \in Int \X Int |->
                   IF x[1] \in 1..Len(values) THEN x[2] + values[x[1]] - Gone(x[1]) ELSE 0]
<1>1. \E f : f = Step(f)
  <2>1. G \in [Int \X Int -> Int]
    <3>1. ASSUME NEW x \in Int \X Int
          PROVE  (IF x[1] \in 1..Len(values) THEN x[2] + values[x[1]] - Gone(x[1]) ELSE 0) \in Int
      <4>1. CASE x[1] \in 1..Len(values)
        <5>1. values[x[1]] \in Int /\ x[2] \in Int
          BY <4>1
        <5>2. Gone(x[1]) \in Int
          BY <4>1
        <5> HIDE DEF Gone
        <5> QED BY <4>1, <5>1, <5>2
      <4> QED BY <4>1
    <3> QED BY <3>1
  <2>2. 0 \in Int /\ Len(values) \in Int
    OBVIOUS
  <2> HIDE DEF G
  <2>3. PICK f \in [0..Len(values) -> Int] : Runs(f, 0, Len(values), 0, G)
    BY <2>1, <2>2, RunExists
  <2>4. ASSUME NEW i \in 0..Len(values), i # 0
        PROVE  G[<<i, f[i - 1]>>] = f[i - 1] + values[i] - Gone(i)
    <3>1. <<i, f[i - 1]>> \in Int \X Int /\ i \in 1..Len(values)
      BY <2>4
    <3> DEFINE x == <<i, f[i - 1]>>
    <3>2. G[x] = IF x[1] \in 1..Len(values) THEN x[2] + values[x[1]] - Gone(x[1]) ELSE 0
      BY <3>1 DEF G
    <3> HIDE DEF Gone
    <3> QED BY <3>1, <3>2
  <2>5. f = Step(f)
    <3> HIDE DEF Gone
    <3> QED BY <2>3, <2>4 DEF Runs
  <2> QED BY <2>5
<1>2. run = Step(run)
  <2> HIDE DEF Step
  <2> QED BY <1>1
<1>3. Sma(values, p) = [i \in DOMAIN values |-> IF i < p THEN NoMean ELSE <<run[i], p>>]
  BY DEF Sma
<1> HIDE DEF run
<1>4. \A i \in 0..Len(values) : run[i] = Summed(values, (IF i > p THEN i - p + 1 ELSE 1)..i)
  BY <1>2, RunningSum
<1>5. ASSUME NEW i \in 1..Len(values), ~(i < p)
      PROVE  run[i] = SumBetween(values, i - p + 1, i)
  <2>1. (IF i > p THEN i - p + 1 ELSE 1) = i - p + 1
    BY <1>5
  <2>2. run[i] = Summed(values, (i - p + 1)..i)
    BY <1>4, <2>1
  <2> QED BY <2>2, SumBetweenIsSummed
<1>6. DOMAIN values = 1..Len(values)
  OBVIOUS
<1>7. DOMAIN Sma(values, p) = 1..Len(values)
  BY <1>3, <1>6
<1>8. ASSUME NEW i \in 1..Len(values)
      PROVE  Sma(values, p)[i] = IF i < p THEN NoMean ELSE <<SumBetween(values, i - p + 1, i), p>>
  <2>1. Sma(values, p)[i] = IF i < p THEN NoMean ELSE <<run[i], p>>
    BY <1>3, <1>6
  <2>2. CASE i < p
    BY <2>1, <2>2
  <2>3. CASE ~(i < p)
    BY <1>5, <2>1, <2>3
  <2> QED BY <2>2, <2>3
<1> QED BY <1>7, <1>8

\* A slice of the last bars.
LEMMA LastOfShape ==
  ASSUME NEW T, NEW s \in Seq(T), NEW n \in Nat
  PROVE  /\ LastOf(s, n) \in Seq(T)
         /\ Len(LastOf(s, n)) = IF n <= Len(s) THEN n ELSE Len(s)
         /\ \A i \in 1..Len(LastOf(s, n)) : LastOf(s, n)[i] = s[Len(s) - Len(LastOf(s, n)) + i]
<1> DEFINE m == Max({1, Len(s) - n + 1})
<1>1. Len(s) \in Nat
  OBVIOUS
<1>2. m = IF 1 >= Len(s) - n + 1 THEN 1 ELSE Len(s) - n + 1
  BY <1>1, MaxOfTwo
<1>3. LastOf(s, n) = SubSeq(s, m, Len(s))
  BY DEF LastOf
<1>4. m \in 1..(Len(s) + 1) /\ (Len(s) - m) + 1 = IF n <= Len(s) THEN n ELSE Len(s)
  <2> DEFINE k == Len(s)
  <2>1. k \in Nat /\ m = IF 1 >= k - n + 1 THEN 1 ELSE k - n + 1
    BY <1>1, <1>2
  <2> HIDE DEF k, m
  <2>2. CASE n <= k
    <3>1. m = k - n + 1
      BY <2>1, <2>2
    <3> QED BY <2>1, <2>2, <3>1 DEF k
  <2>3. CASE ~(n <= k)
    BY <2>1, <2>3 DEF k
  <2> QED BY <2>2, <2>3
<1> HIDE DEF m
<1>5. /\ SubSeq(s, m, Len(s)) \in Seq(T)
      /\ Len(SubSeq(s, m, Len(s))) = IF m <= Len(s) THEN Len(s) - m + 1 ELSE 0
      /\ \A i \in 1..(Len(s) - m + 1) : SubSeq(s, m, Len(s))[i] = s[m + i - 1]
  <2>1. \A i \in m..Len(s) : s[i] \in T
    BY <1>1, <1>4
  <2>2. m \in Int /\ Len(s) \in Int
    BY <1>1, <1>4
  <2> QED BY <2>1, <2>2, SubSeqProperties
<1> DEFINE l == SubSeq(s, m, Len(s))
<1>6. Len(l) = Len(s) - m + 1
  BY <1>1, <1>4, <1>5
<1>7. \A i \in 1..Len(l) : l[i] = s[Len(s) - Len(l) + i]
  <2>1. \A i \in 1..Len(l) : m + i - 1 = Len(s) - Len(l) + i
    BY <1>1, <1>4, <1>6
  <2> QED BY <1>5, <1>6, <2>1
<1> QED BY <1>3, <1>4, <1>5, <1>6, <1>7

\* _ema has a value from the first p bars on, and none before.
LEMMA EmaValues ==
  ASSUME NEW values \in Seq(Int), NEW p \in Nat \ {0}
  PROVE  /\ DOMAIN Ema(values, p) = 1..Len(values)
         /\ \A i \in 1..Len(values) : (Ema(values, p)[i] = NoMean) <=> (i < p)
<1> DEFINE Mean == Int \X Int
           n == Len(values)
           First == <<SumBetween(values, 1, p), p>>
           Next1(i, e) == <<2 * values[i] * e[2] + (p - 1) * e[1], (p + 1) * e[2]>>
           Step(f) == [i \in p..n |-> IF i = p THEN First ELSE Next1(i, f[i - 1])]
           ema == CHOOSE f : f = Step(f)
<1>1. Ema(values, p) = [i \in DOMAIN values |-> IF i < p THEN NoMean ELSE ema[i]]
  BY DEF Ema
<1>2. DOMAIN values = 1..Len(values) /\ Len(values) \in Nat
  OBVIOUS
<1>3. NoMean \notin Int \X Int
  BY PageConstants
<1>4. ASSUME NEW i \in 1..n, NEW e \in Mean
      PROVE  Next1(i, e) \in Mean
  <2>1. values[i] \in Int /\ e[1] \in Int /\ e[2] \in Int /\ p \in Int
    BY <1>2
  <2> DEFINE x == values[i]
             top == e[1]
             under == e[2]
  <2>2. 2 * x * under \in Int /\ (p - 1) * top \in Int /\ (p + 1) * under \in Int
    <3>1. 2 * x \in Int /\ p - 1 \in Int /\ p + 1 \in Int
      BY <2>1
    <3> HIDE DEF x, top, under
    <3>2. x \in Int /\ top \in Int /\ under \in Int
      BY <2>1 DEF x, top, under
    <3> QED BY <3>1, <3>2, ProductIsInteger
  <2>3. 2 * x * under + (p - 1) * top \in Int
    <3> DEFINE a == 2 * x * under
               b == (p - 1) * top
    <3>1. a \in Int /\ b \in Int
      BY <2>2
    <3> HIDE DEF a, b
    <3>2. a + b \in Int
      BY <3>1
    <3> QED BY <3>2 DEF a, b
  <2> QED BY <2>2, <2>3
<1>5. ASSUME p <= n
      PROVE  \A i \in p..n : ema[i] \in Mean
  <2>1. First \in Mean
    <3>1. IsFiniteSet(1..p)
      BY FS_Interval
    <3>2. Whole(values, 1..p)
      BY <1>2, <1>5 DEF Whole
    <3>3. Summed(values, 1..p) \in Int
      BY <3>1, <3>2, SummedInteger
    <3> QED BY <3>3, SumBetweenIsSummed
  <2> DEFINE G == [x \in Int \X Mean |-> IF x[1] \in 1..n THEN Next1(x[1], x[2]) ELSE First]
  <2>2. G \in [Int \X Mean -> Mean]
    <3> HIDE DEF Next1, First, Mean, n
    <3> QED BY <1>4, <2>1
  <2>3. \E f : f = Step(f)
    <3> HIDE DEF G, First, Mean
    <3>1. p \in Int /\ n \in Int
      BY <1>2
    <3>2. PICK f \in [p..n -> Mean] : Runs(f, p, n, First, G)
      BY <2>1, <2>2, <3>1, RunExists
    <3>3. ASSUME NEW i \in p..n, i # p
          PROVE  G[<<i, f[i - 1]>>] = Next1(i, f[i - 1])
      <4>1. i \in 1..n /\ i \in Int /\ i - 1 \in p..n
        <5> HIDE DEF n
        <5> QED BY <3>1, <3>3
      <4>2. f[i - 1] \in Mean
        <5> HIDE DEF n
        <5> QED BY <3>2, <4>1
      <4> HIDE DEF Next1
      <4> QED BY <4>1, <4>2 DEF G
    <3>4. f = Step(f)
      <4> HIDE DEF Next1
      <4> QED BY <3>2, <3>3 DEF Runs
    <3> QED BY <3>4
  <2>4. ema = Step(ema)
    <3> HIDE DEF Step
    <3> QED BY <2>3
  <2> HIDE DEF ema, G
  <2> DEFINE Bad == {i \in p..n : ema[i] \notin Mean}
  <2>5. ASSUME Bad # {} PROVE FALSE
    <3>1. Bad \in SUBSET Nat
      BY <1>2
    <3>2. PICK i \in Bad : \A j \in Bad : i <= j
      <4> HIDE DEF Bad
      <4> QED BY <2>5, <3>1, LeastNatural
    <3>3. i \in p..n /\ ema[i] \notin Mean
      OBVIOUS
    <3>4. ema[i] = IF i = p THEN First ELSE Next1(i, ema[i - 1])
      <4> HIDE DEF First, Next1
      <4> QED BY <2>4, <3>3
    <3>5. i # p
      BY <2>1, <3>3, <3>4
    <3>6. i - 1 \in p..n /\ i - 1 < i /\ i \in 1..n
      BY <1>2, <3>3, <3>5
    <3>7. ema[i - 1] \in Mean
      <4>1. i - 1 \notin Bad
        <5>1. ~(i <= i - 1)
          BY <3>3
        <5> HIDE DEF Bad
        <5> QED BY <3>2, <5>1
      <4> QED BY <3>6, <4>1
    <3> HIDE DEF Mean, Next1, First
    <3> QED BY <1>4, <3>3, <3>4, <3>5, <3>6, <3>7
  <2> QED BY <2>5
<1>6. ASSUME NEW i \in 1..n
      PROVE  (Ema(values, p)[i] = NoMean) <=> (i < p)
  <2>1. Ema(values, p)[i] = IF i < p THEN NoMean ELSE ema[i]
    <3> HIDE DEF ema
    <3> QED BY <1>1, <1>2
  <2>2. CASE i < p
    BY <2>1, <2>2
  <2>3. CASE ~(i < p)
    <3>1. p <= n /\ i \in p..n
      BY <1>2, <2>3
    <3>2. ema[i] \in Mean
      <4> HIDE DEF ema, Mean
      <4> QED BY <1>5, <3>1
    <3> HIDE DEF ema
    <3> QED BY <1>3, <2>1, <2>3, <3>2
  <2> QED BY <2>2, <2>3
<1> HIDE DEF ema
<1> QED BY <1>1, <1>2, <1>6

\* The last entries of a history.
EndOf(w, bars) ==
    /\ w \in Seq(Int) /\ Len(w) <= Len(bars)
    /\ \A i \in 1..Len(w) : w[i] = bars[Len(bars) - Len(w) + i]

LEMMA HistoryEndsItself ==
  ASSUME NEW bars \in Seq(Int)
  PROVE  EndOf(bars, bars)
<1>1. Len(bars) \in Nat
  OBVIOUS
<1>2. \A i \in 1..Len(bars) : Len(bars) - Len(bars) + i = i
  BY <1>1
<1> QED BY <1>1, <1>2 DEF EndOf

LEMMA SliceEndsHistory ==
  ASSUME NEW bars \in Seq(Int), NEW n \in Nat
  PROVE  EndOf(LastOf(bars, n), bars)
<1>1. Len(bars) \in Nat
  OBVIOUS
<1> QED BY <1>1, LastOfShape DEF EndOf

LEMMA WindowEndsHistory ==
  ASSUME NEW bars \in Seq(Int), NEW request
  PROVE  EndOf(ShownBars(bars, request), bars)
<1>1. DaysShown(request) \in Nat
  BY PageConstants DEF DaysShown
<1>2. CASE DaysShown(request) = 0
  BY <1>2, HistoryEndsItself DEF ShownBars
<1>3. CASE DaysShown(request) # 0
  BY <1>1, <1>3, SliceEndsHistory DEF ShownBars
<1> QED BY <1>2, <1>3

\* The bars an average is taken over reach back far enough for all it shows.
LEMMA EnoughBars ==
  ASSUME NEW bars \in Seq(Int), NEW request,
         NEW p \in (request.sma \cup request.ema) \cap OverlayPeriods
  PROVE  LET window == ShownBars(bars, request)
             calc == CalcBars(bars, request)
         IN  /\ EndOf(calc, bars) /\ Len(window) <= Len(calc)
             /\ Len(calc) = Len(bars) \/ Len(window) + p <= Len(calc)
<1> DEFINE window == ShownBars(bars, request)
           calc == CalcBars(bars, request)
           n == DaysShown(request)
           periods == (request.sma \cup request.ema) \cap OverlayPeriods
           longest == Max({0} \cup periods)
<1>0. /\ OverlayPeriods \in SUBSET Nat /\ IsFiniteSet(OverlayPeriods)
      /\ DetailRanges \in SUBSET Nat /\ DefaultRange \in Nat
  BY PageConstants
<1>1. n \in Nat /\ Len(bars) \in Nat /\ p \in Nat
  <2>1. n \in Nat
    BY <1>0 DEF DaysShown
  <2>2. p \in Nat
    <3>1. p \in OverlayPeriods
      OBVIOUS
    <3> QED BY <1>0, <3>1
  <2>3. Len(bars) \in Nat
    OBVIOUS
  <2> HIDE DEF n
  <2> QED BY <2>1, <2>2, <2>3
<1>2. longest \in Nat /\ p <= longest
  <2>0. periods \in SUBSET OverlayPeriods
    OBVIOUS
  <2>1. {0} \cup periods \in SUBSET Nat
    <3> HIDE DEF periods
    <3> QED BY <1>0, <2>0
  <2>2. IsFiniteSet(periods)
    <3> HIDE DEF periods
    <3> QED BY <1>0, <2>0, FS_Subset
  <2>3. IsFiniteSet({0} \cup periods)
    BY <2>2, FS_Singleton, FS_Union
  <2>4. p \in {0} \cup periods
    OBVIOUS
  <2> HIDE DEF periods
  <2> QED BY <2>1, <2>3, <2>4, MaxOfFinite
<1>3. CASE n = 0
  <2>1. window = bars /\ calc = bars
    BY <1>3 DEF ShownBars, CalcBars
  <2> QED BY <1>1, <2>1, HistoryEndsItself
<1>4. CASE n # 0
  <2>1. window = LastOf(bars, n) /\ calc = LastOf(bars, n + longest)
    BY <1>4 DEF ShownBars, CalcBars
  <2> HIDE DEF window, calc, n, longest, periods
  <2>2. n + longest \in Nat
    BY <1>1, <1>2
  <2>3. Len(window) = IF n <= Len(bars) THEN n ELSE Len(bars)
    BY <1>1, <2>1, LastOfShape
  <2>4. /\ EndOf(calc, bars)
        /\ Len(calc) = IF n + longest <= Len(bars) THEN n + longest ELSE Len(bars)
    BY <2>1, <2>2, LastOfShape, SliceEndsHistory
  <2>5. Len(window) <= Len(calc) /\ (Len(calc) = Len(bars) \/ Len(window) + p <= Len(calc))
    BY <1>1, <1>2, <2>3, <2>4
  <2> QED BY <2>4, <2>5 DEF window, calc
<1> HIDE DEF window, calc, n, longest, periods
<1> QED BY <1>3, <1>4 DEF window, calc

\* What a page shows of an average is its last part.
LEMMA OverlayIsTheEnd ==
  ASSUME NEW T, NEW series \in Seq(T), NEW bars, NEW request,
         Len(ShownBars(bars, request)) \in 0..Len(series),
         NEW i \in 1..Len(ShownBars(bars, request))
  PROVE  Overlay(series, bars, request)[i] = series[Len(series) - Len(ShownBars(bars, request)) + i]
<1> DEFINE k == Len(series)
           n == Len(ShownBars(bars, request))
<1>1. series \in Seq(T) /\ Len(series) = k /\ k \in Nat
  OBVIOUS
<1>2. n \in Nat /\ n <= k
  OBVIOUS
<1>3. Overlay(series, bars, request) = LastOf(series, n)
  BY DEF Overlay
<1>5. i \in 1..n
  OBVIOUS
<1> HIDE DEF k, n
<1>4. LastOf(series, n)[i] = series[k - n + i]
  <2> DEFINE l == LastOf(series, n)
  <2>1. /\ Len(l) = IF n <= Len(series) THEN n ELSE Len(series)
        /\ \A x \in 1..Len(l) : l[x] = series[Len(series) - Len(l) + x]
    BY <1>1, <1>2, LastOfShape
  <2> HIDE DEF l
  <2>2. Len(l) = n
    BY <1>1, <1>2, <2>1
  <2>3. l[i] = series[k - n + i]
    BY <1>1, <1>5, <2>1, <2>2
  <2> QED BY <2>3 DEF l
<1> QED BY <1>3, <1>4 DEF k, n

\* The place of a session in a history and in the end of it an average is taken over.
LEMMA Places ==
  ASSUME NEW b \in Nat, NEW c \in Nat, NEW w \in Nat, NEW p \in Nat \ {0},
         w <= c, c <= b, c = b \/ w + p <= c, NEW i \in 1..w
  PROVE  /\ c - w + i \in 1..c
         /\ (c - w + i < p) <=> (b - w + i < p)
  OBVIOUS

LEMMA OverlayPlaces ==
  ASSUME NEW bars \in Seq(Int), NEW request,
         NEW p \in (request.sma \cup request.ema) \cap OverlayPeriods,
         NEW i \in 1..Len(ShownBars(bars, request)),
         NEW series, series = [k \in DOMAIN CalcBars(bars, request) |-> series[k]]
  PROVE  LET window == ShownBars(bars, request)
             calc == CalcBars(bars, request)
             j == Len(calc) - Len(window) + i
         IN  /\ Len(bars) \in Nat /\ Len(calc) \in Nat /\ Len(window) \in Nat
             /\ EndOf(calc, bars) /\ j \in 1..Len(calc) /\ p \in Nat \ {0}
             /\ (j < p) <=> (Len(bars) - Len(window) + i < p)
             /\ Overlay(series, bars, request)[i] = series[j]
<1> DEFINE window == ShownBars(bars, request)
           calc == CalcBars(bars, request)
           b == Len(bars)
           c == Len(calc)
           w == Len(window)
           at == b - w + i
           j == c - w + i
<1>1. p \in Nat \ {0}
  <2>1. p \in OverlayPeriods
    OBVIOUS
  <2>2. OverlayPeriods \in SUBSET (Nat \ {0})
    BY PageConstants
  <2> QED BY <2>1, <2>2
<1>2. /\ EndOf(calc, bars) /\ w <= c
      /\ c = b \/ w + p <= c
  BY EnoughBars
<1>3. calc \in Seq(Int) /\ c \in Nat /\ c <= b /\ b \in Nat /\ w \in Nat
  <2>1. EndOf(window, bars)
    BY WindowEndsHistory
  <2>2. window \in Seq(Int) /\ calc \in Seq(Int)
    BY <1>2, <2>1 DEF EndOf
  <2> HIDE DEF window, calc
  <2>3. Len(window) \in Nat /\ Len(calc) \in Nat /\ Len(bars) \in Nat
    BY <2>2
  <2> QED BY <1>2, <2>2, <2>3 DEF EndOf
<1> DEFINE T == {series[k] : k \in 1..c}
<1>4. series \in Seq(T) /\ Len(series) = c
  <2>1. DOMAIN calc = 1..c
    <3> HIDE DEF calc
    <3> QED BY <1>3
  <2>2. series = [k \in DOMAIN calc |-> series[k]]
    OBVIOUS
  <2> HIDE DEF calc, c
  <2>3. series \in [1..c -> T]
    BY <2>1, <2>2
  <2> HIDE DEF T
  <2> QED BY <1>3, <2>3
<1>5. Overlay(series, bars, request)[i] = series[j]
  <2>1. w \in 0..c
    BY <1>2, <1>3
  <2>2. Len(ShownBars(bars, request)) \in 0..Len(series)
    <3> HIDE DEF calc, c
    <3> QED BY <1>4, <2>1
  <2> HIDE DEF calc, c, T
  <2>3. Overlay(series, bars, request)[i] = series[Len(series) - Len(ShownBars(bars, request)) + i]
    BY <1>4, <2>2, OverlayIsTheEnd
  <2> QED BY <1>4, <2>3
<1>6. j \in 1..c /\ ((j < p) <=> (at < p))
  <2>1. i \in 1..w
    OBVIOUS
  <2> HIDE DEF b, c, w
  <2> QED BY <1>1, <1>2, <1>3, <2>1, Places
<1> HIDE DEF window, calc, b, c, w, at, j
<1> QED BY <1>1, <1>2, <1>3, <1>5, <1>6 DEF window, calc, b, c, w, at, j

LEMMA SmaOverlay ==
  ASSUME NEW bars \in Seq(Int), NEW request, NEW p \in request.sma \cap OverlayPeriods,
         NEW i \in 1..Len(ShownBars(bars, request))
  PROVE  LET at == Len(bars) - Len(ShownBars(bars, request)) + i
         IN  Overlay(Sma(CalcBars(bars, request), p), bars, request)[i] =
                IF at < p THEN NoMean ELSE <<SumBetween(bars, at - p + 1, at), p>>
<1> DEFINE calc == CalcBars(bars, request)
           series == Sma(calc, p)
           b == Len(bars)
           c == Len(calc)
           w == Len(ShownBars(bars, request))
           at == b - w + i
           j == c - w + i
<1>1. p \in (request.sma \cup request.ema) \cap OverlayPeriods
  OBVIOUS
<1>2. series = [k \in DOMAIN CalcBars(bars, request) |-> series[k]]
  BY DEF Sma
<1>3. /\ b \in Nat /\ c \in Nat /\ w \in Nat /\ EndOf(calc, bars) /\ j \in 1..c /\ p \in Nat \ {0}
      /\ (j < p) <=> (at < p)
      /\ Overlay(series, bars, request)[i] = series[j]
  <2> HIDE DEF series
  <2> QED BY <1>1, <1>2, OverlayPlaces
<1>4. calc \in Seq(Int) /\ \A k \in 1..c : calc[k] = bars[b - c + k]
  <2> HIDE DEF calc
  <2> QED BY <1>3 DEF EndOf
<1>5. \A k \in 1..c :
            series[k] = IF k < p THEN NoMean ELSE <<SumBetween(calc, k - p + 1, k), p>>
  <2> HIDE DEF calc
  <2> QED BY <1>3, <1>4, SmaValues
<1>6. ASSUME ~(j < p)
      PROVE  SumBetween(calc, j - p + 1, j) = SumBetween(bars, at - p + 1, at)
  <2> DEFINE a == j - p + 1
             o == b - c
  <2>0. i \in Nat
    OBVIOUS
  <2> HIDE DEF b, c, w, calc
  <2>1. a \in Int /\ o \in Int /\ p \in Nat /\ a >= 1 /\ a + p - 1 = j
    BY <1>3, <1>6, <2>0
  <2>2. a + o = at - p + 1 /\ a + o + p - 1 = at
    BY <1>3, <2>0
  <2> HIDE DEF a, o, j, at
  <2>3. a..(a + p - 1) \in SUBSET (1..c)
    BY <1>3, <2>1
  <2>4. Whole(calc, a..(a + p - 1))
    BY <1>4, <2>3 DEF Whole, c
  <2>5. \A k \in a..(a + p - 1) : calc[k] = bars[k + o]
    <3> TAKE k \in a..(a + p - 1)
    <3>1. b - c + k = k + o
      BY <1>3, <2>1 DEF o
    <3> QED BY <1>4, <2>3, <3>1
  <2>6. Whole(calc, a..j) /\ Shifted(calc, bars, a..j, o) /\ a \in Int /\ j \in Int /\ o \in Int /\ j >= a
    BY <1>3, <2>1, <2>4, <2>5 DEF Shifted
  <2>7. Summed(calc, a..j) = Summed(bars, (at - p + 1)..at)
    <3>1. Summed(calc, a..j) = Summed(bars, (a + o)..(j + o))
      BY <2>6, SummedShift
    <3>2. a + o = at - p + 1 /\ j + o = at
      BY <2>1, <2>2
    <3> QED BY <3>1, <3>2
  <2> QED BY <2>7, SumBetweenIsSummed DEF a
<1> HIDE DEF calc, series, b, c, w, at, j
<1>7. Overlay(series, bars, request)[i] =
         IF at < p THEN NoMean ELSE <<SumBetween(bars, at - p + 1, at), p>>
  BY <1>3, <1>5, <1>6
<1> QED BY <1>7 DEF calc, series, b, w, at

LEMMA EmaOverlay ==
  ASSUME NEW bars \in Seq(Int), NEW request, NEW p \in request.ema \cap OverlayPeriods,
         NEW i \in 1..Len(ShownBars(bars, request))
  PROVE  (Overlay(Ema(CalcBars(bars, request), p), bars, request)[i] = NoMean)
            <=> (Len(bars) - Len(ShownBars(bars, request)) + i < p)
<1> DEFINE calc == CalcBars(bars, request)
           series == Ema(calc, p)
           j == Len(calc) - Len(ShownBars(bars, request)) + i
<1>1. p \in (request.sma \cup request.ema) \cap OverlayPeriods
  OBVIOUS
<1>2. series = [k \in DOMAIN CalcBars(bars, request) |-> series[k]]
  BY DEF Ema
<1>3. /\ EndOf(calc, bars) /\ j \in 1..Len(calc) /\ p \in Nat \ {0}
      /\ (j < p) <=> (Len(bars) - Len(ShownBars(bars, request)) + i < p)
      /\ Overlay(series, bars, request)[i] = series[j]
  <2> HIDE DEF series
  <2> QED BY <1>1, <1>2, OverlayPlaces
<1>4. (series[j] = NoMean) <=> (j < p)
  <2>1. calc \in Seq(Int)
    BY <1>3 DEF EndOf
  <2> HIDE DEF calc, j
  <2> QED BY <1>3, <2>1, EmaValues
<1> HIDE DEF calc, j
<1> QED BY <1>3, <1>4 DEF calc

-----------------------------------------------------------------------------
(* The page of a symbol.                                                   *)

SmaShown(page) ==
    \A p \in DOMAIN page.sma : \A i \in 1..Len(page.window) :
       LET at == Len(page.bars) - Len(page.window) + i
       IN  page.sma[p][i] =
              IF at < p THEN NoMean ELSE <<SumBetween(page.bars, at - p + 1, at), p>>
EmaShown(page) ==
    \A p \in DOMAIN page.ema : \A i \in 1..Len(page.window) :
       (page.ema[p][i] = NoMean) <=> (Len(page.bars) - Len(page.window) + i < p)

Drawn(page) ==
    /\ page.bars \in Seq(Int) /\ EndOf(page.window, page.bars)
    /\ SmaShown(page) /\ EmaShown(page)

\* The panel compares the bars of the second query with the last close shown.
PanelOf(later, window) ==
    [target |-> Len(later) + 1, delta |-> later[Len(later)] - window[Len(window)]]

PageFollows(bars, page) ==
    /\ bars \in Seq(Int)
    /\ page.pc \in {"closed", "none", "panel", "done"}
    /\ page.pc = "panel" => Drawn(page) /\ Len(page.bars) <= Len(bars)
    /\ page.pc = "done" =>
          /\ Drawn(page.page) /\ page.later \in Seq(Int)
          /\ Len(page.page.bars) <= Len(page.later)
          /\ \/ page.panel = NoPanel
             \/ /\ page.page.window # <<>>
                /\ page.panel = PanelOf(page.later, page.page.window)

PageInv == PageFollows(spBars, spPage)

LEMMA ChartIsDrawn ==
  ASSUME NEW bars \in Seq(Int), NEW request, NEW page,
         page = [ pc |-> "panel", request |-> request, bars |-> bars,
                  window |-> ShownBars(bars, request),
                  sma |-> [p \in request.sma \cap OverlayPeriods |->
                              Overlay(Sma(CalcBars(bars, request), p), bars, request)],
                  ema |-> [p \in request.ema \cap OverlayPeriods |->
                              Overlay(Ema(CalcBars(bars, request), p), bars, request)] ]
  PROVE  Drawn(page)
<1>1. /\ page.bars = bars /\ page.window = ShownBars(bars, request)
      /\ DOMAIN page.sma = request.sma \cap OverlayPeriods
      /\ DOMAIN page.ema = request.ema \cap OverlayPeriods
      /\ \A p \in request.sma \cap OverlayPeriods :
            page.sma[p] = Overlay(Sma(CalcBars(bars, request), p), bars, request)
      /\ \A p \in request.ema \cap OverlayPeriods :
            page.ema[p] = Overlay(Ema(CalcBars(bars, request), p), bars, request)
  OBVIOUS
<1>2. EndOf(page.window, page.bars)
  BY <1>1, WindowEndsHistory
<1>3. SmaShown(page)
  <2> SUFFICES ASSUME NEW p \in DOMAIN page.sma, NEW i \in 1..Len(page.window)
               PROVE  LET at == Len(page.bars) - Len(page.window) + i
                      IN  page.sma[p][i] =
                             IF at < p THEN NoMean ELSE <<SumBetween(page.bars, at - p + 1, at), p>>
    BY DEF SmaShown
  <2>1. p \in request.sma \cap OverlayPeriods /\ i \in 1..Len(ShownBars(bars, request))
    BY <1>1
  <2>2. LET at == Len(bars) - Len(ShownBars(bars, request)) + i
        IN  Overlay(Sma(CalcBars(bars, request), p), bars, request)[i] =
               IF at < p THEN NoMean ELSE <<SumBetween(bars, at - p + 1, at), p>>
    BY <2>1, SmaOverlay
  <2>3. page.sma[p] = Overlay(Sma(CalcBars(bars, request), p), bars, request)
    BY <1>1, <2>1
  <2> QED BY <1>1, <2>2, <2>3
<1>4. EmaShown(page)
  <2> SUFFICES ASSUME NEW p \in DOMAIN page.ema, NEW i \in 1..Len(page.window)
               PROVE  (page.ema[p][i] = NoMean) <=> (Len(page.bars) - Len(page.window) + i < p)
    BY DEF EmaShown
  <2>1. p \in request.ema \cap OverlayPeriods /\ i \in 1..Len(ShownBars(bars, request))
    BY <1>1
  <2>2. (Overlay(Ema(CalcBars(bars, request), p), bars, request)[i] = NoMean)
           <=> (Len(bars) - Len(ShownBars(bars, request)) + i < p)
    BY <2>1, EmaOverlay
  <2>3. page.ema[p] = Overlay(Ema(CalcBars(bars, request), p), bars, request)
    BY <1>1, <2>1
  <2> QED BY <1>1, <2>2, <2>3
<1> QED BY <1>1, <1>2, <1>3, <1>4 DEF Drawn

LEMMA PageInvInit == LabInit => PageInv
<1> SUFFICES ASSUME LabInit PROVE PageInv
  OBVIOUS
<1>1. CASE PageIdle
  <2>1. <<>> \in Seq(Int)
    OBVIOUS
  <2> QED BY <1>1, <2>1 DEF PageIdle, PageInv, PageFollows
<1>2. CASE PageInit
  <2>1. PICK n \in 0..MaxBars : spBars \in [1..n -> ChartCloses]
    BY <1>2 DEF PageInit
  <2>2. ChartCloses \in SUBSET Int /\ n \in Nat
    BY PageConstants
  <2>3. spBars \in [1..n -> Int]
    BY <2>1, <2>2
  <2>4. spBars \in Seq(Int)
    BY <2>2, <2>3
  <2> QED BY <1>2, <2>4 DEF PageInit, PageInv, PageFollows
<1> QED BY <1>1, <1>2 DEF LabInit, SiteIdle

LEMMA PageInvNext == PageInv /\ [LabNext]_labVars => PageInv'
<1> SUFFICES ASSUME PageFollows(spBars, spPage), [LabNext]_labVars
             PROVE  PageFollows(spBars', spPage')
  BY DEF PageInv
<1>1. CASE UNCHANGED <<spBars, spPage>>
  BY <1>1
<1>2. CASE DrawChart
  <2>1. PICK request \in PageRequests :
           spPage' = [ pc |-> "panel", request |-> request, bars |-> spBars,
                       window |-> ShownBars(spBars, request),
                       sma |-> [p \in request.sma \cap OverlayPeriods |->
                                   Overlay(Sma(CalcBars(spBars, request), p), spBars, request)],
                       ema |-> [p \in request.ema \cap OverlayPeriods |->
                                   Overlay(Ema(CalcBars(spBars, request), p), spBars, request)] ]
    BY <1>2 DEF DrawChart
  <2>2. Drawn(spPage')
    BY <2>1, ChartIsDrawn DEF PageFollows
  <2>3. spPage'.pc = "panel" /\ spPage'.bars = spBars /\ spBars' = spBars
    BY <1>2, <2>1 DEF DrawChart
  <2>4. spBars \in Seq(Int) /\ Len(spBars) \in Nat
    BY DEF PageFollows
  <2> QED BY <2>2, <2>3, <2>4 DEF PageFollows
<1>3. CASE FillPanel
  <2> DEFINE shown == spPage.window
             panel == [ target |-> Len(spBars) + 1, delta |-> spBars[Len(spBars)] - shown[Len(shown)] ]
  <2>1. PICK filled \in {NoPanel} \cup (IF shown = <<>> THEN {} ELSE {panel}) :
           spPage' = [pc |-> "done", page |-> spPage, panel |-> filled, later |-> spBars]
    BY <1>3 DEF FillPanel
  <2>2. spPage.pc = "panel" /\ spBars' = spBars
    BY <1>3 DEF FillPanel
  <2>3. /\ spPage'.pc = "done" /\ spPage'.page = spPage /\ spPage'.later = spBars
        /\ spPage'.panel = filled
    BY <2>1
  <2>4. filled = NoPanel \/ (shown # <<>> /\ filled = PanelOf(spBars, shown))
    BY <2>1 DEF PanelOf
  <2>5. Drawn(spPage) /\ Len(spPage.bars) <= Len(spBars) /\ spBars \in Seq(Int)
    BY <2>2 DEF PageFollows
  <2> QED BY <2>2, <2>3, <2>4, <2>5 DEF PageFollows
<1>4. CASE SyncSession
  <2>1. spPage' = spPage
    BY <1>4 DEF SyncSession
  <2>2. spBars' \in Seq(Int) /\ Len(spBars) <= Len(spBars')
    <3>1. PICK c \in ChartCloses :
             \/ spBars' = Append(spBars, c)
             \/ \E i \in DOMAIN spBars : spBars' = [spBars EXCEPT ![i] = c]
      BY <1>4 DEF SyncSession
    <3>2. c \in Int
      BY PageConstants
    <3>3. spBars \in Seq(Int)
      BY DEF PageFollows
    <3>4. CASE spBars' = Append(spBars, c)
      BY <3>2, <3>3, <3>4
    <3>5. CASE \E i \in DOMAIN spBars : spBars' = [spBars EXCEPT ![i] = c]
      <4>1. PICK i \in DOMAIN spBars : spBars' = [spBars EXCEPT ![i] = c]
        BY <3>5
      <4>2. i \in 1..Len(spBars)
        BY <3>3
      <4>3. Len(spBars') = Len(spBars) /\ spBars' \in Seq(Int)
        BY <3>2, <3>3, <4>1, <4>2, ExceptSeq
      <4> QED BY <3>3, <4>3
    <3> QED BY <3>1, <3>4, <3>5
  <2>3. spPage.pc = "panel" => Len(spPage.bars) <= Len(spBars')
    <3>1. spPage.pc = "panel" =>
             /\ Len(spPage.bars) \in Nat /\ Len(spBars) \in Nat /\ Len(spBars') \in Nat
             /\ Len(spPage.bars) <= Len(spBars)
      BY <2>2 DEF PageFollows, Drawn
    <3> QED BY <2>2, <3>1
  <2> QED BY <2>1, <2>2, <2>3 DEF PageFollows
<1> QED BY <1>1, <1>2, <1>3, <1>4 DEF LabNext, labVars, siteVars, spVars, PageNext

(* The page of a symbol: a moving average shows a value exactly where      *)
(* enough sessions precede it, a simple one the mean of them; the forecast *)
(* is for a session the chart does not show, and shows no change unless a  *)
(* sync came between the two queries of the view.                          *)
THEOREM PagesAreTrue == LabSpec => []PageIsTrue
<1>1. PageInv => PageIsTrue
  <2> SUFFICES ASSUME PageInv, spPage.pc = "done" PROVE PageIsTrue
    BY DEF PageIsTrue
  <2> DEFINE page == spPage.page
             bars == page.bars
             window == page.window
             first == Len(bars) - Len(window)
  <2>1. /\ Drawn(page) /\ spPage.later \in Seq(Int) /\ Len(bars) <= Len(spPage.later)
        /\ spPage.panel = NoPanel \/ (window # <<>> /\ spPage.panel = PanelOf(spPage.later, window))
    BY DEF PageInv, PageFollows
  <2>2. /\ bars \in Seq(Int) /\ window \in Seq(Int) /\ Len(window) <= Len(bars)
        /\ \A i \in 1..Len(window) : window[i] = bars[Len(bars) - Len(window) + i]
    BY <2>1 DEF Drawn, EndOf
  <2>3. DOMAIN window = 1..Len(window)
    <3> HIDE DEF window
    <3> QED BY <2>2
  <2>4. \A p \in DOMAIN page.sma : \A i \in DOMAIN window :
           page.sma[p][i] = IF first + i < p THEN NoMean
                            ELSE <<SumBetween(bars, (first + i) - p + 1, first + i), p>>
    <3> SUFFICES ASSUME NEW p \in DOMAIN page.sma, NEW i \in DOMAIN window
                 PROVE  page.sma[p][i] = IF first + i < p THEN NoMean
                                         ELSE <<SumBetween(bars, (first + i) - p + 1, first + i), p>>
      OBVIOUS
    <3>1. SmaShown(page) /\ i \in 1..Len(window)
      BY <2>1, <2>3 DEF Drawn
    <3> HIDE DEF page
    <3> QED BY <3>1 DEF SmaShown
  <2>5. \A p \in DOMAIN page.ema : \A i \in DOMAIN window :
           (page.ema[p][i] = NoMean) <=> (first + i < p)
    BY <2>1, <2>3 DEF Drawn, EmaShown
  <2>6. ASSUME spPage.panel # NoPanel
        PROVE  /\ spPage.panel.target > Len(bars)
               /\ spPage.later = bars => spPage.panel.delta = 0
    <3> DEFINE later == spPage.later
               w == Len(window)
               b == Len(bars)
    <3>1. /\ window # <<>> /\ spPage.panel.target = Len(later) + 1
          /\ spPage.panel.delta = later[Len(later)] - window[w]
      BY <2>1, <2>6 DEF PanelOf
    <3> HIDE DEF later, window, bars
    <3>2. w \in 1..Len(window) /\ w \in Nat /\ b \in Nat /\ Len(later) \in Nat
      BY <2>1, <2>2, <3>1 DEF later
    <3>3. window[w] = bars[b] /\ window[w] \in Int
      <4>1. b - w + w = b
        BY <3>2
      <4>2. window[w] = bars[b - w + w] /\ window[w] \in Int
        BY <2>2, <3>2
      <4> QED BY <4>1, <4>2
    <3>4. spPage.panel.target > Len(bars)
      BY <2>1, <3>1, <3>2 DEF later
    <3>5. later = bars => spPage.panel.delta = 0
      <4> DEFINE x == window[w]
      <4>1. later = bars => spPage.panel.delta = x - x
        BY <3>1, <3>3
      <4>2. x \in Int
        BY <3>3
      <4> HIDE DEF x
      <4> QED BY <4>1, <4>2
    <3> QED BY <3>4, <3>5 DEF later
  <2> QED BY <2>4, <2>5, <2>6 DEF PageIsTrue
<1>2. LabInit /\ [][LabNext]_labVars => []PageInv
  BY PageInvInit, PageInvNext, PTL
<1> QED BY <1>1, <1>2, PTL DEF LabSpec

-----------------------------------------------------------------------------
(* The weekday suite.                                                      *)

Skill == Skills \cup {NoSkill}
SuiteRow == [trained : BOOLEAN, skill : Skill]

\* Rows sorted by skill: each row once, none before one with more skill.
LEMMA SortedBySkill ==
  ASSUME NEW n \in Nat, NEW rows, DOMAIN rows = 1..n, \A i \in 1..n : rows[i].skill \in Skill
  PROVE  \E p : /\ Sorted(rows, SkillBefore) = [k \in 1..n |-> rows[p[k]]]
                /\ \A k \in 1..n : p[k] \in 1..n
                /\ \A i \in 1..n : \E k \in 1..n : p[k] = i
                /\ \A k \in 1..n, m \in 1..n : k < m => ~SkillBefore(rows[p[m]], rows[p[k]])
<1> DEFINE Goes(j, i) == SkillBefore(rows[j], rows[i]) \/ (~SkillBefore(rows[i], rows[j]) /\ j < i)
           R == {x \in (1..n) \X (1..n) : Goes(x[1], x[2])}
           p == [k \in 1..n |-> ElementAt(R, n, k)]
<1>1. \A i, j \in 1..n : <<j, i>> \in R <=> Goes(j, i)
  OBVIOUS
<1>2. \A i \in 1..n : rows[i].skill = NoSkill \/ rows[i].skill \in Int
  BY SuiteConstants DEF Skill
<1>3. OrdersAll(R, n)
  <2>1. \A i \in 1..n : ~Goes(i, i)
    BY <1>2 DEF SkillBefore
  <2>2. \A i, j, k \in 1..n : Goes(i, j) /\ Goes(j, k) => Goes(i, k)
    BY <1>2 DEF SkillBefore
  <2>3. \A i, j \in 1..n : i # j => Goes(i, j) \/ Goes(j, i)
    BY <1>2 DEF SkillBefore
  <2> HIDE DEF R, Goes
  <2> QED BY <1>1, <2>1, <2>2, <2>3 DEF OrdersAll
<1>4. Sorted(rows, SkillBefore) = [k \in 1..n |-> rows[p[k]]]
  <2> DEFINE Before(i) == {j \in DOMAIN rows : SkillBefore(rows[j], rows[i])
                                 \/ (~SkillBefore(rows[i], rows[j]) /\ j < i)}
             Nth(k) == CHOOSE i \in DOMAIN rows : Cardinality(Before(i)) = k - 1
  <2>1. Sorted(rows, SkillBefore) = [k \in DOMAIN rows |-> rows[Nth(k)]]
    BY DEF Sorted
  <2>2. \A i \in 1..n : Before(i) = AheadOf(R, n, i)
    <3> TAKE i \in 1..n
    <3>1. Before(i) = {j \in 1..n : Goes(j, i)}
      OBVIOUS
    <3>2. AheadOf(R, n, i) = {j \in 1..n : <<j, i>> \in R}
      BY DEF AheadOf
    <3> HIDE DEF Before, R, Goes
    <3> QED BY <1>1, <3>1, <3>2
  <2> HIDE DEF Before, R
  <2>3. \A k \in 1..n : Nth(k) = ElementAt(R, n, k)
    BY <2>2 DEF ElementAt
  <2>4. \A k \in 1..n : Nth(k) = p[k]
    BY <2>3
  <2> HIDE DEF Nth, p
  <2> QED BY <2>1, <2>4
<1>5. /\ \A k \in 1..n : p[k] \in 1..n
      /\ \A i \in 1..n : \E k \in 1..n : p[k] = i
      /\ \A k \in 1..n, m \in 1..n : k < m => <<p[k], p[m]>> \in R
  <2> HIDE DEF R
  <2> QED BY <1>3, EveryPlace
<1>6. \A k \in 1..n, m \in 1..n : k < m => ~SkillBefore(rows[p[m]], rows[p[k]])
  <2> TAKE k \in 1..n, m \in 1..n
  <2> HAVE k < m
  <2>1. p[k] \in 1..n /\ p[m] \in 1..n /\ <<p[k], p[m]>> \in R
    BY <1>5
  <2> DEFINE a == p[k]
             b == p[m]
  <2>2. a \in 1..n /\ b \in 1..n /\ Goes(a, b)
    BY <1>1, <2>1
  <2> HIDE DEF a, b, p
  <2>3. ~SkillBefore(rows[b], rows[a])
    BY <1>2, <2>2 DEF SkillBefore
  <2> QED BY <2>3 DEF a, b
<1> HIDE DEF p
<1> QED BY <1>4, <1>5, <1>6

\* The model of a key was trained by an earlier call, or by one of the first n runs of this one.
TrainedBy(call, runs, n, key) ==
    \/ key \in DOMAIN call.rows /\ call.rows[key].trained
    \/ \E k \in 1..n : runs[k].key = key /\ runs[k].status = "success"

SuiteKeys(result) == {result[i].key : i \in DOMAIN result}
SuiteState(call, todo, models, result, errors, runs) ==
    LET K == Range(call.keys)
    IN  /\ call \in SuiteInputs
        /\ todo \in Seq(K) /\ result \in Seq([key : K, row : SuiteRow])
        /\ runs \in Seq([key : K, status : {"success", "failed"}]) /\ Len(runs) = Len(result)
        /\ K = Range(todo) \cup SuiteKeys(result) \cup errors
        /\ \A i \in DOMAIN result :
              /\ runs[i].key = result[i].key
              /\ result[i].row.trained <=> TrainedBy(call, runs, i, runs[i].key)
        /\ \A key \in DOMAIN models : models[key] \in SuiteRow
        /\ \A key \in K :
              (key \in DOMAIN models /\ models[key].trained) <=> TrainedBy(call, runs, Len(runs), key)

Reported(call, result, errors, runs, report) ==
    /\ Range(call.keys) = SuiteKeys(result) \cup errors
    /\ Len(report) = Len(result)
    /\ {report[i].model : i \in DOMAIN report} = DOMAIN result
    /\ \A i, j \in DOMAIN report : i < j =>
          /\ report[i].skill = NoSkill => report[j].skill = NoSkill
          /\ report[j].skill # NoSkill => report[i].skill >= report[j].skill
    /\ \A i \in DOMAIN report :
          report[i].status = "failed" <=> ~TrainedBy(call, runs, report[i].model, runs[report[i].model].key)

SuiteStateInv == SuiteState(ws, wsTodo, wsModels, wsResult, wsErrors, wsRuns)
ReportedInv == Reported(ws, wsResult, wsErrors, wsRuns, wsReport)
SuiteInv ==
    /\ wsPc \in {"pick", "train"} => SuiteStateInv
    /\ wsPc = "train" => HasInstrument
    /\ wsPc = "done" /\ HasInstrument => SuiteStateInv /\ ReportedInv

LEMMA SuiteTypes ==
  ASSUME NEW call \in SuiteInputs
  PROVE  /\ call.keys \in Seq(Range(call.keys))
         /\ \A key \in DOMAIN call.rows : call.rows[key] \in SuiteRow
  BY SuiteConstants DEF SuiteRow, Skill

\* The next key and those after it.
LEMMA NextOfAll ==
  ASSUME NEW K, NEW todo \in Seq(K), todo # <<>>
  PROVE  Head(todo) \in K /\ Tail(todo) \in Seq(K) /\ Range(todo) = {Head(todo)} \cup Range(Tail(todo))
<1>1. Head(todo) \in K /\ Tail(todo) \in Seq(K) /\ Len(todo) \in Nat \ {0}
      /\ Len(Tail(todo)) = Len(todo) - 1 /\ \A i \in 1..(Len(todo) - 1) : Tail(todo)[i] = todo[i + 1]
  BY HeadTailProperties, LenProperties
<1>2. Head(todo) = todo[1] /\ DOMAIN todo = 1..Len(todo) /\ DOMAIN Tail(todo) = 1..(Len(todo) - 1)
  BY <1>1, LenProperties
<1>3. Range(Tail(todo)) \subseteq Range(todo) /\ Head(todo) \in Range(todo)
  BY <1>1, <1>2 DEF Range
<1>4. ASSUME NEW i \in DOMAIN todo
      PROVE  todo[i] \in {Head(todo)} \cup Range(Tail(todo))
  <2>1. CASE i = 1
    BY <1>2, <2>1
  <2>2. CASE i # 1
    <3>1. i - 1 \in DOMAIN Tail(todo) /\ Tail(todo)[i - 1] = todo[i]
      BY <1>1, <1>2, <2>2
    <3> QED BY <3>1 DEF Range
  <2> QED BY <2>1, <2>2
<1> QED BY <1>1, <1>3, <1>4 DEF Range

LEMMA SuiteStarts == LabInit => SuiteInv
<1> SUFFICES ASSUME LabInit PROVE SuiteInv
  OBVIOUS
<1>1. SuiteIdle \/ SuiteInit
  BY DEF LabInit, DataIdle
<1>2. CASE SuiteIdle
  BY <1>2 DEF SuiteIdle, SuiteInv
<1>3. CASE SuiteInit
  <2>1. /\ ws \in SuiteInputs /\ wsTodo = ws.keys /\ wsModels = ws.rows
        /\ wsResult = <<>> /\ wsErrors = {} /\ wsRuns = <<>> /\ wsPc = "pick"
    BY <1>3 DEF SuiteInit
  <2>2. ws.keys \in Seq(Range(ws.keys)) /\ \A key \in DOMAIN ws.rows : ws.rows[key] \in SuiteRow
    BY <2>1, SuiteTypes
  <2>3. Len(<<>>) = 0 /\ DOMAIN <<>> = {} /\ SuiteKeys(<<>>) = {} /\ \A S : <<>> \in Seq(S)
    BY EmptySeq DEF SuiteKeys
  <2>4. \A key : TrainedBy(ws, <<>>, 0, key) <=> key \in DOMAIN ws.rows /\ ws.rows[key].trained
    BY DEF TrainedBy
  <2>5. SuiteStateInv
    BY <2>1, <2>2, <2>3, <2>4 DEF SuiteStateInv, SuiteState
  <2> QED BY <2>1, <2>5 DEF SuiteInv
<1> QED BY <1>1, <1>2, <1>3

LEMMA PickInstrumentKeeps == SuiteInv /\ PickInstrument => SuiteInv'
<1> SUFFICES ASSUME SuiteInv, PickInstrument PROVE SuiteInv'
  OBVIOUS
<1>1. /\ wsPc = "pick" /\ wsPc' = IF HasInstrument THEN "train" ELSE "done"
      /\ UNCHANGED <<ws, wsTodo, wsModels, wsResult, wsErrors, wsRuns, wsReport>>
  BY DEF PickInstrument
<1>2. SuiteStateInv /\ SuiteStateInv'
  BY <1>1 DEF SuiteInv, SuiteStateInv
<1>3. HasInstrument' <=> HasInstrument
  BY <1>1 DEF HasInstrument
<1> QED BY <1>1, <1>2, <1>3 DEF SuiteInv

\* What get_or_create finds is typed, and trained if a run of its key was a success.
LEMMA FoundRow ==
  ASSUME SuiteStateInv, NEW key \in Range(ws.keys)
  PROVE  /\ RowOf(key) \in SuiteRow
         /\ RowOf(key).trained <=> TrainedBy(ws, wsRuns, Len(wsRuns), key)
<1>1. Untrained \in SuiteRow /\ ~Untrained.trained
  BY DEF Untrained, SuiteRow, Skill
<1> QED BY <1>1 DEF SuiteStateInv, SuiteState, RowOf

LEMMA RefuseKeyKeeps == SuiteInv /\ RefuseKey => SuiteInv'
<1> SUFFICES ASSUME SuiteInv, RefuseKey PROVE SuiteInv'
  OBVIOUS
<1> DEFINE K == Range(ws.keys)
           key == Head(wsTodo)
<1>1. /\ wsPc = "train" /\ wsTodo # <<>> /\ wsTodo' = Tail(wsTodo)
      /\ wsErrors' = wsErrors \cup {key}
      /\ wsModels' = IF key \in Registered THEN Saved(key, RowOf(key)) ELSE wsModels
      /\ UNCHANGED <<ws, wsResult, wsRuns, wsReport, wsPc>>
  BY DEF RefuseKey, NextKey
<1>2. SuiteStateInv /\ HasInstrument
  BY <1>1 DEF SuiteInv
<1>3. wsTodo \in Seq(K)
  BY <1>2 DEF SuiteStateInv, SuiteState
<1>4. key \in K /\ Tail(wsTodo) \in Seq(K) /\ Range(wsTodo) = {key} \cup Range(Tail(wsTodo))
  BY <1>1, <1>3, NextOfAll
<1>5. RowOf(key) \in SuiteRow /\ (RowOf(key).trained <=> TrainedBy(ws, wsRuns, Len(wsRuns), key))
  BY <1>2, <1>4, FoundRow
<1>6. /\ \A k \in DOMAIN wsModels' : wsModels'[k] \in SuiteRow
      /\ \A k \in K : (k \in DOMAIN wsModels' /\ wsModels'[k].trained)
                         <=> TrainedBy(ws, wsRuns, Len(wsRuns), k)
  <2>1. /\ \A k \in DOMAIN wsModels : wsModels[k] \in SuiteRow
        /\ \A k \in K : (k \in DOMAIN wsModels /\ wsModels[k].trained)
                           <=> TrainedBy(ws, wsRuns, Len(wsRuns), k)
    BY <1>2 DEF SuiteStateInv, SuiteState
  <2>2. CASE wsModels' = wsModels
    BY <2>1, <2>2
  <2>3. CASE wsModels' = Saved(key, RowOf(key))
    <3>1. DOMAIN wsModels' = DOMAIN wsModels \cup {key}
          /\ \A k \in DOMAIN wsModels' : wsModels'[k] = IF k = key THEN RowOf(key) ELSE wsModels[k]
      BY <2>3 DEF Saved
    <3> HIDE DEF key
    <3> QED BY <1>5, <2>1, <3>1
  <2> QED BY <1>1, <2>2, <2>3
<1>7. SuiteStateInv'
  <2> HIDE DEF key
  <2>1. SuiteState(ws, Tail(wsTodo), wsModels', wsResult, wsErrors \cup {key}, wsRuns)
    <3> HIDE DEF SuiteRow
    <3> QED BY <1>2, <1>4, <1>6 DEF SuiteStateInv, SuiteState
  <2> QED BY <1>1, <2>1 DEF SuiteStateInv
<1>8. HasInstrument'
  BY <1>1, <1>2 DEF HasInstrument
<1> QED BY <1>1, <1>7, <1>8 DEF SuiteInv

LEMMA TrainKeyKeeps == SuiteInv /\ TrainKey => SuiteInv'
<1> SUFFICES ASSUME SuiteInv, TrainKey PROVE SuiteInv'
  OBVIOUS
<1> DEFINE K == Range(ws.keys)
           key == Head(wsTodo)
           n == Len(wsRuns)
<1>1. /\ wsPc = "train" /\ wsTodo # <<>> /\ wsTodo' = Tail(wsTodo)
      /\ UNCHANGED <<ws, wsErrors, wsReport, wsPc>>
  BY DEF TrainKey, NextKey
<1>2. PICK status \in {"success", "failed"}, skill \in Skill :
         LET row == IF status = "success" THEN [trained |-> TRUE, skill |-> skill] ELSE RowOf(key)
         IN  /\ wsResult' = Append(wsResult, [key |-> key, row |-> row])
             /\ wsRuns' = Append(wsRuns, [key |-> key, status |-> status])
             /\ wsModels' = Saved(key, row)
  BY DEF TrainKey, Skill
<1> DEFINE row == IF status = "success" THEN [trained |-> TRUE, skill |-> skill] ELSE RowOf(key)
           model == [key |-> key, row |-> row]
           run == [key |-> key, status |-> status]
<1>3. /\ wsResult' = Append(wsResult, model) /\ wsRuns' = Append(wsRuns, run)
      /\ wsModels' = Saved(key, row)
  BY <1>2
<1>4. SuiteStateInv /\ HasInstrument
  BY <1>1 DEF SuiteInv
<1>5. /\ wsTodo \in Seq(K) /\ wsResult \in Seq([key : K, row : SuiteRow])
      /\ wsRuns \in Seq([key : K, status : {"success", "failed"}]) /\ Len(wsResult) = n /\ n \in Nat
  BY <1>4, LenProperties DEF SuiteStateInv, SuiteState
<1>6. key \in K /\ Tail(wsTodo) \in Seq(K) /\ Range(wsTodo) = {key} \cup Range(Tail(wsTodo))
  BY <1>1, <1>5, NextOfAll
<1>7. RowOf(key) \in SuiteRow /\ (RowOf(key).trained <=> TrainedBy(ws, wsRuns, n, key))
  BY <1>4, <1>6, FoundRow
<1>8. row \in SuiteRow /\ (status = "success" => row.trained) /\ (status = "failed" => row = RowOf(key))
  <2>1. CASE status = "success"
    BY <2>1 DEF SuiteRow
  <2>2. CASE status = "failed"
    BY <1>7, <2>2
  <2> QED BY <2>1, <2>2
<1> HIDE DEF row, key
<1>9. model \in [key : K, row : SuiteRow] /\ run \in [key : K, status : {"success", "failed"}]
  BY <1>6, <1>8
<1>10. /\ wsResult' \in Seq([key : K, row : SuiteRow])
       /\ wsRuns' \in Seq([key : K, status : {"success", "failed"}])
       /\ Len(wsResult') = n + 1 /\ Len(wsRuns') = n + 1
       /\ DOMAIN wsResult = 1..n /\ DOMAIN wsResult' = 1..(n + 1)
       /\ \A i \in 1..n : wsResult'[i] = wsResult[i] /\ wsRuns'[i] = wsRuns[i]
       /\ wsResult'[n + 1] = model /\ wsRuns'[n + 1] = run
  <2> DEFINE M == [key : K, row : SuiteRow]
             R == [key : K, status : {"success", "failed"}]
  <2>1. wsResult \in Seq(M) /\ model \in M /\ wsRuns \in Seq(R) /\ run \in R /\ Len(wsResult) = n
    BY <1>5, <1>9
  <2> HIDE DEF M, R, model, run
  <2>2. /\ wsResult' \in Seq(M) /\ Len(wsResult') = n + 1 /\ wsResult'[n + 1] = model
        /\ \A i \in 1..n : wsResult'[i] = wsResult[i]
    BY <1>3, <2>1, AppendProperties
  <2>3. /\ wsRuns' \in Seq(R) /\ Len(wsRuns') = n + 1 /\ wsRuns'[n + 1] = run
        /\ \A i \in 1..n : wsRuns'[i] = wsRuns[i]
    BY <1>3, <2>1, AppendProperties
  <2>4. DOMAIN wsResult = 1..n /\ DOMAIN wsResult' = 1..(n + 1)
    BY <2>1, <2>2, LenProperties
  <2> QED BY <2>2, <2>3, <2>4 DEF M, R
<1>11. SuiteKeys(wsResult') = SuiteKeys(wsResult) \cup {key}
  <2>1. \A i \in 1..(n + 1) : i \in 1..n \/ i = n + 1
    BY <1>5
  <2>2. model.key = key /\ n + 1 \in 1..(n + 1) /\ \A i \in 1..n : i \in 1..(n + 1)
    BY <1>5
  <2>3. SuiteKeys(wsResult') \subseteq SuiteKeys(wsResult) \cup {key}
    BY <1>10, <2>1, <2>2 DEF SuiteKeys
  <2>4. key \in SuiteKeys(wsResult')
    BY <1>10, <2>2 DEF SuiteKeys
  <2>5. SuiteKeys(wsResult) \subseteq SuiteKeys(wsResult')
    BY <1>10, <2>2 DEF SuiteKeys
  <2> QED BY <2>3, <2>4, <2>5
<1>12. \A i \in 1..n : \A k : TrainedBy(ws, wsRuns', i, k) <=> TrainedBy(ws, wsRuns, i, k)
  <2> TAKE i \in 1..n
  <2> TAKE k
  <2>1. \A j \in 1..i : j \in 1..n
    BY <1>5
  <2> QED BY <1>10, <2>1 DEF TrainedBy
<1>13. \A k : TrainedBy(ws, wsRuns', n + 1, k)
                <=> TrainedBy(ws, wsRuns, n, k) \/ (k = key /\ status = "success")
  <2> TAKE k
  <2>1. \A j \in 1..(n + 1) : j \in 1..n \/ j = n + 1
    BY <1>5
  <2>2. n + 1 \in 1..(n + 1) /\ \A j \in 1..n : j \in 1..(n + 1)
    BY <1>5
  <2>3. run.key = key /\ run.status = status
    OBVIOUS
  <2> HIDE DEF run
  <2> QED BY <1>10, <2>1, <2>2, <2>3 DEF TrainedBy
<1>14. row.trained <=> TrainedBy(ws, wsRuns', n + 1, key)
  BY <1>7, <1>8, <1>13
<1>15. \A i \in DOMAIN wsResult' :
          /\ wsRuns'[i].key = wsResult'[i].key
          /\ wsResult'[i].row.trained <=> TrainedBy(ws, wsRuns', i, wsRuns'[i].key)
  <2> TAKE i \in DOMAIN wsResult'
  <2>1. CASE i \in 1..n
    <3>1. wsRuns[i].key = wsResult[i].key
          /\ (wsResult[i].row.trained <=> TrainedBy(ws, wsRuns, i, wsRuns[i].key))
      BY <1>4, <1>10, <2>1 DEF SuiteStateInv, SuiteState
    <3>2. wsResult'[i] = wsResult[i] /\ wsRuns'[i] = wsRuns[i]
      BY <1>10, <2>1
    <3> QED BY <1>12, <2>1, <3>1, <3>2
  <2>2. CASE i = n + 1
    <3>1. wsResult'[i].key = key /\ wsResult'[i].row = row /\ wsRuns'[i].key = key
      BY <1>10, <2>2
    <3> QED BY <1>14, <2>2, <3>1
  <2> QED BY <1>5, <1>10, <2>1, <2>2
<1>16. /\ \A k \in DOMAIN wsModels' : wsModels'[k] \in SuiteRow
       /\ \A k \in K : (k \in DOMAIN wsModels' /\ wsModels'[k].trained)
                          <=> TrainedBy(ws, wsRuns', n + 1, k)
  <2>1. /\ \A k \in DOMAIN wsModels : wsModels[k] \in SuiteRow
        /\ \A k \in K : (k \in DOMAIN wsModels /\ wsModels[k].trained) <=> TrainedBy(ws, wsRuns, n, k)
    BY <1>4 DEF SuiteStateInv, SuiteState
  <2>2. DOMAIN wsModels' = DOMAIN wsModels \cup {key}
        /\ \A k \in DOMAIN wsModels' : wsModels'[k] = IF k = key THEN row ELSE wsModels[k]
    BY <1>3 DEF Saved
  <2>3. \A k \in DOMAIN wsModels' : wsModels'[k] \in SuiteRow
    BY <1>8, <2>1, <2>2
  <2>4. ASSUME NEW k \in K
        PROVE  (k \in DOMAIN wsModels' /\ wsModels'[k].trained) <=> TrainedBy(ws, wsRuns', n + 1, k)
    <3>1. CASE k = key
      BY <1>14, <2>2, <3>1
    <3>2. CASE k # key
      BY <1>13, <2>1, <2>2, <3>2
    <3> QED BY <3>1, <3>2
  <2> QED BY <2>3, <2>4
<1>17. SuiteStateInv'
  <2>1. K = Range(Tail(wsTodo)) \cup SuiteKeys(wsResult') \cup wsErrors
    <3>1. K = Range(wsTodo) \cup SuiteKeys(wsResult) \cup wsErrors
      BY <1>4 DEF SuiteStateInv, SuiteState
    <3> HIDE DEF K
    <3> QED BY <1>6, <1>11, <3>1
  <2>2. ws \in SuiteInputs
    BY <1>4 DEF SuiteStateInv, SuiteState
  <2>3. SuiteState(ws, Tail(wsTodo), wsModels', wsResult', wsErrors, wsRuns')
    <3> HIDE DEF SuiteRow, n
    <3> QED BY <1>6, <1>10, <1>15, <1>16, <2>1, <2>2 DEF SuiteState
  <2> QED BY <1>1, <2>3 DEF SuiteStateInv
<1>18. HasInstrument'
  BY <1>1, <1>4 DEF HasInstrument
<1> QED BY <1>1, <1>17, <1>18 DEF SuiteInv

LEMMA EvaluateSuiteKeeps == SuiteInv /\ EvaluateSuite => SuiteInv'
<1> SUFFICES ASSUME SuiteInv, EvaluateSuite PROVE SuiteInv'
  OBVIOUS
<1> DEFINE n == Len(wsResult)
           rows == [i \in DOMAIN wsResult |->
                      [ model |-> i, skill |-> wsResult[i].row.skill,
                        status |-> IF wsResult[i].row.trained THEN "trained" ELSE "failed" ]]
<1>1. /\ wsPc = "train" /\ wsTodo = <<>> /\ wsPc' = "done"
      /\ UNCHANGED <<ws, wsTodo, wsModels, wsResult, wsErrors, wsRuns>>
      /\ wsReport' = Sorted(rows, SkillBefore)
  BY DEF EvaluateSuite
<1>2. SuiteStateInv /\ HasInstrument
  BY <1>1 DEF SuiteInv
<1>3. /\ wsResult \in Seq([key : Range(ws.keys), row : SuiteRow])
      /\ Range(ws.keys) = Range(wsTodo) \cup SuiteKeys(wsResult) \cup wsErrors
      /\ \A i \in DOMAIN wsResult :
            wsResult[i].row.trained <=> TrainedBy(ws, wsRuns, i, wsRuns[i].key)
  BY <1>2 DEF SuiteStateInv, SuiteState
<1>4. n \in Nat /\ DOMAIN wsResult = 1..n /\ \A i \in 1..n : wsResult[i].row \in SuiteRow
  <2> DEFINE M == [key : Range(ws.keys), row : SuiteRow]
  <2>1. wsResult \in Seq(M)
    BY <1>3
  <2>2. n \in Nat /\ DOMAIN wsResult = 1..n /\ \A i \in 1..n : wsResult[i] \in M
    <3> HIDE DEF M
    <3> QED BY <2>1, LenProperties, ElementOfSeq
  <2> QED BY <2>2
<1>5. /\ DOMAIN rows = 1..n
      /\ \A i \in 1..n : /\ rows[i].skill \in Skill /\ rows[i].model = i
                         /\ rows[i].status = "failed" <=> ~wsResult[i].row.trained
  <2>1. DOMAIN rows = 1..n
    BY <1>4
  <2>2. ASSUME NEW i \in 1..n
        PROVE  /\ rows[i].skill \in Skill /\ rows[i].model = i
               /\ rows[i].status = "failed" <=> ~wsResult[i].row.trained
    <3>1. rows[i] = [ model |-> i, skill |-> wsResult[i].row.skill,
                      status |-> IF wsResult[i].row.trained THEN "trained" ELSE "failed" ]
      BY <1>4
    <3>2. wsResult[i].row.skill \in Skill
      BY <1>4 DEF SuiteRow
    <3> HIDE DEF rows
    <3> QED BY <3>1, <3>2
  <2> QED BY <2>1, <2>2
<1>6. Range(wsTodo) = {}
  <2>1. DOMAIN <<>> = {}
    BY EmptySeq
  <2> QED BY <1>1, <2>1 DEF Range
<1> HIDE DEF rows
<1>7. PICK p : /\ Sorted(rows, SkillBefore) = [k \in 1..n |-> rows[p[k]]]
               /\ \A k \in 1..n : p[k] \in 1..n
               /\ \A i \in 1..n : \E k \in 1..n : p[k] = i
               /\ \A k \in 1..n, m \in 1..n : k < m => ~SkillBefore(rows[p[m]], rows[p[k]])
  <2> HIDE DEF n
  <2> QED BY <1>4, <1>5, SortedBySkill
<1>8. PICK report : /\ wsReport' = report /\ DOMAIN report = 1..n /\ Len(report) = n
                    /\ \A k \in 1..n : report[k] = rows[p[k]]
  <2> DEFINE report == [k \in 1..n |-> rows[p[k]]]
  <2>1. wsReport' = report
    BY <1>1, <1>7
  <2>2. Len(report) = n /\ DOMAIN report = 1..n
    <3> HIDE DEF n
    <3> QED BY <1>4
  <2>3. \A k \in 1..n : report[k] = rows[p[k]]
    OBVIOUS
  <2> HIDE DEF report
  <2> QED BY <2>1, <2>2, <2>3
<1> HIDE DEF n
<1>9. {report[i].model : i \in DOMAIN report} = DOMAIN wsResult
  <2>1. \A k \in 1..n : p[k] \in 1..n /\ report[k].model = p[k]
    BY <1>5, <1>7, <1>8
  <2>2. {report[i].model : i \in 1..n} = 1..n
    <3>1. \A i \in 1..n : \E k \in 1..n : report[k].model = i
      BY <1>7, <2>1
    <3> QED BY <2>1, <3>1
  <2> QED BY <1>4, <1>8, <2>2
<1>10. ASSUME NEW i \in 1..n, NEW j \in 1..n, i < j
       PROVE  /\ report[i].skill = NoSkill => report[j].skill = NoSkill
              /\ report[j].skill # NoSkill => report[i].skill >= report[j].skill
  <2>1. ~SkillBefore(report[j], report[i])
    <3>1. ~SkillBefore(rows[p[j]], rows[p[i]])
      BY <1>7, <1>10
    <3>2. report[i] = rows[p[i]] /\ report[j] = rows[p[j]]
      BY <1>8
    <3> QED BY <3>1, <3>2
  <2>2. report[i].skill \in Skill /\ report[j].skill \in Skill
    <3>1. p[i] \in 1..n /\ p[j] \in 1..n
      BY <1>7
    <3>2. report[i] = rows[p[i]] /\ report[j] = rows[p[j]]
      BY <1>8
    <3> QED BY <1>5, <3>1, <3>2
  <2>3. \A x \in Skill : x = NoSkill \/ x \in Int
    BY SuiteConstants DEF Skill
  <2> QED BY <2>1, <2>2, <2>3 DEF SkillBefore
<1>11. ASSUME NEW i \in 1..n
       PROVE  report[i].status = "failed"
                <=> ~TrainedBy(ws, wsRuns, report[i].model, wsRuns[report[i].model].key)
  <2>1. p[i] \in 1..n /\ report[i] = rows[p[i]]
    BY <1>7, <1>8
  <2>2. report[i].model = p[i] /\ (report[i].status = "failed" <=> ~wsResult[p[i]].row.trained)
    BY <1>5, <2>1
  <2> QED BY <1>3, <1>4, <2>1, <2>2
<1>12. Reported(ws, wsResult, wsErrors, wsRuns, report)
  BY <1>3, <1>6, <1>8, <1>9, <1>10, <1>11 DEF Reported, n
<1>13. SuiteStateInv' /\ ReportedInv'
  BY <1>1, <1>2, <1>8, <1>12 DEF SuiteStateInv, ReportedInv
<1> QED BY <1>1, <1>13 DEF SuiteInv

LEMMA SuiteSteps == SuiteInv /\ [LabNext]_labVars => SuiteInv'
<1>1. ASSUME SuiteInv, UNCHANGED wsVars
      PROVE  SuiteInv'
  <2>1. HasInstrument' <=> HasInstrument
    BY <1>1 DEF wsVars, HasInstrument
  <2> QED BY <1>1, <2>1 DEF wsVars, SuiteInv, SuiteStateInv, ReportedInv
<1>2. SuiteInv /\ SuiteNext => SuiteInv'
  BY PickInstrumentKeeps, RefuseKeyKeeps, TrainKeyKeeps, EvaluateSuiteKeeps DEF SuiteNext
<1> QED BY <1>1, <1>2 DEF LabNext, labVars, dataVars

LEMMA ReportedSays == SuiteInv => SuiteReport
<1> SUFFICES ASSUME SuiteInv, wsPc = "done", HasInstrument PROVE SuiteReport
  BY DEF SuiteReport
<1>1. SuiteStateInv /\ ReportedInv
  BY DEF SuiteInv
<1>2. \A i \in DOMAIN wsResult :
         FailedSoFar(i) <=> ~TrainedBy(ws, wsRuns, i, wsRuns[i].key)
  <2> TAKE i \in DOMAIN wsResult
  <2> DEFINE K == Range(ws.keys)
             R == [key : K, status : {"success", "failed"}]
  <2>1. wsRuns \in Seq(R) /\ i \in 1..Len(wsRuns) /\ Len(wsRuns) \in Nat
    BY <1>1, LenProperties DEF SuiteStateInv, SuiteState
  <2>2. \A k \in 1..i : wsRuns[k] \in R
    <3> HIDE DEF R
    <3>1. \A k \in 1..i : k \in 1..Len(wsRuns)
      BY <2>1
    <3> QED BY <2>1, <3>1, ElementOfSeq
  <2>3. \A k \in 1..i : wsRuns[k].status = "failed" <=> wsRuns[k].status # "success"
    BY <2>2
  <2> QED BY <2>3 DEF FailedSoFar, TrainedBy
<1>3. \A i \in DOMAIN wsReport : wsReport[i].model \in DOMAIN wsResult
  BY <1>1 DEF ReportedInv, Reported
<1> QED BY <1>1, <1>2, <1>3 DEF SuiteReport, ReportedInv, Reported, SuiteKeys

\* The report of a suite has each model once, in the order of their skill, and says of a
\* failed one that it failed unless it was trained before; no key is lost, whichever of them
\* are unknown, refused, repeated or fail in training.
THEOREM SuitesAreReported == LabSpec => []SuiteReport
BY SuiteStarts, SuiteSteps, ReportedSays, PTL DEF LabSpec
================================================================================
