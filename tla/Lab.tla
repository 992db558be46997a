--------------------------------- MODULE Lab ---------------------------------
(***************************************************************************)
(* Where models and their data are made: the life of one model and its     *)
(* artifacts, the weekday suite, the daily data chain with the features it *)
(* feeds, the beat schedule, a model search as the site sees it, the live  *)
(* record that lets a call be sent, and the page of a symbol.  They meet   *)
(* only in rows that each treats as given, so a behaviour follows one.     *)
(***************************************************************************)
EXTENDS ModelStudio, WeekdaySuite, DailyRefresh, BeatSchedule, SearchDesk, TrackRecord, SymbolPage

dataVars == <<wsVars, dfVars, bsVars>>
siteVars == <<skVars, trVars, spVars>>
labVars == <<sdVars, dataVars, siteVars>>

StudioIdle ==
    /\ sdDay = FirstDay /\ sdModel = <<>> /\ sdTrainings = <<>> /\ sdFiles = <<>>
    /\ sdForecasts = {} /\ sdPinned = 0 /\ sdRuns = <<>> /\ sdQueue = <<>>
    /\ sdJob = [w \in Workers |-> Idle] /\ sdBudget = <<>> /\ sdUsed = <<>>
SuiteIdle ==
    /\ ws = <<>> /\ wsTodo = <<>> /\ wsModels = <<>> /\ wsResult = <<>> /\ wsErrors = {}
    /\ wsRuns = <<>> /\ wsReport = <<>> /\ wsPc = "none"
RefreshIdle ==
    /\ dfDay = LastRefreshDay /\ dfFacts = {} /\ dfSnapshots = {} /\ dfForecasts = {}
    /\ dfEntered = MaxEntries + MaxEdits /\ dfRun = [exit |-> "none"]
ScheduleIdle ==
    /\ bsCrontabs = {} /\ bsTasks = {} /\ bsNextId = 0 /\ bsSeed = [pc |-> "none"]
    /\ bsAdminSteps = MaxAdminSteps

DeskIdle ==
    /\ skSearch = <<>> /\ skSymbols = {} /\ skRuns = <<>> /\ skResults = <<>>
    /\ skModels = <<>> /\ skThread = [w \in Desks |-> NoRequest] /\ skTask = NoSweep
    /\ skEdits = 0 /\ skUsed = <<>> /\ skBudget = <<>>
TrackIdle ==
    /\ trDay = 0 /\ trClose = <<>> /\ trModel = <<>> /\ trPreds = <<>>
    /\ trJob = NoJob /\ trSignal = NoSignal /\ trTouched = {} /\ trUsed = <<>> /\ trBudget = <<>>
PageIdle == spBars = <<>> /\ spSyncs = MaxSyncs /\ spPage = [pc |-> "closed"]

DataIdle == SuiteIdle /\ RefreshIdle /\ ScheduleIdle
SiteIdle == DeskIdle /\ TrackIdle /\ PageIdle

LabInit ==
    \/ StudioInit /\ DataIdle /\ SiteIdle
    \/ StudioIdle /\ SuiteInit /\ RefreshIdle /\ ScheduleIdle /\ SiteIdle
    \/ StudioIdle /\ SuiteIdle /\ RefreshInit /\ ScheduleIdle /\ SiteIdle
    \/ StudioIdle /\ SuiteIdle /\ RefreshIdle /\ ScheduleInit /\ SiteIdle
    \/ StudioIdle /\ DataIdle /\ DeskInit /\ TrackIdle /\ PageIdle
    \/ StudioIdle /\ DataIdle /\ DeskIdle /\ TrackInit /\ PageIdle
    \/ StudioIdle /\ DataIdle /\ DeskIdle /\ TrackIdle /\ PageInit

(* The last disjunct but one is a bound: a behaviour of the live record    *)
(* ends with its signal.                                                   *)
LabNext ==
    \/ sdBudget # <<>> /\ StudioNext /\ UNCHANGED <<dataVars, siteVars>>
    \/ SuiteNext /\ UNCHANGED <<sdVars, dfVars, bsVars, siteVars>>
    \/ RefreshNext /\ UNCHANGED <<sdVars, wsVars, bsVars, siteVars>>
    \/ ScheduleNext /\ UNCHANGED <<sdVars, wsVars, dfVars, siteVars>>
    \/ skBudget # <<>> /\ DeskNext /\ UNCHANGED <<sdVars, dataVars, trVars, spVars>>
    \/ trBudget # <<>> /\ trSignal = NoSignal /\ TrackNext
       /\ UNCHANGED <<sdVars, dataVars, skVars, spVars>>
    \/ PageNext /\ UNCHANGED <<sdVars, dataVars, skVars, trVars>>

(* A worker process carries on with what it began, and an idle one takes   *)
(* a task that waits.                                                      *)
LabFairness ==
    \A w \in Celery :
        /\ WF_labVars(Work(w) /\ UNCHANGED <<dataVars, siteVars>>)
        /\ WF_labVars(sdBudget # <<>> /\ TakeTask(w) /\ UNCHANGED <<dataVars, siteVars>>)

LabSpec == LabInit /\ [][LabNext]_labVars /\ LabFairness

-----------------------------------------------------------------------------
(* Models and artifacts *)

(* A model that points to an artifact points to a file that is there,      *)
(* shows the metrics of the training that made it, and that training       *)
(* succeeded, whatever was edited, retrained, deleted or killed between    *)
(* the three statements that store a training.                             *)
ServedArtifactIsWhole ==
    (sdModel # <<>> /\ sdModel.artifact # 0) =>
        /\ sdModel.artifact \in DOMAIN sdFiles
        /\ sdModel.metrics = sdModel.artifact
        /\ sdTrainings[sdModel.artifact].status \in {"success", "deleted"}

(* Every session a stored frozen-artifact run scored comes after every     *)
(* label its artifact was fitted on: BACKTESTING.md's "those rows are      *)
(* genuinely out-of-sample".                                               *)
FrozenScoresUnseen ==
    \A r \in DOMAIN sdRuns : \A t \in sdRuns[r].rows.labels, d \in sdRuns[r].rows.days : t < d

(* The same for the artifacts that recorded a train_end; the others are    *)
(* scored from the train_end the model has at that moment.                 *)
FrozenIsOutOfSample ==
    \A r \in DOMAIN sdRuns : sdRuns[r].rows.ended =>
        \A t \in sdRuns[r].rows.labels, d \in sdRuns[r].rows.days : t < d

(* The rows of a finished run are not touched again: a task delivered      *)
(* twice, beside or after itself, adds nothing to them and replaces none.  *)
StoredResultsStay ==
    [][\A r \in DOMAIN sdRuns : sdRuns[r].rows # NoRows =>
           sdRuns'[r].rows = sdRuns[r].rows \/ sdRuns'[r].status = "deleted"]_labVars

(* The scheduled forecasts look ahead: the target session lies after the   *)
(* decision bar, and nothing after that bar was learned from, although     *)
(* the model row may be edited and retrained, and the day may end, while   *)
(* the task runs.                                                          *)
BatchForecastsAreAhead ==
    \A f \in sdForecasts : f.batch =>
        f.decided < f.target /\ \A t \in sdFiles[f.artifact].labels : t <= f.decided

(* A backtest run whose task is in the queue, or with a worker, ends as a  *)
(* success or a failure unless a process dies: nothing that Score, Persist *)
(* or the engine refuses or raises leaves the page polling.  (A run whose  *)
(* task never got to the broker, because it was refused or the web thread  *)
(* died after the row was committed, is one that nobody finishes.  A       *)
(* behaviour starts two runs at most.)                                     *)
Unfinished(r) == r \in DOMAIN sdRuns /\ sdRuns[r].status = "running"
Tasked(r) ==
    \/ r \in DOMAIN sdQueue /\ sdQueue[r] > 0
    \/ \E w \in Celery : sdJob[w].op = "backtest" /\ sdJob[w].run = r
RunsFinish ==
    \A r \in 1..2 : (Unfinished(r) /\ Tasked(r)) ~> (~Unfinished(r) \/ sdUsed.crashes > 0)

-----------------------------------------------------------------------------
(* The weekday suite *)

(* Every key asked for is accounted for, as a model or as an error.  The   *)
(* report has each model once, ranks none above one with more skill, puts  *)
(* those without a score last, and says "failed" of a model exactly when   *)
(* this training failed and none before it succeeded, in this call or      *)
(* another.  (It says "trained", with the metrics of then, of one whose    *)
(* earlier training succeeded.)                                            *)
FailedSoFar(i) ==
    LET key == wsRuns[i].key
    IN  /\ \A k \in 1..i : wsRuns[k].key = key => wsRuns[k].status = "failed"
        /\ key \in DOMAIN ws.rows => ~ws.rows[key].trained
SuiteReport ==
    (wsPc = "done" /\ HasInstrument) =>
        /\ Range(ws.keys) = {wsResult[i].key : i \in DOMAIN wsResult} \cup wsErrors
        /\ Len(wsReport) = Len(wsResult)
        /\ {wsReport[i].model : i \in DOMAIN wsReport} = DOMAIN wsResult
        /\ \A i, j \in DOMAIN wsReport : i < j =>
              /\ wsReport[i].skill = NoSkill => wsReport[j].skill = NoSkill
              /\ wsReport[j].skill # NoSkill => wsReport[i].skill >= wsReport[j].skill
        /\ \A i \in DOMAIN wsReport :
              wsReport[i].status = "failed" <=> FailedSoFar(wsReport[i].model)

-----------------------------------------------------------------------------
(* The daily chain *)

(* The exit status is the truth about the jobs: it is a failure exactly    *)
(* when one of them raised, and unless the command was told to stop, every *)
(* selected job was attempted, in order, after a failure too.              *)
PipelineTellsFailures ==
    dfRun.exit \in {"success", "failure"} =>
        LET attempted == [i \in DOMAIN dfRun.outcomes |-> dfRun.outcomes[i][1]]
            raised    == {i \in DOMAIN dfRun.outcomes : dfRun.outcomes[i][2] = "raised"}
        IN  /\ dfRun.exit = "failure" <=> raised # {}
            /\ IF dfRun.fail_fast /\ raised # {}
               THEN raised = {Len(attempted)} /\ IsPrefix(attempted, dfRun.selected)
               ELSE attempted = dfRun.selected

(* Point in time: a later training builds for the same decision, in every  *)
(* column whose provider raises neither time, the features the forecast    *)
(* was made from, unless a row of the instrument that dates from no later  *)
(* than the decision day was stored, corrected, moved to another date or   *)
(* deleted since.                                                          *)
SameColumns(a, b) ==
    /\ a.ohlc = b.ohlc /\ a.manual = b.manual
    /\ \A provider \in DOMAIN a.research \cap DOMAIN b.research :
          a.research[provider] = b.research[provider]
FeaturesReproduce ==
    \A f \in dfForecasts, working \in SUBSET Providers :
        \/ SameColumns(FeatureRow(dfFacts, f.symbol, f.decided, working), f.features)
        \/ \E x \in (dfFacts \ f.known) \cup (f.known \ dfFacts) :
              x.symbol = f.symbol /\ DateOf(x.at) <= DateOf(f.decided)

(* The command prunes its own rows without touching hand-made ones         *)
(* (schedules.py): it takes one with it only if the operator put it on a   *)
(* crontab that no task used when the command looked for orphans.          *)
HandMadeTasksStay ==
    [][\A t \in bsTasks \ bsTasks' :
           Owned(t) \/ bsAdminSteps' # bsAdminSteps \/
           (bsSeed.pc = "delete" /\ t.crontab \notin bsSeed.used)]_labVars

-----------------------------------------------------------------------------
(* A search as the site sees it *)

(* A model that was promoted is what its candidate was measured as: an     *)
(* estimator that is for the model's target, the features, target, window  *)
(* and instruments of the sweep, unless a save changed the search after    *)
(* the sweep had loaded it.  And the best result of a search is the winner *)
(* of a run that succeeded, whichever save came between; only a task that  *)
(* was delivered again makes that run a failed one afterwards.             *)
PromotedAsMeasured ==
    /\ \A m \in Range(skModels) : TaskOf[m.key] = m.columns.task
    /\ \A w \in DOMAIN skModels : (\A t \in Desks : skThread[t].pc = "copy" => skThread[t].model # w) =>
          LET m == skModels[w]
              r == skResults[m.result]
          IN  \/ m.columns = r.columns /\ m.symbols = r.symbols
              \/ m.edits > r.edits
    /\ (skSearch # <<>> /\ skSearch.best_result # 0) =>
          LET best == skResults[skSearch.best_result]
              run == skRuns[best.run]
          IN  best.rank = 1 /\ (run.status = "success" \/ run.taken > 1)

-----------------------------------------------------------------------------
(* The live record *)

(* The counted forecasts that called the move, told from the closes.       *)
Move(seen, t) == seen.closes[t] - seen.closes[seen.preds[t].as_of]
Called(seen, t) ==
    LET value == seen.preds[t].value
    IN  CASE seen.type = "horizon_close"  -> SignOf(value - seen.closes[seen.preds[t].as_of]) = SignOf(Move(seen, t))
          [] seen.type = "horizon_return" -> SignOf(value) = SignOf(Move(seen, t))
          [] seen.type = "direction"      -> (value > 0) = (Move(seen, t) > 0)

(* The move in the units of the target, as it was and as it was foretold.  *)
Real(seen, t) ==
    IF seen.type = "horizon_return" THEN (Unit * Move(seen, t)) \div seen.closes[seen.preds[t].as_of]
    ELSE Move(seen, t)
Foretold(seen, t) ==
    IF seen.type = "horizon_return" THEN seen.preds[t].value
    ELSE seen.preds[t].value - seen.closes[seen.preds[t].as_of]

(* The forecasts were made and graded for the target the model has, on     *)
(* closes that stayed.                                                     *)
Consistent(seen) ==
    \A t \in DOMAIN seen.preds :
        /\ seen.preds[t].made = seen.type /\ seen.preds[t].filled = seen.type
        /\ {t, seen.preds[t].as_of} \cap seen.touched = {}

(* A call is sent on the live record only if that many of the counted      *)
(* forecasts did call the move and, where skill is asked for, they came    *)
(* nearer than no change at all would have; on the holdout only if there   *)
(* was no live record.  Its size costs no more than the item's share of    *)
(* the capital, nor than the part of the edge it bets.                     *)
CallsAreEarned ==
    trSignal.status = "pending" =>
        LET seen == trSignal.seen
            right == {t \in DOMAIN seen.preds : Called(seen, t)}
            item == trSignal.item
            cost == 100 * trSignal.size.shares * trSignal.ref
            da == trSignal.stats.da
        IN  /\ trSignal.stats.source = "leaderboard" /\ Consistent(seen) =>
                  /\ 100 * Cardinality(right) >= item.min_da * Cardinality(DOMAIN seen.preds)
                  /\ (item.min_skill > 0 /\ seen.type # "direction") =>
                        Total([t \in DOMAIN seen.preds |-> Distance(Foretold(seen, t), Real(seen, t))]) <
                        Total([t \in DOMAIN seen.preds |-> Distance(Real(seen, t), 0)])
            /\ trSignal.stats.source = "holdout" =>
                  seen = <<>> \/ ~seen.is_active \/ DOMAIN seen.preds = {}
            /\ cost <= item.capital * Unit * item.max_position
            /\ item.kelly > 0 =>
                  cost * da[2] <= item.capital * Unit * item.kelly * Max({0, 2 * da[1] - da[2]})

-----------------------------------------------------------------------------
(* The page of a symbol *)

(* Whatever range is chosen, a moving average has a value on exactly the   *)
(* bars that have enough history before them in the database, and a simple *)
(* one is the mean of the last bars there; the forecast is for a session   *)
(* the chart does not show, and the naive one shows no change unless a     *)
(* sync came in between.                                                   *)
PageIsTrue ==
    spPage.pc = "done" =>
        LET page  == spPage.page
            bars  == page.bars
            first == Len(bars) - Len(page.window)
        IN  /\ \A p \in DOMAIN page.sma : \A i \in DOMAIN page.window :
                  page.sma[p][i] =
                      IF first + i < p THEN NoMean
                      ELSE <<SumBetween(bars, (first + i) - p + 1, first + i), p>>
            /\ \A p \in DOMAIN page.ema : \A i \in DOMAIN page.window :
                  (page.ema[p][i] = NoMean) <=> (first + i < p)
            /\ spPage.panel # NoPanel =>
                  /\ spPage.panel.target > Len(bars)
                  /\ spPage.later = bars => spPage.panel.delta = 0
=============================================================================
