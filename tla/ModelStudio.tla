----------------------------- MODULE ModelStudio -----------------------------
(***************************************************************************)
(* One TradingModel over its life: it is edited, trained, asked for        *)
(* forecasts, and its artifacts are scored by frozen-artifact backtests    *)
(* that a worker takes from the queue.  Web threads serve the operator,    *)
(* Celery processes the tasks.  A row read at the start of an operation is *)
(* used, as it was, until its end.                                         *)
(*                                                                         *)
(* Runs and artifacts are numbered by the id of their row; an artifact     *)
(* file is named after its training run and is never overwritten.  Id 0    *)
(* is the empty artifact_path, end 0 no train_end.                         *)
(***************************************************************************)
EXTENDS Datasets, Sequences, TLC

CONSTANTS
    Web, Celery,             \* threads of the site, worker processes
    Instrument,              \* the instrument the model is for
    Holidays,                \* days without a bar
    FirstDay,
    Configs,                 \* configurations: target, features and train_end
    HoldoutPercent,          \* holdout_fraction
    MinScored,               \* MIN_TRAIN_ROWS of backtesting.engine
    Budgets                  \* how often each kind of event may happen

Workers == Web \cup Celery

(* Every configuration is one of the form, and days are numbers.           *)
ASSUME StudioConstants ==
    /\ FirstDay \in Nat
    /\ \A c \in Configs : c.end \in Nat /\ c.target.exit \in Int

VARIABLES
    sdDay,
    sdModel,        \* the TradingModel row; metrics is the run they are of
    sdTrainings,    \* ModelTrainingRun rows
    sdFiles,        \* the artifact files by training run
    sdForecasts,    \* ModelPrediction rows
    sdPinned,       \* Backtest.training_run
    sdRuns,         \* BacktestRun rows with the stored fold and predictions
    sdQueue,        \* deliveries of run_backtest_task still to come, by run
    sdJob,          \* what each worker is doing
    sdUsed, sdBudget    \* events so far, and how many there may be

sdVars == <<sdDay, sdModel, sdTrainings, sdFiles, sdForecasts, sdPinned, sdRuns,
            sdQueue, sdJob, sdUsed, sdBudget>>
storage == <<sdModel, sdTrainings, sdFiles, sdForecasts, sdPinned, sdRuns, sdQueue>>

Idle == [op |-> "idle"]
NoRows == [days |-> {}, labels |-> {}, ended |-> FALSE]

(* A TradingModel row; TradingModel.clean, as far as the target goes.      *)
ModelRow(c, artifact, metrics) ==
    [ target |-> c.target, features |-> c.features, end |-> c.end,
      artifact |-> artifact, metrics |-> metrics ]
ModelClean(c) == ValidSpec(c.target)

StudioInit ==
    /\ sdDay = FirstDay
    /\ \E c \in Configs : ModelClean(c) /\ sdModel = ModelRow(c, 0, 0)
    /\ sdTrainings = <<>> /\ sdFiles = <<>> /\ sdForecasts = {}
    /\ sdPinned = 0 /\ sdRuns = <<>> /\ sdQueue = <<>>
    /\ sdJob = [w \in Workers |-> Idle] /\ sdBudget \in Budgets
    /\ sdUsed = [kind \in DOMAIN sdBudget |-> 0]

Spend(kind) ==
    /\ sdUsed[kind] < sdBudget[kind]
    /\ sdUsed' = [sdUsed EXCEPT ![kind] = @ + 1]
    /\ UNCHANGED sdBudget
Free == UNCHANGED <<sdUsed, sdBudget>>

(* Bars arrive with their session.                                         *)
Bars == [i \in {Instrument} |-> (1..sdDay) \ Holidays]
LastBar == Max({0} \cup Bars[Instrument])

NextSession ==
    /\ Spend("sessions")
    /\ sdDay' = sdDay + 1
    /\ UNCHANGED <<storage, sdJob>>

Start(w, job) == sdJob[w] = Idle /\ sdJob' = [sdJob EXCEPT ![w] = job]
Goto(w, pc) == sdJob' = [sdJob EXCEPT ![w].pc = pc]
End(w) == sdJob' = [sdJob EXCEPT ![w] = Idle]
At(w, op, pc) == sdJob[w].op = op /\ sdJob[w].pc = pc

-----------------------------------------------------------------------------
(* Training (modeling.training.train_model). *)

BeginTraining(w) ==
    /\ Spend("trainings")
    /\ sdTrainings' = Append(sdTrainings, [status |-> "running", artifact |-> 0])
    /\ Start(w, [op |-> "train", pc |-> "fit", run |-> Len(sdTrainings) + 1, model |-> sdModel])
    /\ UNCHANGED <<sdDay, sdModel, sdFiles, sdForecasts, sdPinned, sdRuns, sdQueue>>

(* build_dataset: the rows, of which the last ones are held out.           *)
StudioRows(spec, end) ==
    IF end = 0 THEN Rows(spec, Bars, 1, sdDay, sdDay) ELSE Rows(spec, Bars, 1, end, end + 1)
HoldoutSize(n) == Max({1, (n * HoldoutPercent + 99) \div 100})
Fitted(rows) ==
    {r \in rows : Cardinality({x \in rows : x.d > r.d}) >= HoldoutSize(Cardinality(rows))}

(* Fit the pipeline and dump it with what it was trained with.             *)
Dumped(run, file) ==
    [r \in DOMAIN sdFiles \cup {run} |-> IF r = run THEN file ELSE sdFiles[r]]
FitAndDump(w) ==
    /\ At(w, "train", "fit")
    /\ LET m    == sdJob[w].model
           rows == StudioRows(m.target, m.end)
       IN  /\ EnoughRows(rows)
           /\ sdFiles' = Dumped(sdJob[w].run,
                  [ target |-> m.target, features |-> m.features, trained |-> sdDay,
                    end |-> m.end, labels |-> {r.t : r \in Fitted(rows)} ])
    /\ Goto(w, "record")
    /\ Free /\ UNCHANGED <<sdDay, sdModel, sdTrainings, sdForecasts, sdPinned, sdRuns, sdQueue>>

(* run.save().                                                             *)
RecordTraining(w) ==
    /\ At(w, "train", "record")
    /\ sdTrainings' = [sdTrainings EXCEPT ![sdJob[w].run] =
                          [status |-> "success", artifact |-> sdJob[w].run]]
    /\ Goto(w, "serve")
    /\ Free /\ UNCHANGED <<sdDay, sdModel, sdFiles, sdForecasts, sdPinned, sdRuns, sdQueue>>

(* Mutant: the metrics are left out of update_fields.                      *)
ServeArtifactOnly(w) ==
    /\ At(w, "train", "serve")
    /\ sdModel' = [sdModel EXCEPT !.artifact = sdJob[w].run]
    /\ End(w)
    /\ Free /\ UNCHANGED <<sdDay, sdTrainings, sdFiles, sdForecasts, sdPinned, sdRuns, sdQueue>>

(* model.save(update_fields=...) leaves the configuration alone.           *)
Serve(w) ==
    /\ At(w, "train", "serve")
    /\ sdModel' = [sdModel EXCEPT !.artifact = sdJob[w].run, !.metrics = sdJob[w].run]
    /\ End(w)
    /\ Free /\ UNCHANGED <<sdDay, sdTrainings, sdFiles, sdForecasts, sdPinned, sdRuns, sdQueue>>

(* Any exception: too few rows, a fit or a statement that raises.  The row *)
(* keeps the artifact path it was given.                                   *)
FailTraining(w) ==
    /\ sdJob[w].op = "train"
    /\ sdTrainings' = [sdTrainings EXCEPT ![sdJob[w].run] =
                          [status   |-> "failed",
                           artifact |-> IF sdJob[w].pc = "fit" THEN 0 ELSE sdJob[w].run]]
    /\ End(w)
    /\ Free /\ UNCHANGED <<sdDay, sdModel, sdFiles, sdForecasts, sdPinned, sdRuns, sdQueue>>

-----------------------------------------------------------------------------
(* The operator edits the model (modeling.views.edit): every field of the  *)
(* row read at the start is written back.                                  *)

BeginEdit(w) ==
    /\ Spend("edits")
    /\ w \in Web
    /\ Start(w, [op |-> "edit", pc |-> "save", model |-> sdModel])
    /\ UNCHANGED <<sdDay, storage>>

SaveEdit(w) ==
    /\ At(w, "edit", "save")
    /\ \E c \in Configs :
          /\ ModelClean(c)
          /\ sdModel' = ModelRow(c, sdJob[w].model.artifact, sdJob[w].model.metrics)
    /\ End(w)
    /\ Free /\ UNCHANGED <<sdDay, sdTrainings, sdFiles, sdForecasts, sdPinned, sdRuns, sdQueue>>

-----------------------------------------------------------------------------
(* Forecasts (modeling.prediction.predict). *)

(* Mutant: the decision is on the last bar there is.                       *)
DecisionBarLatest(as_of) == LastBar

(* The decision is on the last bar by as_of, if the target accepts it.     *)
DecisionBar(as_of) == Max({0} \cup {b \in Bars[Instrument] : b <= as_of})
Predictable(m, as_of) ==
    /\ m.artifact # 0 /\ DecisionBar(as_of) # 0
    /\ DecisionFilter(m.target, {DecisionBar(as_of)}) # {}
    /\ sdFiles[m.artifact].features = m.features

(* update_or_create on the target date.                                    *)
StoreForecast(m, as_of, target, batch) ==
    sdForecasts' = {f \in sdForecasts : f.target # target} \cup
        {[target |-> target, decided |-> DecisionBar(as_of), artifact |-> m.artifact, batch |-> batch]}

(* predict reads the row, and stores what it found.                        *)
BeginForecast(w) ==
    /\ Spend("forecasts")
    /\ Start(w, [op |-> "predict", pc |-> "store", model |-> sdModel, on |-> sdDay])
    /\ UNCHANGED <<sdDay, storage>>

(* run_model_predictions: as of the day it was started, and no target date *)
(* for targets that do not derive one, which predict then refuses.         *)
ForecastToday(w) ==
    /\ At(w, "predict", "store") /\ w \in Celery
    /\ LET m  == sdJob[w].model
           on == sdJob[w].on
       IN  IF Predictable(m, on) /\ m.target.type = "weekday_anchored"
           THEN StoreForecast(m, on, DeriveTargetDate(m.target, on), TRUE)
           ELSE UNCHANGED sdForecasts
    /\ End(w)
    /\ Free /\ UNCHANGED <<sdDay, sdModel, sdTrainings, sdFiles, sdPinned, sdRuns, sdQueue>>

(* predict_view: the operator picks the dates.                             *)
ForecastFor(w) ==
    /\ At(w, "predict", "store") /\ w \in Web
    /\ LET m == sdJob[w].model
       IN  \E as_of \in FirstDay..sdJob[w].on :
              IF Predictable(m, as_of)
              THEN \E t \in (IF m.target.type = "weekday_anchored"
                             THEN {DeriveTargetDate(m.target, as_of)} ELSE as_of..(as_of + 1)) :
                      StoreForecast(m, as_of, t, FALSE)
              ELSE UNCHANGED sdForecasts
    /\ End(w)
    /\ Free /\ UNCHANGED <<sdDay, sdModel, sdTrainings, sdFiles, sdPinned, sdRuns, sdQueue>>

-----------------------------------------------------------------------------
(* Frozen-artifact backtests (backtesting.models, services, tasks, engine). *)

(* Backtest.clean: the pinned run must have succeeded and saved a file;    *)
(* without one the model must be trained.                                  *)
ArtifactOf(pinned, m) ==
    IF pinned # 0 /\ sdTrainings[pinned].artifact # 0 THEN sdTrainings[pinned].artifact ELSE m.artifact

PinRun ==
    /\ Spend("pins")
    /\ sdPinned' \in {0} \cup {r \in DOMAIN sdTrainings : sdTrainings[r].status = "success"
                                                          /\ sdTrainings[r].artifact # 0}
    /\ sdPinned' # sdPinned
    /\ ArtifactOf(sdPinned', sdModel) # 0
    /\ UNCHANGED <<sdDay, sdModel, sdTrainings, sdFiles, sdForecasts, sdRuns, sdQueue, sdJob>>

(* The admin deletes a training run: on_delete SET_NULL unpins it, the     *)
(* file and the model's path to it stay.                                   *)
DeleteTraining ==
    /\ Spend("deletions")
    /\ \E r \in DOMAIN sdTrainings :
          /\ sdTrainings[r].status # "deleted"
          /\ sdTrainings' = [sdTrainings EXCEPT ![r] = [status |-> "deleted", artifact |-> 0]]
          /\ sdPinned' = IF sdPinned = r THEN 0 ELSE sdPinned
    /\ UNCHANGED <<sdDay, sdModel, sdFiles, sdForecasts, sdRuns, sdQueue, sdJob>>

NewRun == [status |-> "running", rows |-> NoRows]

(* start_backtest_run: the row is committed, then .delay() sends the task. *)
CreateRun(w) ==
    /\ Spend("backtests")
    /\ w \in Web
    /\ sdRuns' = Append(sdRuns, NewRun) /\ sdQueue' = Append(sdQueue, 0)
    /\ Start(w, [op |-> "start", pc |-> "send", run |-> Len(sdRuns) + 1])
    /\ UNCHANGED <<sdDay, sdModel, sdTrainings, sdFiles, sdForecasts, sdPinned>>

SendTask(w) ==
    /\ At(w, "start", "send")
    /\ sdQueue' = [sdQueue EXCEPT ![sdJob[w].run] = @ + 1]
    /\ End(w)
    /\ Free /\ UNCHANGED <<sdDay, sdModel, sdTrainings, sdFiles, sdForecasts, sdPinned, sdRuns>>

(* The broker cannot be reached: .delay() raises out of the view, and the  *)
(* row stays as it was created.                                            *)
RefuseTask(w) ==
    /\ Spend("refusals")
    /\ At(w, "start", "send")
    /\ End(w)
    /\ UNCHANGED <<sdDay, storage>>

(* The broker delivers a message once more: Redis does when a message that *)
(* a worker holds is not acknowledged within the visibility timeout.       *)
DeliverAgain ==
    /\ Spend("copies")
    /\ \E r \in DOMAIN sdQueue :
          /\ sdQueue[r] > 0
          /\ sdQueue' = [sdQueue EXCEPT ![r] = @ + 1]
    /\ UNCHANGED <<sdDay, sdModel, sdTrainings, sdFiles, sdForecasts, sdPinned, sdRuns, sdJob>>

DeleteRun ==
    /\ Spend("deletions")
    /\ \E r \in DOMAIN sdRuns :
          /\ sdRuns[r].status # "deleted"
          /\ sdRuns' = [sdRuns EXCEPT ![r] = [status |-> "deleted", rows |-> NoRows]]
    /\ UNCHANGED <<sdDay, sdModel, sdTrainings, sdFiles, sdForecasts, sdPinned, sdQueue, sdJob>>

(* run_backtest_task: the message is acknowledged as the worker starts; a  *)
(* run row that is gone is replaced by a new one.                          *)
TakeTask(w) ==
    /\ w \in Celery
    /\ \E r \in DOMAIN sdQueue :
          /\ sdQueue[r] > 0
          /\ LET gone == sdRuns[r].status = "deleted"
             IN  /\ sdRuns' = IF gone THEN Append(sdRuns, NewRun) ELSE sdRuns
                 /\ sdQueue' = IF gone THEN Append([sdQueue EXCEPT ![r] = @ - 1], 0)
                               ELSE [sdQueue EXCEPT ![r] = @ - 1]
                 /\ Start(w, [op |-> "backtest", pc |-> "score", pinned |-> sdPinned,
                              run |-> IF gone THEN Len(sdRuns) + 1 ELSE r])
    /\ Free /\ UNCHANGED <<sdDay, sdModel, sdTrainings, sdFiles, sdForecasts, sdPinned>>

(* Mutant: the train_end the model has now goes before the artifact's.     *)
CutoffOfModel(file, m) ==
    LET configured == IF m.end # 0 THEN m.end ELSE file.end
    IN  IF configured = 0 THEN file.trained ELSE Min({file.trained, configured})

(* _score_frozen's cut-off: what the artifact recorded, or else the        *)
(* train_end the model has now.                                            *)
Cutoff(file, m) ==
    LET configured == IF file.end # 0 THEN file.end ELSE m.end
    IN  IF configured = 0 THEN file.trained ELSE Min({file.trained, configured})

(* The dataset reaches to today whatever the model's train_end.  Every     *)
(* check that fails raises.                                                *)
Score(w) ==
    /\ At(w, "backtest", "score")
    /\ LET pinned == sdJob[w].pinned
           path   == ArtifactOf(pinned, sdModel)
           rows   == Rows(sdModel.target, Bars, 1, sdDay, sdDay + 1)
           file   == sdFiles[path]
           scored == {d \in DecisionDays(rows) : d > Cutoff(file, sdModel)}
       IN  /\ EnoughRows(rows)
           /\ pinned # 0 => sdTrainings[pinned].status # "deleted"
           /\ path # 0
           /\ file.features = sdModel.features /\ file.target = sdModel.target
           /\ Cardinality(scored) >= MinScored
           /\ sdJob' = [sdJob EXCEPT ![w] =
                  [op |-> "backtest", pc |-> "persist", run |-> sdJob[w].run,
                   rows |-> [days |-> scored, labels |-> file.labels, ended |-> file.end # 0]]]
    /\ Free /\ UNCHANGED <<sdDay, storage>>

(* Mutant: the rows of the run are replaced, not inserted.                 *)
PersistOver(w) ==
    /\ At(w, "backtest", "persist")
    /\ sdRuns' = [sdRuns EXCEPT ![sdJob[w].run] = [status |-> "success", rows |-> sdJob[w].rows]]
    /\ End(w)
    /\ Free /\ UNCHANGED <<sdDay, sdModel, sdTrainings, sdFiles, sdForecasts, sdPinned, sdQueue>>

(* One transaction: the rows, unless unique_backtest_prediction finds the  *)
(* run's rows already there, and the run.  save() brings a deleted run     *)
(* row back.                                                               *)
Persist(w) ==
    /\ At(w, "backtest", "persist")
    /\ sdRuns[sdJob[w].run].rows = NoRows
    /\ sdRuns' = [sdRuns EXCEPT ![sdJob[w].run] = [status |-> "success", rows |-> sdJob[w].rows]]
    /\ End(w)
    /\ Free /\ UNCHANGED <<sdDay, sdModel, sdTrainings, sdFiles, sdForecasts, sdPinned, sdQueue>>

(* Mutant: a failure is logged and not saved.                              *)
FailScoreUnsaved(w) ==
    /\ sdJob[w].op = "backtest"
    /\ End(w)
    /\ Free /\ UNCHANGED <<sdDay, storage>>

(* Any exception, a refusal of Score or Persist or a statement that        *)
(* raises: run_backtest saves the row as failed, and rows that were there  *)
(* stay.                                                                   *)
FailScore(w) ==
    /\ sdJob[w].op = "backtest"
    /\ sdRuns' = [sdRuns EXCEPT ![sdJob[w].run].status = "failed"]
    /\ End(w)
    /\ Free /\ UNCHANGED <<sdDay, sdModel, sdTrainings, sdFiles, sdForecasts, sdPinned, sdQueue>>

-----------------------------------------------------------------------------
(* The process of a worker dies.                                           *)
StudioCrash(w) ==
    /\ Spend("crashes")
    /\ sdJob[w] # Idle
    /\ End(w)
    /\ UNCHANGED <<sdDay, storage>>

Work(w) ==
    \/ FailTraining(w) \/ FailScore(w) \/ RecordTraining(w) \/ Serve(w) \/ Persist(w)
    \/ SaveEdit(w) \/ ForecastToday(w) \/ ForecastFor(w) \/ FitAndDump(w) \/ Score(w)
    \/ SendTask(w)

StudioNext ==
    \/ NextSession \/ PinRun \/ DeleteTraining \/ DeliverAgain \/ DeleteRun
    \/ \E w \in Workers :
          \/ BeginTraining(w) \/ BeginEdit(w) \/ BeginForecast(w) \/ CreateRun(w)
          \/ TakeTask(w) \/ RefuseTask(w) \/ Work(w) \/ StudioCrash(w)
=============================================================================
