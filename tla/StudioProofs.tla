----------------------------- MODULE StudioProofs -----------------------------
(***************************************************************************)
(* Theorems about the life of a model in Lab, for any number of workers,   *)
(* configurations and events, holidays and weeks of any length.            *)
(*                                                                         *)
(* StudioInv rests on one idea: an artifact is settled once the training   *)
(* that wrote it has left it to others, and then neither its file nor the  *)
(* success of its run is ever taken back.  Only settled artifacts are      *)
(* served, copied into a job or forecast from, so what was read at the     *)
(* start of an operation is still true at its end.                         *)
(***************************************************************************)
EXTENDS Lab, OrderLemmas, SequenceTheorems

-----------------------------------------------------------------------------
(* The invariant.                                                          *)

Statuses == {"running", "success", "failed", "deleted"}
TrainingRow == [status : Statuses, artifact : Nat]
ScoredRows == [days : SUBSET Int, labels : SUBSET Int, ended : BOOLEAN]
RunRow == [status : Statuses, rows : ScoredRows]

Good(r) == sdTrainings[r].status \in {"success", "deleted"}
Trains(w, r) == sdJob[w].op = "train" /\ sdJob[w].run = r
Settled(r) ==
  r \in DOMAIN sdFiles /\ r \in DOMAIN sdTrainings /\ Good(r) /\ \A w \in Workers : ~Trains(w, r)

IsConfig(c) == c.end \in Nat /\ c.target.exit \in Int /\ ValidSpec(c.target)

\* A TradingModel row, now or as some worker read it.
IsModel(m) ==
  /\ IsConfig(m)
  /\ m.artifact \in Nat
  /\ m.artifact # 0 => Settled(m.artifact) /\ m.metrics = m.artifact

\* An artifact was fitted on labels of sessions that had taken place.
IsFile(f) ==
  /\ f.end \in Nat /\ f.trained \in Nat /\ f.trained <= sdDay
  /\ \A t \in f.labels : t \in Int /\ t \in (1..f.trained) \ Holidays /\ (f.end # 0 => t <= f.end)

OutOfSample(rows) == rows.ended => \A t \in rows.labels, d \in rows.days : t < d

IsJob(j) ==
  /\ j.op = "train" =>
        /\ DOMAIN j = {"op", "pc", "run", "model"}
        /\ j.run \in DOMAIN sdTrainings /\ IsConfig(j.model)
        /\ j.pc \in {"fit", "record", "serve"}
        /\ j.pc # "fit" => j.run \in DOMAIN sdFiles
        /\ j.pc = "serve" => Good(j.run)
  /\ j.op = "edit" => IsModel(j.model)
  /\ j.op = "predict" =>
        /\ IsModel(j.model) /\ j.on \in Nat /\ j.on <= sdDay
        /\ j.model.artifact # 0 => sdFiles[j.model.artifact].trained <= j.on
  /\ j.op = "start" => j.run \in DOMAIN sdRuns
  /\ j.op = "backtest" =>
        /\ j.run \in DOMAIN sdRuns
        /\ j.pc \in {"score", "persist"}
        /\ j.pc = "score" => j.pinned \in {0} \cup DOMAIN sdTrainings
        /\ j.pc = "persist" => j.rows \in ScoredRows /\ OutOfSample(j.rows)

TrainingsInv ==
  /\ sdTrainings \in Seq(TrainingRow)
  /\ \A r \in DOMAIN sdTrainings : sdTrainings[r].artifact # 0 => sdTrainings[r].artifact \in DOMAIN sdFiles
  /\ sdPinned \in {0} \cup DOMAIN sdTrainings
FilesInv ==
  /\ DOMAIN sdFiles \subseteq DOMAIN sdTrainings
  /\ \A r \in DOMAIN sdFiles : IsFile(sdFiles[r])
RunsInv ==
  /\ sdRuns \in Seq(RunRow) /\ sdQueue \in Seq(Nat) /\ Len(sdQueue) = Len(sdRuns)
  /\ \A r \in DOMAIN sdRuns : OutOfSample(sdRuns[r].rows)
JobsInv ==
  /\ DOMAIN sdJob = Workers
  /\ \A w \in Workers : IsJob(sdJob[w])
  /\ \A v, w \in Workers : sdJob[v].op = "train" /\ sdJob[w].op = "train" /\ sdJob[v].run = sdJob[w].run => v = w
IsAhead(f) ==
  f.batch => /\ Settled(f.artifact) /\ f.decided < f.target
             /\ \A t \in sdFiles[f.artifact].labels : t <= f.decided
ForecastsInv == \A f \in sdForecasts : IsAhead(f)

StudioInv ==
  /\ sdDay \in Nat
  /\ TrainingsInv /\ FilesInv /\ RunsInv /\ JobsInv /\ ForecastsInv
  /\ IsModel(sdModel)

-----------------------------------------------------------------------------
(* What a step leaves true of the rest.                                    *)

(* Nothing settled is unsettled, and nothing is lost.                      *)
Growth ==
  /\ sdDay' \in Nat /\ sdDay <= sdDay'
  /\ DOMAIN sdTrainings \subseteq DOMAIN sdTrainings'
  /\ DOMAIN sdFiles \subseteq DOMAIN sdFiles'
  /\ DOMAIN sdRuns \subseteq DOMAIN sdRuns'
  /\ \A r : Settled(r) => Settled(r)' /\ sdFiles'[r] = sdFiles[r]

LEMMA ModelStays ==
  ASSUME Growth, NEW m, IsModel(m)
  PROVE  IsModel(m)'
  BY DEF Growth, IsModel, IsConfig, ValidSpec

LEMMA FileStays ==
  ASSUME Growth, sdDay \in Nat, NEW f, IsFile(f)
  PROVE  IsFile(f)'
<1>1. f.trained <= sdDay'
  BY DEF Growth, IsFile
<1> QED BY <1>1 DEF IsFile

LEMMA JobStays ==
  ASSUME Growth, sdDay \in Nat, NEW j, IsJob(j),
         j.op = "train" /\ Good(j.run) => Good(j.run)'
  PROVE  IsJob(j)'
<1>1. CASE j.op = "train"
  BY <1>1 DEF Growth, IsJob, IsConfig, ValidSpec
<1>2. CASE j.op = "edit"
  BY <1>2, ModelStays DEF IsJob
<1>3. CASE j.op = "predict"
  <2>1. IsModel(j.model)'
    BY <1>3, ModelStays DEF IsJob
  <2>2. j.on \in Nat /\ j.on <= sdDay'
    BY <1>3 DEF IsJob, Growth
  <2>3. j.model.artifact # 0 => sdFiles'[j.model.artifact].trained <= j.on
    BY <1>3 DEF IsJob, IsModel, Growth
  <2> QED BY <1>3, <2>1, <2>2, <2>3 DEF IsJob
<1>4. CASE j.op = "backtest"
  BY <1>4 DEF IsJob, Growth, OutOfSample
<1>5. CASE j.op = "start"
  BY <1>5 DEF IsJob, Growth
<1>6. CASE j.op \notin {"train", "edit", "predict", "backtest", "start"}
  BY <1>6 DEF IsJob
<1> QED BY <1>1, <1>2, <1>3, <1>4, <1>5, <1>6

LEMMA ForecastStays ==
  ASSUME Growth, NEW f, IsAhead(f)
  PROVE  IsAhead(f)'
  BY DEF Growth, IsAhead

\* A step that gives w a new job j and does no training of another.
LEMMA JobsStep ==
  ASSUME JobsInv, Growth, sdDay \in Nat, NEW w \in Workers, NEW j,
         sdJob' = [sdJob EXCEPT ![w] = j], IsJob(j)',
         \A v \in Workers \ {w} : sdJob[v].op = "train" /\ Good(sdJob[v].run) => Good(sdJob[v].run)',
         j.op = "train" =>
            \/ sdJob[w].op = "train" /\ sdJob[w].run = j.run
            \/ \A v \in Workers : sdJob[v].op = "train" => sdJob[v].run # j.run
  PROVE  JobsInv'
<1>1. DOMAIN sdJob' = Workers /\ sdJob'[w] = j /\ \A v \in Workers \ {w} : sdJob'[v] = sdJob[v]
  BY DEF JobsInv
<1>2. ASSUME NEW v \in Workers, v # w PROVE IsJob(sdJob[v])'
  <2>1. PICK k : k = sdJob[v]
    OBVIOUS
  <2>2. IsJob(k)
    BY <2>1 DEF JobsInv
  <2>3. k.op = "train" /\ Good(k.run) => Good(k.run)'
    BY <1>2, <2>1
  <2>4. IsJob(k)'
    BY <2>2, <2>3, JobStays
  <2>5. k = sdJob'[v]
    BY <1>1, <1>2, <2>1
  <2> QED BY <2>4, <2>5 DEF IsJob
<1>3. IsJob(sdJob[w])'
  BY <1>1 DEF IsJob
<1>4. ASSUME NEW u \in Workers, NEW v \in Workers, sdJob'[u].op = "train", sdJob'[v].op = "train",
             sdJob'[u].run = sdJob'[v].run
      PROVE  u = v
  BY <1>1, <1>4 DEF JobsInv
<1>5. \A v \in Workers : IsJob(sdJob[v])'
  BY <1>2, <1>3
<1> QED BY <1>1, <1>4, <1>5 DEF JobsInv

\* A step that leaves the jobs alone.
LEMMA JobsUnchanged ==
  ASSUME JobsInv, Growth, sdDay \in Nat, UNCHANGED sdJob,
         \A r \in DOMAIN sdTrainings : Good(r) => Good(r)'
  PROVE  JobsInv'
<1>1. ASSUME NEW v \in Workers PROVE IsJob(sdJob[v])'
  <2>1. PICK k : k = sdJob[v]
    OBVIOUS
  <2>2. IsJob(k) /\ k = sdJob'[v]
    BY <2>1 DEF JobsInv
  <2>3. k.op = "train" /\ Good(k.run) => Good(k.run)'
    BY <2>2 DEF IsJob
  <2>4. IsJob(k)'
    BY <2>2, <2>3, JobStays
  <2> QED BY <2>2, <2>4 DEF IsJob
<1> QED BY <1>1 DEF JobsInv
\* What a step leaves alone keeps its part of the invariant.
LEMMA Rest ==
  ASSUME StudioInv, Growth
  PROVE  /\ UNCHANGED sdForecasts => ForecastsInv'
         /\ UNCHANGED sdModel => IsModel(sdModel)'
         /\ UNCHANGED <<sdTrainings, sdFiles>> => FilesInv'
         /\ UNCHANGED <<sdTrainings, sdFiles, sdPinned>> => TrainingsInv'
         /\ UNCHANGED <<sdRuns, sdQueue>> => RunsInv'
<1>1. ASSUME UNCHANGED sdForecasts PROVE ForecastsInv'
  <2>1. ASSUME NEW f \in sdForecasts PROVE IsAhead(f)'
    BY ForecastStays DEF StudioInv, ForecastsInv
  <2> QED BY <1>1, <2>1 DEF ForecastsInv
<1>2. ASSUME UNCHANGED sdModel PROVE IsModel(sdModel)'
  <2>1. PICK m : m = sdModel
    OBVIOUS
  <2>2. IsModel(m)'
    BY <2>1, ModelStays DEF StudioInv
  <2> QED BY <1>2, <2>1, <2>2
<1>3. ASSUME UNCHANGED <<sdTrainings, sdFiles>> PROVE FilesInv'
  <2>1. ASSUME NEW r \in DOMAIN sdFiles PROVE IsFile(sdFiles[r])'
    <3>1. PICK f : f = sdFiles[r]
      OBVIOUS
    <3>2. IsFile(f)'
      BY <3>1, FileStays DEF StudioInv, FilesInv
    <3> QED BY <1>3, <3>1, <3>2
  <2> QED BY <1>3, <2>1 DEF StudioInv, FilesInv
<1>4. ASSUME UNCHANGED <<sdTrainings, sdFiles, sdPinned>> PROVE TrainingsInv'
  BY <1>4 DEF StudioInv, TrainingsInv
<1>5. ASSUME UNCHANGED <<sdRuns, sdQueue>> PROVE RunsInv'
  BY <1>5 DEF StudioInv, RunsInv, OutOfSample
<1> QED BY <1>1, <1>2, <1>3, <1>4, <1>5

\* A step that trains nothing settles and unsettles nothing.
LEMMA QuietGrowth ==
  ASSUME StudioInv, sdDay' \in Nat, sdDay <= sdDay', UNCHANGED <<sdTrainings, sdFiles>>,
         DOMAIN sdRuns \subseteq DOMAIN sdRuns',
         \A w \in Workers : sdJob'[w] = sdJob[w] \/ sdJob'[w].op # "train"
  PROVE  Growth
<1>1. ASSUME NEW r, Settled(r) PROVE Settled(r)'
  BY <1>1 DEF Settled, Good, Trains
<1> QED BY <1>1 DEF Growth

\* A worker does something else than training.
LEMMA QuietStep ==
  ASSUME StudioInv, UNCHANGED <<sdDay, sdTrainings, sdFiles>>,
         DOMAIN sdRuns \subseteq DOMAIN sdRuns',
         NEW w \in Workers, NEW j, sdJob' = [sdJob EXCEPT ![w] = j], j.op # "train",
         Growth => IsJob(j)'
  PROVE  Growth /\ JobsInv'
<1>1. \A v \in Workers : sdJob'[v] = sdJob[v] \/ sdJob'[v].op # "train"
  BY DEF StudioInv, JobsInv
<1>2. sdDay' \in Nat /\ sdDay <= sdDay' /\ sdDay \in Nat
  BY DEF StudioInv
<1>3. Growth
  BY <1>1, <1>2, QuietGrowth
<1>4. \A v \in Workers \ {w} : sdJob[v].op = "train" /\ Good(sdJob[v].run) => Good(sdJob[v].run)'
  BY DEF StudioInv, JobsInv, Good
<1>5. JobsInv
  BY DEF StudioInv
<1> QED BY <1>2, <1>3, <1>4, <1>5, JobsStep

\* A worker ends its job.
LEMMA Ended ==
  ASSUME StudioInv, UNCHANGED <<sdDay, sdTrainings, sdFiles>>,
         DOMAIN sdRuns \subseteq DOMAIN sdRuns', NEW w \in Workers, End(w)
  PROVE  Growth /\ JobsInv'
<1>1. IsJob(Idle)' /\ Idle.op # "train"
  BY DEF IsJob, Idle
<1> QED BY <1>1, QuietStep DEF End

-----------------------------------------------------------------------------
(* Time, the operator and the broker.                                      *)

LEMMA NextSessionKeeps == StudioInv /\ NextSession => StudioInv'
<1> SUFFICES ASSUME StudioInv, NextSession PROVE StudioInv'
  OBVIOUS
<1>1. sdDay' = sdDay + 1 /\ UNCHANGED <<storage, sdJob>> /\ sdDay \in Nat
  BY DEF NextSession, StudioInv
<1>2. sdDay' \in Nat /\ sdDay <= sdDay'
  BY <1>1
<1>3. Growth
  BY <1>1, <1>2, QuietGrowth DEF storage
<1>4. JobsInv'
  BY <1>1, <1>3, JobsUnchanged DEF StudioInv, storage, Good
<1> QED BY <1>1, <1>2, <1>3, <1>4, Rest DEF StudioInv, storage

LEMMA PinRunKeeps == StudioInv /\ PinRun => StudioInv'
<1> SUFFICES ASSUME StudioInv, PinRun PROVE StudioInv'
  OBVIOUS
<1>1. /\ sdPinned' \in {0} \cup DOMAIN sdTrainings
      /\ UNCHANGED <<sdDay, sdModel, sdTrainings, sdFiles, sdForecasts, sdRuns, sdQueue, sdJob>>
      /\ sdDay \in Nat /\ JobsInv
  BY DEF PinRun, StudioInv
<1>2. Growth
  BY <1>1, QuietGrowth
<1>3. JobsInv'
  BY <1>1, <1>2, JobsUnchanged DEF Good
<1>4. TrainingsInv'
  BY <1>1 DEF StudioInv, TrainingsInv
<1> QED BY <1>1, <1>2, <1>3, <1>4, Rest DEF StudioInv

LEMMA DeleteTrainingKeeps == StudioInv /\ DeleteTraining => StudioInv'
<1> SUFFICES ASSUME StudioInv, DeleteTraining PROVE StudioInv'
  OBVIOUS
<1>1. PICK r \in DOMAIN sdTrainings :
         /\ sdTrainings' = [sdTrainings EXCEPT ![r] = [status |-> "deleted", artifact |-> 0]]
         /\ sdPinned' = IF sdPinned = r THEN 0 ELSE sdPinned
  BY DEF DeleteTraining
<1>2. /\ UNCHANGED <<sdDay, sdModel, sdFiles, sdForecasts, sdRuns, sdQueue, sdJob>>
      /\ sdDay \in Nat /\ JobsInv /\ FilesInv /\ TrainingsInv
  BY DEF DeleteTraining, StudioInv
<1>3. [status |-> "deleted", artifact |-> 0] \in TrainingRow
  BY DEF TrainingRow, Statuses
<1>4. /\ DOMAIN sdTrainings' = DOMAIN sdTrainings /\ sdTrainings' \in Seq(TrainingRow)
      /\ sdTrainings'[r] = [status |-> "deleted", artifact |-> 0]
      /\ \A s \in DOMAIN sdTrainings : s # r => sdTrainings'[s] = sdTrainings[s]
  <2>1. sdTrainings \in Seq(TrainingRow)
    BY <1>2 DEF TrainingsInv
  <2> HIDE DEF TrainingRow
  <2> QED BY <1>1, <1>3, <2>1, ExceptSeq
<1>5. \A s \in DOMAIN sdTrainings : Good(s) => Good(s)'
  BY <1>4 DEF Good
<1>6. Growth
  <2>1. ASSUME NEW s, Settled(s) PROVE Settled(s)'
    BY <1>2, <1>4, <1>5, <2>1 DEF Settled, Trains
  <2> QED BY <1>2, <1>4, <2>1 DEF Growth
<1>7. JobsInv'
  BY <1>2, <1>5, <1>6, JobsUnchanged
<1>8. TrainingsInv'
  BY <1>1, <1>2, <1>4 DEF TrainingsInv
<1>9. FilesInv'
  BY <1>2, <1>4 DEF FilesInv, IsFile
<1> QED BY <1>2, <1>6, <1>7, <1>8, <1>9, Rest DEF StudioInv
\* Rows of a run that keeps them, or has none any more.
LEMMA RunsExcept ==
  ASSUME RunsInv, NEW r \in DOMAIN sdRuns, NEW row \in RunRow, OutOfSample(row.rows),
         sdRuns' = [sdRuns EXCEPT ![r] = row], sdQueue' = sdQueue
  PROVE  RunsInv' /\ DOMAIN sdRuns' = DOMAIN sdRuns
<1>1. sdRuns \in Seq(RunRow)
  BY DEF RunsInv
<1>2. /\ sdRuns' \in Seq(RunRow) /\ Len(sdRuns') = Len(sdRuns)
      /\ \A s \in DOMAIN sdRuns : sdRuns'[s] = IF s = r THEN row ELSE sdRuns[s]
      /\ DOMAIN sdRuns' = DOMAIN sdRuns
  <2> HIDE DEF RunRow
  <2> QED BY <1>1, ExceptSeq
<1> QED BY <1>2 DEF RunsInv, OutOfSample

\* One more run, with one more place in the queue.
LEMMA RunsAppend ==
  ASSUME RunsInv, NEW queue \in Seq(Nat), Len(queue) = Len(sdQueue), NEW n \in Nat,
         sdRuns' = Append(sdRuns, NewRun), sdQueue' = Append(queue, n)
  PROVE  /\ RunsInv' /\ DOMAIN sdRuns \subseteq DOMAIN sdRuns' /\ Len(sdRuns) + 1 \in DOMAIN sdRuns'
         /\ \A s \in DOMAIN sdRuns : sdRuns'[s] = sdRuns[s]
<1>1. NewRun \in RunRow /\ OutOfSample(NewRun.rows)
  BY DEF NewRun, NoRows, RunRow, ScoredRows, Statuses, OutOfSample
<1>2. sdRuns \in Seq(RunRow)
  BY DEF RunsInv
<1> DEFINE new == NewRun
<1>3. /\ Append(sdRuns, new) \in Seq(RunRow) /\ Len(Append(sdRuns, new)) = Len(sdRuns) + 1
      /\ Len(sdRuns) \in Nat
      /\ \A i \in 1..Len(sdRuns) : Append(sdRuns, new)[i] = sdRuns[i]
      /\ Append(sdRuns, new)[Len(sdRuns) + 1] = new
  <2> HIDE DEF RunRow, new
  <2>1. new \in RunRow
    BY <1>1 DEF new
  <2> QED BY <1>2, <2>1, AppendProperties, LenProperties
<1>4. sdQueue' \in Seq(Nat) /\ Len(sdQueue') = Len(sdQueue) + 1
  BY AppendProperties
<1>5. DOMAIN sdRuns = 1..Len(sdRuns) /\ DOMAIN sdRuns' = 1..(Len(sdRuns) + 1)
  BY <1>2, <1>3, LenProperties
<1>6. \A s \in DOMAIN sdRuns' : s \in DOMAIN sdRuns \/ sdRuns'[s] = new
  BY <1>3, <1>5
<1>7. \A s \in DOMAIN sdRuns' : OutOfSample(sdRuns'[s].rows)
  BY <1>1, <1>3, <1>5, <1>6 DEF RunsInv
<1>8. RunsInv'
  BY <1>3, <1>4, <1>7 DEF RunsInv, OutOfSample
<1> QED BY <1>3, <1>5, <1>8

LEMMA DeliverAgainKeeps == StudioInv /\ DeliverAgain => StudioInv'
<1> SUFFICES ASSUME StudioInv, DeliverAgain PROVE StudioInv'
  OBVIOUS
<1>1. /\ UNCHANGED <<sdDay, sdModel, sdTrainings, sdFiles, sdForecasts, sdPinned, sdRuns, sdJob>>
      /\ sdDay \in Nat /\ JobsInv /\ RunsInv
  BY DEF DeliverAgain, StudioInv
<1>2. PICK r \in DOMAIN sdQueue : sdQueue' = [sdQueue EXCEPT ![r] = sdQueue[r] + 1]
  BY DEF DeliverAgain
<1>3. sdQueue' \in Seq(Nat) /\ Len(sdQueue') = Len(sdQueue)
  <2>1. sdQueue \in Seq(Nat) /\ sdQueue[r] + 1 \in Nat /\ r \in 1..Len(sdQueue)
    BY <1>1 DEF RunsInv
  <2> QED BY <1>2, <2>1, ExceptSeq
<1>4. RunsInv'
  BY <1>1, <1>3 DEF RunsInv, OutOfSample
<1>5. Growth
  BY <1>1, QuietGrowth
<1>6. JobsInv'
  BY <1>1, <1>5, JobsUnchanged DEF Good
<1> QED BY <1>1, <1>4, <1>5, <1>6, Rest DEF StudioInv

LEMMA DeleteRunKeeps == StudioInv /\ DeleteRun => StudioInv'
<1> SUFFICES ASSUME StudioInv, DeleteRun PROVE StudioInv'
  OBVIOUS
<1>1. /\ UNCHANGED <<sdDay, sdModel, sdTrainings, sdFiles, sdForecasts, sdPinned, sdQueue, sdJob>>
      /\ sdDay \in Nat /\ JobsInv /\ RunsInv
  BY DEF DeleteRun, StudioInv
<1>2. PICK r \in DOMAIN sdRuns : sdRuns' = [sdRuns EXCEPT ![r] = [status |-> "deleted", rows |-> NoRows]]
  BY DEF DeleteRun
<1>3. [status |-> "deleted", rows |-> NoRows] \in RunRow /\ OutOfSample(NoRows)
  BY DEF RunRow, ScoredRows, NoRows, Statuses, OutOfSample
<1>4. RunsInv' /\ DOMAIN sdRuns' = DOMAIN sdRuns
  BY <1>1, <1>2, <1>3, RunsExcept
<1>5. Growth
  BY <1>1, <1>4, QuietGrowth
<1>6. JobsInv'
  BY <1>1, <1>5, JobsUnchanged DEF Good
<1> QED BY <1>1, <1>4, <1>5, <1>6, Rest DEF StudioInv

-----------------------------------------------------------------------------
(* Jobs that train nothing.                                                *)

LEMMA BeginEditKeeps ==
  ASSUME StudioInv, NEW w \in Workers, BeginEdit(w)
  PROVE  StudioInv'
<1>1. UNCHANGED <<sdDay, storage>>
  BY DEF BeginEdit
<1>2. PICK j : j = [op |-> "edit", pc |-> "save", model |-> sdModel]
  OBVIOUS
<1>3. sdJob' = [sdJob EXCEPT ![w] = j] /\ j.op = "edit" /\ j.model = sdModel
  BY <1>2 DEF BeginEdit, Start
<1>4. Growth => IsJob(j)'
  <2>1. IsModel(j.model)
    BY <1>3 DEF StudioInv
  <2> QED BY <1>3, <2>1, ModelStays DEF IsJob
<1>5. Growth /\ JobsInv'
  BY <1>1, <1>3, <1>4, QuietStep DEF storage
<1> QED BY <1>1, <1>5, Rest DEF StudioInv, storage

LEMMA BeginForecastKeeps ==
  ASSUME StudioInv, NEW w \in Workers, BeginForecast(w)
  PROVE  StudioInv'
<1>1. UNCHANGED <<sdDay, storage>> /\ sdDay \in Nat
  BY DEF BeginForecast, StudioInv
<1>2. PICK j : j = [op |-> "predict", pc |-> "store", model |-> sdModel, on |-> sdDay]
  OBVIOUS
<1>3. sdJob' = [sdJob EXCEPT ![w] = j] /\ j.op = "predict" /\ j.model = sdModel /\ j.on = sdDay
  BY <1>2 DEF BeginForecast, Start
<1>4. Growth => IsJob(j)'
  <2>1. IsModel(j.model)
    BY <1>3 DEF StudioInv
  <2>2. j.model.artifact # 0 => sdFiles[j.model.artifact].trained <= j.on
    BY <1>3, <2>1 DEF IsModel, Settled, StudioInv, FilesInv, IsFile
  <2>3. IsJob(j)
    BY <1>1, <1>3, <2>1, <2>2 DEF IsJob
  <2> QED BY <1>1, <1>3, <2>3, JobStays
<1>5. Growth /\ JobsInv'
  BY <1>1, <1>3, <1>4, QuietStep DEF storage
<1> QED BY <1>1, <1>5, Rest DEF StudioInv, storage

LEMMA SaveEditKeeps ==
  ASSUME StudioInv, NEW w \in Workers, SaveEdit(w)
  PROVE  StudioInv'
<1>1. End(w) /\ UNCHANGED <<sdDay, sdTrainings, sdFiles, sdForecasts, sdPinned, sdRuns, sdQueue>>
  BY DEF SaveEdit
<1>2. Growth /\ JobsInv'
  BY <1>1, Ended
<1>3. PICK c \in Configs : ModelClean(c) /\ sdModel' = ModelRow(c, sdJob[w].model.artifact, sdJob[w].model.metrics)
  BY DEF SaveEdit
<1>4. IsModel(sdJob[w].model)
  BY DEF SaveEdit, At, StudioInv, JobsInv, IsJob
<1>5. PICK m : m = ModelRow(c, sdJob[w].model.artifact, sdJob[w].model.metrics)
  OBVIOUS
<1>6. /\ m.end = c.end /\ m.target = c.target
      /\ m.artifact = sdJob[w].model.artifact /\ m.metrics = sdJob[w].model.metrics
  BY <1>5 DEF ModelRow
<1>7. IsModel(m)
  BY <1>3, <1>4, <1>6, StudioConstants DEF IsModel, IsConfig, ModelClean, ValidSpec
<1>8. IsModel(m)' /\ sdModel' = m
  BY <1>2, <1>3, <1>5, <1>7, ModelStays
<1>9. IsModel(sdModel)'
  BY <1>8
<1> QED BY <1>1, <1>2, <1>9, Rest DEF StudioInv

LEMMA StudioCrashKeeps ==
  ASSUME StudioInv, NEW w \in Workers, StudioCrash(w)
  PROVE  StudioInv'
<1>1. End(w) /\ UNCHANGED <<sdDay, storage>>
  BY DEF StudioCrash
<1>2. Growth /\ JobsInv'
  BY <1>1, Ended DEF storage
<1> QED BY <1>1, <1>2, Rest DEF StudioInv, storage
-----------------------------------------------------------------------------
(* Forecasts.                                                              *)

\* A week later is at least as late, counted from the first day of the week.
LEMMA WeekStart ==
  ASSUME NEW W \in Nat \ {0}, NEW a \in Nat, NEW b \in Nat, a <= b
  PROVE  a - (a % W) <= b - (b % W) /\ a % W \in Int /\ b % W \in Int
  OBVIOUS

\* The decision bar is the last bar by as_of.
LEMMA DecisionBarIsLast ==
  ASSUME NEW as_of \in Nat, sdDay \in Nat
  PROVE  /\ DecisionBar(as_of) \in Nat /\ DecisionBar(as_of) <= as_of
         /\ \A t \in (1..sdDay) \ Holidays : t <= as_of => t <= DecisionBar(as_of)
<1> DEFINE S == {0} \cup {b \in Bars[Instrument] : b <= as_of}
<1>1. Bars[Instrument] = (1..sdDay) \ Holidays
  BY DEF Bars
<1>2. \A y \in S : y \in Nat /\ y <= as_of
  BY <1>1
<1>3. S \in SUBSET Nat /\ S # {}
  BY <1>2
<1>4. \A t \in (1..sdDay) \ Holidays : t <= as_of => t \in S
  BY <1>1
<1>5. DecisionBar(as_of) = Max(S)
  BY DEF DecisionBar
<1> HIDE DEF S
<1>6. Max(S) \in S /\ \A y \in S : y <= Max(S)
  BY <1>2, <1>3, MaxOfNaturals
<1> QED BY <1>2, <1>4, <1>5, <1>6

\* What a worker forecasts from a row it read on some day.
LEMMA ForecastOfRow ==
  ASSUME sdDay \in Nat, FilesInv, NEW m, IsModel(m), NEW on \in Nat, on <= sdDay,
         Predictable(m, on), sdFiles[m.artifact].trained <= on,
         m.target.type = "weekday_anchored"
  PROVE  /\ Settled(m.artifact) /\ DecisionBar(on) < DeriveTargetDate(m.target, on)
         /\ \A t \in sdFiles[m.artifact].labels : t <= DecisionBar(on)
<1> DEFINE d == DecisionBar(on)
<1>1. Settled(m.artifact)
  BY DEF Predictable, IsModel
<1>2. d \in Nat /\ d <= on /\ \A t \in (1..sdDay) \ Holidays : t <= on => t <= d
  BY DecisionBarIsLast
<1>3. Weekday(d) = m.target.entry
  BY DEF Predictable, DecisionFilter
<1>4. m.target.entry \in Nat /\ m.target.exit \in Int /\ m.target.entry < m.target.exit
  BY DEF IsModel, IsConfig, ValidSpec
<1> HIDE DEF d
<1>5. WeekLength \in Nat \ {0}
  BY DatasetConstants
<1>6. d - (d % WeekLength) <= on - (on % WeekLength) /\ d % WeekLength \in Int /\ on % WeekLength \in Int
  BY <1>2, <1>5, WeekStart
<1>7. d < on + m.target.exit - (on % WeekLength)
  BY <1>2, <1>3, <1>4, <1>6 DEF Weekday
<1>8. d < DeriveTargetDate(m.target, on)
  BY <1>7 DEF DeriveTargetDate, Weekday
<1>9. ASSUME NEW t \in sdFiles[m.artifact].labels PROVE t <= d
  <2>1. IsFile(sdFiles[m.artifact])
    BY <1>1 DEF FilesInv, Settled
  <2>2. t \in Int /\ t \in (1..sdFiles[m.artifact].trained) \ Holidays /\ sdFiles[m.artifact].trained \in Nat
    BY <2>1 DEF IsFile
  <2>3. t <= on /\ t \in (1..sdDay) \ Holidays
    BY <2>2
  <2> QED BY <1>2, <2>3
<1> QED BY <1>1, <1>8, <1>9 DEF d

LEMMA ForecastTodayKeeps ==
  ASSUME StudioInv, NEW w \in Workers, ForecastToday(w)
  PROVE  StudioInv'
<1>1. /\ End(w) /\ UNCHANGED <<sdDay, sdModel, sdTrainings, sdFiles, sdPinned, sdRuns, sdQueue>>
      /\ sdDay \in Nat /\ FilesInv /\ ForecastsInv
  BY DEF ForecastToday, StudioInv
<1>2. Growth /\ JobsInv'
  BY <1>1, Ended
<1>3. PICK m, on : m = sdJob[w].model /\ on = sdJob[w].on
  OBVIOUS
<1>4. /\ IsModel(m) /\ on \in Nat /\ on <= sdDay
      /\ m.artifact # 0 => sdFiles[m.artifact].trained <= on
  BY <1>3 DEF ForecastToday, At, StudioInv, JobsInv, IsJob
<1>5. ASSUME NEW f \in sdForecasts' PROVE IsAhead(f)
  <2>1. CASE f \in sdForecasts
    BY <1>1, <2>1 DEF ForecastsInv
  <2>2. CASE f \notin sdForecasts
    <3>1. /\ Predictable(m, on) /\ m.target.type = "weekday_anchored"
          /\ f = [ target |-> DeriveTargetDate(m.target, on), decided |-> DecisionBar(on),
                   artifact |-> m.artifact, batch |-> TRUE ]
      BY <1>3, <2>2 DEF ForecastToday, StoreForecast
    <3>2. sdFiles[m.artifact].trained <= on
      BY <1>4, <3>1 DEF Predictable
    <3>3. /\ f.artifact = m.artifact /\ f.decided = DecisionBar(on)
          /\ f.target = DeriveTargetDate(m.target, on)
      BY <3>1
    <3> QED BY <1>1, <1>4, <3>1, <3>2, <3>3, ForecastOfRow DEF IsAhead
  <2> QED BY <2>1, <2>2
<1>6. ForecastsInv'
  <2>1. \A f \in sdForecasts' : IsAhead(f)'
    BY <1>2, <1>5, ForecastStays
  <2> QED BY <2>1 DEF ForecastsInv
<1> QED BY <1>1, <1>2, <1>6, Rest DEF StudioInv

\* A forecast the operator asked for is not one of the batch.
LEMMA ForecastForKeeps ==
  ASSUME StudioInv, NEW w \in Workers, ForecastFor(w)
  PROVE  StudioInv'
<1>1. /\ End(w) /\ UNCHANGED <<sdDay, sdModel, sdTrainings, sdFiles, sdPinned, sdRuns, sdQueue>>
      /\ ForecastsInv
  BY DEF ForecastFor, StudioInv
<1>2. Growth /\ JobsInv'
  BY <1>1, Ended
<1>3. ASSUME NEW f \in sdForecasts' PROVE f \in sdForecasts \/ f.batch = FALSE
  BY <1>3 DEF ForecastFor, StoreForecast
<1>4. ForecastsInv'
  <2>1. ASSUME NEW f \in sdForecasts' PROVE IsAhead(f)'
    <3>1. CASE f \in sdForecasts
      BY <1>1, <1>2, <3>1, ForecastStays DEF ForecastsInv
    <3>2. CASE f.batch = FALSE
      BY <3>2 DEF IsAhead
    <3> QED BY <1>3, <3>1, <3>2
  <2> QED BY <2>1 DEF ForecastsInv
<1> QED BY <1>1, <1>2, <1>4, Rest DEF StudioInv

-----------------------------------------------------------------------------
(* Backtests.                                                              *)

LEMMA CreateRunKeeps ==
  ASSUME StudioInv, NEW w \in Workers, CreateRun(w)
  PROVE  StudioInv'
<1>1. /\ sdRuns' = Append(sdRuns, NewRun) /\ sdQueue' = Append(sdQueue, 0)
      /\ UNCHANGED <<sdDay, sdModel, sdTrainings, sdFiles, sdForecasts, sdPinned>>
      /\ RunsInv
  BY DEF CreateRun, StudioInv
<1>2. RunsInv' /\ DOMAIN sdRuns \subseteq DOMAIN sdRuns' /\ Len(sdRuns) + 1 \in DOMAIN sdRuns'
  BY <1>1, RunsAppend DEF RunsInv
<1>3. PICK j : j = [op |-> "start", pc |-> "send", run |-> Len(sdRuns) + 1]
  OBVIOUS
<1>4. sdJob' = [sdJob EXCEPT ![w] = j] /\ j.op = "start" /\ j.run = Len(sdRuns) + 1
  BY <1>3 DEF CreateRun, Start
<1>5. IsJob(j)'
  BY <1>2, <1>4 DEF IsJob
<1>6. Growth /\ JobsInv'
  BY <1>1, <1>2, <1>4, <1>5, QuietStep
<1> QED BY <1>1, <1>2, <1>6, Rest DEF StudioInv

LEMMA SendTaskKeeps ==
  ASSUME StudioInv, NEW w \in Workers, SendTask(w)
  PROVE  StudioInv'
<1>1. /\ End(w) /\ UNCHANGED <<sdDay, sdModel, sdTrainings, sdFiles, sdForecasts, sdPinned, sdRuns>>
      /\ RunsInv
  BY DEF SendTask, StudioInv
<1>2. PICK r : r = sdJob[w].run /\ r \in DOMAIN sdRuns
  BY DEF SendTask, At, StudioInv, JobsInv, IsJob
<1>3. sdQueue' = [sdQueue EXCEPT ![r] = sdQueue[r] + 1]
  BY <1>2 DEF SendTask
<1>4. sdQueue' \in Seq(Nat) /\ Len(sdQueue') = Len(sdQueue)
  <2>1. sdQueue \in Seq(Nat) /\ r \in 1..Len(sdQueue)
    BY <1>1, <1>2 DEF RunsInv
  <2>2. sdQueue[r] + 1 \in Nat
    BY <2>1
  <2> QED BY <1>3, <2>1, <2>2, ExceptSeq
<1>5. RunsInv'
  BY <1>1, <1>4 DEF RunsInv, OutOfSample
<1>6. Growth /\ JobsInv'
  BY <1>1, Ended
<1> QED BY <1>1, <1>5, <1>6, Rest DEF StudioInv

LEMMA RefuseTaskKeeps ==
  ASSUME StudioInv, NEW w \in Workers, RefuseTask(w)
  PROVE  StudioInv'
<1>1. End(w) /\ UNCHANGED <<sdDay, storage>>
  BY DEF RefuseTask
<1>2. Growth /\ JobsInv'
  BY <1>1, Ended DEF storage
<1> QED BY <1>1, <1>2, Rest DEF StudioInv, storage

LEMMA TakeTaskKeeps ==
  ASSUME StudioInv, NEW w \in Workers, TakeTask(w)
  PROVE  StudioInv'
<1>1. /\ UNCHANGED <<sdDay, sdModel, sdTrainings, sdFiles, sdForecasts, sdPinned>>
      /\ RunsInv /\ TrainingsInv
  BY DEF TakeTask, StudioInv
<1>2. PICK r, run, queue :
         /\ r \in DOMAIN sdQueue /\ sdQueue[r] > 0 /\ queue = [sdQueue EXCEPT ![r] = sdQueue[r] - 1]
         /\ \/ sdRuns' = sdRuns /\ sdQueue' = queue /\ run = r
            \/ sdRuns' = Append(sdRuns, NewRun) /\ sdQueue' = Append(queue, 0) /\ run = Len(sdRuns) + 1
         /\ Start(w, [op |-> "backtest", pc |-> "score", pinned |-> sdPinned, run |-> run])
  <2>1. PICK r \in DOMAIN sdQueue :
           /\ sdQueue[r] > 0
           /\ LET gone == sdRuns[r].status = "deleted"
              IN  /\ sdRuns' = IF gone THEN Append(sdRuns, NewRun) ELSE sdRuns
                  /\ sdQueue' = IF gone THEN Append([sdQueue EXCEPT ![r] = @ - 1], 0)
                                ELSE [sdQueue EXCEPT ![r] = @ - 1]
                  /\ Start(w, [op |-> "backtest", pc |-> "score", pinned |-> sdPinned,
                               run |-> IF gone THEN Len(sdRuns) + 1 ELSE r])
    BY DEF TakeTask
  <2>2. CASE sdRuns[r].status = "deleted"
    BY <2>1, <2>2
  <2>3. CASE sdRuns[r].status # "deleted"
    BY <2>1, <2>3
  <2> QED BY <2>2, <2>3
<1>3. queue \in Seq(Nat) /\ Len(queue) = Len(sdQueue)
  <2>1. sdQueue \in Seq(Nat) /\ r \in 1..Len(sdQueue) /\ sdQueue[r] \in Nat
    BY <1>1, <1>2 DEF RunsInv
  <2>2. sdQueue[r] - 1 \in Nat
    BY <1>2, <2>1
  <2> QED BY <1>2, <2>1, <2>2, ExceptSeq
<1>4. RunsInv' /\ DOMAIN sdRuns \subseteq DOMAIN sdRuns' /\ run \in DOMAIN sdRuns'
  <2>1. CASE sdRuns' = sdRuns /\ sdQueue' = queue /\ run = r
    <3>1. r \in DOMAIN sdRuns
      BY <1>1, <1>2 DEF RunsInv
    <3> QED BY <1>1, <1>3, <2>1, <3>1 DEF RunsInv, OutOfSample
  <2>2. CASE sdRuns' = Append(sdRuns, NewRun) /\ sdQueue' = Append(queue, 0) /\ run = Len(sdRuns) + 1
    BY <1>1, <1>3, <2>2, RunsAppend
  <2> QED BY <1>2, <2>1, <2>2
<1>5. PICK j : j = [op |-> "backtest", pc |-> "score", pinned |-> sdPinned, run |-> run]
  OBVIOUS
<1>6. /\ sdJob' = [sdJob EXCEPT ![w] = j]
      /\ j.op = "backtest" /\ j.pc = "score" /\ j.run = run /\ j.pinned = sdPinned
  BY <1>2, <1>5 DEF Start
<1>7. IsJob(j)'
  BY <1>1, <1>4, <1>6 DEF IsJob, TrainingsInv
<1>8. Growth /\ JobsInv'
  BY <1>1, <1>4, <1>6, <1>7, QuietStep
<1> QED BY <1>1, <1>4, <1>8, Rest DEF StudioInv

\* An artifact that recorded its train_end is scored on later sessions only.
LEMMA ScoresAreOutOfSample ==
  ASSUME NEW f, IsFile(f), NEW m, m.end \in Nat, NEW days,
         \A d \in days : d \in Int /\ d > Cutoff(f, m)
  PROVE  OutOfSample([days |-> days, labels |-> f.labels, ended |-> f.end # 0])
<1>1. ASSUME f.end # 0, NEW t \in f.labels, NEW d \in days PROVE t < d
  <2>1. /\ f.end \in Int /\ f.trained \in Int
        /\ t \in Int /\ t \in 1..f.trained /\ t <= f.end
    BY <1>1 DEF IsFile
  <2>2. Cutoff(f, m) = Min({f.trained, f.end})
    BY <1>1, <2>1 DEF Cutoff
  <2>3. t <= Cutoff(f, m) /\ Cutoff(f, m) \in Int
    BY <2>1, <2>2, MinOfTwo
  <2>4. d \in Int /\ d > Cutoff(f, m)
    OBVIOUS
  <2> QED BY <2>1, <2>3, <2>4
<1> QED BY <1>1 DEF OutOfSample

\* A row lies in the history it was built from.
LEMMA RowInHistory ==
  ASSUME NEW spec, NEW bars, NEW first \in Int, NEW last \in Int, NEW known \in Int,
         NEW r \in Rows(spec, bars, first, last, known)
  PROVE  /\ r.d \in Int /\ r.t \in Int /\ r.inst \in DOMAIN bars
         /\ r.t \in bars[r.inst] /\ r.t + 1 <= known
<1>1. r \in [inst : DOMAIN bars, d : first..last, t : first..known]
  BY DEF Rows
<1>2. r.d \in Int /\ r.t \in Int /\ r.inst \in DOMAIN bars
  BY <1>1
<1>3. r.t \in TargetDays(spec, {b \in bars[r.inst] : BarTime(b) <= known}, r.d) /\ AvailableAt(r.t) <= known
  BY DEF Rows
<1>4. r.t \in bars[r.inst]
  BY <1>3 DEF TargetDays
<1> QED BY <1>2, <1>3, <1>4 DEF AvailableAt

LEMMA ScoreKeeps ==
  ASSUME StudioInv, NEW w \in Workers, Score(w)
  PROVE  StudioInv'
<1>1. /\ UNCHANGED <<sdDay, storage>> /\ sdDay \in Nat /\ TrainingsInv /\ FilesInv
      /\ IsModel(sdModel) /\ IsJob(sdJob[w]) /\ sdJob[w].op = "backtest" /\ sdJob[w].pc = "score"
  BY DEF Score, At, StudioInv, JobsInv
<1>2. PICK path, rows, file, scored :
         /\ path = ArtifactOf(sdJob[w].pinned, sdModel)
         /\ rows = Rows(sdModel.target, Bars, 1, sdDay, sdDay + 1)
         /\ file = sdFiles[path]
         /\ scored = {d \in DecisionDays(rows) : d > Cutoff(file, sdModel)}
         /\ path # 0
         /\ sdJob' = [sdJob EXCEPT ![w] =
                [op |-> "backtest", pc |-> "persist", run |-> sdJob[w].run,
                 rows |-> [days |-> scored, labels |-> file.labels, ended |-> file.end # 0]]]
  BY DEF Score
<1>3. path \in DOMAIN sdFiles
  BY <1>1, <1>2 DEF ArtifactOf, IsJob, TrainingsInv, IsModel, Settled
<1>4. IsFile(file)
  BY <1>1, <1>2, <1>3 DEF FilesInv
<1>5. \A d \in scored : d \in Int /\ d > Cutoff(file, sdModel)
  <2>1. \A r \in rows : r.d \in Int
    BY <1>1, <1>2, RowInHistory
  <2> QED BY <1>2, <2>1 DEF DecisionDays
<1>6. PICK new : new = [days |-> scored, labels |-> file.labels, ended |-> file.end # 0]
  OBVIOUS
<1>7. OutOfSample(new)
  <2>1. sdModel.end \in Nat
    BY <1>1 DEF IsModel, IsConfig
  <2> QED BY <1>4, <1>5, <1>6, <2>1, ScoresAreOutOfSample
<1>8. new \in ScoredRows
  BY <1>4, <1>5, <1>6 DEF ScoredRows, IsFile
<1>9. PICK j : j = [op |-> "backtest", pc |-> "persist", run |-> sdJob[w].run, rows |-> new]
  OBVIOUS
<1>10. /\ sdJob' = [sdJob EXCEPT ![w] = j]
       /\ j.op = "backtest" /\ j.pc = "persist" /\ j.run = sdJob[w].run /\ j.rows = new
  BY <1>2, <1>6, <1>9
<1>11. IsJob(j)'
  BY <1>1, <1>7, <1>8, <1>10 DEF IsJob, OutOfSample, storage
<1>12. Growth /\ JobsInv'
  BY <1>1, <1>10, <1>11, QuietStep DEF storage
<1> QED BY <1>1, <1>12, Rest DEF StudioInv, storage

LEMMA PersistKeeps ==
  ASSUME StudioInv, NEW w \in Workers, Persist(w)
  PROVE  StudioInv'
<1>1. /\ End(w) /\ UNCHANGED <<sdDay, sdModel, sdTrainings, sdFiles, sdForecasts, sdPinned, sdQueue>>
      /\ RunsInv
  BY DEF Persist, StudioInv
<1>2. PICK r, row : /\ r = sdJob[w].run /\ row = [status |-> "success", rows |-> sdJob[w].rows]
                    /\ sdRuns' = [sdRuns EXCEPT ![r] = row]
  BY DEF Persist
<1>3. r \in DOMAIN sdRuns /\ row \in RunRow /\ OutOfSample(row.rows)
  BY <1>2 DEF Persist, At, StudioInv, JobsInv, IsJob, RunRow, Statuses
<1>4. RunsInv' /\ DOMAIN sdRuns' = DOMAIN sdRuns
  BY <1>1, <1>2, <1>3, RunsExcept
<1>5. Growth /\ JobsInv'
  BY <1>1, <1>4, Ended
<1> QED BY <1>1, <1>4, <1>5, Rest DEF StudioInv

LEMMA FailScoreKeeps ==
  ASSUME StudioInv, NEW w \in Workers, FailScore(w)
  PROVE  StudioInv'
<1>1. /\ End(w) /\ UNCHANGED <<sdDay, sdModel, sdTrainings, sdFiles, sdForecasts, sdPinned, sdQueue>>
      /\ RunsInv
  BY DEF FailScore, StudioInv
<1>2. PICK r : r = sdJob[w].run /\ sdRuns' = [sdRuns EXCEPT ![r].status = "failed"]
  BY DEF FailScore
<1>3. r \in DOMAIN sdRuns
  BY <1>2 DEF FailScore, StudioInv, JobsInv, IsJob
<1>4. PICK row : row = [sdRuns[r] EXCEPT !.status = "failed"]
  OBVIOUS
<1>5. sdRuns[r] \in RunRow /\ OutOfSample(sdRuns[r].rows)
  BY <1>1, <1>3 DEF RunsInv
<1>6. row \in RunRow /\ row.rows = sdRuns[r].rows
  BY <1>4, <1>5 DEF RunRow, Statuses
<1>7. OutOfSample(row.rows)
  BY <1>5, <1>6
<1>8. sdRuns' = [sdRuns EXCEPT ![r] = row]
  BY <1>2, <1>4
<1>9. RunsInv' /\ DOMAIN sdRuns' = DOMAIN sdRuns
  BY <1>1, <1>3, <1>6, <1>7, <1>8, RunsExcept
<1>10. Growth /\ JobsInv'
  BY <1>1, <1>9, Ended
<1> QED BY <1>1, <1>9, <1>10, Rest DEF StudioInv
-----------------------------------------------------------------------------
(* Training.                                                               *)

\* One row of a training changes.
LEMMA TrainingsExcept ==
  ASSUME TrainingsInv, FilesInv, NEW r \in DOMAIN sdTrainings, NEW row \in TrainingRow,
         row.artifact # 0 => row.artifact \in DOMAIN sdFiles,
         sdTrainings' = [sdTrainings EXCEPT ![r] = row],
         UNCHANGED <<sdDay, sdFiles, sdPinned>>
  PROVE  /\ TrainingsInv' /\ FilesInv' /\ DOMAIN sdTrainings' = DOMAIN sdTrainings
         /\ sdTrainings'[r] = row
         /\ \A s \in DOMAIN sdTrainings : s # r => sdTrainings'[s] = sdTrainings[s]
<1>1. sdTrainings \in Seq(TrainingRow)
  BY DEF TrainingsInv
<1>2. /\ sdTrainings' \in Seq(TrainingRow) /\ DOMAIN sdTrainings' = DOMAIN sdTrainings
      /\ \A s \in DOMAIN sdTrainings : sdTrainings'[s] = IF s = r THEN row ELSE sdTrainings[s]
  <2> HIDE DEF TrainingRow
  <2> QED BY <1>1, ExceptSeq
<1>3. TrainingsInv'
  BY <1>2 DEF TrainingsInv
<1>4. FilesInv'
  BY <1>2 DEF FilesInv, IsFile
<1> QED BY <1>2, <1>3, <1>4

\* The run of a job is its own, and no settled artifact.
LEMMA OwnRun ==
  ASSUME JobsInv, NEW w \in Workers, sdJob[w].op = "train"
  PROVE  /\ ~Settled(sdJob[w].run)
         /\ \A v \in Workers \ {w} : sdJob[v].op = "train" => sdJob[v].run # sdJob[w].run
  BY DEF JobsInv, Settled, Trains

\* A worker changes the row of its own training, and goes on or ends.
LEMMA TrainingStep ==
  ASSUME StudioInv, NEW w \in Workers, sdJob[w].op = "train",
         NEW row \in TrainingRow, row.artifact # 0 => row.artifact \in DOMAIN sdFiles,
         sdTrainings' = [sdTrainings EXCEPT ![sdJob[w].run] = row],
         UNCHANGED <<sdDay, sdModel, sdFiles, sdForecasts, sdPinned, sdRuns, sdQueue>>,
         NEW j, sdJob' = [sdJob EXCEPT ![w] = j],
         j.op # "train" \/ (j.op = "train" /\ j.run = sdJob[w].run),
         Growth => IsJob(j)'
  PROVE  StudioInv'
<1>1. sdDay \in Nat /\ TrainingsInv /\ FilesInv /\ JobsInv /\ IsJob(sdJob[w])
  BY DEF StudioInv, JobsInv
<1>2. PICK r : r = sdJob[w].run
  OBVIOUS
<1>3. r \in DOMAIN sdTrainings
  BY <1>1, <1>2 DEF IsJob
<1>4. /\ TrainingsInv' /\ FilesInv' /\ DOMAIN sdTrainings' = DOMAIN sdTrainings
      /\ \A s \in DOMAIN sdTrainings : s # r => sdTrainings'[s] = sdTrainings[s]
  BY <1>1, <1>2, <1>3, TrainingsExcept
<1>5. \A v \in Workers : sdJob'[v] = sdJob[v] \/ (v = w /\ (sdJob'[v].op = "train" => sdJob'[v].run = r))
  BY <1>1, <1>2 DEF JobsInv
<1>6. Growth
  <2>1. ASSUME NEW s, Settled(s) PROVE Settled(s)'
    <3>1. s # r /\ s \in DOMAIN sdTrainings
      BY <1>1, <1>2, <2>1, OwnRun DEF Settled
    <3> QED BY <1>4, <1>5, <2>1, <3>1 DEF Settled, Trains, Good
  <2> QED BY <1>1, <1>4, <2>1 DEF Growth
<1>7. \A v \in Workers \ {w} : sdJob[v].op = "train" /\ Good(sdJob[v].run) => Good(sdJob[v].run)'
  <2>1. ASSUME NEW v \in Workers \ {w}, sdJob[v].op = "train", Good(sdJob[v].run)
        PROVE  Good(sdJob[v].run)'
    <3>1. sdJob[v].run # r /\ sdJob[v].run \in DOMAIN sdTrainings /\ sdJob'[v] = sdJob[v]
      BY <1>1, <1>2, <2>1, OwnRun DEF JobsInv, IsJob
    <3> QED BY <1>4, <2>1, <3>1 DEF Good
  <2> QED BY <2>1
<1>8. JobsInv'
  BY <1>1, <1>6, <1>7, JobsStep
<1> QED BY <1>1, <1>4, <1>6, <1>8, Rest DEF StudioInv

LEMMA RecordTrainingKeeps ==
  ASSUME StudioInv, NEW w \in Workers, RecordTraining(w)
  PROVE  StudioInv'
<1>1. /\ sdJob[w].op = "train" /\ sdJob[w].pc = "record"
      /\ UNCHANGED <<sdDay, sdModel, sdFiles, sdForecasts, sdPinned, sdRuns, sdQueue>>
      /\ IsJob(sdJob[w]) /\ FilesInv /\ JobsInv /\ TrainingsInv
  BY DEF RecordTraining, At, StudioInv, JobsInv
<1>2. PICK r, row : /\ r = sdJob[w].run /\ row = [status |-> "success", artifact |-> r]
                    /\ sdTrainings' = [sdTrainings EXCEPT ![r] = row]
  BY DEF RecordTraining
<1>3. r \in DOMAIN sdFiles /\ r \in DOMAIN sdTrainings /\ r \in Nat
  BY <1>1, <1>2 DEF IsJob, FilesInv, TrainingsInv
<1>4. row \in TrainingRow /\ row.artifact \in DOMAIN sdFiles /\ row.status = "success"
  BY <1>2, <1>3 DEF TrainingRow, Statuses
<1>5. PICK k : k = sdJob[w]
  OBVIOUS
<1>6. PICK j : j = [k EXCEPT !.pc = "serve"]
  OBVIOUS
<1>7. sdJob' = [sdJob EXCEPT ![w] = j]
  BY <1>5, <1>6 DEF RecordTraining, Goto
<1>8. j.op = "train" /\ j.pc = "serve" /\ j.run = r /\ j.model = k.model /\ DOMAIN j = {"op", "pc", "run", "model"}
  BY <1>1, <1>2, <1>5, <1>6 DEF IsJob
<1>9. Growth => IsJob(j)'
  <2>1. IsConfig(j.model)
    BY <1>1, <1>5, <1>8 DEF IsJob
  <2>2. sdTrainings'[r].status = "success" /\ r \in DOMAIN sdTrainings' /\ r \in DOMAIN sdFiles'
    BY <1>1, <1>2, <1>3, <1>4, TrainingsExcept
  <2> QED BY <1>8, <2>1, <2>2 DEF IsJob, Good, IsConfig, ValidSpec
<1>10. /\ sdTrainings' = [sdTrainings EXCEPT ![sdJob[w].run] = row]
       /\ j.op = "train" /\ j.run = sdJob[w].run
  BY <1>2, <1>8
<1> QED BY <1>1, <1>4, <1>7, <1>9, <1>10, TrainingStep

LEMMA FailTrainingKeeps ==
  ASSUME StudioInv, NEW w \in Workers, FailTraining(w)
  PROVE  StudioInv'
<1>1. /\ sdJob[w].op = "train" /\ IsJob(sdJob[w]) /\ FilesInv /\ TrainingsInv
      /\ UNCHANGED <<sdDay, sdModel, sdFiles, sdForecasts, sdPinned, sdRuns, sdQueue>>
      /\ sdJob' = [sdJob EXCEPT ![w] = Idle]
  BY DEF FailTraining, End, StudioInv, JobsInv
<1>2. PICK row : /\ row = [status |-> "failed",
                           artifact |-> IF sdJob[w].pc = "fit" THEN 0 ELSE sdJob[w].run]
                 /\ sdTrainings' = [sdTrainings EXCEPT ![sdJob[w].run] = row]
  BY DEF FailTraining
<1>3. row \in TrainingRow /\ (row.artifact # 0 => row.artifact \in DOMAIN sdFiles)
  <2>1. sdJob[w].run \in Nat /\ (sdJob[w].pc # "fit" => sdJob[w].run \in DOMAIN sdFiles)
    BY <1>1 DEF IsJob, TrainingsInv
  <2> QED BY <1>2, <2>1 DEF TrainingRow, Statuses
<1>4. IsJob(Idle)' /\ Idle.op # "train"
  BY DEF IsJob, Idle
<1> QED BY <1>1, <1>2, <1>3, <1>4, TrainingStep

LEMMA ServeKeeps ==
  ASSUME StudioInv, NEW w \in Workers, Serve(w)
  PROVE  StudioInv'
<1>1. /\ sdJob[w].op = "train" /\ IsJob(sdJob[w]) /\ sdJob[w].pc = "serve"
      /\ UNCHANGED <<sdDay, sdTrainings, sdFiles, sdForecasts, sdPinned, sdRuns, sdQueue>>
      /\ End(w) /\ JobsInv /\ FilesInv /\ TrainingsInv
  BY DEF Serve, At, StudioInv, JobsInv
<1>2. Growth /\ JobsInv'
  BY <1>1, Ended
<1>3. PICK r : r = sdJob[w].run
  OBVIOUS
<1>4. r \in DOMAIN sdFiles /\ r \in DOMAIN sdTrainings /\ Good(r) /\ r \in Nat
  BY <1>1, <1>3 DEF IsJob, TrainingsInv
<1>5. Settled(r)'
  <2>1. sdJob'[w] = Idle /\ \A v \in Workers \ {w} : sdJob'[v] = sdJob[v]
    BY <1>1 DEF End, JobsInv
  <2>2. \A v \in Workers : ~Trains(v, r)'
    BY <1>1, <1>3, <2>1, OwnRun DEF Trains, Idle
  <2> QED BY <1>1, <1>4, <2>2 DEF Settled, Good
<1>6. /\ IsModel(sdModel)
      /\ sdModel' = [sdModel EXCEPT !.artifact = r, !.metrics = r]
  BY <1>3 DEF Serve, StudioInv
<1>7. /\ sdModel'.end = sdModel.end /\ sdModel'.target = sdModel.target
      /\ sdModel'.artifact = r /\ sdModel'.metrics = r
  BY <1>6 DEF IsModel
<1>8. IsModel(sdModel)'
  BY <1>4, <1>5, <1>6, <1>7 DEF IsModel, IsConfig, ValidSpec
<1> QED BY <1>1, <1>2, <1>8, Rest DEF StudioInv

LEMMA BeginTrainingKeeps ==
  ASSUME StudioInv, NEW w \in Workers, BeginTraining(w)
  PROVE  StudioInv'
<1>1. /\ UNCHANGED <<sdDay, sdModel, sdFiles, sdForecasts, sdPinned, sdRuns, sdQueue>>
      /\ sdDay \in Nat /\ TrainingsInv /\ FilesInv /\ JobsInv /\ IsModel(sdModel)
  BY DEF BeginTraining, StudioInv
<1>2. PICK row : row = [status |-> "running", artifact |-> 0]
  OBVIOUS
<1>3. /\ row \in TrainingRow /\ row.artifact = 0
      /\ sdTrainings' = Append(sdTrainings, row)
  BY <1>2 DEF BeginTraining, TrainingRow, Statuses
<1>4. PICK r : r = Len(sdTrainings) + 1
  OBVIOUS
<1>5. /\ sdTrainings' \in Seq(TrainingRow) /\ DOMAIN sdTrainings' = DOMAIN sdTrainings \cup {r}
      /\ r \notin DOMAIN sdTrainings /\ sdTrainings'[r] = row
      /\ \A s \in DOMAIN sdTrainings : sdTrainings'[s] = sdTrainings[s]
  <2>1. sdTrainings \in Seq(TrainingRow)
    BY <1>1 DEF TrainingsInv
  <2> HIDE DEF TrainingRow
  <2> QED BY <1>3, <1>4, <2>1, AppendProperties, LenProperties
<1>6. TrainingsInv'
  <2>1. \A s \in DOMAIN sdTrainings' : sdTrainings'[s].artifact # 0 => sdTrainings'[s].artifact \in DOMAIN sdFiles'
    BY <1>1, <1>3, <1>5 DEF TrainingsInv
  <2> QED BY <1>1, <1>5, <2>1 DEF TrainingsInv
<1>7. FilesInv'
  BY <1>1, <1>5 DEF FilesInv, IsFile
<1>8. PICK j : j = [op |-> "train", pc |-> "fit", run |-> r, model |-> sdModel]
  OBVIOUS
<1>9. /\ sdJob' = [sdJob EXCEPT ![w] = j]
      /\ j.op = "train" /\ j.pc = "fit" /\ j.run = r /\ j.model = sdModel
      /\ DOMAIN j = {"op", "pc", "run", "model"}
  BY <1>4, <1>8 DEF BeginTraining, Start
<1>10. Growth
  <2>1. ASSUME NEW s, Settled(s) PROVE Settled(s)'
    <3>1. s \in DOMAIN sdTrainings /\ s # r
      BY <1>5, <2>1 DEF Settled
    <3>2. \A v \in Workers : sdJob'[v] = sdJob[v] \/ sdJob'[v] = j
      BY <1>1, <1>9 DEF JobsInv
    <3> QED BY <1>1, <1>5, <1>9, <2>1, <3>1, <3>2 DEF Settled, Trains, Good
  <2> QED BY <1>1, <1>5, <2>1 DEF Growth
<1>11. IsJob(j)'
  BY <1>1, <1>5, <1>9 DEF IsJob, IsModel, IsConfig, ValidSpec
<1>12. \A v \in Workers : sdJob[v].op = "train" => sdJob[v].run \in DOMAIN sdTrainings
  BY <1>1 DEF JobsInv, IsJob
<1>13. \A v \in Workers \ {w} : sdJob[v].op = "train" /\ Good(sdJob[v].run) => Good(sdJob[v].run)'
  <2>1. ASSUME NEW v \in Workers \ {w}, sdJob[v].op = "train", Good(sdJob[v].run)
        PROVE  Good(sdJob[v].run)'
    <3>1. sdJob'[v] = sdJob[v] /\ sdJob[v].run \in DOMAIN sdTrainings
      BY <1>1, <1>9, <1>12, <2>1 DEF JobsInv
    <3> QED BY <1>5, <2>1, <3>1 DEF Good
  <2> QED BY <2>1
<1>14. \A v \in Workers : sdJob[v].op = "train" => sdJob[v].run # j.run
  BY <1>5, <1>9, <1>12
<1>15. JobsInv'
  BY <1>1, <1>9, <1>10, <1>11, <1>13, <1>14, JobsStep
<1> QED BY <1>1, <1>6, <1>7, <1>10, <1>15, Rest DEF StudioInv

\* What an artifact was fitted on.
LEMMA FittedLabels ==
  ASSUME sdDay \in Nat, NEW m, IsConfig(m), NEW r \in Fitted(StudioRows(m.target, m.end))
  PROVE  r.t \in Int /\ r.t \in (1..sdDay) \ Holidays /\ (m.end # 0 => r.t <= m.end)
<1>1. r \in StudioRows(m.target, m.end) /\ m.end \in Nat
  BY DEF Fitted, IsConfig
<1>2. \A i \in DOMAIN Bars : Bars[i] = (1..sdDay) \ Holidays
  BY DEF Bars
<1>3. CASE m.end = 0
  <2>1. r \in Rows(m.target, Bars, 1, sdDay, sdDay)
    BY <1>1, <1>3 DEF StudioRows
  <2> QED BY <1>2, <1>3, <2>1, RowInHistory
<1>4. CASE m.end # 0
  <2>1. r \in Rows(m.target, Bars, 1, m.end, m.end + 1)
    BY <1>1, <1>4 DEF StudioRows
  <2>2. m.end \in Int /\ m.end + 1 \in Int
    BY <1>1
  <2>3. r.t \in Int /\ r.inst \in DOMAIN Bars /\ r.t \in Bars[r.inst] /\ r.t + 1 <= m.end + 1
    BY <2>1, <2>2, RowInHistory
  <2> QED BY <1>1, <1>2, <2>3
<1> QED BY <1>3, <1>4

LEMMA FitAndDumpKeeps ==
  ASSUME StudioInv, NEW w \in Workers, FitAndDump(w)
  PROVE  StudioInv'
<1>1. /\ sdJob[w].op = "train" /\ IsJob(sdJob[w]) /\ sdJob[w].pc = "fit"
      /\ UNCHANGED <<sdDay, sdModel, sdTrainings, sdForecasts, sdPinned, sdRuns, sdQueue>>
      /\ sdDay \in Nat /\ JobsInv /\ FilesInv /\ TrainingsInv
  BY DEF FitAndDump, At, StudioInv, JobsInv
<1>2. PICK k : k = sdJob[w]
  OBVIOUS
<1>3. PICK file : /\ file = [ target |-> k.model.target, features |-> k.model.features,
                              trained |-> sdDay, end |-> k.model.end,
                              labels |-> {r.t : r \in Fitted(StudioRows(k.model.target, k.model.end))} ]
                  /\ sdFiles' = Dumped(k.run, file)
  BY <1>2 DEF FitAndDump
<1>4. k.run \in DOMAIN sdTrainings /\ IsConfig(k.model) /\ DOMAIN k = {"op", "pc", "run", "model"}
  BY <1>1, <1>2 DEF IsJob
<1>5. IsFile(file)
  <2>1. \A t \in file.labels : t \in Int /\ t \in (1..sdDay) \ Holidays /\ (k.model.end # 0 => t <= k.model.end)
    BY <1>1, <1>3, <1>4, FittedLabels
  <2>2. file.end = k.model.end /\ file.trained = sdDay /\ k.model.end \in Nat
    BY <1>3, <1>4 DEF IsConfig
  <2> QED BY <1>1, <2>1, <2>2 DEF IsFile
<1>6. /\ DOMAIN sdFiles' = DOMAIN sdFiles \cup {k.run} /\ sdFiles'[k.run] = file
      /\ \A s \in DOMAIN sdFiles : s # k.run => sdFiles'[s] = sdFiles[s]
  BY <1>3 DEF Dumped
<1>7. FilesInv'
  <2>1. DOMAIN sdFiles' \subseteq DOMAIN sdTrainings'
    BY <1>1, <1>4, <1>6 DEF FilesInv
  <2>2. ASSUME NEW s \in DOMAIN sdFiles' PROVE IsFile(sdFiles[s])'
    <3>1. PICK f : f = sdFiles'[s]
      OBVIOUS
    <3>2. IsFile(f)
      BY <1>1, <1>5, <1>6, <3>1 DEF FilesInv
    <3>3. IsFile(f)'
      BY <1>1, <3>2 DEF IsFile
    <3> QED BY <3>1, <3>3
  <2> QED BY <2>1, <2>2 DEF FilesInv
<1>8. TrainingsInv'
  BY <1>1, <1>6 DEF TrainingsInv
<1>9. PICK j : j = [k EXCEPT !.pc = "record"]
  OBVIOUS
<1>10. /\ sdJob' = [sdJob EXCEPT ![w] = j]
       /\ j.op = "train" /\ j.pc = "record" /\ j.run = k.run /\ j.model = k.model
       /\ DOMAIN j = {"op", "pc", "run", "model"}
  BY <1>1, <1>2, <1>4, <1>9 DEF FitAndDump, Goto
<1>11. Growth
  <2>1. ASSUME NEW s, Settled(s) PROVE Settled(s)' /\ sdFiles'[s] = sdFiles[s]
    <3>1. s # k.run /\ s \in DOMAIN sdFiles
      BY <1>1, <1>2, <2>1, OwnRun DEF Settled
    <3>2. \A v \in Workers : sdJob'[v] = sdJob[v] \/ (sdJob'[v] = j)
      BY <1>1, <1>10 DEF JobsInv
    <3> QED BY <1>1, <1>6, <1>10, <2>1, <3>1, <3>2 DEF Settled, Trains, Good
  <2> QED BY <1>1, <1>6, <2>1 DEF Growth
<1>12. IsJob(j)'
  BY <1>1, <1>4, <1>6, <1>10 DEF IsJob, IsConfig, ValidSpec
<1>13. \A v \in Workers \ {w} : sdJob[v].op = "train" /\ Good(sdJob[v].run) => Good(sdJob[v].run)'
  BY <1>1, <1>10 DEF JobsInv, Good
<1>14. JobsInv'
  BY <1>1, <1>2, <1>10, <1>11, <1>12, <1>13, JobsStep
<1> QED BY <1>1, <1>7, <1>8, <1>11, <1>14, Rest DEF StudioInv
-----------------------------------------------------------------------------
(* The invariant of Lab.                                                   *)

LEMMA StudioInvInit == StudioInit => StudioInv
<1> SUFFICES ASSUME StudioInit PROVE StudioInv
  OBVIOUS
<1>1. PICK c \in Configs : ModelClean(c) /\ sdModel = ModelRow(c, 0, 0)
  BY DEF StudioInit
<1>2. IsModel(sdModel)
  BY <1>1, StudioConstants DEF ModelRow, ModelClean, IsModel, IsConfig, ValidSpec
<1>3. /\ sdDay \in Nat /\ sdTrainings = <<>> /\ sdFiles = <<>> /\ sdForecasts = {} /\ sdPinned = 0
      /\ sdRuns = <<>> /\ sdQueue = <<>> /\ sdJob = [w \in Workers |-> Idle]
  BY StudioConstants DEF StudioInit
<1>4. TrainingsInv /\ FilesInv
  BY <1>3 DEF TrainingsInv, FilesInv
<1>5. RunsInv
  BY <1>3 DEF RunsInv
<1>6. JobsInv
  BY <1>3 DEF JobsInv, IsJob, Idle
<1>7. ForecastsInv
  BY <1>3 DEF ForecastsInv
<1> QED BY <1>2, <1>3, <1>4, <1>5, <1>6, <1>7 DEF StudioInv

LEMMA StudioInvNext == StudioInv /\ StudioNext => StudioInv'
<1> SUFFICES ASSUME StudioInv, StudioNext PROVE StudioInv'
  OBVIOUS
<1>1. ASSUME NEW w \in Workers, Work(w) PROVE StudioInv'
  BY <1>1, FailTrainingKeeps, FailScoreKeeps, RecordTrainingKeeps, ServeKeeps, PersistKeeps,
     SaveEditKeeps, ForecastTodayKeeps, ForecastForKeeps, FitAndDumpKeeps, ScoreKeeps,
     SendTaskKeeps
     DEF Work
<1>2. ASSUME NEW w \in Workers,
             \/ BeginTraining(w) \/ BeginEdit(w) \/ BeginForecast(w) \/ CreateRun(w)
             \/ TakeTask(w) \/ RefuseTask(w) \/ StudioCrash(w)
      PROVE  StudioInv'
  BY <1>2, BeginTrainingKeeps, BeginEditKeeps, BeginForecastKeeps, CreateRunKeeps, TakeTaskKeeps,
     RefuseTaskKeeps, StudioCrashKeeps
<1> QED
  BY <1>1, <1>2, NextSessionKeeps, PinRunKeeps, DeleteTrainingKeeps, DeliverAgainKeeps, DeleteRunKeeps
     DEF StudioNext

LEMMA StudioInvStays ==
  ASSUME StudioInv, UNCHANGED sdVars
  PROVE  StudioInv'
<1>1. /\ UNCHANGED <<sdDay, sdModel, sdTrainings, sdFiles, sdForecasts, sdPinned, sdRuns, sdQueue, sdJob>>
      /\ sdDay \in Nat /\ JobsInv
  BY DEF sdVars, StudioInv
<1>2. Growth
  BY <1>1, QuietGrowth
<1>3. JobsInv'
  BY <1>1, <1>2, JobsUnchanged DEF Good
<1> QED BY <1>1, <1>2, <1>3, Rest DEF StudioInv

\* A behaviour that follows another component has no model to speak of.
NoStudio == sdBudget = <<>> /\ sdModel = <<>> /\ sdForecasts = {} /\ sdRuns = <<>>
LabInv == StudioInv \/ NoStudio

LEMMA LabInvInit == LabInit => LabInv
  BY StudioInvInit DEF LabInit, LabInv, StudioIdle, NoStudio

LEMMA LabInvNext == LabInv /\ [LabNext]_labVars => LabInv'
<1> SUFFICES ASSUME LabInv, [LabNext]_labVars PROVE LabInv'
  OBVIOUS
<1>1. CASE sdBudget # <<>> /\ StudioNext
  BY <1>1, StudioInvNext DEF LabInv, NoStudio
<1>2. CASE UNCHANGED sdVars
  BY <1>2, StudioInvStays DEF LabInv, NoStudio, sdVars
<1>3. (sdBudget # <<>> /\ StudioNext) \/ UNCHANGED sdVars
  BY DEF LabNext, labVars
<1> QED BY <1>1, <1>2, <1>3

(* What is settled stays so, in every order of trainings, edits,           *)
(* forecasts, backtests, deletions and crashes.                            *)
THEOREM LabInvariant == LabSpec => []LabInv
<1>1. LabInit /\ [][LabNext]_labVars => []LabInv
  BY LabInvInit, LabInvNext, PTL
<1> QED BY <1>1, PTL DEF LabSpec

-----------------------------------------------------------------------------
(* What follows.                                                           *)

(* A model never points to an artifact whose file is missing, whose        *)
(* training failed or whose metrics are not shown with it: train_model     *)
(* writes the file, the run and the model in this order                    *)
(* (modeling/training.py), and nothing takes one of them back.             *)
THEOREM ArtifactsAreWhole == LabSpec => []ServedArtifactIsWhole
<1>1. LabInv => ServedArtifactIsWhole
  <2> SUFFICES ASSUME LabInv, sdModel # <<>>, sdModel.artifact # 0
               PROVE  /\ sdModel.artifact \in DOMAIN sdFiles
                      /\ sdModel.metrics = sdModel.artifact
                      /\ sdTrainings[sdModel.artifact].status \in {"success", "deleted"}
    BY DEF ServedArtifactIsWhole
  <2>1. IsModel(sdModel)
    BY DEF LabInv, NoStudio, StudioInv
  <2> QED BY <2>1 DEF IsModel, Settled, Good
<1> QED BY <1>1, LabInvariant, PTL

(* A frozen-artifact backtest of an artifact that recorded its train_end   *)
(* scores only sessions after every label the artifact was fitted on       *)
(* (backtesting/engine.py, _score_frozen).                                 *)
THEOREM FrozenScoresAreOutOfSample == LabSpec => []FrozenIsOutOfSample
<1>1. LabInv => FrozenIsOutOfSample
  <2>1. StudioInv => FrozenIsOutOfSample
    BY DEF StudioInv, RunsInv, OutOfSample, FrozenIsOutOfSample
  <2>2. NoStudio => FrozenIsOutOfSample
    BY DEF NoStudio, FrozenIsOutOfSample
  <2> QED BY <2>1, <2>2 DEF LabInv
<1> QED BY <1>1, LabInvariant, PTL

(* The scheduled forecasts look ahead, for weeks of any length, whatever   *)
(* holidays fall between the decision and the day the task runs            *)
(* (modeling/tasks.py, modeling/prediction.py).                            *)
THEOREM BatchLooksAhead == LabSpec => []BatchForecastsAreAhead
<1>1. LabInv => BatchForecastsAreAhead
  BY DEF LabInv, NoStudio, StudioInv, ForecastsInv, IsAhead, BatchForecastsAreAhead
<1> QED BY <1>1, LabInvariant, PTL

\* A new run leaves the others as they are.
LEMMA AppendedRun ==
  ASSUME RunsInv, sdRuns' = Append(sdRuns, NewRun)
  PROVE  \A r \in DOMAIN sdRuns : sdRuns'[r] = sdRuns[r]
<1>1. sdRuns \in Seq(RunRow)
  BY DEF RunsInv
<1> DEFINE new == NewRun
<1>2. PICK U : U = RunRow \cup {new}
  OBVIOUS
<1>3. sdRuns \in Seq(U) /\ new \in U
  BY <1>1, <1>2
<1>4. sdRuns' = Append(sdRuns, new)
  OBVIOUS
<1> HIDE DEF new
<1> QED BY <1>3, <1>4, AppendProperties, LenProperties

\* The rows of a finished run are those it had, unless it is deleted.
Stay == \A r \in DOMAIN sdRuns : sdRuns[r].rows # NoRows =>
           sdRuns'[r].rows = sdRuns[r].rows \/ sdRuns'[r].status = "deleted"

LEMMA ResultsStay == StudioInv /\ StudioNext => Stay
<1> SUFFICES ASSUME StudioInv, StudioNext PROVE Stay
  OBVIOUS
<1>0. RunsInv /\ \A w \in Workers : IsJob(sdJob[w])
  BY DEF StudioInv, JobsInv
<1>1. CASE UNCHANGED sdRuns
  BY <1>1 DEF Stay
<1>2. CASE sdRuns' = Append(sdRuns, NewRun)
  BY <1>0, <1>2, AppendedRun DEF Stay
<1>3. CASE DeleteRun
  <2>1. PICK s \in DOMAIN sdRuns : sdRuns' = [sdRuns EXCEPT ![s] = [status |-> "deleted", rows |-> NoRows]]
    BY <1>3 DEF DeleteRun
  <2> QED BY <2>1 DEF Stay
<1>4. ASSUME NEW w \in Workers, Persist(w) PROVE Stay
  <2>1. PICK s : /\ s = sdJob[w].run /\ sdRuns[s].rows = NoRows
                 /\ sdRuns' = [sdRuns EXCEPT ![s] = [status |-> "success", rows |-> sdJob[w].rows]]
    BY <1>4 DEF Persist
  <2> QED BY <2>1 DEF Stay
<1>5. ASSUME NEW w \in Workers, FailScore(w) PROVE Stay
  <2>1. PICK s : s = sdJob[w].run /\ sdRuns' = [sdRuns EXCEPT ![s].status = "failed"]
    BY <1>5 DEF FailScore
  <2>2. \A r \in DOMAIN sdRuns : sdRuns[r] \in RunRow
    BY <1>0 DEF RunsInv
  <2>3. \A r \in DOMAIN sdRuns : sdRuns'[r].rows = sdRuns[r].rows
    BY <2>1, <2>2 DEF RunRow
  <2> QED BY <2>3 DEF Stay
<1>6. CASE NextSession \/ PinRun \/ DeleteTraining \/ DeliverAgain
  <2>1. UNCHANGED sdRuns
    BY <1>6 DEF NextSession, PinRun, DeleteTraining, DeliverAgain, storage
  <2> QED BY <1>1, <2>1
<1>7. ASSUME NEW w \in Workers, CreateRun(w) PROVE Stay
  BY <1>2, <1>7 DEF CreateRun
<1>8. ASSUME NEW w \in Workers, TakeTask(w) PROVE Stay
  <2>1. sdRuns' = Append(sdRuns, NewRun) \/ sdRuns' = sdRuns
    BY <1>8 DEF TakeTask
  <2> QED BY <1>1, <1>2, <2>1
<1>9. ASSUME NEW w \in Workers,
             \/ BeginTraining(w) \/ BeginEdit(w) \/ BeginForecast(w) \/ StudioCrash(w)
             \/ FailTraining(w) \/ RecordTraining(w) \/ Serve(w) \/ SaveEdit(w)
             \/ ForecastToday(w) \/ ForecastFor(w) \/ FitAndDump(w) \/ Score(w)
             \/ SendTask(w) \/ RefuseTask(w)
      PROVE  Stay
  <2>1. UNCHANGED sdRuns
    BY <1>9 DEF BeginTraining, BeginEdit, BeginForecast, StudioCrash, FailTraining, RecordTraining,
                Serve, SaveEdit, ForecastToday, ForecastFor, FitAndDump, Score, SendTask, RefuseTask,
                storage
  <2> QED BY <1>1, <2>1
<1> QED
  BY <1>3, <1>4, <1>5, <1>6, <1>7, <1>8, <1>9 DEF StudioNext, Work

(* A redelivered backtest task neither adds to the rows of a finished run  *)
(* nor replaces them: unique_backtest_prediction refuses the second        *)
(* transaction whole (backtesting/engine.py, backtesting/models.py).       *)
THEOREM ResultsAreKept == LabSpec => StoredResultsStay
<1>1. LabInv /\ [LabNext]_labVars => [Stay]_labVars
  <2> SUFFICES ASSUME LabInv, [LabNext]_labVars PROVE Stay
    OBVIOUS
  <2>1. CASE sdBudget # <<>> /\ StudioNext
    BY <2>1, ResultsStay DEF LabInv, NoStudio
  <2>2. CASE UNCHANGED sdVars
    BY <2>2 DEF sdVars, Stay
  <2>3. (sdBudget # <<>> /\ StudioNext) \/ UNCHANGED sdVars
    BY DEF LabNext, labVars
  <2> QED BY <2>1, <2>2, <2>3
<1>2. LabInit /\ [][LabNext]_labVars => [][Stay]_labVars
  BY LabInvInit, LabInvNext, <1>1, PTL
<1> QED BY <1>2, PTL DEF LabSpec, StoredResultsStay, Stay
===============================================================================
