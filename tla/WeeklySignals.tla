---------------------------- MODULE WeeklySignals ----------------------------
(***************************************************************************)
(* The weekly signal feed: signalfeed.services generate, send and recap    *)
(* over the watchlist, with the modeling.prediction rows they write, as    *)
(* jobs (Celery tasks, management commands, the action bar of /signals/)   *)
(* that run side by side on one database.                                  *)
(*                                                                         *)
(* One action is one database statement or one push.  A loop over a        *)
(* queryset works on the rows as they were when the queryset was evaluated *)
(* (loaded) and saves the listed columns only.  Days are counted from a    *)
(* Monday, day 0; a daily bar is known from the moment it is synced.       *)
(***************************************************************************)
EXTENDS Integers, Sequences, FiniteSets, FiniteSetsExt

CONSTANTS
    WatchList,     \* the active watch items, in the order they are visited
    Kind,          \* target type of each item's model
    Workers,       \* jobs that can run at the same time
    Closes,        \* prices a session can close at
    Moves,         \* expected moves a model can predict, in percent
    Threshold,     \* min_expected_move_pct
    Trained,       \* items whose model has an artifact that fits its features
    Sessions,      \* days the exchange trades on
    FirstDay, LastDay,
    PastAsOf,      \* whether an operator gives an earlier --as-of date
    MaxManual,     \* bound on jobs an operator starts
    MaxCrashes,    \* bound on process crashes
    NoRow, NoValue

Items == {WatchList[n] : n \in DOMAIN WatchList}
Days == FirstDay..LastDay
Weekday(d) == d % 7
Fridays == {d \in 0..(LastDay + 7) : Weekday(d) = 4}

\* 0 stands for a price that is not known
Prices == {0} \cup Closes
Directions == {"up", "down", "flat"}

\* modeling.ModelPrediction and signalfeed.WeeklySignal, the columns that matter here
PredictionRow == [base : Days,      \* day of the bar its features were built at (as_of)
                  move : Moves, actual : Int \cup {NoValue},
                  errorOf : Moves \cup {NoValue}]    \* the forecast abs_error was computed from
SignalRow == [status : {"error", "pending", "suppressed", "sent"}, dir : Directions,
              ref : Prices, actual : Prices, grade : {"none", "hit", "miss"}]

ASSUME FeedConstants ==
    /\ WatchList \in Seq(Items) /\ Cardinality(Items) = Len(WatchList)
    /\ NoRow \notin PredictionRow /\ NoRow \notin SignalRow
    /\ Kind \in [Items -> {"weekday_anchored", "horizon_close", "horizon_return",
                           "direction"}]
    /\ Trained \subseteq Items
    /\ Closes \subseteq Nat \ {0} /\ Moves \subseteq Int /\ Threshold \in Nat
    /\ FirstDay \in Int /\ FirstDay < 0 /\ LastDay \in Nat
    /\ Sessions \subseteq Days
    /\ PastAsOf \in BOOLEAN /\ MaxManual \in Nat /\ MaxCrashes \in Nat

VARIABLES
    day,        \* timezone.localdate()
    bars,       \* close of each session's daily bar, 0 while it is unknown
    pred,       \* ModelPrediction rows, by item and target date
    overtaken,  \* predictions last rewritten while a backfill loop held them (history)
    sig,        \* WeeklySignal rows, by item and target date
    pushed,     \* directions the channels accepted for each signal
    pc, job,    \* the running jobs and their arguments
    todo,       \* watch items the generate loop still has to visit
    call,       \* what the generate loop knows of the item it is on
    outcomes,   \* signals built by this job and not yet looked at for delivery
    loaded,     \* rows of a queryset the job is looping over
    ran,        \* scheduled jobs already started today
    manual, crashes

rows == <<pred, overtaken, sig>>
work == <<pc, job, todo, call, outcomes, loaded>>
world == <<day, bars>>
vars == <<world, rows, pushed, work, ran, manual, crashes>>

NoJob == [kind |-> "none", asof |-> 0, dry |-> FALSE, flat |-> FALSE]
NoCall == [ok |-> FALSE, gate |-> FALSE, ref |-> 0, move |-> NoValue]

Init ==
    /\ day = 0
    /\ \E past \in [{d \in Sessions : d < 0} -> Closes] :
          bars = [d \in Days |-> IF d \in DOMAIN past THEN past[d] ELSE 0]
    /\ pred = [x \in Items \X Fridays |-> NoRow]
    /\ overtaken = {}
    /\ sig = [x \in Items \X Fridays |-> NoRow]
    /\ pushed = [x \in Items \X Fridays |-> {}]
    /\ pc = [w \in Workers |-> "idle"]
    /\ job = [w \in Workers |-> NoJob]
    /\ todo = [w \in Workers |-> << >>]
    /\ call = [w \in Workers |-> NoCall]
    /\ outcomes = [w \in Workers |-> << >>]
    /\ loaded = [w \in Workers |-> {}]
    /\ ran = {} /\ manual = 0 /\ crashes = 0

-----------------------------------------------------------------------------
(* Dates, prices and the reading of a forecast.                            *)

\* Mutated form: a weekend run belongs to the week that has ended.
AnchorMondayPast(d) == d - Weekday(d)

AnchorMonday(d) == IF Weekday(d) <= 4 THEN d - Weekday(d) ELSE d + 7 - Weekday(d)

\* derive_target_date of a Monday-to-Friday model, and the default of the others
TargetDate(monday) == monday + 4

KnownDays(d) == {x \in Days : x <= d /\ bars[x] # 0}

ReferenceClose(monday) ==
    IF KnownDays(monday - 1) = {} THEN 0 ELSE bars[Max(KnownDays(monday - 1))]

\* modeling.prediction.predict with single_row_as_of = asof: an artifact, a bar
\* on or before that day and, for a weekday-anchored target, that bar a Monday's
CanPredict(it, asof) ==
    /\ it \in Trained
    /\ KnownDays(asof) # {}
    /\ Kind[it] = "weekday_anchored" => Weekday(Max(KnownDays(asof))) = 0

Predicted(asof, move) ==
    [base |-> Max(KnownDays(asof)), move |-> move, actual |-> NoValue,
     errorOf |-> NoValue]

\* What a prediction is scored against: the close of its target session, or what
\* that close makes of the one the prediction started from.
Outcome(it, base, close) ==
    CASE Kind[it] \in {"weekday_anchored", "horizon_close"} -> close
      [] Kind[it] = "horizon_return" -> ((close - base) * 100) \div base
      [] Kind[it] = "direction" -> IF close > base THEN 1 ELSE 0

\* _interpret: the direction of an expected move
Interpret(it, move, ref) ==
    IF Kind[it] = "direction" THEN IF move > 0 THEN "up" ELSE "down"
    ELSE IF Kind[it] # "horizon_return" /\ ref = 0 THEN "flat"
    ELSE IF move >= Threshold THEN "up"
    ELSE IF move <= -Threshold THEN "down" ELSE "flat"

\* the grade of a call against the close it was about
Grade(dir, ref, close) ==
    IF dir = "flat" \/ ref = 0 THEN "none"
    ELSE IF (dir = "up") = (close > ref) THEN "hit" ELSE "miss"

\* _actual_for: the target's bar and, for a target relative to it, the bar the
\* prediction started from
ActualKnown(it, base, friday) ==
    /\ bars[friday] # 0
    /\ Kind[it] \in {"horizon_return", "direction"} => bars[base] # 0

Goto(w, l) == pc' = [pc EXCEPT ![w] = l]
Monday(w) == AnchorMonday(job[w].asof)
Row(w, it) == <<it, TargetDate(Monday(w))>>

-----------------------------------------------------------------------------
(* Starting jobs.                                                          *)

Start(w, kind, asof, dry, flat) ==
    /\ pc[w] = "idle"
    /\ job' = [job EXCEPT ![w] = [kind |-> kind, asof |-> asof, dry |-> dry,
                                  flat |-> flat]]
    /\ Goto(w, IF kind = "send" THEN "item" ELSE "fill")
    /\ todo' = [todo EXCEPT ![w] = IF kind = "send" THEN WatchList ELSE << >>]
    /\ UNCHANGED <<world, rows, pushed, call, outcomes, loaded, crashes>>

\* Monday 08:30, before the session
ScheduledSend(w) ==
    /\ Weekday(day) = 0 /\ bars[day] = 0 /\ "send" \notin ran
    /\ Start(w, "send", day, FALSE, FALSE)
    /\ ran' = ran \cup {"send"}
    /\ UNCHANGED manual

\* Friday 17:00
ScheduledRecap(w) ==
    /\ Weekday(day) = 4 /\ "recap" \notin ran
    /\ Start(w, "recap", day, FALSE, FALSE)
    /\ ran' = ran \cup {"recap"}
    /\ UNCHANGED manual

AsOfDays == IF PastAsOf THEN 0..day ELSE {day}

\* the action bar of /signals/ and the management commands
ManualJob(w) ==
    /\ manual < MaxManual
    /\ \E kind \in {"send", "recap"}, asof \in AsOfDays, dry, flat \in BOOLEAN :
          /\ kind = "recap" => ~dry /\ ~flat
          /\ Start(w, kind, asof, dry, flat)
    /\ manual' = manual + 1
    /\ UNCHANGED ran

Finish(w) ==
    /\ Goto(w, "idle")
    /\ job' = [job EXCEPT ![w] = NoJob]

-----------------------------------------------------------------------------
(* The writer of predictions, modeling.prediction.predict.                 *)

Overtake(x) ==
    overtaken' = IF \E w \in Workers : pc[w] = "filling" /\ \E p \in loaded[w] : p.row = x
                 THEN overtaken \cup {x} ELSE overtaken \ {x}

\* Mutated form: a row that is there keeps its actual and its error.
StoreKeepingScore(x, asof, move) ==
    /\ LET new == Predicted(asof, move)
       IN  pred' = [pred EXCEPT ![x] =
                       IF @ = NoRow THEN new
                       ELSE [@ EXCEPT !.base = new.base, !.move = new.move]]
    /\ Overtake(x)

\* update_or_create on (model, instrument, target_date): it clears the actual and
\* the error, which a backfill loop that holds the old row will write again
StorePrediction(x, asof, move) ==
    /\ pred' = [pred EXCEPT ![x] = Predicted(asof, move)]
    /\ Overtake(x)

\* predict_view: an operator asks for a forecast as of any day, of any Friday or,
\* of a weekday-anchored target, of the Friday of that day's week
PredictByHand ==
    /\ manual < MaxManual
    /\ \E it \in Items, asof \in 0..day, friday \in Fridays, move \in Moves :
          /\ CanPredict(it, asof)
          /\ Kind[it] = "weekday_anchored" => friday = asof - Weekday(asof) + 4
          /\ StorePrediction(<<it, friday>>, asof, move)
    /\ manual' = manual + 1
    /\ UNCHANGED <<world, sig, pushed, work, ran, crashes>>

-----------------------------------------------------------------------------
(* generate_weekly_signals: one item of the watchlist at a time.           *)

\* reference close, gate, then the prediction; a prediction that fails is caught
VisitItem(w) ==
    LET it == Head(todo[w])
        ref == ReferenceClose(Monday(w))
    IN  /\ pc[w] = "item" /\ todo[w] # << >>
        /\ \/ /\ CanPredict(it, Monday(w))
              /\ \E move \in Moves, gate \in BOOLEAN :
                    /\ StorePrediction(Row(w, it), Monday(w), move)
                    /\ call' = [call EXCEPT ![w] = [ok |-> TRUE, gate |-> gate,
                                                    ref |-> ref, move |-> move]]
           \/ /\ ~CanPredict(it, Monday(w))
              /\ call' = [call EXCEPT ![w] = [NoCall EXCEPT !.ref = ref]]
              /\ UNCHANGED <<pred, overtaken>>
        /\ Goto(w, "store")
        /\ UNCHANGED <<world, sig, pushed, job, todo, outcomes, loaded, ran, manual,
                       crashes>>

Verdict(c) ==
    IF ~c.ok THEN "error" ELSE IF c.gate THEN "pending" ELSE "suppressed"

\* Mutated form: a signal that has been sent keeps its status when it is rebuilt.
BuiltStillSent(old, it, c) ==
    [status |-> IF old # NoRow /\ old.status = "sent" THEN "sent" ELSE Verdict(c),
     dir |-> IF c.ok THEN Interpret(it, c.move, c.ref) ELSE "flat",
     ref |-> c.ref,
     actual |-> IF old = NoRow THEN 0 ELSE old.actual,
     grade |-> IF old = NoRow THEN "none" ELSE old.grade]

\* update_or_create: the columns in defaults are written, the grade is not one
\* of them
Built(old, it, c) ==
    [status |-> Verdict(c),
     dir |-> IF c.ok THEN Interpret(it, c.move, c.ref) ELSE "flat",
     ref |-> c.ref,
     actual |-> IF old = NoRow THEN 0 ELSE old.actual,
     grade |-> IF old = NoRow THEN "none" ELSE old.grade]

StoreSignal(w) ==
    LET it == Head(todo[w])
        s == Built(sig[Row(w, it)], it, call[w])
    IN  /\ pc[w] = "store"
        /\ sig' = [sig EXCEPT ![Row(w, it)] = s]
        /\ outcomes' = [outcomes EXCEPT ![w] = Append(@,
               [item |-> it, dir |-> s.dir, status |-> s.status])]
        /\ todo' = [todo EXCEPT ![w] = Tail(@)]
        /\ call' = [call EXCEPT ![w] = NoCall]
        /\ Goto(w, "item")
        /\ UNCHANGED <<world, pred, overtaken, pushed, job, loaded, ran, manual, crashes>>

Generated(w) ==
    /\ pc[w] = "item" /\ todo[w] = << >>
    /\ Goto(w, "deliver")
    /\ UNCHANGED <<world, rows, pushed, job, todo, call, outcomes, loaded, ran, manual,
                   crashes>>

-----------------------------------------------------------------------------
(* send_weekly_signals: delivering what this job built.                    *)

Deliverable(w, o) ==
    /\ o.status = "pending"
    /\ job[w].flat \/ o.dir # "flat"
    /\ ~job[w].dry

\* Mutated form: the signal is marked SENT whatever the channels answered.
SentAnyway(sent) == "sent"

\* if sent: save
NextAfterPush(sent) == IF sent THEN "sent" ELSE "deliver"

\* the fan-out over the channels: some accept the message, or none does
Push(w) ==
    LET o == Head(outcomes[w])
    IN  /\ pc[w] = "deliver" /\ outcomes[w] # << >> /\ Deliverable(w, o)
        /\ \E sent \in BOOLEAN :
              /\ pushed' = IF sent THEN [pushed EXCEPT ![Row(w, o.item)] = @ \cup {o.dir}]
                           ELSE pushed
              /\ Goto(w, NextAfterPush(sent))
              /\ outcomes' = IF NextAfterPush(sent) = "sent" THEN outcomes
                             ELSE [outcomes EXCEPT ![w] = Tail(@)]
        /\ UNCHANGED <<world, rows, job, todo, call, loaded, ran, manual, crashes>>

\* sig.save(update_fields=["channels", "status", "sent_at", ...])
SaveSent(w) ==
    LET x == Row(w, Head(outcomes[w]).item)
    IN  /\ pc[w] = "sent"
        /\ sig' = [sig EXCEPT ![x].status = "sent"]
        /\ outcomes' = [outcomes EXCEPT ![w] = Tail(@)]
        /\ Goto(w, "deliver")
        /\ UNCHANGED <<world, pred, overtaken, pushed, job, todo, call, loaded, ran,
                       manual, crashes>>

PassOver(w) ==
    /\ pc[w] = "deliver" /\ outcomes[w] # << >> /\ ~Deliverable(w, Head(outcomes[w]))
    /\ outcomes' = [outcomes EXCEPT ![w] = Tail(@)]
    /\ UNCHANGED <<world, rows, pushed, pc, job, todo, call, loaded, ran, manual, crashes>>

Delivered(w) ==
    /\ pc[w] = "deliver" /\ outcomes[w] = << >>
    /\ Finish(w)
    /\ UNCHANGED <<world, rows, pushed, todo, call, outcomes, loaded, ran, manual, crashes>>

-----------------------------------------------------------------------------
(* recap_weekly_signals: backfill_actuals, then the grading loop.          *)

RowsOf(table) == {x \in DOMAIN table : table[x] # NoRow}

ToFill == {x \in RowsOf(pred) : pred[x].actual = NoValue /\ x[2] < day}

\* the predictions without an actual, as the backfill loop holds them
Fill(w) ==
    /\ pc[w] = "fill"
    /\ loaded' = [loaded EXCEPT ![w] =
           {[row |-> x, base |-> pred[x].base, move |-> pred[x].move] : x \in ToFill}]
    /\ Goto(w, "filling")
    /\ UNCHANGED <<world, rows, pushed, job, todo, call, outcomes, ran, manual, crashes>>

\* actual_value and abs_error of the prediction the loop holds are saved into the
\* row, if the bars are there
FillRow(w) ==
    /\ pc[w] = "filling"
    /\ \E p \in loaded[w] :
          /\ loaded' = [loaded EXCEPT ![w] = @ \ {p}]
          /\ pred' = IF ActualKnown(p.row[1], p.base, p.row[2])
                     THEN [pred EXCEPT
                             ![p.row].actual = Outcome(p.row[1], bars[p.base], bars[p.row[2]]),
                             ![p.row].errorOf = p.move]
                     ELSE pred
    /\ UNCHANGED <<world, overtaken, sig, pushed, pc, job, todo, call, outcomes, ran,
                   manual, crashes>>

\* Mutated form: target_date__lte, which takes the week that is still open.
ToGradeToday(asof) == {x \in RowsOf(sig) : sig[x].actual = 0 /\ x[2] <= asof}

\* Mutated form: only the calls that were sent are graded.
ToGradeSent(asof) ==
    {x \in RowsOf(sig) : sig[x].actual = 0 /\ x[2] < asof /\ sig[x].status = "sent"}

\* actual_close__isnull, target_date__lt
ToGrade(asof) == {x \in RowsOf(sig) : sig[x].actual = 0 /\ x[2] < asof}

Filled(w) ==
    /\ pc[w] = "filling" /\ loaded[w] = {}
    /\ loaded' = [loaded EXCEPT ![w] =
           {[row |-> x, dir |-> sig[x].dir, ref |-> sig[x].ref] :
               x \in ToGrade(job[w].asof)}]
    /\ Goto(w, "grading")
    /\ UNCHANGED <<world, rows, pushed, job, todo, call, outcomes, ran, manual, crashes>>

GradeRow(w) ==
    /\ pc[w] = "grading"
    /\ \E s \in loaded[w] :
          LET close == bars[s.row[2]]
          IN  /\ loaded' = [loaded EXCEPT ![w] = @ \ {s}]
              /\ sig' = IF close = 0 THEN sig
                        ELSE [sig EXCEPT ![s.row].actual = close,
                                         ![s.row].grade = Grade(s.dir, s.ref, close)]
    /\ UNCHANGED <<world, pred, overtaken, pushed, pc, job, todo, call, outcomes, ran,
                   manual, crashes>>

\* the hit-rate message only reads what has been graded
Recapped(w) ==
    /\ pc[w] = "grading" /\ loaded[w] = {}
    /\ Finish(w)
    /\ UNCHANGED <<world, rows, pushed, todo, call, outcomes, loaded, ran, manual, crashes>>

-----------------------------------------------------------------------------
(* The calendar, the daily bars and crashes.                               *)

\* sync_market_data stores the bar of a session that has closed
SyncBar(d) ==
    /\ d \in Sessions /\ d <= day /\ bars[d] = 0
    /\ d = day /\ Weekday(day) = 0 => "send" \in ran
    /\ \E c \in Closes : bars' = [bars EXCEPT ![d] = c]
    /\ UNCHANGED <<day, rows, pushed, work, ran, manual, crashes>>

\* The day ends when its jobs have, and a bar is at most a day late.
Tomorrow ==
    /\ day < LastDay
    /\ \A w \in Workers : pc[w] = "idle"
    /\ Weekday(day) = 0 => "send" \in ran
    /\ Weekday(day) = 4 => "recap" \in ran
    /\ \A d \in Sessions : d < day => bars[d] # 0
    /\ day' = day + 1
    /\ ran' = {}
    /\ UNCHANGED <<bars, rows, pushed, work, manual, crashes>>

\* the process dies; what it committed stays, the job is not delivered again
Crash(w) ==
    /\ crashes < MaxCrashes /\ pc[w] # "idle"
    /\ Finish(w)
    /\ todo' = [todo EXCEPT ![w] = << >>]
    /\ call' = [call EXCEPT ![w] = NoCall]
    /\ outcomes' = [outcomes EXCEPT ![w] = << >>]
    /\ loaded' = [loaded EXCEPT ![w] = {}]
    /\ crashes' = crashes + 1
    /\ UNCHANGED <<world, rows, pushed, ran, manual>>

Step(w) ==
    \/ VisitItem(w) \/ StoreSignal(w) \/ Generated(w)
    \/ Push(w) \/ SaveSent(w) \/ PassOver(w) \/ Delivered(w)
    \/ Fill(w) \/ FillRow(w) \/ Filled(w) \/ GradeRow(w) \/ Recapped(w)

Next ==
    \/ \E w \in Workers : ScheduledSend(w) \/ ScheduledRecap(w) \/ ManualJob(w)
    \/ PredictByHand
    \/ \E w \in Workers : Step(w)
    \/ \E w \in Workers : Crash(w)
    \/ \E d \in Sessions : SyncBar(d)
    \/ Tomorrow

Spec == Init /\ [][Next]_vars

\* Beat starts its jobs, a job that runs ends, the sync fetches the bars that
\* are missing and time passes.
Fairness ==
    /\ WF_vars(\E w \in Workers : ScheduledSend(w) \/ ScheduledRecap(w))
    /\ \A w \in Workers : WF_vars(Step(w))
    /\ \A d \in Sessions : WF_vars(SyncBar(d))
    /\ WF_vars(Tomorrow)

FairSpec == Spec /\ Fairness

-----------------------------------------------------------------------------
(* Properties.                                                             *)

\* A graded signal holds the close of the session it was about, and the grade is
\* that of the direction and the reference close the row shows: a rebuild that
\* overtakes the grading loop would leave a call graded as another one
\* (recap_weekly_signals saves what it computed from the rows it had loaded).
\* Neither a failed forecast nor a flat call enters the hit rate.  (Of jobs about the
\* day they run on: a rebuild for an earlier --as-of keeps the grade of the old call.)
GradeMatchesCall ==
    \A x \in RowsOf(sig) :
        /\ sig[x].actual # 0 =>
              /\ sig[x].actual = bars[x[2]]
              /\ sig[x].grade = Grade(sig[x].dir, sig[x].ref, sig[x].actual)
        /\ sig[x].status = "error" \/ sig[x].dir = "flat" => sig[x].grade = "none"

\* As long as every job is about the day it runs on, the track record is not
\* rewritten: whatever jobs overlap, a graded signal keeps its call, its delivery
\* status and its grade.  An earlier --as-of (PastAsOf) breaks this: the rebuild
\* gives a graded row another call and puts it back to PENDING (services.py:281).
GradedCallsStand ==
    [][PastAsOf \/ \A x \in RowsOf(sig) : sig[x].actual # 0 => sig'[x] = sig[x]]_vars

\* A scored prediction is about a session that is over, its actual is what that
\* session's close makes of the bar the row starts from, and its error is that of
\* the value the row holds, although backfill_actuals computes both from an
\* earlier read.  One writer slips through: a prediction that an operator stores
\* between that read and the save keeps the actual and the error of the old one.
ErrorsMatchPredictions ==
    \A x \in RowsOf(pred) : pred[x].actual # NoValue =>
        /\ x[2] < day
        /\ \/ /\ pred[x].actual = Outcome(x[1], bars[pred[x].base], bars[x[2]])
              /\ pred[x].errorOf = pred[x].move
           \/ x \in overtaken

\* A signal is shown as SENT only if a channel took a message about it, whichever
\* jobs rebuilt the row meanwhile and wherever a process died.
SentWasPushed ==
    \A x \in RowsOf(sig) : sig[x].status = "sent" => pushed[x] # {}

\* With one job at a time, the direction a SENT signal shows is one that was
\* pushed: the track record is that of the calls subscribers received.
SentSaysWhatWasPushed ==
    \A x \in RowsOf(sig) : sig[x].status = "sent" => sig[x].dir \in pushed[x]

\* As long as every job is about the day it runs on, no call is pushed on a day
\* after the session it is about: a job started on a Saturday or a Sunday calls
\* the coming week.  On the Friday itself a call may still be pushed, even when
\* the session has closed: nothing looks at the time of day.
PushedInTime ==
    [][PastAsOf \/ \A x \in DOMAIN pushed : pushed'[x] # pushed[x] => day <= x[2]]_vars

\* A call about a session the exchange held is graded in the end, by the recap
\* of the next Friday at the latest, unless the process of a job was killed.
Gradable == {x \in Items \X Fridays : x[2] \in Sessions /\ x[2] + 7 <= LastDay}
GradedEventually ==
    \A x \in Gradable :
        sig[x] # NoRow ~>
            crashes > 0 \/ (x \in RowsOf(sig) /\ sig[x].actual # 0)

\* What docs/DEPLOYMENT.md says of the Monday job: it builds (and pushes) the
\* week's calls, so a model with a usable artifact yields a call, not an error.
TrainedModelsBuild ==
    \A x \in RowsOf(sig) : x[1] \in Trained => sig[x].status # "error"

\* What docs/DEPLOYMENT.md says of the Friday job: when it ends, the signals of
\* the week whose closing bar was known when it began are graded.
RecapTakesTheWeek ==
    [][\A w \in Workers : Recapped(w) /\ job[w].asof = day /\ Weekday(day) = 4 =>
         \A x \in RowsOf(sig) :
             x[2] = day /\ sig[x].status = "sent" /\ bars[day] # 0
                 => sig[x].actual # 0]_vars
=============================================================================
