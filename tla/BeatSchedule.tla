---------------------------- MODULE BeatSchedule ----------------------------
(***************************************************************************)
(* seed_periodic_tasks: the jobs of schedules.py as django_celery_beat     *)
(* rows, beside rows the operator makes by hand in the admin at the same   *)
(* time.  A task points to the crontab row it shares with others; deleting *)
(* a crontab deletes the tasks that point to it.  Ids are never reused.    *)
(***************************************************************************)
EXTENDS Integers, FiniteSets, SequencesExt

CONSTANTS
    Schedule,       \* jobs of schedules.py: sequence of [name, cron]
    Retired,        \* names of jobs that earlier versions had
    HandMade,       \* names the operator gives
    Crons,          \* crontab specs
    MaxAdminSteps

ASSUME ScheduleConstants == MaxAdminSteps \in Nat

VARIABLES
    bsCrontabs,     \* CrontabSchedule rows [id, cron]
    bsTasks,        \* PeriodicTask rows [owner, name, crontab, enabled]
    bsNextId,
    bsSeed,         \* the command: what it has read, where it is
    bsAdminSteps    \* what the operator did in the admin so far

bsVars == <<bsCrontabs, bsTasks, bsNextId, bsSeed, bsAdminSteps>>

(* A crontab of 0 is none: the task runs at an interval.                   *)
Task(owner, name, crontab, enabled) ==
    [owner |-> owner, name |-> name, crontab |-> crontab, enabled |-> enabled]
Owned(t) == t.owner = "schedules"      \* the prefix "schedules: "
Used(tasks) == {t.crontab : t \in tasks} \ {0}

ScheduleInit ==
    /\ bsCrontabs = {[id |-> 1, cron |-> c] : c \in {CHOOSE c \in Crons : TRUE}}
    /\ bsTasks \in SUBSET {Task("schedules", n, 1, FALSE) : n \in Retired}
    /\ bsNextId = 2 /\ bsAdminSteps = 0
    /\ bsSeed = [pc |-> "idle"]

(* The command starts with its options.                                    *)
StartSeeding ==
    /\ bsSeed.pc = "idle"
    /\ \E prune, disabled \in BOOLEAN :
          bsSeed' = [pc |-> "upsert", next |-> 1, prune |-> prune, enabled |-> ~disabled, used |-> {}]
    /\ UNCHANGED <<bsCrontabs, bsTasks, bsNextId, bsAdminSteps>>

(* get_or_create the crontab, update_or_create the task.                   *)
UpsertJob ==
    /\ bsSeed.pc = "upsert" /\ bsSeed.next <= Len(Schedule)
    /\ LET job  == Schedule[bsSeed.next]
           same == {c \in bsCrontabs : c.cron = job.cron}
           id   == IF same = {} THEN bsNextId ELSE (CHOOSE c \in same : TRUE).id
       IN  /\ bsCrontabs' = bsCrontabs \cup (IF same = {} THEN {[id |-> id, cron |-> job.cron]} ELSE {})
           /\ bsNextId' = IF same = {} THEN bsNextId + 1 ELSE bsNextId
           /\ bsTasks' = {t \in bsTasks : ~(Owned(t) /\ t.name = job.name)} \cup
                             {Task("schedules", job.name, id, bsSeed.enabled)}
    /\ bsSeed' = [bsSeed EXCEPT !.next = @ + 1]
    /\ UNCHANGED bsAdminSteps

ScheduledNames == {job.name : job \in Range(Schedule)}

(* Mutant: the prefix is left out of the filter.                           *)
StaleOfAnyOwner(tasks) == {t \in tasks : t.name \notin ScheduledNames}

(* Owned rows whose job is gone.                                           *)
Stale(tasks) == {t \in tasks : Owned(t) /\ t.name \notin ScheduledNames}

PruneStale ==
    /\ bsSeed.pc = "upsert" /\ bsSeed.next > Len(Schedule)
    /\ bsTasks' = IF bsSeed.prune THEN bsTasks \ Stale(bsTasks) ELSE bsTasks
    /\ bsSeed' = [bsSeed EXCEPT !.pc = "look"]
    /\ UNCHANGED <<bsCrontabs, bsNextId, bsAdminSteps>>

(* _cleanup_orphan_crontabs: the ids in use are read first, then every     *)
(* other crontab is deleted, with the tasks that point to it by now.       *)
LookForOrphans ==
    /\ bsSeed.pc = "look"
    /\ bsSeed' = [bsSeed EXCEPT !.pc = "delete", !.used = Used(bsTasks)]
    /\ UNCHANGED <<bsCrontabs, bsTasks, bsNextId, bsAdminSteps>>

DeleteOrphans ==
    /\ bsSeed.pc = "delete"
    /\ bsCrontabs' = {c \in bsCrontabs : c.id \in bsSeed.used}
    /\ bsTasks' = {t \in bsTasks : t.crontab \in bsSeed.used \cup {0}}
    /\ bsSeed' = [pc |-> "idle"]
    /\ UNCHANGED <<bsNextId, bsAdminSteps>>

-----------------------------------------------------------------------------
(* The operator in the admin. *)

AdminStep ==
    /\ bsAdminSteps < MaxAdminSteps
    /\ bsAdminSteps' = bsAdminSteps + 1
    /\ UNCHANGED bsSeed

AdminAddsCrontab ==
    /\ AdminStep
    /\ \E c \in Crons : bsCrontabs' = bsCrontabs \cup {[id |-> bsNextId, cron |-> c]}
    /\ bsNextId' = bsNextId + 1
    /\ UNCHANGED bsTasks

(* The form takes a crontab that exists, or none.                          *)
AdminSavesTask ==
    /\ AdminStep
    /\ \E name \in HandMade, crontab \in {0} \cup {c.id : c \in bsCrontabs} :
          bsTasks' = {t \in bsTasks : Owned(t) \/ t.name # name} \cup
                         {Task("admin", name, crontab, TRUE)}
    /\ UNCHANGED <<bsCrontabs, bsNextId>>

(* Any task is switched on or off, or deleted.                             *)
AdminChangesTask ==
    /\ AdminStep
    /\ \E t \in bsTasks :
          bsTasks' \in {bsTasks \ {t}, (bsTasks \ {t}) \cup {[t EXCEPT !.enabled = ~@]}}
    /\ UNCHANGED <<bsCrontabs, bsNextId>>

ScheduleNext ==
    \/ StartSeeding \/ UpsertJob \/ PruneStale \/ LookForOrphans \/ DeleteOrphans
    \/ AdminAddsCrontab \/ AdminSavesTask \/ AdminChangesTask
=============================================================================
