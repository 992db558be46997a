---------------------------- MODULE WeekdaySuite ----------------------------
(***************************************************************************)
(* Training one of each estimator on one instrument's Monday to Friday     *)
(* target: the symbol is picked (modeling.symbol_selection), one model per *)
(* estimator is configured and retrained (modeling.weekday_suite), and the *)
(* models are compared by their holdout metrics.  A model that fails does  *)
(* not sink the rest; another training may have left metrics behind.       *)
(***************************************************************************)
EXTENDS Integers, SequencesExt

CONSTANTS
    Registered,       \* estimator keys get_estimator knows
    MinWeekdayPairs,  \* MIN_WEEKDAY_PAIRS
    SuiteInputs,      \* calls: the candidates or a named instrument, the keys, what rows exist
    Skills,           \* skill_vs_naive a holdout may show
    NoSkill           \* the metric is missing: no naive error, or no holdout

VARIABLES
    ws,          \* the call
    wsTodo,      \* estimator keys still to do
    wsModels,    \* TradingModel rows by estimator key, what the last training left
    wsResult,    \* WeekdaySuiteResult.models: the model objects, in order
    wsErrors,    \* keys with an entry in WeekdaySuiteResult.errors
    wsRuns,      \* the training runs of this call, in order
    wsReport,    \* WeekdaySuiteResult.evaluation; model is a place in wsResult
    wsPc

wsVars == <<ws, wsTodo, wsModels, wsResult, wsErrors, wsRuns, wsReport, wsPc>>

(* A call lists estimator keys, which may repeat, and finds rows that are  *)
(* trained or not and may show the skill of their last training.           *)
ASSUME SuiteConstants ==
    /\ Skills \subseteq Int
    /\ \A c \in SuiteInputs :
          /\ c.keys \in Seq(Range(c.keys))
          /\ \A key \in DOMAIN c.rows :
                c.rows[key] \in [trained : BOOLEAN, skill : Skills \cup {NoSkill}]

(* list.sort: a row goes behind those before it and behind its equals that *)
(* stood ahead of it.                                                      *)
Sorted(s, Before(_, _)) ==
    LET Ahead(i) == {j \in DOMAIN s : Before(s[j], s[i]) \/ (~Before(s[i], s[j]) /\ j < i)}
    IN  [place \in DOMAIN s |-> s[CHOOSE i \in DOMAIN s : Cardinality(Ahead(i)) = place - 1]]

-----------------------------------------------------------------------------
(* modeling.symbol_selection.  A candidate is the days of its bars; a week *)
(* has seven days of which five trade.                                     *)

(* Weeks with a bar on their first and on their last trading day.          *)
Pairs(days) == Cardinality({d \in days : d % 7 = 0 /\ d + 4 \in days})
Viable(days) == Pairs(days) >= MinWeekdayPairs

-----------------------------------------------------------------------------
(* modeling.weekday_suite.build_weekday_suite *)

Untrained == [trained |-> FALSE, skill |-> NoSkill]

SuiteInit ==
    /\ ws \in SuiteInputs
    /\ wsTodo = ws.keys /\ wsModels = ws.rows
    /\ wsResult = <<>> /\ wsErrors = {} /\ wsRuns = <<>> /\ wsReport = <<>>
    /\ wsPc = "pick"

(* The instrument the caller names, or else a viable one: which of them is *)
(* picked, by score_instruments, makes no difference to what follows.      *)
HasInstrument == ws.named \/ \E days \in ws.candidates : Viable(days)
PickInstrument ==
    /\ wsPc = "pick"
    /\ wsPc' = IF HasInstrument THEN "train" ELSE "done"
    /\ UNCHANGED <<ws, wsTodo, wsModels, wsResult, wsErrors, wsRuns, wsReport>>

NextKey == wsPc = "train" /\ wsTodo # <<>> /\ wsTodo' = Tail(wsTodo)

(* get_or_create, and what a save makes of the row.                        *)
RowOf(key) == IF key \in DOMAIN wsModels THEN wsModels[key] ELSE Untrained
Saved(key, row) == [k \in DOMAIN wsModels \cup {key} |-> IF k = key THEN row ELSE wsModels[k]]

(* An unknown key, or a row that full_clean refuses once it is made.       *)
RefuseKey ==
    /\ NextKey
    /\ LET key == Head(wsTodo)
       IN  /\ wsErrors' = wsErrors \cup {key}
           /\ wsModels' = IF key \in Registered THEN Saved(key, RowOf(key)) ELSE wsModels
    /\ UNCHANGED <<ws, wsResult, wsRuns, wsReport, wsPc>>

(* The row is saved with the suite's configuration and trained; a training *)
(* that fails leaves the artifact and metrics the row had.  The result     *)
(* keeps the object, which a later one of the same row does not refresh.   *)
TrainKey ==
    /\ NextKey
    /\ \E status \in {"success", "failed"}, skill \in Skills \cup {NoSkill} :
          LET key == Head(wsTodo)
              row == IF status = "success" THEN [trained |-> TRUE, skill |-> skill] ELSE RowOf(key)
          IN  /\ key \in Registered
              /\ wsResult' = Append(wsResult, [key |-> key, row |-> row])
              /\ wsRuns' = Append(wsRuns, [key |-> key, status |-> status])
              /\ wsModels' = Saved(key, row)
    /\ UNCHANGED <<ws, wsErrors, wsReport, wsPc>>

(* Mutant: a missing skill counts as zero.                                 *)
SkillBeforeAsZero(a, b) ==
    LET value(r) == IF r.skill = NoSkill THEN 0 ELSE r.skill IN value(a) > value(b)

(* _sort_key: rows without a skill last, the others by falling skill.      *)
SkillBefore(a, b) == a.skill # NoSkill /\ (b.skill = NoSkill \/ a.skill > b.skill)

(* evaluate_suite: trained or not is read off the model, not off the run.  *)
EvaluateSuite ==
    /\ wsPc = "train" /\ wsTodo = <<>>
    /\ wsReport' = Sorted(
          [i \in DOMAIN wsResult |->
              [ model |-> i, skill |-> wsResult[i].row.skill,
                status |-> IF wsResult[i].row.trained THEN "trained" ELSE "failed" ]],
          SkillBefore)
    /\ wsPc' = "done"
    /\ UNCHANGED <<ws, wsTodo, wsModels, wsResult, wsErrors, wsRuns>>

SuiteNext == PickInstrument \/ RefuseKey \/ TrainKey \/ EvaluateSuite
=============================================================================
