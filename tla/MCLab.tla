-------------------------------- MODULE MCLab --------------------------------
EXTENDS Lab

CONSTANTS hubc, site, celery

(* One model on one instrument; day 5 has no bar.  With weeks of three     *)
(* days the weekly decisions fall on days 3, 6 and 9.                      *)
Daily == [type |-> "horizon", horizon |-> 1, entry |-> 0, exit |-> 0]
Weekly == [type |-> "weekday_anchored", horizon |-> 0, entry |-> 0, exit |-> 1]
Config(target, features, end) == [target |-> target, features |-> features, end |-> end]
ModelConfigs == { Config(Daily, "closes", 0), Config(Daily, "closes", 5),
                  Config(Daily, "closes", 7), Config(Weekly, "technical", 0),
                  Config([Weekly EXCEPT !.exit = 0], "closes", 0) }    \* refused

(* How much happens in one behaviour: the worlds the runs look at.         *)
None == [kind \in {"trainings", "edits", "forecasts", "backtests", "copies", "pins",
                   "refusals", "deletions", "sessions", "crashes"} |-> 0]
Worlds ==
    { [None EXCEPT !.trainings = 1, !.backtests = 1, !.copies = 1, !.deletions = 1,
                   !.sessions = 1, !.crashes = 1],
      [None EXCEPT !.trainings = 1, !.backtests = 2, !.refusals = 1, !.crashes = 1],
      [None EXCEPT !.trainings = 2, !.backtests = 1, !.edits = 1, !.pins = 1],
      [None EXCEPT !.trainings = 1, !.backtests = 2, !.pins = 1, !.copies = 1],
      [None EXCEPT !.trainings = 1, !.backtests = 1, !.edits = 1, !.sessions = 1,
                   !.deletions = 1, !.pins = 1],
      [None EXCEPT !.trainings = 1, !.edits = 1, !.forecasts = 1, !.sessions = 3],
      [None EXCEPT !.trainings = 2, !.forecasts = 1, !.sessions = 2] }
OneEdit == {[None EXCEPT !.trainings = 1, !.backtests = 1, !.edits = 1, !.sessions = 1]}

(* The weekday suite: a caller names an instrument, or one with two whole  *)
(* weeks, with one, or with none may be there.                             *)
SuiteCalls ==
    [ named : BOOLEAN, candidates : SUBSET {{0, 4, 7, 11}, {0, 1, 4}, {1, 2}},
      keys : {<<"ridge", "typo", "trees">>, <<"ridge", "trees", "ridge">>},
      rows : {<<>>, "trees" :> [trained |-> TRUE, skill |-> 1]} ]

SkillValues == {-1, 1}

Line(only, skip, fail_fast) == [only |-> only, skip |-> skip, fail_fast |-> fail_fast]
Lines == { Line({}, {}, FALSE), Line({}, {"sync_market_data"}, TRUE) }

(* Of the research providers none is out, or one.                          *)
OneProviderOut == {{}, {"news"}}

TwoJobs == <<[name |-> "cycle", cron |-> "at11"], [name |-> "recap", cron |-> "at17"]>>

(* The search desk: two forms that are clean, one that is not.             *)
TaskOfKey == "ridge" :> "regression" @@ "trees" :> "regression" @@ "logit" :> "classification"
Setup(task, end, space, symbols) ==
    [columns |-> [task |-> task, end |-> end, space |-> space], symbols |-> symbols]
DeskSetups ==
    { Setup("regression", 0, {"ridge", "trees"}, {hubc}), Setup("classification", 0, {"logit"}, {site}),
      Setup("regression", 9, {"ridge"}, {site}), Setup("regression", 0, {"logit"}, {hubc}) }
DeskWorlds ==
    { [edits |-> 1, runs |-> 1, failures |-> 1, copies |-> 0, promotions |-> 1],
      [edits |-> 1, runs |-> 1, failures |-> 1, copies |-> 1, promotions |-> 0],
      [edits |-> 0, runs |-> 2, failures |-> 0, copies |-> 1, promotions |-> 1] }

(* The live record: prices 2 and 4, a move is a doubling or a halving.     *)
ValuesOf == "horizon_close" :> {4, 8} @@ "horizon_return" :> {-1, 2} @@ "direction" :> {0, 2}
Holdouts == {[source |-> "holdout", da |-> <<3, 4>>, skill |-> NoValue]}
Item(da, skill, kelly) ==
    [min_da |-> da, min_skill |-> skill, min_move |-> 1, capital |-> 90, max_position |-> 40, kelly |-> kelly]
Items == {Item(60, 0, 50), Item(50, 10, 0)}
Quiet == [days |-> 1, corrections |-> 0, edits |-> 0, trainings |-> 0, forecasts |-> 1,
          outages |-> 0, signals |-> 1]
TrackWorlds == { [Quiet EXCEPT !.days = 2, !.forecasts = 2], [Quiet EXCEPT !.corrections = 1],
                 [Quiet EXCEPT !.edits = 1], [Quiet EXCEPT !.trainings = 1, !.outages = 1] }

(* The page: short ranges, so that they end inside the history.            *)
Request(days, sma, ema) == [days |-> days, sma |-> sma, ema |-> ema]
Requests ==
    { Request(0, {1, 3}, {2}), Request(1, {1, 3}, {}), Request(2, {2, 7}, {3}), Request(5, {}, {}) }
=============================================================================
