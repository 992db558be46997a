---------------------------- MODULE MCEvaluations ----------------------------
EXTENDS Evaluations

CONSTANTS hubc, ogdc, p1, p2    \* two instruments, two parameter sets

Horizon(h) == [type |-> "horizon", horizon |-> h, entry |-> 0, exit |-> 0]
Weekly == [type |-> "weekday_anchored", horizon |-> 0, entry |-> 1, exit |-> 2]

(* Seven days of bars, of which an instrument may miss one.                *)
Days == 1..7
Bars == {Days} \cup {Days \ {x} : x \in {1, 4, 7}}

FoldBacktests ==
    [ scheme : {"expanding", "rolling"}, train_span : 1..3, test_span : 1..2, step : 1..3,
      gap : 0..1, start : {0}, end : {0, 6}, spec : {Horizon(1), Horizon(2), Weekly},
      flawed : {{}}, signal : {[d \in Days |-> 1]}, allow_short : {FALSE}, bars : [{hubc, ogdc} -> Bars] ]
(* A start after the first bars, an instrument without bars, a flawed bar.  *)
HistoryBacktests ==
    [ scheme : {"expanding"}, train_span : {2}, test_span : 1..2, step : 1..2, gap : {0},
      start : {0, 3}, end : {0, 5}, spec : {Horizon(1)}, flawed : {{}, {<<ogdc, 6>>}, {<<ogdc, 7>>}},
      signal : {[d \in Days |-> 1]}, allow_short : {FALSE},
      bars : [{hubc} -> {Days}] \cup [{hubc, ogdc} -> {Days, {}}] ]
SignalBacktests ==
    [ scheme : {"expanding"}, train_span : {1}, test_span : {2}, step : {2}, gap : {0},
      start : {0}, end : {0}, spec : {Horizon(1)}, flawed : {{}}, signal : [Days -> {-1, 0, 1}], allow_short : BOOLEAN,
      bars : {[i \in {hubc} |-> Days]} ]
(* What no form lets through.                                              *)
UncleanBacktests ==
    { [b EXCEPT !.test_span = 0] : b \in SignalBacktests } \cup
    { [b EXCEPT !.spec = [Weekly EXCEPT !.exit = 1]] : b \in SignalBacktests }
Backtests == FoldBacktests \cup HistoryBacktests \cup SignalBacktests \cup UncleanBacktests

Candidate(key, params) == [key |-> key, params |-> params]
Sweep3 == <<Candidate("ridge", p1), Candidate("trees", p1), Candidate("naive", p1)>>
Search ==
    [ space |-> Sweep3, mode |-> "grid", max_candidates |-> 3, auto_ensemble_top_k |-> 2,
      task |-> "regression", walk_forward |-> FALSE,
      wf |-> [scheme |-> "rolling", train_span |-> 3, test_span |-> 1, step |-> 1, gap |-> 0],
      spec |-> Horizon(1), bars |-> [i \in {hubc} |-> 1..6], flawed |-> {}, start |-> 0, end |-> 0 ]
Searches ==
    { Search,
      [Search EXCEPT !.space = <<Candidate("ridge", p1), Candidate("trees", p1),
                                 Candidate("ridge", p1), Candidate("ridge", p2)>>],
      [Search EXCEPT !.space = <<Candidate("ridge", p1), Candidate("trees", p1),
                                 Candidate(Ensemble, <<"trees", "ridge">>)>>],
      [Search EXCEPT !.space = <<Candidate("trees", p1), Candidate("ridge", p2),
                                 Candidate("lasso", p1)>>, !.walk_forward = TRUE],
      [Search EXCEPT !.mode = "random", !.max_candidates = 2, !.walk_forward = TRUE],
      [Search EXCEPT !.walk_forward = TRUE, !.wf.train_span = 1],
      [Search EXCEPT !.walk_forward = TRUE, !.wf.train_span = 9],
      [Search EXCEPT !.bars = [i \in {hubc} |-> 1..2]],
      [Search EXCEPT !.flawed = {<<hubc, 2>>}],
      [Search EXCEPT !.start = 2],
      [Search EXCEPT !.task = "classification"],
      [Search EXCEPT !.task = "classification",
                     !.space = <<Candidate("logistic", p1), Candidate("forest", p1)>>] }
EstimatorsOf ==
    [ regression     |-> {"ridge", "trees", "lasso", "naive", Ensemble},
      classification |-> {"logistic", "forest"} ]

Costs == [CostFields -> 1..2]
Cheap == [f \in CostFields |-> 1]
ScoredOutcomes == [score : {1, 2}, cost : Costs] \cup [score : {NotFinite}, cost : {Cheap}]
ScorelessOutcomes == ScoredOutcomes \cup [score : {NoScore}, cost : {Cheap}]

(* Forecasts: up to eight bars, with the kinds of predictors.              *)
ForecastBars == {1..8, (1..8) \ {3}, (1..8) \ {5, 6}}
Forecasts ==
    [ call : {"backtest"}, predictor : {"naive", "drift", "frame", "statistical"},
      scheme : {"expanding", "rolling"}, train_span : {2, 3}, test_span : 1..2, step : 1..3,
      gap : 0..1, bars : ForecastBars, start : {0, 4}, end : {9} ]
    \cup
    [ call : {"backtest"}, predictor : {"drift"}, scheme : {"expanding"}, train_span : {0, 2},
      test_span : {1}, step : {1}, gap : {0}, bars : ForecastBars, start : {6}, end : {5, 9} ]
    \cup
    [ call : {"latest"}, predictor : {"naive", "drift", "frame", "statistical"},
      bars : SUBSET (1..6) ]
Fits == [naive |-> 0, drift |-> 1, frame |-> 3, statistical |-> 2]

StrategyBars == [1..4 -> [open : 1..2, close : {1, 3}]]
FallingBars == {[i \in 1..6 |-> [open |-> c[i], close |-> c[i]]] : c \in [1..6 -> 1..3]}
Crossing == [key |-> "ma_crossover", fast |-> 1, slow |-> 2]
Rsi == [key |-> "rsi", period |-> 2, oversold |-> 30, overbought |-> 70]
(* Sessions on days 1, 2, 5 and 6: days 3 and 4 are a weekend.             *)
Entries == {[key |-> "manual", entries |-> e, sessions |-> <<1, 2, 5, 6>>] :
               e \in [{1, 2, 4} -> {"buy", "sell"}]}
Strategies ==
    [ strategy : {Crossing}, bars : {[i \in 1..3 |-> [open |-> p, close |-> 1]] : p \in 0..1},
      initial_cash : {0, 5}, commission : {1, Bps}, slippage : {1}, next_open : {TRUE} ]
    \cup
    [ strategy : Entries, bars : StrategyBars, initial_cash : {5}, commission : {0, 1},
      slippage : {1}, next_open : BOOLEAN ]
    \cup
    [ strategy : {Crossing, Rsi}, bars : FallingBars \cup {<<>>}, initial_cash : {5},
      commission : {1}, slippage : {1}, next_open : {TRUE} ]
=============================================================================
