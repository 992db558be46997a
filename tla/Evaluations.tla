----------------------------- MODULE Evaluations -----------------------------
(***************************************************************************)
(* A worker takes one evaluation job and carries it out: a walk-forward    *)
(* backtest of a model, a model search, the backtest or live forecast of a *)
(* predictor, or the backtest of a strategy.  The four share the folds,    *)
(* the datasets and the translation of forecasts into positions, and no    *)
(* row, so one job at a time is enough to see what each promises.          *)
(***************************************************************************)
EXTENDS ModelBacktest, ModelSearch, ForecastBacktest, StrategyBacktest

evalVars == <<btVars, shVars, fcVars, stVars>>

(* A component without a job.                                              *)
BacktestIdle ==
    /\ bt = <<>> /\ btRows = {} /\ btPc = "done" /\ btFold = 0
    /\ btFolds = {} /\ btPreds = {} /\ btSeries = <<>> /\ btTrades = {}
    /\ btRun = [status |-> "none", error |-> "none", results |-> NoResults]
SearchIdle ==
    /\ sh = <<>> /\ shPc = "done" /\ shTodo = <<>> /\ shRows = <<>> /\ shStored = <<>>
    /\ shRun = "none" /\ shBest = EarlierBest /\ shCrashes = 0
ForecastIdle ==
    /\ fc = <<>> /\ fcPc = "done" /\ fcFold = 0 /\ fcFolds = {} /\ fcPreds = <<>>
    /\ fcSkipped = {} /\ fcRun = "none" /\ fcLive = NoForecast
StrategyIdle ==
    /\ st = <<>> /\ stPc = "done" /\ stBar = 0 /\ stSignals = <<>>
    /\ stCash = 0 /\ stShares = 0 /\ stEntry = NoEntry /\ stTrades = <<>> /\ stEquity = <<>>

EvalInit ==
    \/ BacktestInit /\ SearchIdle /\ ForecastIdle /\ StrategyIdle
    \/ BacktestIdle /\ SearchInit /\ ForecastIdle /\ StrategyIdle
    \/ BacktestIdle /\ SearchIdle /\ ForecastInit /\ StrategyIdle
    \/ BacktestIdle /\ SearchIdle /\ ForecastIdle /\ StrategyInit

EvalNext ==
    \/ BacktestNext /\ UNCHANGED <<shVars, fcVars, stVars>>
    \/ SearchNext /\ UNCHANGED <<btVars, fcVars, stVars>>
    \/ ForecastNext /\ UNCHANGED <<btVars, shVars, stVars>>
    \/ StrategyNext /\ UNCHANGED <<btVars, shVars, fcVars>>

EvalSpec == EvalInit /\ [][EvalNext]_evalVars

-----------------------------------------------------------------------------
(* Model backtests *)

(* Every row a fold's pipeline was fitted on has a label that lies before  *)
(* each decision the fold is scored on: the mask on available_at does what *)
(* BACKTESTING.md promises for every scheme, span, step, gap and target,   *)
(* instruments with missing bars included.                                 *)
NothingLearnedFromTheFuture ==
    \A f \in btFolds : \A r \in f.fitted : \A p \in btPreds :
        p.fold = f.index => r.t < p.d

(* The unique constraint on BacktestPrediction throws a finished run away  *)
(* only if its test blocks overlap: else no target date of an instrument   *)
(* is predicted twice, whatever the target, the gap and the missing bars.  *)
(* (With a step shorter than the test span it does; a run can also fail    *)
(* because a step of it raised, or before a fold was scored.)              *)
DisjointBlocksAreStored ==
    btRun.error = "IntegrityError" => bt.step < bt.test_span

(* The trade log accounts for what the equity curve earned: over each      *)
(* interval the position held is that of exactly one logged trade that     *)
(* covers it, or none is, and the turnover charged is one unit for each    *)
(* entry and one for each exit in the log.                                 *)
LogIsWhatWasHeld ==
    \A i \in DOMAIN btSeries :
        LET pos == btSeries[i]
            log == TradeLog(pos)
        IN  /\ \A k \in 2..Len(pos) :
                  LET over == {j \in DOMAIN log : log[j].entry < k /\ k <= log[j].exit}
                  IN  IF HeldInto(pos, k) = 0 THEN over = {}
                      ELSE \E j \in over : over = {j} /\ log[j].direction = HeldInto(pos, k)
            /\ TotalTurnover(pos) = 2 * Len(log)

-----------------------------------------------------------------------------
(* Model searches *)

(* best_result, when a run has set it, is a stored row of that run which   *)
(* no stored row outscores, and the run is a success; a run that ended     *)
(* well with a scored candidate has set it.  The row and the pointer are   *)
(* written by separate statements, and any of them may fail or be the last *)
(* one before the worker dies.                                             *)
BestIsTheTopScore ==
    /\ shBest # EarlierBest =>
          /\ shBest \in Range(shStored) /\ shRun = "success"
          /\ \A i \in DOMAIN shStored :
                shStored[i].status = "ok" => shStored[i].score <= shBest.score
    /\ (/\ shPc = "done" /\ shRun = "success" /\ shCrashes = 0
        /\ \E row \in Range(shStored) : row.status = "ok")
          => shBest # EarlierBest

(* No candidate is stored twice in a run, the automatic ensemble included: *)
(* unique_candidate_per_run cannot reject the bulk insert and with it the  *)
(* whole sweep.                                                            *)
OneRowPerCandidate ==
    \A i, j \in DOMAIN shStored :
        shStored[i].key = shStored[j].key /\ shStored[i].params = shStored[j].params => i = j

(* The frontier is enough to choose from: every scored row is on it or is  *)
(* dominated by a row that is.                                             *)
FrontierCovers ==
    \A row \in Range(shStored) : row.status = "ok" =>
        \E b \in Range(shStored) : b.is_pareto /\ (b = row \/ Dominates(b, row))

(* A candidate that cannot be scored is one failed row, and the search     *)
(* goes on (modelsearch/search.py:16-17): a sweep that has begun ends in   *)
(* success unless a later statement or the process fails.                  *)
SweepSurvivesCandidates ==
    (shRun = "failed" /\ shRows # <<>>) => shTodo = <<>> /\ ~TriesEnsemble

-----------------------------------------------------------------------------
(* Forecast backtests *)

(* The harness and the predictors' own guards agree: no fold is refused    *)
(* because its training labels reach beyond its first decision, and a      *)
(* statistical predictor, which replays from its last label on, scores a   *)
(* fold only without an embargo and misses its starting point only with    *)
(* one (FORECASTING.md: run them with --gap 0).                            *)
GuardsAgreeWithTheHarness ==
    /\ \A s \in fcSkipped :
          /\ s.reason # "labels beyond decision"
          /\ s.reason = "replay elsewhere" => fc.gap > 0
    /\ (fcFolds # {} /\ fc.predictor = "statistical") => fc.gap = 0

(* The live panel forecasts a trading weekday after the last stored bar,   *)
(* and no guard of the frame or the predictor finds it asked about another *)
(* moment than the one it was fitted up to: what stops it is a history     *)
(* that is too short, or a step that raises on what it is given.           *)
LiveForecastIsAhead ==
    fcLive # NoForecast =>
        /\ fcLive.error \notin {"target not ahead", "labels beyond decision", "replay elsewhere"}
        /\ fcLive.target # 0 => /\ fcLive.target > LastSession
                                /\ Weekday(fcLive.target) \notin Weekend

-----------------------------------------------------------------------------
(* Strategy backtests *)

(* What the trades of the log made.                                        *)
Closed(trades) == FoldLeft(LAMBDA sum, t : t.pnl + sum, 0, trades)

(* Money is conserved through fills, slippage and both commissions: at     *)
(* each bar the equity is the initial cash, plus the profit of the logged  *)
(* trades, plus what the open position has made since its fill less its    *)
(* entry fee, and the account is never overdrawn.                          *)
EquityIsExplained ==
    stEquity # <<>> =>
        LET open == stShares * (st.bars[Len(stEquity)].close * Unit - stEntry.fill) - stEntry.fee
        IN  /\ Last(stEquity) = st.initial_cash * Unit + Closed(stTrades) + open
            /\ stCash >= 0

(* The signal replayed at a bar is the one a live cycle would have seen    *)
(* when that bar was the last: generate_signals never looks ahead.  The    *)
(* one exception is the first bar with both averages, where the crossover  *)
(* buys in a replay and a live cycle still has too little history.         *)
ReplayAgreesWithLive ==
    \A k \in DOMAIN stSignals :
        LET live == GenerateSignals(st.strategy, SubSeq(Closes, 1, k))[k]
        IN  \/ stSignals[k] = live
            \/ st.strategy.key = "ma_crossover" /\ k = st.strategy.slow
               /\ live = "hold" /\ stSignals[k] = "buy"
=============================================================================
