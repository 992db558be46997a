--------------------------- MODULE StrategyBacktest ---------------------------
(***************************************************************************)
(* strategies.backtesting.engine.run_backtest: a strategy's signals,       *)
(* replayed bar by bar on one instrument, all in or all out.  The signals  *)
(* come from a moving-average crossover, an RSI threshold (both computed   *)
(* here from the closes) or from the operator's entries.                   *)
(*                                                                         *)
(* Rates are fractions of Bps, 10,000 in the code.  Cash is counted in     *)
(* units of 1/(Bps * Bps), in which every fill and fee is a whole number.  *)
(***************************************************************************)
EXTENDS Integers, Sequences, SequencesExt, FiniteSets

CONSTANTS
    Bps,
    StrategyInputs

(* Windows are at least one bar long.                                      *)
ASSUME StrategyConstants ==
    /\ Bps \in Nat \ {0}
    /\ \A s \in StrategyInputs :
          /\ s.strategy.key \in {"ma_crossover", "rsi", "manual"}
          /\ s.strategy.key = "ma_crossover" =>
                s.strategy.fast \in Nat \ {0} /\ s.strategy.slow \in Nat \ {0}
          /\ s.strategy.key = "rsi" => s.strategy.period \in Nat \ {0}
          /\ s.bars \in Seq([open : Int, close : Int])
          /\ s.initial_cash \in Int /\ s.commission \in Int /\ s.slippage \in Int

VARIABLES
    st,             \* the strategy, the bars, initial cash, costs and next_open
    stPc, stBar,
    stSignals,      \* signals, one per bar
    stCash, stShares,
    stEntry,        \* entry_time, entry fill and entry_fee of the open position
    stTrades, stEquity

stVars == <<st, stPc, stBar, stSignals, stCash, stShares, stEntry, stTrades, stEquity>>

NoEntry == [bar |-> 0, fill |-> 0, fee |-> 0]
Unit == Bps * Bps

StrategyInit ==
    /\ st \in StrategyInputs
    /\ stPc = "signals" /\ stBar = 1 /\ stSignals = <<>>
    /\ stCash = st.initial_cash * Unit /\ stShares = 0 /\ stEntry = NoEntry
    /\ stTrades = <<>> /\ stEquity = <<>>

SumOf(values) == FoldLeft(LAMBDA sum, x : sum + x, 0, values)
Total(values, first, last) == SumOf(SubSeq(values, first, last))

(* MovingAverageCrossoverStrategy.  above is False while either average is *)
(* missing; the sums are compared crosswise instead of the means.          *)
Above(closes, fast, slow, i) ==
    /\ i >= slow /\ i >= fast
    /\ Total(closes, i - fast + 1, i) * slow > Total(closes, i - slow + 1, i) * fast

(* Mutant: compared with the bar after instead of the bar before.          *)
CrossoverAhead(closes, fast, slow) ==
    [i \in DOMAIN closes |->
        IF \/ Len(closes) < slow + 1
           \/ i < slow \/ i < fast \/ i = Len(closes)
           \/ Above(closes, fast, slow, i) = Above(closes, fast, slow, i + 1)
        THEN "hold"
        ELSE IF Above(closes, fast, slow, i) THEN "sell" ELSE "buy"]

Crossover(closes, fast, slow) ==
    [i \in DOMAIN closes |->
        IF \/ Len(closes) < slow + 1
           \/ i < slow \/ i < fast \/ i = 1
           \/ Above(closes, fast, slow, i) = Above(closes, fast, slow, i - 1)
        THEN "hold"
        ELSE IF Above(closes, fast, slow, i) THEN "buy" ELSE "sell"]

(* RSIStrategy and _rsi: 50 when nothing moved, 100 with gains only; the   *)
(* thresholds are percentages, compared without dividing.                  *)
Gain(closes, i) == IF closes[i] > closes[i - 1] THEN closes[i] - closes[i - 1] ELSE 0
Loss(closes, i) == IF closes[i] < closes[i - 1] THEN closes[i - 1] - closes[i] ELSE 0
Gains(closes) == [i \in DOMAIN closes |-> IF i = 1 THEN 0 ELSE Gain(closes, i)]
Losses(closes) == [i \in DOMAIN closes |-> IF i = 1 THEN 0 ELSE Loss(closes, i)]

Threshold(closes, period, oversold, overbought) ==
    [i \in DOMAIN closes |->
        LET gain == Total(Gains(closes), i - period + 1, i)
            loss == Total(Losses(closes), i - period + 1, i)
            rsi  == IF gain = 0 /\ loss = 0 THEN <<50, 1>>
                    ELSE IF loss = 0 THEN <<100, 1>>
                    ELSE <<100 * gain, gain + loss>>
        IN  IF Len(closes) < period + 1 \/ i < period + 1 THEN "hold"
            ELSE IF rsi[1] < oversold * rsi[2] THEN "buy"
            ELSE IF rsi[1] > overbought * rsi[2] THEN "sell"
            ELSE "hold"]

(* ManualSignalStrategy: the entry of the bar's date, if there is one.     *)
(* The bar of a session is stamped with its local midnight and read back   *)
(* in UTC, where that instant still belongs to the day before: the entry   *)
(* of a session that none follows on the next day is never found.          *)
UtcDate(session) == session - 1
Manual(entries, sessions, n) ==
    [i \in 1..n |-> IF UtcDate(sessions[i]) \in DOMAIN entries
                    THEN entries[UtcDate(sessions[i])] ELSE "hold"]

Closes == [i \in DOMAIN st.bars |-> st.bars[i].close]

GenerateSignals(strategy, closes) ==
    CASE strategy.key = "ma_crossover" -> Crossover(closes, strategy.fast, strategy.slow)
      [] strategy.key = "rsi" ->
            Threshold(closes, strategy.period, strategy.oversold, strategy.overbought)
      [] strategy.key = "manual" -> Manual(strategy.entries, strategy.sessions, Len(closes))

(* What run_backtest refuses with a ValueError, nothing replayed.          *)
Refused ==
    \/ st.initial_cash <= 0
    \/ st.commission \notin 0..(Bps - 1) \/ st.slippage \notin 0..(Bps - 1)
    \/ \E i \in DOMAIN st.bars : st.bars[i].open <= 0 \/ st.bars[i].close <= 0

ComputeSignals ==
    /\ stPc = "signals"
    /\ IF Refused \/ st.bars = <<>>
       THEN stPc' = "done" /\ UNCHANGED stSignals
       ELSE stSignals' = GenerateSignals(st.strategy, Closes) /\ stPc' = "replay"
    /\ UNCHANGED <<st, stBar, stCash, stShares, stEntry, stTrades, stEquity>>

(* The action of a bar: of the bar before when orders fill at the open.    *)
ActionAt(i) ==
    IF ~st.next_open THEN stSignals[i]
    ELSE IF i = 1 THEN "hold" ELSE stSignals[i - 1]
PriceAt(i) == IF st.next_open THEN st.bars[i].open ELSE st.bars[i].close

BuyFill(i) == PriceAt(i) * (Bps + st.slippage) * Bps
SellFill(i) == PriceAt(i) * (Bps - st.slippage) * Bps
Fee(shares, fill) == (shares * fill * st.commission) \div Bps
(* Mutant: the commission is left out of what can be afforded.             *)
AffordableBeforeFee(i) == stCash \div BuyFill(i)

(* cash // (fill * (1 + fee_rate)).                                        *)
Affordable(i) == (stCash * Bps) \div (BuyFill(i) * (Bps + st.commission))

Mark(i, cash, shares) ==
    /\ stEquity' = Append(stEquity, cash + shares * st.bars[i].close * Unit)
    /\ stBar' = i + 1
    /\ stPc' = IF i = Len(st.bars) THEN "done" ELSE "replay"
    /\ UNCHANGED <<st, stSignals>>

Replaying == stPc = "replay"

BuyBar ==
    /\ Replaying /\ ActionAt(stBar) = "buy" /\ stShares = 0 /\ stCash > 0
    /\ stShares' = Affordable(stBar)
    /\ IF stShares' > 0
       THEN LET fee == Fee(stShares', BuyFill(stBar))
            IN  /\ stCash' = stCash - stShares' * BuyFill(stBar) - fee
                /\ stEntry' = [bar |-> stBar, fill |-> BuyFill(stBar), fee |-> fee]
       ELSE UNCHANGED <<stCash, stEntry>>
    /\ Mark(stBar, stCash', stShares')
    /\ UNCHANGED stTrades

SellBar ==
    /\ Replaying /\ ActionAt(stBar) = "sell" /\ stShares > 0
    /\ LET fee == Fee(stShares, SellFill(stBar))
       IN  /\ stCash' = stCash + stShares * SellFill(stBar) - fee
           /\ stTrades' = Append(stTrades,
                [entry |-> stEntry.bar, exit |-> stBar, shares |-> stShares,
                 pnl |-> (SellFill(stBar) - stEntry.fill) * stShares - stEntry.fee - fee])
    /\ stShares' = 0 /\ stEntry' = NoEntry
    /\ Mark(stBar, stCash', 0)

HoldBar ==
    /\ Replaying
    /\ ~(ActionAt(stBar) = "buy" /\ stShares = 0 /\ stCash > 0)
    /\ ~(ActionAt(stBar) = "sell" /\ stShares > 0)
    /\ Mark(stBar, stCash, stShares)
    /\ UNCHANGED <<stCash, stShares, stEntry, stTrades>>

StrategyNext == ComputeSignals \/ BuyBar \/ SellBar \/ HoldBar
=============================================================================
