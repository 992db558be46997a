--------------------------- MODULE TradeSimulation ---------------------------
(***************************************************************************)
(* backtesting.metrics: forecasts become positions, positions become an    *)
(* equity curve and a trade log.  The bars of one instrument are numbered  *)
(* 1..n; positions[i] is taken at close i and carried to close i + 1.      *)
(* Money is left out: an equity curve is told by what was held over each   *)
(* interval and by the units of turnover the cost rate is applied to.      *)
(***************************************************************************)
EXTENDS Integers, Sequences, SequencesExt

Magnitude(x) == IF x < 0 THEN -x ELSE x

(* positions_from_forecast; edge is 1, -1 or 0 when the forecast is above  *)
(* the threshold, below its negative, or in between.                       *)
PositionFromForecast(edge, allow_short) ==
    IF edge = -1 /\ ~allow_short THEN 0 ELSE edge

(* simulate_instrument: what is held over the interval that ends at bar i, *)
(* and the turnover charged at bar i, the close-out on the last bar        *)
(* included.                                                               *)
HeldInto(positions, i) == IF i <= 1 THEN 0 ELSE positions[i - 1]

(* Mutant: the position still open on the last bar is not closed.          *)
TurnoverWithoutClose(positions, i) ==
    IF i > 1 THEN Magnitude(HeldInto(positions, i) - HeldInto(positions, i - 1)) ELSE 0

TurnoverAt(positions, i) ==
    LET n == Len(positions)
    IN  (IF i > 1 THEN Magnitude(HeldInto(positions, i) - HeldInto(positions, i - 1)) ELSE 0)
        + (IF i > 1 /\ i = n THEN Magnitude(HeldInto(positions, n)) ELSE 0)

TotalTurnover(positions) ==
    LET charged == [i \in DOMAIN positions |-> TurnoverAt(positions, i)]
    IN  MapThenSumSet(LAMBDA i : charged[i], DOMAIN positions)

(* One interval of _trade_log: a position that is held on prolongs the     *)
(* last trade (the inner loop), a new one that is not flat opens another.  *)
ReadInterval(positions, i, log) ==
    LET v == HeldInto(positions, i)
    IN  IF v = 0 THEN log
        ELSE IF HeldInto(positions, i - 1) = v THEN [log EXCEPT ![Len(log)].exit = i]
        ELSE Append(log, [direction |-> v, entry |-> i - 1, exit |-> i])

(* _trade_log: LogAt[i] has the trades of the intervals that end by bar i. *)
TradeLog(positions) ==
    LET LogAt[i \in 1..Len(positions)] ==
            IF i = 1 THEN <<>> ELSE ReadInterval(positions, i, LogAt[i - 1])
    IN  IF positions = <<>> THEN <<>> ELSE LogAt[Len(positions)]
=============================================================================
