------------------------------ MODULE SymbolPage ------------------------------
(***************************************************************************)
(* The detail page of a symbol (marketdata.views.instrument_detail): the   *)
(* bars of the chosen range with their moving averages, and the forecast   *)
(* panel, which reads the history a second time.  Syncs add and correct    *)
(* bars meanwhile.  Bar i is the i-th session's close; a mean is the pair  *)
(* of its numerator and denominator.                                       *)
(***************************************************************************)
EXTENDS Integers, FiniteSetsExt, Sequences

CONSTANTS
    ChartCloses,       \* prices a session can close at
    OverlayPeriods,    \* OVERLAY_PERIODS
    DetailRanges,      \* DETAIL_RANGES, 0 for everything stored
    DefaultRange,
    PageRequests,      \* query strings: [days, sma, ema]
    MaxBars, MaxSyncs,
    NoMean             \* None

ASSUME PageConstants ==
    /\ ChartCloses \subseteq Int /\ MaxBars \in Nat
    /\ OverlayPeriods \subseteq Nat \ {0} /\ IsFiniteSet(OverlayPeriods)
    /\ DetailRanges \subseteq Nat /\ DefaultRange \in Nat
    /\ NoMean \notin Int \X Int

VARIABLES
    spBars, spSyncs,
    spPage             \* what the view has of its page so far

spVars == <<spBars, spSyncs, spPage>>

PageInit ==
    /\ \E n \in 0..MaxBars : spBars \in [1..n -> ChartCloses]
    /\ spSyncs = 0 /\ spPage = [pc |-> "none"]

(* _sma: a running sum of the last p values.                               *)
Sma(values, p) ==
    LET run[i \in 0..Len(values)] ==
            IF i = 0 THEN 0
            ELSE run[i - 1] + values[i] - (IF i > p THEN values[i - p] ELSE 0)
    IN  [i \in DOMAIN values |-> IF i < p THEN NoMean ELSE <<run[i], p>>]

SumBetween(values, first, last) == MapThenSumSet(LAMBDA i : values[i], first..last)

(* _ema: from the mean of the first p values, each value weighs 2/(p+1).   *)
Ema(values, p) ==
    LET First == <<SumBetween(values, 1, p), p>>
        ema[i \in p..Len(values)] ==
            IF i = p THEN First
            ELSE << 2 * values[i] * ema[i - 1][2] + (p - 1) * ema[i - 1][1],
                    (p + 1) * ema[i - 1][2] >>
    IN  [i \in DOMAIN values |-> IF i < p THEN NoMean ELSE ema[i]]

(* A slice [-n:].                                                          *)
LastOf(s, n) == SubSeq(s, Max({1, Len(s) - n + 1}), Len(s))

DaysShown(request) == IF request.days \in DetailRanges THEN request.days ELSE DefaultRange
ShownBars(bars, request) ==
    IF DaysShown(request) = 0 THEN bars ELSE LastOf(bars, DaysShown(request))

(* Mutant: the window alone.                                               *)
CalcWindowOnly(bars, request) == ShownBars(bars, request)

(* The window and enough before it for the longest average asked for.      *)
CalcBars(bars, request) ==
    LET periods == (request.sma \cup request.ema) \cap OverlayPeriods
    IN  IF DaysShown(request) = 0 THEN bars
        ELSE LastOf(bars, DaysShown(request) + Max({0} \cup periods))

(* The part of an average that lies over the bars shown: series[offset:].  *)
Overlay(series, bars, request) == LastOf(series, Len(ShownBars(bars, request)))

(* The first query, and all that is drawn from it.                         *)
DrawChart ==
    /\ spPage.pc = "none"
    /\ \E request \in PageRequests :
          spPage' = [ pc |-> "panel", request |-> request, bars |-> spBars,
                      window |-> ShownBars(spBars, request),
                      sma |-> [p \in request.sma \cap OverlayPeriods |->
                                  Overlay(Sma(CalcBars(spBars, request), p), spBars, request)],
                      ema |-> [p \in request.ema \cap OverlayPeriods |->
                                  Overlay(Ema(CalcBars(spBars, request), p), spBars, request)] ]
    /\ UNCHANGED <<spBars, spSyncs>>

(* _forecast_panel with the naive predictor: latest_forecast looks up the  *)
(* last session again, the change is against the close the page shows.     *)
(* There is no forecast on a page without bars, or when it fails.          *)
NoPanel == [target |-> 0, delta |-> 0]
FillPanel ==
    /\ spPage.pc = "panel"
    /\ LET shown == spPage.window
           panel == [ target |-> Len(spBars) + 1,
                      delta |-> spBars[Len(spBars)] - shown[Len(shown)] ]
       IN  \E filled \in {NoPanel} \cup (IF shown = <<>> THEN {} ELSE {panel}) :
              spPage' = [pc |-> "done", page |-> spPage, panel |-> filled, later |-> spBars]
    /\ UNCHANGED <<spBars, spSyncs>>

(* sync_history stores new sessions and overwrites stored ones.            *)
SyncSession ==
    /\ spSyncs < MaxSyncs /\ spSyncs' = spSyncs + 1
    /\ \E c \in ChartCloses :
          \/ Len(spBars) < MaxBars /\ spBars' = Append(spBars, c)
          \/ \E i \in DOMAIN spBars : spBars' = [spBars EXCEPT ![i] = c]
    /\ UNCHANGED spPage

PageNext == DrawChart \/ FillPanel \/ SyncSession
=============================================================================
