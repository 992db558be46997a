--------------------------- MODULE MCWeeklySignals ---------------------------
(***************************************************************************)
(* Instances of WeeklySignals.  The exchange trades on the Monday and the  *)
(* Friday of each week, or on Fridays alone, and on the Friday before the  *)
(* first week.                                                             *)
(***************************************************************************)
EXTENDS WeeklySignals, TLC

CONSTANTS hubc, w1, w2

OneItem == <<hubc>>
AnchoredKind == hubc :> "weekday_anchored"
CloseKind == hubc :> "horizon_close"
ReturnKind == hubc :> "horizon_return"

TwoMoves == {-1, 1}
FlatOrUp == {0, 1}
BeforeMonday == -3
TradedDays == {-3, 0, 4, 7, 11}
AnyWorker == Permutations({w1, w2})
FridaySessions == {-3, 4, 11}
=============================================================================
