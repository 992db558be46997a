----------------------------- MODULE WalkForward -----------------------------
(***************************************************************************)
(* backtesting.walkforward: the train and test windows that march through  *)
(* an ordered list of n sessions.  Sessions are numbered 1..n here, so the *)
(* half-open Python window lo:hi is lo + 1..hi.  The same folds score a    *)
(* model backtest (backtesting.engine), the candidates of a search         *)
(* (modelsearch.search) and a predictor (forecasting.backtesting).         *)
(***************************************************************************)
EXTENDS Integers, FiniteSets

(* What generate_folds accepts: the spans at least one session, no         *)
(* negative embargo.                                                       *)
FoldConfig(c) ==
    /\ c.scheme \in {"expanding", "rolling"}
    /\ c.train_span \in Nat \ {0} /\ c.test_span \in Nat \ {0} /\ c.step \in Nat \ {0}
    /\ c.gap \in Nat

(* Mutant: the test block ends one session late.                           *)
FoldOverlaps(c, k) ==
    LET train_hi == c.train_span + (k - 1) * c.step
    IN  [ train_start |-> IF c.scheme = "rolling" THEN train_hi - c.train_span + 1 ELSE 1,
          train_end   |-> train_hi,
          test_start  |-> train_hi + c.gap + 1,
          test_end    |-> train_hi + c.gap + c.test_span + 1 ]

(* The k-th turn of the loop: train_hi has advanced k - 1 steps.           *)
Fold(c, k) ==
    LET train_hi == c.train_span + (k - 1) * c.step
        test_lo  == train_hi + c.gap
    IN  [ train_start |-> IF c.scheme = "rolling" THEN train_hi - c.train_span + 1 ELSE 1,
          train_end   |-> train_hi,
          test_start  |-> test_lo + 1,
          test_end    |-> test_lo + c.test_span ]

(* The loop ends at the first fold whose test block leaves the history;    *)
(* test_end grows with k, so these are the folds before it.                *)
FoldIndices(n, c) == {k \in 1..n : Fold(c, k).test_end <= n}

GenerateFolds(n, c) == [k \in FoldIndices(n, c) |-> Fold(c, k)]
=============================================================================
