--------------------------- MODULE MCPaperTrading ---------------------------
(* Values for the constants of PaperTrading in the model-checking runs.    *)
EXTENDS PaperTrading, TLC

CONSTANTS a1, a2, i1, i2, s1, s2, w1, w2

\* one strategy on one instrument / one strategy on two / two strategies that
\* share an account, on an instrument each
OneStrategy == s1 :> a1
SharedAccount == s1 :> a1 @@ s2 :> a1
OneLot == s1 :> 1
SharedLots == s1 :> 2 @@ s2 :> 3
OnePair == << <<s1, i1>> >>
TwoPairs == << <<s1, i1>>, <<s1, i2>> >>
SharedPairs == << <<s1, i1>>, <<s2, i2>> >>

Cash4 == [a \in Accounts |-> 4]
Cash2 == [a \in Accounts |-> 2]
Cash10 == [a \in Accounts |-> 10]
HoldOne == [x \in Holdings |-> 1]
HoldNone == [x \in Holdings |-> 0]
HoldTwo == [x \in Holdings |-> IF x[2] = i1 THEN 2 ELSE 0]

WorkerSymmetry == Permutations(Workers)
=============================================================================
