------------------------------ MODULE Positions ------------------------------
(***************************************************************************)
(* What the paper broker promises about share holdings, whoever else is    *)
(* trading: an order is booked once, its fill happens at most once, and a  *)
(* fill moves exactly the ordered quantity in or out of the holding in one *)
(* indivisible step, never selling shares that are not there.              *)
(***************************************************************************)
EXTENDS Integers, Sequences

CONSTANTS Accounts, Instruments

VARIABLES
    book,      \* the orders placed so far, in order of creation
    holding,   \* shares held, by <<account, instrument>>
    filled     \* the numbers of the orders whose fill has happened

positionVars == <<book, holding, filled>>

Ticket == [acct : Accounts, inst : Instruments, side : {"BUY", "SELL"},
           qty : Nat \ {0}]

SignedQty(t) == IF t.side = "BUY" THEN t.qty ELSE -t.qty

Init ==
    /\ book = << >>
    /\ holding \in [Accounts \X Instruments -> Nat]
    /\ filled = {}

\* The new ticket is read off the next state, so that no quantity is enumerated.
Place ==
    /\ Len(book') = Len(book) + 1
    /\ book'[Len(book')] \in Ticket
    /\ book' = Append(book, book'[Len(book')])
    /\ UNCHANGED <<holding, filled>>

Fill(n) ==
    LET x == <<book[n].acct, book[n].inst>>
    IN  /\ n \notin filled
        /\ holding[x] + SignedQty(book[n]) >= 0
        /\ holding' = [holding EXCEPT ![x] = @ + SignedQty(book[n])]
        /\ filled' = filled \cup {n}
        /\ UNCHANGED book

Next == Place \/ \E n \in DOMAIN book : Fill(n)

Spec == Init /\ [][Next]_positionVars
=============================================================================
