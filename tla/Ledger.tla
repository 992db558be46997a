-------------------------------- MODULE Ledger --------------------------------
(***************************************************************************)
(* The full books of a paper account: what Positions promises of shares,   *)
(* and of cash as well.  A fill moves the cash by price * quantity in the  *)
(* same step as the shares and never overdraws it; the only other thing    *)
(* that moves cash is the operator editing the account.                    *)
(***************************************************************************)
EXTENDS Positions

CONSTANTS Prices,    \* closes an order can be filled at
          Amounts    \* balances the operator can set

VARIABLE balance     \* cash, by account

ledgerVars == <<book, holding, filled, balance>>

LedgerInit == Init /\ balance \in [Accounts -> Nat]

LedgerPlace == Place /\ UNCHANGED balance

LedgerFill(n, p) ==
    /\ Fill(n)
    /\ balance[book[n].acct] - p * SignedQty(book[n]) >= 0
    /\ balance' = [balance EXCEPT ![book[n].acct] = @ - p * SignedQty(book[n])]

Adjust(a, c) ==
    /\ balance' = [balance EXCEPT ![a] = c]
    /\ UNCHANGED positionVars

LedgerNext ==
    \/ LedgerPlace
    \/ \E n \in DOMAIN book, p \in Prices : LedgerFill(n, p)
    \/ \E a \in Accounts, c \in Amounts : Adjust(a, c)

LedgerSpec == LedgerInit /\ [][LedgerNext]_ledgerVars
=============================================================================
