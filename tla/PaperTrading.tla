---------------------------- MODULE PaperTrading ----------------------------
(***************************************************************************)
(* Placing and filling paper orders: execution.tasks.run_trading_cycle and *)
(* the manual order form, execution.services.place_order, risk.engine and  *)
(* execution.brokers.paper, as processes (Celery workers and web workers)  *)
(* that share one PostgreSQL database at READ COMMITTED.                   *)
(*                                                                         *)
(* One action is one database statement (or a statement and the reads      *)
(* beside it that no other process can tell apart from it).  What a        *)
(* process writes inside PaperBroker's transaction.atomic() block stays    *)
(* private (obj, wpos) until Commit; an UPDATE or a SELECT ... FOR UPDATE  *)
(* takes the row lock and waits while another transaction holds it; a      *)
(* plain SELECT reads the committed row and never waits.                   *)
(*                                                                         *)
(* Money is counted in whole units: prices and balances are naturals.      *)
(***************************************************************************)
EXTENDS Integers, Sequences, FiniteSets, FiniteSetsExt

CONSTANTS
    Accounts, Instruments,
    Workers,          \* processes able to place orders
    NoWorker,         \* nobody holds the lock
    NoReq,            \* the process is not placing an order
    Strategies,       \* active strategies with an account
    StrategyAccount,  \* [Strategies -> Accounts]
    OrderQty,         \* params["order_quantity"], by strategy
    Cycle,            \* the (strategy, instrument) pairs one cycle visits
    ManualQty,        \* quantities typed into the order form
    PriceLevels,      \* closes a daily bar can have
    LossPct, PosPct,  \* UserProfile limits, in percent
    InitCash, InitPos,
    EditCash,         \* balances an operator types into the account form
    EnvOps,           \* environment operations that happen
    MaxJobs,          \* bound on cycles and manual requests started
    MaxEnv,           \* bound on environment operations
    MaxCrashes        \* bound on process crashes

Holdings == Accounts \X Instruments
Handles == Strategies \cup Accounts   \* in-memory Account objects

ASSUME ConstantsOK ==
    /\ NoWorker \notin Workers
    /\ IsFiniteSet(Instruments)
    /\ StrategyAccount \in [Strategies -> Accounts]
    /\ Strategies \cap Accounts = {}
    /\ OrderQty \in [Strategies -> Nat \ {0}]
    /\ Cycle \in Seq(Strategies \X Instruments)
    /\ ManualQty \subseteq Nat \ {0}
    /\ PriceLevels \subseteq Nat \ {0}
    /\ LossPct \in Nat /\ PosPct \in Nat
    /\ InitCash \in [Accounts -> Nat]
    /\ InitPos \in [Holdings -> Nat]
    /\ EditCash \subseteq Nat
    /\ MaxJobs \in Nat /\ MaxEnv \in Nat /\ MaxCrashes \in Nat

VARIABLES
    \* committed rows
    cash,       \* Account.cash_balance
    pos,        \* Position.quantity, 0 when there is no row
    price,      \* close of the newest PriceBar, 0 when there is none
    opening,    \* DailyEquitySnapshots of each day so far, -1 when there is none
    orders,     \* Order rows in order of creation
    decisions,  \* RiskDecision rows, with the order each was made for
    trades,     \* Trade rows
    \* row locks
    cashLock, posLock,
    \* processes
    pc,
    job,        \* (strategy, instrument) pairs this process still has to visit
    obj,        \* cash_balance of each in-memory Account object
    req,        \* the arguments of the place_order call in progress
    ord,        \* number of the order it created, 0 before that
    seen,       \* the close it last read
    wpos,       \* the position quantity its open transaction has written
    check,      \* what its risk evaluation has read so far
    cancelling, \* orders loaded while PENDING by a cancel_order in progress
    \* history and bounds
    fills,      \* fills whose transaction committed: [order, price]
    jobs, env, crashes

rows == <<cash, pos, price, opening, orders, decisions, trades>>
locks == <<cashLock, posLock>>
procs == <<pc, job, obj, req, ord, seen, wpos, check>>
bounds == <<jobs, env, crashes>>
vars == <<rows, locks, procs, fills, cancelling, bounds>>

Order == [acct : Accounts, inst : Instruments, side : {"BUY", "SELL"},
          qty : Nat \ {0},
          status : {"PENDING", "FILLED", "REJECTED", "CANCELLED"},
          recent : BOOLEAN]       \* created inside DUPLICATE_ORDER_WINDOW

Request == [h : Handles, acct : Accounts, inst : Instruments,
            side : {"BUY", "SELL"}, qty : Nat \ {0}]

\* The position rows account.equity has loaded, the closes it has valued them
\* at (0: not yet) and the day get_opening_equity asked for.
Check == [held : [Instruments -> Nat], mark : [Instruments -> PriceLevels \cup {0}],
          day : Nat]

\* Program counters, in the order a fill passes them.
Checking == {"dup", "insert"}
Reading == {"opening", "current", "equity"}
Evaluating == Reading \cup {"snapshot", "stop", "limit"}
Buying == {"buyRead", "buyCash", "buyPos"}
Selling == {"sellPos", "sellRead", "sellCash"}
InTransaction == Buying \cup Selling \cup {"commit"}
Unfilled == Evaluating \cup {"reject", "quote"} \cup InTransaction
Recording == {"saveFill", "trade"}
Placing == Checking \cup Unfilled \cup Recording
PCs == {"idle", "signal"} \cup Placing

Acct(w) == req[w].acct
Holding(w) == <<req[w].acct, req[w].inst>>
Cached(w) == obj[w][req[w].h]            \* order.account.cash_balance
FilledOrders == {f.order : f \in fills}

Unmarked == [i \in Instruments |-> 0]
NoCheck == [held |-> Unmarked, mark |-> Unmarked, day |-> 0]
Unread(w) == {i \in Instruments : check[w].held[i] > 0 /\ check[w].mark[i] = 0}

\* Positions of the given quantities at the given closes.
Value(held, mark) == MapThenSumSet(LAMBDA i : held[i] * mark[i], Instruments)

\* portfolio.Account.equity: the cash of the object in hand, which may be
\* stale, and the positions and closes its queries returned one by one.
Equity(w) == Cached(w) + Value(check[w].held, check[w].mark)

Init ==
    /\ cash = InitCash
    /\ pos = InitPos
    /\ price \in [Instruments -> PriceLevels \cup {0}]
    /\ \A x \in Holdings : pos[x] > 0 => price[x[2]] > 0
    /\ opening = << [a \in Accounts |-> -1] >>
    /\ orders = << >>
    /\ decisions = {} /\ trades = {} /\ fills = {}
    /\ cashLock = [a \in Accounts |-> NoWorker]
    /\ posLock = [x \in Holdings |-> NoWorker]
    /\ pc = [w \in Workers |-> "idle"]
    /\ job = [w \in Workers |-> << >>]
    /\ obj = [w \in Workers |-> [h \in Handles |-> 0]]
    /\ req = [w \in Workers |-> NoReq]
    /\ ord = [w \in Workers |-> 0]
    /\ seen = [w \in Workers |-> 0]
    /\ wpos = [w \in Workers |-> 0]
    /\ check = [w \in Workers |-> NoCheck]
    /\ cancelling = {}
    /\ jobs = 0 /\ env = 0 /\ crashes = 0

Goto(w, l) == pc' = [pc EXCEPT ![w] = l]
SetCached(w, c) == obj' = [obj EXCEPT ![w][req[w].h] = c]

-----------------------------------------------------------------------------
(* Starting a cycle or a manual order, and the loop over signals.          *)

\* The queryset with select_related("account") is evaluated once, here: every
\* strategy gets an Account object of its own, loaded now.
StartCycle(w) ==
    /\ pc[w] = "idle" /\ jobs < MaxJobs /\ Cycle # << >>
    /\ job' = [job EXCEPT ![w] = Cycle]
    /\ obj' = [obj EXCEPT ![w] = [h \in Handles |->
                  IF h \in Strategies THEN cash[StrategyAccount[h]] ELSE 0]]
    /\ Goto(w, "signal")
    /\ jobs' = jobs + 1
    /\ UNCHANGED <<rows, locks, req, ord, seen, wpos, check, fills, cancelling,
                   env, crashes>>

PlaceManually(w) ==
    /\ pc[w] = "idle" /\ jobs < MaxJobs
    /\ \E a \in Accounts, i \in Instruments, s \in {"BUY", "SELL"}, q \in ManualQty :
          /\ req' = [req EXCEPT ![w] = [h |-> a, acct |-> a, inst |-> i,
                                        side |-> s, qty |-> q]]
          /\ obj' = [obj EXCEPT ![w][a] = cash[a]]
    /\ Goto(w, "dup")
    /\ jobs' = jobs + 1
    /\ UNCHANGED <<rows, locks, job, ord, seen, wpos, check, fills, cancelling,
                   env, crashes>>

\* No bars, a failed build, HOLD, or nothing to sell: the pair is passed over.
Skip(w) ==
    /\ pc[w] = "signal" /\ job[w] # << >>
    /\ job' = [job EXCEPT ![w] = Tail(job[w])]
    /\ UNCHANGED <<rows, locks, pc, obj, req, ord, seen, wpos, check, fills,
                   cancelling, bounds>>

Quantity(s, x, side) == IF side = "SELL" THEN pos[x] ELSE OrderQty[s]

Signal(w) ==
    /\ pc[w] = "signal" /\ job[w] # << >>
    /\ LET s == Head(job[w])[1]
           i == Head(job[w])[2]
           a == StrategyAccount[s]
       IN  /\ price[i] > 0
           /\ \E side \in {"BUY", "SELL"} :
                 /\ Quantity(s, <<a, i>>, side) > 0
                 /\ req' = [req EXCEPT ![w] = [h |-> s, acct |-> a, inst |-> i,
                        side |-> side, qty |-> Quantity(s, <<a, i>>, side)]]
    /\ job' = [job EXCEPT ![w] = Tail(job[w])]
    /\ Goto(w, "dup")
    /\ UNCHANGED <<rows, locks, obj, ord, seen, wpos, check, fills, cancelling,
                   bounds>>

\* place_order returned or raised: the cycle goes on to its next pair.
Leave(w) ==
    /\ Goto(w, "signal")
    /\ req' = [req EXCEPT ![w] = NoReq]
    /\ ord' = [ord EXCEPT ![w] = 0]
    /\ seen' = [seen EXCEPT ![w] = 0]
    /\ wpos' = [wpos EXCEPT ![w] = 0]

\* The task or request ends and its objects are gone.
Finish(w) ==
    /\ pc[w] = "signal" /\ job[w] = << >>
    /\ Goto(w, "idle")
    /\ obj' = [obj EXCEPT ![w] = [h \in Handles |-> 0]]
    /\ UNCHANGED <<rows, locks, job, req, ord, seen, wpos, check, fills,
                   cancelling, bounds>>

-----------------------------------------------------------------------------
(* execution.services._place_order up to the broker.                       *)

NewOrder(w, status) ==
    [acct |-> req[w].acct, inst |-> req[w].inst, side |-> req[w].side,
     qty |-> req[w].qty, status |-> status, recent |-> TRUE]

\* Mutated form: only orders still in flight count, a filled one does not.
DuplicateInFlight(r) ==
    \E n \in DOMAIN orders :
        /\ orders[n].acct = r.acct /\ orders[n].inst = r.inst
        /\ orders[n].side = r.side /\ orders[n].recent
        /\ orders[n].status = "PENDING"

IsDuplicate(r) ==
    \E n \in DOMAIN orders :
        /\ orders[n].acct = r.acct /\ orders[n].inst = r.inst
        /\ orders[n].side = r.side /\ orders[n].recent
        /\ orders[n].status \notin {"REJECTED", "CANCELLED"}

\* The guard and, on a match, the REJECTED row it creates: no other process
\* reads that row, so the two statements are one step.
CheckDuplicate(w) ==
    /\ pc[w] = "dup"
    /\ \/ /\ IsDuplicate(req[w])
          /\ orders' = Append(orders, NewOrder(w, "REJECTED"))
          /\ Leave(w)
       \/ /\ ~IsDuplicate(req[w])
          /\ Goto(w, "insert")
          /\ UNCHANGED <<orders, req, ord, seen, wpos>>
    /\ UNCHANGED <<cash, pos, price, opening, decisions, trades, locks, job, obj,
                   check, fills, cancelling, bounds>>

InsertOrder(w) ==
    /\ pc[w] = "insert"
    /\ orders' = Append(orders, NewOrder(w, "PENDING"))
    /\ ord' = [ord EXCEPT ![w] = Len(orders) + 1]
    /\ seen' = [seen EXCEPT ![w] = price[req[w].inst]]
    /\ Goto(w, IF price[req[w].inst] = 0 THEN "reject" ELSE "opening")
    /\ UNCHANGED <<cash, pos, price, opening, decisions, trades, locks, job, obj,
                   req, wpos, check, fills, cancelling, bounds>>

-----------------------------------------------------------------------------
(* risk.engine.evaluate.                                                   *)

Decide(w, ok) == decisions' = decisions \cup {[order |-> ord[w], approved |-> ok]}

\* Mutated form: a loss exactly at the limit is let through.
LossReachedStrictly(open, current) ==
    open > 0 /\ (open - current) * 100 > LossPct * open

\* (opening - current) / opening * 100 >= limit, without the division
LossReached(open, current) ==
    open > 0 /\ (open - current) * 100 >= LossPct * open

\* check_max_position_size lets a SELL through before it reads anything.
SizeStep(w) == IF req[w].side = "SELL" THEN "limit" ELSE "equity"

\* account.equity starts: one query for the account's positions.  The day of
\* get_opening_equity was taken just before.
ReadPositions(w) ==
    /\ pc[w] \in Reading
    /\ check' = [check EXCEPT ![w] =
           [held |-> [i \in Instruments |-> pos[<<Acct(w), i>>]], mark |-> Unmarked,
            day |-> IF pc[w] = "opening" THEN Len(opening) ELSE check[w].day]]
    /\ Goto(w, CASE pc[w] = "opening" -> "snapshot"
                 [] pc[w] = "current" -> "stop"
                 [] pc[w] = "equity" -> "limit")
    /\ UNCHANGED <<rows, locks, job, obj, req, ord, seen, wpos, fills, cancelling,
                   bounds>>

\* Position.market_value: a query of its own for each position, in the order
\* of their ids, which a row deleted and inserted again changes.
MarkPosition(w) ==
    /\ pc[w] \in {"snapshot", "stop", "limit"}
    /\ \E i \in Unread(w) : check' = [check EXCEPT ![w].mark[i] = price[i]]
    /\ UNCHANGED <<rows, locks, pc, job, obj, req, ord, seen, wpos, fills,
                   cancelling,
                   bounds>>

\* get_or_create: the equity just read is stored unless the day has a snapshot.
OpenDay(w) ==
    LET d == check[w].day
        open == IF opening[d][Acct(w)] = -1 THEN Equity(w) ELSE opening[d][Acct(w)]
    IN  /\ pc[w] = "snapshot" /\ Unread(w) = {}
        /\ opening' = [opening EXCEPT ![d][Acct(w)] = open]
        /\ check' = [check EXCEPT ![w] = [NoCheck EXCEPT !.day = d]]
        /\ Goto(w, IF open > 0 THEN "current" ELSE SizeStep(w))
        /\ UNCHANGED <<cash, pos, price, orders, decisions, trades, locks, job, obj,
                       req, ord, seen, wpos, fills, cancelling, bounds>>

\* check_max_daily_loss, against the snapshot it read (its row never changes)
CheckDailyLoss(w) ==
    LET open == opening[check[w].day][Acct(w)]
    IN  /\ pc[w] = "stop" /\ Unread(w) = {}
        /\ \/ /\ LossReached(open, Equity(w))
              /\ Decide(w, FALSE)
              /\ Goto(w, "reject")
           \/ /\ ~LossReached(open, Equity(w))
              /\ Goto(w, SizeStep(w))
              /\ UNCHANGED decisions
        /\ check' = [check EXCEPT ![w] = NoCheck]
        /\ UNCHANGED <<cash, pos, price, opening, orders, trades, locks, job, obj,
                       req,
                       ord, seen, wpos, fills, cancelling, bounds>>

WithinLimit(shares, p, equity) == equity > 0 /\ shares * p * 100 <= equity * PosPct

\* Mutated form: what is already held is left out of the position's value.
NewLotAllows(w) ==
    \/ req[w].side = "SELL"
    \/ WithinLimit(req[w].qty, seen[w], Equity(w))

SizeAllows(w) ==
    \/ req[w].side = "SELL"
    \/ WithinLimit(pos[Holding(w)] + req[w].qty, seen[w], Equity(w))

\* Mutated form: place_order goes to the broker whatever evaluate returned.
AlwaysSubmit(ok) == "quote"

AfterVerdict(ok) == IF ok THEN "quote" ELSE "reject"

\* check_max_position_size once it has the equity: the position row is read
\* again, and the verdict is stored in a RiskDecision no process reads.
CheckPositionSize(w) ==
    /\ pc[w] = "limit" /\ Unread(w) = {}
    /\ Decide(w, SizeAllows(w))
    /\ check' = [check EXCEPT ![w] = NoCheck]
    /\ Goto(w, AfterVerdict(SizeAllows(w)))
    /\ UNCHANGED <<cash, pos, price, opening, orders, trades, locks, job, obj, req,
                   ord, seen, wpos, fills, cancelling, bounds>>

\* Mutated form: the status is set on the object and order.save() forgotten.
RejectUnsaved(n) == UNCHANGED orders

SaveRejected(n) == orders' = [orders EXCEPT ![n].status = "REJECTED"]

\* services._reject and PaperBroker._reject: order.save() writes every column
Reject(w) ==
    /\ pc[w] = "reject"
    /\ SaveRejected(ord[w])
    /\ Leave(w)
    /\ UNCHANGED <<cash, pos, price, opening, decisions, trades, locks, job, obj,
                   check, fills, cancelling, bounds>>

-----------------------------------------------------------------------------
(* execution.brokers.paper.PaperBroker.submit_order.                       *)

\* The price is read again: it may have moved since the risk evaluation.
Quote(w) ==
    /\ pc[w] = "quote"
    /\ seen' = [seen EXCEPT ![w] = price[req[w].inst]]
    /\ Goto(w, IF price[req[w].inst] = 0 THEN "reject"
               ELSE IF req[w].side = "BUY" THEN "buyRead" ELSE "sellPos")
    /\ UNCHANGED <<rows, locks, job, obj, req, ord, wpos, check, fills, cancelling,
                   bounds>>

Amount(w) == seen[w] * req[w].qty

\* Mutated form: InsufficientFundsError is never raised.
AffordsAnything(w) == TRUE

Affordable(w) == cash[Acct(w)] >= Amount(w)

\* _fill_buy: refresh_from_db() takes no lock
BuyRead(w) ==
    /\ pc[w] = "buyRead"
    /\ \/ /\ ~Affordable(w)
          /\ SetCached(w, cash[Acct(w)])
          /\ Goto(w, "reject")
       \/ /\ Affordable(w)
          /\ SetCached(w, cash[Acct(w)] - Amount(w))
          /\ Goto(w, "buyCash")
    /\ UNCHANGED <<rows, locks, job, req, ord, seen, wpos, check, fills,
                   cancelling, bounds>>

\* Mutated form: the account row is written outside the transaction.
SkipCashLock(w) == UNCHANGED cashLock

\* account.save(update_fields=...): UPDATE with the value computed in Python
TakeCashLock(w) ==
    /\ cashLock[Acct(w)] = NoWorker
    /\ cashLock' = [cashLock EXCEPT ![Acct(w)] = w]

BuyCash(w) ==
    /\ pc[w] = "buyCash"
    /\ TakeCashLock(w)
    /\ Goto(w, "buyPos")
    /\ UNCHANGED <<rows, posLock, job, obj, req, ord, seen, wpos, check, fills,
                   cancelling, bounds>>

\* Mutated form: the position is read without select_for_update().
PosLockSkipped(x) == TRUE

\* Mutated form: the position is locked with its account, on a second connection,
\* which waits for the transaction it belongs to.
PosAndAccountFree(x) == posLock[x] = NoWorker /\ cashLock[x[1]] = NoWorker

PosLockFree(x) == posLock[x] = NoWorker

\* select_for_update().get_or_create(): locks the row, or inserts it and so
\* locks its key; then the new quantity is saved
BuyPos(w) ==
    /\ pc[w] = "buyPos"
    /\ PosLockFree(Holding(w))
    /\ posLock' = [posLock EXCEPT ![Holding(w)] = w]
    /\ wpos' = [wpos EXCEPT ![w] = pos[Holding(w)] + req[w].qty]
    /\ Goto(w, "commit")
    /\ UNCHANGED <<rows, cashLock, job, obj, req, ord, seen, check, fills,
                   cancelling, bounds>>

EnoughShares(w) == pos[Holding(w)] >= req[w].qty

\* _fill_sell: select_for_update().get(), then the quantity check
SellPos(w) ==
    /\ pc[w] = "sellPos"
    /\ \/ /\ pos[Holding(w)] = 0                   \* DoesNotExist
          /\ Goto(w, "reject")
          /\ UNCHANGED <<posLock, wpos>>
       \/ /\ pos[Holding(w)] > 0
          /\ PosLockFree(Holding(w))
          /\ ~EnoughShares(w)                      \* rolled back
          /\ Goto(w, "reject")
          /\ UNCHANGED <<posLock, wpos>>
       \/ /\ pos[Holding(w)] > 0
          /\ PosLockFree(Holding(w))
          /\ EnoughShares(w)
          /\ posLock' = [posLock EXCEPT ![Holding(w)] = w]
          /\ wpos' = [wpos EXCEPT ![w] = pos[Holding(w)] - req[w].qty]
          /\ Goto(w, "sellRead")
    /\ UNCHANGED <<rows, cashLock, job, obj, req, ord, seen, check, fills,
                   cancelling, bounds>>

\* Mutated form: the account is refreshed and the proceeds are not added.
ProceedsForgotten(w) == cash[Acct(w)]

BalanceAfterSale(w) == cash[Acct(w)] + Amount(w)

SellRead(w) ==
    /\ pc[w] = "sellRead"
    /\ SetCached(w, BalanceAfterSale(w))
    /\ Goto(w, "sellCash")
    /\ UNCHANGED <<rows, locks, job, req, ord, seen, wpos, check, fills,
                   cancelling, bounds>>

\* the account row, then the position row this transaction already has locked
SellCash(w) ==
    /\ pc[w] = "sellCash"
    /\ TakeCashLock(w)
    /\ Goto(w, "commit")
    /\ UNCHANGED <<rows, posLock, job, obj, req, ord, seen, wpos, check, fills,
                   cancelling, bounds>>

\* Mutated form: the account row stays locked when the transaction ends.
ReleasePosition(w) ==
    /\ UNCHANGED cashLock
    /\ posLock' = [x \in Holdings |-> IF posLock[x] = w THEN NoWorker ELSE posLock[x]]

ReleaseLocks(w) ==
    /\ cashLock' = [a \in Accounts |-> IF cashLock[a] = w THEN NoWorker ELSE cashLock[a]]
    /\ posLock' = [x \in Holdings |-> IF posLock[x] = w THEN NoWorker ELSE posLock[x]]

\* atomic() exits: both rows become visible and the locks go
Commit(w) ==
    /\ pc[w] = "commit"
    /\ cash' = [cash EXCEPT ![Acct(w)] = Cached(w)]
    /\ pos' = [pos EXCEPT ![Holding(w)] = wpos[w]]
    /\ fills' = fills \cup {[order |-> ord[w], price |-> seen[w]]}
    /\ ReleaseLocks(w)
    /\ Goto(w, "saveFill")
    /\ UNCHANGED <<price, opening, orders, decisions, trades, job, obj, req, ord,
                   seen, wpos, check, cancelling, bounds>>

\* order.save(), outside the transaction
SaveFill(w) ==
    /\ pc[w] = "saveFill"
    /\ orders' = [orders EXCEPT ![ord[w]].status = "FILLED"]
    /\ Goto(w, "trade")
    /\ UNCHANGED <<cash, pos, price, opening, decisions, trades, locks, job, obj,
                   req,
                   ord, seen, wpos, check, fills, cancelling, bounds>>

CreateTrade(w) ==
    /\ pc[w] = "trade"
    /\ trades' = trades \cup {[order |-> ord[w], qty |-> req[w].qty,
                               price |-> seen[w]]}
    /\ Leave(w)
    /\ UNCHANGED <<cash, pos, price, opening, orders, decisions, locks, job, obj,
                   check, fills, cancelling, bounds>>

-----------------------------------------------------------------------------
(* PostgreSQL and the outside world.                                       *)

\* w is waiting for a lock that v holds
WaitsFor(w, v) ==
    \/ pc[w] \in {"buyCash", "sellCash"} /\ cashLock[Acct(w)] = v
    \/ pc[w] = "buyPos" /\ posLock[Holding(w)] = v
    \/ pc[w] = "sellPos" /\ pos[Holding(w)] > 0 /\ posLock[Holding(w)] = v

\* The deadlock detector rolls one of the two back; place_order raises, the
\* order row stays PENDING and the Account object keeps its unsaved balance.
AbortDeadlock(w) ==
    /\ \E v \in Workers : WaitsFor(w, v) /\ WaitsFor(v, w)
    /\ ReleaseLocks(w)
    /\ Leave(w)
    /\ UNCHANGED <<rows, job, obj, check, fills, cancelling, bounds>>

\* The process dies: its connection closes and its transaction is rolled back.
\* Celery has acknowledged the task already, so nothing runs it again.
Crash(w) ==
    /\ pc[w] # "idle" /\ crashes < MaxCrashes
    /\ ReleaseLocks(w)
    /\ Goto(w, "idle")
    /\ job' = [job EXCEPT ![w] = << >>]
    /\ obj' = [obj EXCEPT ![w] = [h \in Handles |-> 0]]
    /\ req' = [req EXCEPT ![w] = NoReq]
    /\ ord' = [ord EXCEPT ![w] = 0]
    /\ seen' = [seen EXCEPT ![w] = 0]
    /\ wpos' = [wpos EXCEPT ![w] = 0]
    /\ check' = [check EXCEPT ![w] = NoCheck]
    /\ crashes' = crashes + 1
    /\ UNCHANGED <<rows, fills, cancelling, jobs, env>>

EnvStep(op) == op \in EnvOps /\ env < MaxEnv /\ env' = env + 1

\* marketdata sync stores a newer bar
SyncPrice ==
    /\ EnvStep("sync")
    /\ \E i \in Instruments, p \in PriceLevels :
          p # price[i] /\ price' = [price EXCEPT ![i] = p]
    /\ UNCHANGED <<cash, pos, opening, orders, decisions, trades, locks, procs,
                   fills, cancelling, jobs, crashes>>

\* DUPLICATE_ORDER_WINDOW passes for the older orders
WindowPasses ==
    /\ EnvStep("window")
    /\ \E k \in DOMAIN orders :
          /\ orders[k].recent
          /\ orders' = [n \in DOMAIN orders |->
                           [orders[n] EXCEPT !.recent = @ /\ n > k]]
    /\ UNCHANGED <<cash, pos, price, opening, decisions, trades, locks, procs,
                   fills, cancelling, jobs, crashes>>

\* timezone.localdate() moves on: there is no snapshot for the new day yet
NewDay ==
    /\ EnvStep("day")
    /\ \E a \in Accounts : opening[Len(opening)][a] # -1
    /\ opening' = Append(opening, [a \in Accounts |-> -1])
    /\ UNCHANGED <<cash, pos, price, orders, decisions, trades, locks, procs,
                   fills, cancelling, jobs, crashes>>

\* portfolio.views.account_edit saves the balance the operator typed; its
\* UPDATE waits for the row like any other
EditAccount ==
    /\ EnvStep("edit")
    /\ \E a \in Accounts, c \in EditCash :
          /\ cashLock[a] = NoWorker
          /\ cash' = [cash EXCEPT ![a] = c]
    /\ UNCHANGED <<pos, price, opening, orders, decisions, trades, locks, procs,
                   fills, cancelling, jobs, crashes>>

\* PaperBroker.cancel_order looks at the status of the object it was given,
\* loaded before from a row that was PENDING ...
LoadOrder ==
    /\ EnvStep("cancel")
    /\ \E n \in DOMAIN orders :
          /\ orders[n].status = "PENDING"
          /\ cancelling' = cancelling \cup {n}
    /\ UNCHANGED <<rows, locks, procs, fills, jobs, crashes>>

SaveCancelled(n) == orders' = [orders EXCEPT ![n].status = "CANCELLED"]

\* ... and order.save() writes every column, whatever the row says by now.
CancelOrder ==
    /\ \E n \in cancelling :
          /\ SaveCancelled(n)
          /\ cancelling' = cancelling \ {n}
    /\ UNCHANGED <<cash, pos, price, opening, decisions, trades, locks, procs,
                   fills, bounds>>

-----------------------------------------------------------------------------
Step(w) ==
    \/ Skip(w) \/ Signal(w) \/ Finish(w)
    \/ CheckDuplicate(w) \/ InsertOrder(w)
    \/ ReadPositions(w) \/ MarkPosition(w) \/ OpenDay(w)
    \/ CheckDailyLoss(w) \/ CheckPositionSize(w) \/ Reject(w)
    \/ Quote(w) \/ BuyRead(w) \/ BuyCash(w) \/ BuyPos(w)
    \/ SellPos(w) \/ SellRead(w) \/ SellCash(w)
    \/ Commit(w) \/ SaveFill(w) \/ CreateTrade(w)
    \/ AbortDeadlock(w)

Environment ==
    SyncPrice \/ WindowPasses \/ NewDay \/ EditAccount \/ LoadOrder \/ CancelOrder

Next ==
    \/ \E w \in Workers : StartCycle(w) \/ PlaceManually(w) \/ Step(w) \/ Crash(w)
    \/ Environment

Spec == Init /\ [][Next]_vars

\* A process that is running keeps running; nothing makes one start or crash.
FairSpec == Spec /\ \A w \in Workers : WF_vars(Step(w))

-----------------------------------------------------------------------------
(* Correctness.                                                            *)

RowsTypeOK ==
    /\ cash \in [Accounts -> Nat]
    /\ pos \in [Holdings -> Nat]
    /\ price \in [Instruments -> PriceLevels \cup {0}]
    /\ orders \in Seq(Order)
    /\ decisions \subseteq [order : Nat \ {0}, approved : BOOLEAN]
    /\ trades \subseteq [order : Nat \ {0}, qty : Nat \ {0}, price : PriceLevels]

ProcsTypeOK ==
    /\ cashLock \in [Accounts -> Workers \cup {NoWorker}]
    /\ posLock \in [Holdings -> Workers \cup {NoWorker}]
    /\ pc \in [Workers -> PCs]
    /\ job \in [Workers -> Seq(Strategies \X Instruments)]
    /\ obj \in [Workers -> [Handles -> Nat]]
    /\ req \in [Workers -> Request \cup {NoReq}]
    /\ ord \in [Workers -> Nat]
    /\ seen \in [Workers -> PriceLevels \cup {0}]
    /\ wpos \in [Workers -> Nat]

\* What risk evaluations and cancellations in progress have read.
ReadsTypeOK ==
    /\ check \in [Workers -> Check]
    /\ cancelling \subseteq DOMAIN orders

HistoryTypeOK ==
    /\ fills \subseteq [order : Nat \ {0}, price : PriceLevels]
    /\ jobs \in Nat /\ env \in Nat /\ crashes \in Nat

(***************************************************************************)
(* Every variable has the type of its column or object.  cash and pos in   *)
(* Nat say that no interleaving of fills overdraws an account or leaves a  *)
(* negative position (paper.py checks both before it writes).  opening is  *)
(* typed apart: its value is a sum, which the provers cannot type.         *)
(***************************************************************************)
StoreTypeOK == RowsTypeOK /\ ProcsTypeOK /\ HistoryTypeOK

OpeningTypeOK == opening \in Seq([Accounts -> Nat \cup {-1}])

TypeOK == StoreTypeOK /\ ReadsTypeOK /\ OpeningTypeOK

\* The request in progress is a real one and its side matches the branch taken.
RequestOK ==
    \A w \in Workers : pc[w] \in Placing =>
        /\ req[w] \in Request
        /\ pc[w] \in Buying => req[w].side = "BUY"
        /\ pc[w] \in Selling => req[w].side = "SELL"
        /\ pc[w] \in InTransaction \cup Recording => seen[w] > 0

HoldsCash(w) == pc[w] \in {"buyPos", "commit"}
HoldsPos(w) == pc[w] \in {"sellRead", "sellCash", "commit"}

\* A row lock is held by w exactly while w is inside the part of _fill_buy or
\* _fill_sell that has taken it: atomic() releases on every way out.
LockDiscipline ==
    \A w \in Workers :
        /\ \A a \in Accounts :
               cashLock[a] = w <=> HoldsCash(w) /\ Acct(w) = a
        /\ \A x \in Holdings :
               posLock[x] = w <=> HoldsPos(w) /\ Holding(w) = x

\* What the open transaction will write is the committed quantity moved by the
\* order: nobody else moves it between the locking read and the commit.
StagedQuantity ==
    \A w \in Workers : HoldsPos(w) =>
        IF req[w].side = "BUY"
        THEN wpos[w] = pos[Holding(w)] + req[w].qty
        ELSE pos[Holding(w)] >= req[w].qty /\ wpos[w] = pos[Holding(w)] - req[w].qty

\* An order past its insert belongs to one process, is the order that process
\* was asked for, and has no fill until that process commits one.
OrderOwnership ==
    /\ FilledOrders \subseteq DOMAIN orders
    /\ \A w \in Workers : pc[w] \in Unfilled \cup Recording =>
          /\ ord[w] \in DOMAIN orders
          /\ orders[ord[w]].acct = req[w].acct /\ orders[ord[w]].inst = req[w].inst
          /\ orders[ord[w]].side = req[w].side /\ orders[ord[w]].qty = req[w].qty
          /\ pc[w] \in Unfilled => ord[w] \notin FilledOrders
          /\ \A v \in Workers \ {w} : pc[v] \in Unfilled \cup Recording => ord[v] # ord[w]

\* The inductive invariant behind the theorems of PaperTradingProofs.
IInv ==
    /\ StoreTypeOK /\ ReadsTypeOK
    /\ RequestOK /\ LockDiscipline /\ StagedQuantity /\ OrderOwnership

(***************************************************************************)
(* _fill_buy locks the account and then the position, _fill_sell the other *)
(* way round.  That is the only way two fills can block each other for     *)
(* good: a buyer that has to wait for a position waits for a seller of the *)
(* same account that still needs the account row the buyer holds, so every *)
(* such wait ends in a deadlock abort, never in the lock being handed on.  *)
(***************************************************************************)
BuyerOnlyWaitsInDeadlock ==
    \A w, v \in Workers :
        pc[w] = "buyPos" /\ posLock[Holding(w)] = v =>
            /\ pc[v] \in {"sellRead", "sellCash"}
            /\ cashLock[Acct(v)] = w

(***************************************************************************)
(* Nothing is recorded that did not happen, in any interleaving and after  *)
(* any crash: a FILLED order has a committed fill; a REJECTED order has    *)
(* none; a Trade has the quantity of its order and the price of its fill;  *)
(* and only an approved order is filled.  A fill is in its Trade, or a live*)
(* process is recording it, or a process crashed.  Its order row says      *)
(* FILLED, or CANCELLED: cancel_order saves the object it loaded while the *)
(* order was PENDING over whatever the row says, so a CANCELLED order may  *)
(* have moved shares and cash, but never one that is PENDING or REJECTED.  *)
(***************************************************************************)
RecordsMatchFills ==
    /\ \A n \in DOMAIN orders :
          /\ orders[n].status = "FILLED" => n \in FilledOrders
          /\ orders[n].status = "REJECTED" => n \notin FilledOrders
    /\ \A t \in trades :
          /\ t.qty = orders[t.order].qty
          /\ [order |-> t.order, price |-> t.price] \in fills
    /\ \A f \in fills :
          /\ [order |-> f.order, approved |-> TRUE] \in decisions
          /\ \/ crashes > 0
             \/ \E w \in Workers : pc[w] \in Recording /\ ord[w] = f.order
             \/ /\ \E t \in trades : t.order = f.order
                /\ orders[f.order].status \in {"FILLED", "CANCELLED"}

\* The shares implement Positions: whatever the interleaving, every step books
\* an order, fills one order exactly once, or leaves the holdings alone.
BookOf(o) == [acct |-> o.acct, inst |-> o.inst, side |-> o.side, qty |-> o.qty]

P == INSTANCE Positions WITH
        book <- [n \in DOMAIN orders |-> BookOf(orders[n])],
        holding <- pos,
        filled <- FilledOrders

ImplementsPositions == P!Spec

\* With one process the cash keeps in step as well: a fill moves shares and
\* cash together, by the price it was filled at.
L == INSTANCE Ledger WITH
        book <- [n \in DOMAIN orders |-> BookOf(orders[n])],
        holding <- pos,
        filled <- FilledOrders,
        balance <- cash,
        Prices <- PriceLevels,
        Amounts <- EditCash

ImplementsLedger == L!LedgerSpec

(***************************************************************************)
(* A fill that commits moves the account's committed balance by exactly    *)
(* price * quantity, whatever the balance was when the fill read it.       *)
(***************************************************************************)
FillMovesCash ==
    [][\A f \in fills' \ fills :
          LET o == orders[f.order]
          IN  cash'[o.acct] = cash[o.acct] - f.price * P!SignedQty(o)]_vars

\* services.DUPLICATE_ORDER_WINDOW: no two live orders for the same account,
\* instrument and side were created within the window of each other.
NoRecentDuplicates ==
    \A m, n \in DOMAIN orders :
        (m # n /\ orders[m].recent /\ orders[n].recent
           /\ orders[m].status \notin {"REJECTED", "CANCELLED"}
           /\ orders[n].status \notin {"REJECTED", "CANCELLED"})
        => <<orders[m].acct, orders[m].inst, orders[m].side>>
             # <<orders[n].acct, orders[n].inst, orders[n].side>>

\* The account's committed cash and committed positions, these at the closes
\* w has read.
TrueEquity(w) ==
    cash[Acct(w)] + Value([i \in Instruments |-> pos[<<Acct(w), i>>]], check[w].mark)

(***************************************************************************)
(* The position-size limit is judged against the books as they are: when a *)
(* BUY passes check_max_position_size, the position it leads to is within  *)
(* PosPct of the account's committed equity.  The closes are those the     *)
(* check read one by one: a sync between two of its queries may make them  *)
(* a mixture that was never the state of the database.                     *)
(***************************************************************************)
ApprovedExposureBounded ==
    [][\A w \in Workers :
          (pc[w] = "limit" /\ pc'[w] = "quote" /\ req[w].side = "BUY") =>
              (pos[Holding(w)] + req[w].qty) * seen[w] * 100
                  <= TrueEquity(w) * PosPct]_vars

(***************************************************************************)
(* The daily-loss stop is judged against the books as they are: no order   *)
(* of an account whose committed equity, at the closes the check read, has *)
(* lost LossPct since the snapshot of the day the check began on passes    *)
(* check_max_daily_loss, whatever is synced and whether or not midnight    *)
(* passes between its statements.                                          *)
(***************************************************************************)
LossStopHolds ==
    [][\A w \in Workers :
          LET open == opening[check[w].day][Acct(w)]
          IN  (pc[w] = "stop" /\ pc'[w] \in {"equity", "limit"} /\ open > 0) =>
                  TrueEquity(w) * 100 > (100 - LossPct) * open]_vars

\* A task or request that has started ends, whatever locks it meets.
WorkersFinish == \A w \in Workers : pc[w] # "idle" ~> pc[w] = "idle"

\* models.Order: PENDING orders do not stay PENDING.
SomePending == \E n \in DOMAIN orders : orders[n].status = "PENDING"
PendingResolves == SomePending ~> ~SomePending
=============================================================================
