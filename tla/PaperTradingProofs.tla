-------------------------- MODULE PaperTradingProofs --------------------------
(***************************************************************************)
(* Theorems about PaperTrading, for any number of accounts, instruments    *)
(* and strategies, any bounds and any number of crashes.                   *)
(*                                                                         *)
(* For any number of processes: StoreTypeOK, RequestOK, LockDiscipline,    *)
(* StagedQuantity and OrderOwnership are proved together as the inductive  *)
(* invariant IInv, one lemma per conjunct, one case per action; from it    *)
(* follow the types, what a waiting buyer can meet, the refinement of      *)
(* Positions and, with RecordsInv, that the records match the fills.       *)
(*                                                                         *)
(* For one process at a time: DuplicateInv (no duplicate in the window),   *)
(* LedgerInv (the refinement of Ledger) and FreshInv (the two limits of    *)
(* the risk engine), each with the conditions the code needs and the runs  *)
(* show to be needed.                                                      *)
(***************************************************************************)
EXTENDS PaperTrading, OrderLemmas, TLAPS, SequenceTheorems

\* Bookkeeping every step needs: the tuples behind UNCHANGED, the program
\* counters and the two small actions all the others are built from.
USE DEF vars, rows, locks, procs, bounds, Goto, Leave
USE DEF PCs, Placing, Checking, Reading, Evaluating, Buying, Selling, InTransaction,
        Unfilled, Recording

-----------------------------------------------------------------------------
(* Lemmas about the data.                                                  *)

\* The parts of ConstantsOK, each where a proof can cite it alone.
LEMMA PricesPositive ==
  PriceLevels \subseteq Nat /\ PriceLevels \cup {0} \subseteq Nat /\ 0 \notin PriceLevels
  BY ConstantsOK

\* The free mark of a row lock is no process.
LEMMA NobodyIsNoWorker == NoWorker \notin Workers
  BY ConstantsOK

\* A strategy trades one account and has a positive order quantity.
LEMMA StrategyTypes ==
  /\ Strategies \cap Accounts = {}
  /\ StrategyAccount \in [Strategies -> Accounts]
  /\ OrderQty \in [Strategies -> Nat \ {0}]
  BY ConstantsOK

\* A cycle visits (strategy, instrument) pairs.
LEMMA CycleType == Cycle \in Seq(Strategies \X Instruments)
  BY ConstantsOK

\* The order form takes positive quantities, the account form no negative balance.
LEMMA FormTypes == ManualQty \subseteq Nat \ {0} /\ EditCash \subseteq Nat
  BY ConstantsOK

\* The rows the system starts with are natural numbers.
LEMMA OpeningBooks == InitCash \in [Accounts -> Nat] /\ InitPos \in [Holdings -> Nat]
  BY ConstantsOK

\* A product of naturals is one: Amount(w) is a sum of money.
LEMMA NatTimes == ASSUME NEW m \in Nat, NEW n \in Nat PROVE m * n \in Nat
  OBVIOUS

\* The cost or the proceeds of a fill (price times quantity) is a natural.
LEMMA AmountType ==
  ASSUME NEW w \in Workers, req[w] \in Request,
         seen \in [Workers -> PriceLevels \cup {0}]
  PROVE  Amount(w) \in Nat
<1>1. seen[w] \in Nat
  BY PricesPositive
<1>2. req[w].qty \in Nat
  BY DEF Request
<1>3. QED
  BY <1>1, <1>2, NatTimes DEF Amount

\* Writing one object's balance keeps obj well typed.
LEMMA CachedUpdate ==
  ASSUME obj \in [Workers -> [Handles -> Nat]],
         NEW w \in Workers, NEW h \in Handles, NEW c \in Nat
  PROVE  [obj EXCEPT ![w][h] = c] \in [Workers -> [Handles -> Nat]]
  OBVIOUS

\* The row CheckDuplicate or InsertOrder creates.
LEMMA NewOrderType ==
  ASSUME NEW w \in Workers, req[w] \in Request,
         NEW s \in {"PENDING", "FILLED", "REJECTED", "CANCELLED"}
  PROVE  /\ NewOrder(w, s) \in Order
         /\ BookOf(NewOrder(w, s)) = BookOf(req[w])
  BY DEF NewOrder, Order, Request, BookOf

\* orders' has the rows of orders, the same tickets on them, and no others.
SameTickets ==
    /\ orders' \in Seq(Order)
    /\ DOMAIN orders' = DOMAIN orders
    /\ \A n \in DOMAIN orders : BookOf(orders'[n]) = BookOf(orders[n])

\* orders' has one row more than orders, at the end.
OneMoreTicket(o) ==
    /\ orders' \in Seq(Order)
    /\ Len(orders') = Len(orders) + 1
    /\ DOMAIN orders' = DOMAIN orders \cup {Len(orders) + 1}
    /\ \A n \in DOMAIN orders : orders'[n] = orders[n]
    /\ orders'[Len(orders) + 1] = o

\* order.save() of a legal status keeps the Order rows well typed.
LEMMA StatusWrite ==
  ASSUME orders \in Seq(Order), NEW n \in DOMAIN orders,
         NEW s \in {"PENDING", "FILLED", "REJECTED", "CANCELLED"},
         orders' = [orders EXCEPT ![n].status = s]
  PROVE  SameTickets
<1>1. DOMAIN orders = 1..Len(orders)
  BY LenProperties
<1>2. orders[n] \in Order
  BY <1>1, ElementOfSeq
<1>3. [orders[n] EXCEPT !.status = s] \in Order
  BY <1>2 DEF Order
<1>4. orders' = [orders EXCEPT ![n] = [orders[n] EXCEPT !.status = s]]
  OBVIOUS
<1>5. orders' \in Seq(Order)
  BY <1>1, <1>3, <1>4, ExceptSeq
<1>6. \A m \in DOMAIN orders : BookOf(orders'[m]) = BookOf(orders[m])
  BY <1>2, <1>4 DEF BookOf, Order
<1>7. QED
  BY <1>4, <1>5, <1>6 DEF SameTickets

\* Order.objects.create of a well typed row keeps the Order rows well typed.
LEMMA OrderAppended ==
  ASSUME orders \in Seq(Order), NEW o \in Order, orders' = Append(orders, o)
  PROVE  OneMoreTicket(o)
<1>1. /\ Len(orders) \in Nat
      /\ DOMAIN orders = 1..Len(orders)
  BY LenProperties
<1>2. /\ orders' \in Seq(Order)
      /\ Len(orders') = Len(orders) + 1
      /\ \A n \in 1..Len(orders) : orders'[n] = orders[n]
      /\ orders'[Len(orders) + 1] = o
  BY <1>1
<1>3. DOMAIN orders' = 1..Len(orders')
  BY <1>2, LenProperties
<1>4. QED
  BY <1>1, <1>2, <1>3 DEF OneMoreTicket

\* WindowPasses rewrites the recent flags and nothing else.
LEMMA FlagsWrite ==
  ASSUME orders \in Seq(Order), NEW k \in DOMAIN orders,
         orders' = [n \in DOMAIN orders |-> [orders[n] EXCEPT !.recent = @ /\ n > k]]
  PROVE  SameTickets
<1>1. /\ Len(orders) \in Nat
      /\ DOMAIN orders = 1..Len(orders)
  BY LenProperties
<1>2. \A n \in DOMAIN orders : orders[n] \in Order
  BY <1>1, ElementOfSeq
<1>3. ASSUME NEW n \in DOMAIN orders
      PROVE  /\ orders'[n] \in Order
             /\ BookOf(orders'[n]) = BookOf(orders[n])
  <2>1. orders'[n] = [orders[n] EXCEPT !.recent = orders[n].recent /\ n > k]
    OBVIOUS
  <2>2. (orders[n].recent /\ n > k) \in BOOLEAN
    OBVIOUS
  <2>3. QED
    BY <1>2, <2>1, <2>2 DEF Order, BookOf
<1>4. orders' \in [1..Len(orders) -> Order]
  BY <1>1, <1>3
<1>5. orders' \in Seq(Order)
  BY <1>1, <1>4, SeqDef
<1>6. QED
  BY <1>1, <1>3, <1>4, <1>5 DEF SameTickets

-----------------------------------------------------------------------------
(* StoreTypeOK is preserved.                                               *)

\* run_trading_cycle starting on fresh Account objects keeps the types.
LEMMA TypeStartCycle ==
  ASSUME StoreTypeOK, NEW w \in Workers, StartCycle(w)
  PROVE  StoreTypeOK'
<1>1. [h \in Handles |-> IF h \in Strategies THEN cash[StrategyAccount[h]] ELSE 0]
         \in [Handles -> Nat]
  BY StrategyTypes DEF StoreTypeOK, RowsTypeOK
<1>2. obj' \in [Workers -> [Handles -> Nat]]
  BY <1>1 DEF StoreTypeOK, ProcsTypeOK, StartCycle
<1>3. job' \in [Workers -> Seq(Strategies \X Instruments)]
  BY CycleType DEF StoreTypeOK, ProcsTypeOK, StartCycle
<1>4. RowsTypeOK' /\ HistoryTypeOK'
  BY DEF StoreTypeOK, RowsTypeOK, HistoryTypeOK, StartCycle
<1>5. ProcsTypeOK'
  BY <1>2, <1>3 DEF StoreTypeOK, ProcsTypeOK, StartCycle
<1>6. QED
  BY <1>4, <1>5 DEF StoreTypeOK

\* What the order form asks for is a request of the account itself.
LEMMA ManualRequest ==
  ASSUME StoreTypeOK, NEW w \in Workers, PlaceManually(w)
  PROVE  /\ req'[w] \in Request /\ req' = [req EXCEPT ![w] = req'[w]]
         /\ obj' \in [Workers -> [Handles -> Nat]]
<1>1. PICK a \in Accounts, i \in Instruments, s \in {"BUY", "SELL"}, q \in ManualQty :
         /\ req' = [req EXCEPT ![w] = [h |-> a, acct |-> a, inst |-> i,
                                       side |-> s, qty |-> q]]
         /\ obj' = [obj EXCEPT ![w][a] = cash[a]]
  BY DEF PlaceManually
<1>2. [h |-> a, acct |-> a, inst |-> i, side |-> s, qty |-> q] \in Request
  BY FormTypes DEF Request, Handles
<1>3. a \in Handles /\ cash[a] \in Nat
  BY DEF Handles, StoreTypeOK, RowsTypeOK
<1>4. obj' \in [Workers -> [Handles -> Nat]]
  BY <1>1, <1>3, CachedUpdate DEF StoreTypeOK, ProcsTypeOK
<1>5. QED
  BY <1>1, <1>2, <1>4 DEF StoreTypeOK, ProcsTypeOK

\* The order form starting a place_order call keeps the types.
LEMMA TypePlaceManually ==
  ASSUME StoreTypeOK, NEW w \in Workers, PlaceManually(w)
  PROVE  StoreTypeOK'
<1>1. /\ req' \in [Workers -> Request \cup {NoReq}]
      /\ obj' \in [Workers -> [Handles -> Nat]]
  BY ManualRequest DEF StoreTypeOK, ProcsTypeOK
<1>2. RowsTypeOK' /\ HistoryTypeOK'
  BY DEF StoreTypeOK, RowsTypeOK, HistoryTypeOK, PlaceManually
<1>3. ProcsTypeOK'
  BY <1>1 DEF StoreTypeOK, ProcsTypeOK, PlaceManually
<1>4. QED
  BY <1>2, <1>3 DEF StoreTypeOK

\* What Signal asks for is a request, and its account is the strategy's own.
LEMMA SignalRequest ==
  ASSUME StoreTypeOK, NEW w \in Workers, Signal(w)
  PROVE  req'[w] \in Request /\ req' = [req EXCEPT ![w] = req'[w]]
<1>0. job[w] \in Seq(Strategies \X Instruments) /\ job[w] # << >>
  BY DEF StoreTypeOK, ProcsTypeOK, Signal
<1> DEFINE s == Head(job[w])[1]
           i == Head(job[w])[2]
           a == StrategyAccount[s]
<1>1. s \in Strategies /\ i \in Instruments
  BY <1>0, HeadTailProperties
<1>2. a \in Accounts /\ OrderQty[s] \in Nat
  BY <1>1, StrategyTypes
<1>3. pos[<<a, i>>] \in Nat
  BY <1>1, <1>2 DEF StoreTypeOK, RowsTypeOK, Holdings
<1>4. PICK side \in {"BUY", "SELL"} :
         /\ Quantity(s, <<a, i>>, side) > 0
         /\ req' = [req EXCEPT ![w] = [h |-> s, acct |-> a, inst |-> i,
                side |-> side, qty |-> Quantity(s, <<a, i>>, side)]]
  BY DEF Signal
<1>5. Quantity(s, <<a, i>>, side) \in Nat \ {0}
  BY <1>2, <1>3, <1>4 DEF Quantity
<1>6. s \in Handles
  BY <1>1 DEF Handles
<1> HIDE DEF s, i, a
<1>7. [h |-> s, acct |-> a, inst |-> i, side |-> side,
       qty |-> Quantity(s, <<a, i>>, side)] \in Request
  BY <1>1, <1>2, <1>5, <1>6 DEF Request
<1>8. QED
  BY <1>4, <1>7 DEF StoreTypeOK, ProcsTypeOK

\* _run_one, whatever it decides, keeps the types.
LEMMA TypeSignal ==
  ASSUME StoreTypeOK, NEW w \in Workers, Signal(w)
  PROVE  StoreTypeOK'
<1>1. req' \in [Workers -> Request \cup {NoReq}]
  BY SignalRequest DEF StoreTypeOK, ProcsTypeOK
<1>2. job' \in [Workers -> Seq(Strategies \X Instruments)]
  BY HeadTailProperties DEF StoreTypeOK, ProcsTypeOK, Signal
<1>3. RowsTypeOK' /\ HistoryTypeOK'
  BY DEF StoreTypeOK, RowsTypeOK, HistoryTypeOK, Signal
<1>4. ProcsTypeOK'
  BY <1>1, <1>2 DEF StoreTypeOK, ProcsTypeOK, Signal
<1>5. QED
  BY <1>3, <1>4 DEF StoreTypeOK

\* The last line of place_order, however it ends.
LEMMA TypeLeave ==
  ASSUME ProcsTypeOK, NEW w \in Workers, Leave(w)
  PROVE  /\ pc' \in [Workers -> PCs]
         /\ req' \in [Workers -> Request \cup {NoReq}]
         /\ ord' \in [Workers -> Nat]
         /\ seen' \in [Workers -> PriceLevels \cup {0}]
         /\ wpos' \in [Workers -> Nat]
  BY DEF ProcsTypeOK

\* What the processing of a request may rely on.
LEMMA RequestFacts ==
  ASSUME StoreTypeOK, RequestOK, NEW w \in Workers, pc[w] \in Placing
  PROVE  /\ req[w] \in Request
         /\ Acct(w) \in Accounts /\ Holding(w) \in Holdings
         /\ req[w].inst \in Instruments /\ req[w].qty \in Nat \ {0}
         /\ req[w].h \in Handles /\ Cached(w) \in Nat
         /\ cash[Acct(w)] \in Nat /\ pos[Holding(w)] \in Nat
         /\ Amount(w) \in Nat
<1>1. req[w] \in Request
  BY DEF RequestOK
<1>2. /\ Acct(w) \in Accounts /\ Holding(w) \in Holdings
      /\ req[w].inst \in Instruments /\ req[w].qty \in Nat \ {0}
      /\ req[w].h \in Handles
  BY <1>1 DEF Request, Acct, Holding, Holdings
<1>3. Cached(w) \in Nat
  BY <1>2 DEF Cached, StoreTypeOK, ProcsTypeOK
<1>4. cash[Acct(w)] \in Nat /\ pos[Holding(w)] \in Nat
  BY <1>2 DEF StoreTypeOK, RowsTypeOK
<1>5. Amount(w) \in Nat
  BY <1>1, AmountType DEF StoreTypeOK, ProcsTypeOK
<1>6. QED
  BY <1>1, <1>2, <1>3, <1>4, <1>5

\* The duplicate guard, refusing or passing, keeps the types.
LEMMA TypeCheckDuplicate ==
  ASSUME StoreTypeOK, RequestOK, NEW w \in Workers, CheckDuplicate(w)
  PROVE  StoreTypeOK'
<1>1. req[w] \in Request
  BY RequestFacts DEF CheckDuplicate
<1>2. orders' \in Seq(Order)
  BY <1>1, NewOrderType, OrderAppended
     DEF CheckDuplicate, OneMoreTicket, StoreTypeOK, RowsTypeOK
<1>3. RowsTypeOK' /\ HistoryTypeOK'
  BY <1>2 DEF StoreTypeOK, RowsTypeOK, HistoryTypeOK, CheckDuplicate
<1>4. CASE IsDuplicate(req[w])
  <2>1. Leave(w)
    BY <1>4 DEF CheckDuplicate
  <2>2. ProcsTypeOK'
    BY <2>1, TypeLeave DEF StoreTypeOK, ProcsTypeOK, CheckDuplicate
  <2>3. QED
    BY <1>3, <2>2 DEF StoreTypeOK
<1>5. CASE ~IsDuplicate(req[w])
  <2>1. ProcsTypeOK'
    BY <1>5 DEF StoreTypeOK, ProcsTypeOK, CheckDuplicate
  <2>2. QED
    BY <1>3, <2>1 DEF StoreTypeOK
<1>6. QED
  BY <1>4, <1>5

\* Inserting the PENDING order keeps the types.
LEMMA TypeInsertOrder ==
  ASSUME StoreTypeOK, RequestOK, NEW w \in Workers, InsertOrder(w)
  PROVE  StoreTypeOK'
<1>1. req[w] \in Request /\ req[w].inst \in Instruments
  BY RequestFacts DEF InsertOrder
<1>2. orders' \in Seq(Order) /\ Len(orders) + 1 \in Nat
  BY <1>1, NewOrderType, OrderAppended, LenProperties
     DEF InsertOrder, OneMoreTicket, StoreTypeOK, RowsTypeOK
<1>3. RowsTypeOK' /\ HistoryTypeOK'
  BY <1>2 DEF StoreTypeOK, RowsTypeOK, HistoryTypeOK, InsertOrder
<1>4. price[req[w].inst] \in PriceLevels \cup {0}
  BY <1>1 DEF StoreTypeOK, RowsTypeOK
<1>5. seen' \in [Workers -> PriceLevels \cup {0}] /\ ord' \in [Workers -> Nat]
  BY <1>2, <1>4 DEF StoreTypeOK, ProcsTypeOK, InsertOrder
<1>6. pc' \in [Workers -> PCs]
  BY DEF StoreTypeOK, ProcsTypeOK, InsertOrder
<1>7. ProcsTypeOK'
  BY <1>5, <1>6 DEF StoreTypeOK, ProcsTypeOK, InsertOrder
<1>8. QED
  BY <1>3, <1>7 DEF StoreTypeOK

\* The number of an order in hand is the number of a row.
LEMMA OrderFacts ==
  ASSUME StoreTypeOK, OrderOwnership, NEW w \in Workers,
         pc[w] \in Unfilled \cup Recording
  PROVE  ord[w] \in DOMAIN orders /\ ord[w] \in Nat \ {0}
<1>1. ord[w] \in DOMAIN orders
  BY DEF OrderOwnership
<1>2. DOMAIN orders = 1..Len(orders) /\ Len(orders) \in Nat
  BY LenProperties DEF StoreTypeOK, RowsTypeOK
<1>3. QED
  BY <1>1, <1>2

\* The row evaluate() creates.
LEMMA TypeDecide ==
  ASSUME decisions \subseteq [order : Nat \ {0}, approved : BOOLEAN],
         NEW w \in Workers, ord[w] \in Nat \ {0}, NEW ok \in BOOLEAN, Decide(w, ok)
  PROVE  decisions' \subseteq [order : Nat \ {0}, approved : BOOLEAN]
  BY DEF Decide

\* Loading the account's positions changes no row and no process but its own.
LEMMA TypeReadPositions ==
  ASSUME StoreTypeOK, NEW w \in Workers, ReadPositions(w)
  PROVE  StoreTypeOK'
<1>1. pc' \in [Workers -> PCs]
  BY DEF ReadPositions, Reading, StoreTypeOK, ProcsTypeOK
<1>2. QED
  BY <1>1 DEF ReadPositions, StoreTypeOK, RowsTypeOK, ProcsTypeOK, HistoryTypeOK

\* Valuing one position changes no row and no process but its own.
LEMMA TypeMarkPosition ==
  ASSUME StoreTypeOK, NEW w \in Workers, MarkPosition(w)
  PROVE  StoreTypeOK'
  BY DEF MarkPosition, StoreTypeOK, RowsTypeOK, ProcsTypeOK, HistoryTypeOK

\* get_opening_equity, with the snapshot it may create, keeps the types.
LEMMA TypeOpenDay ==
  ASSUME StoreTypeOK, NEW w \in Workers, OpenDay(w)
  PROVE  StoreTypeOK'
<1>1. pc' \in [Workers -> PCs]
  BY DEF OpenDay, SizeStep, StoreTypeOK, ProcsTypeOK
<1>2. UNCHANGED <<cash, pos, price, orders, decisions, trades, locks, job, obj, req,
                  ord, seen, wpos, fills, cancelling, bounds>>
  BY DEF OpenDay
<1>3. QED
  BY <1>1, <1>2 DEF StoreTypeOK, RowsTypeOK, ProcsTypeOK, HistoryTypeOK

\* check_max_daily_loss keeps the types.
LEMMA TypeCheckDailyLoss ==
  ASSUME StoreTypeOK, OrderOwnership, NEW w \in Workers, CheckDailyLoss(w)
  PROVE  StoreTypeOK'
<1>1. ord[w] \in Nat \ {0}
  BY OrderFacts DEF CheckDailyLoss
<1>2. decisions' \subseteq [order : Nat \ {0}, approved : BOOLEAN]
  <2>1. Decide(w, FALSE) \/ UNCHANGED decisions
    BY DEF CheckDailyLoss
  <2>2. QED
    BY <1>1, <2>1, TypeDecide DEF StoreTypeOK, RowsTypeOK
<1>3. pc' \in [Workers -> PCs]
  BY DEF StoreTypeOK, ProcsTypeOK, CheckDailyLoss, SizeStep
<1>4. UNCHANGED <<cash, pos, price, orders, trades, locks, job, obj, req, ord, seen,
                  wpos, fills, bounds>>
  BY DEF CheckDailyLoss
<1>5. RowsTypeOK' /\ HistoryTypeOK'
  BY <1>2, <1>4 DEF StoreTypeOK, RowsTypeOK, HistoryTypeOK
<1>6. ProcsTypeOK'
  BY <1>3, <1>4 DEF StoreTypeOK, ProcsTypeOK
<1>7. QED
  BY <1>5, <1>6 DEF StoreTypeOK

\* check_max_position_size and its RiskDecision row keep the types.
LEMMA TypeCheckPositionSize ==
  ASSUME StoreTypeOK, OrderOwnership, NEW w \in Workers, CheckPositionSize(w)
  PROVE  StoreTypeOK'
<1>1. ord[w] \in Nat \ {0}
  BY OrderFacts DEF CheckPositionSize
<1>2. SizeAllows(w) \in BOOLEAN
  BY DEF SizeAllows, WithinLimit
<1>3. decisions' \subseteq [order : Nat \ {0}, approved : BOOLEAN]
  BY <1>1, <1>2, TypeDecide DEF StoreTypeOK, RowsTypeOK, CheckPositionSize
<1>4. pc' \in [Workers -> PCs]
  BY DEF StoreTypeOK, ProcsTypeOK, CheckPositionSize, AfterVerdict
<1>5. UNCHANGED <<cash, pos, price, opening, orders, trades, locks, job, obj, req,
                  ord, seen, wpos, fills, bounds>>
  BY DEF CheckPositionSize
<1>6. RowsTypeOK' /\ HistoryTypeOK'
  BY <1>3, <1>5 DEF StoreTypeOK, RowsTypeOK, HistoryTypeOK
<1>7. ProcsTypeOK'
  BY <1>4, <1>5 DEF StoreTypeOK, ProcsTypeOK
<1>8. QED
  BY <1>6, <1>7 DEF StoreTypeOK

\* The three writes of order.status keep the rows and the tickets on them.
LEMMA RejectWrites ==
  ASSUME StoreTypeOK, OrderOwnership, NEW w \in Workers, Reject(w)
  PROVE  SameTickets
  BY OrderFacts, StatusWrite DEF Reject, SaveRejected, StoreTypeOK, RowsTypeOK

\* Saving a fill sets a status and leaves every ticket alone.
LEMMA SaveFillWrites ==
  ASSUME StoreTypeOK, OrderOwnership, NEW w \in Workers, SaveFill(w)
  PROVE  SameTickets
  BY OrderFacts, StatusWrite DEF SaveFill, StoreTypeOK, RowsTypeOK

\* Cancelling an order sets a status and leaves every ticket alone.
LEMMA CancelWrites ==
  ASSUME StoreTypeOK, CancelOrder
  PROVE  SameTickets
<1>1. PICK n \in cancelling : orders' = [orders EXCEPT ![n].status = "CANCELLED"]
  BY DEF CancelOrder, SaveCancelled
<1>2. CASE n \in DOMAIN orders
  BY <1>1, <1>2, StatusWrite DEF StoreTypeOK, RowsTypeOK
<1>3. CASE n \notin DOMAIN orders
  <2>1. orders' = orders
    BY <1>1, <1>3 DEF StoreTypeOK, RowsTypeOK
  <2>2. QED
    BY <2>1 DEF SameTickets, StoreTypeOK, RowsTypeOK
<1>4. QED
  BY <1>2, <1>3

\* Saving a rejection keeps the types.
LEMMA TypeReject ==
  ASSUME StoreTypeOK, OrderOwnership, NEW w \in Workers, Reject(w)
  PROVE  StoreTypeOK'
<1>1. RowsTypeOK' /\ HistoryTypeOK'
  BY RejectWrites DEF StoreTypeOK, RowsTypeOK, HistoryTypeOK, Reject, SameTickets
<1>2. Leave(w) /\ UNCHANGED <<locks, job, obj>>
  BY DEF Reject
<1>3. ProcsTypeOK'
  BY <1>2, TypeLeave DEF StoreTypeOK, ProcsTypeOK
<1>4. QED
  BY <1>1, <1>3 DEF StoreTypeOK

\* Reading the latest close and entering the transaction keeps the types.
LEMMA TypeQuote ==
  ASSUME StoreTypeOK, RequestOK, NEW w \in Workers, Quote(w)
  PROVE  StoreTypeOK'
<1>1. price[req[w].inst] \in PriceLevels \cup {0}
  BY RequestFacts DEF Quote, StoreTypeOK, RowsTypeOK
<1>2. seen' \in [Workers -> PriceLevels \cup {0}]
  BY <1>1 DEF Quote, StoreTypeOK, ProcsTypeOK
<1>3. pc' \in [Workers -> PCs]
  BY DEF Quote, StoreTypeOK, ProcsTypeOK
<1>4. UNCHANGED <<rows, locks, job, obj, req, ord, wpos, fills, bounds>>
  BY DEF Quote
<1>5. RowsTypeOK' /\ HistoryTypeOK'
  BY <1>4 DEF StoreTypeOK, RowsTypeOK, HistoryTypeOK
<1>6. ProcsTypeOK'
  BY <1>2, <1>3, <1>4 DEF StoreTypeOK, ProcsTypeOK
<1>7. QED
  BY <1>5, <1>6 DEF StoreTypeOK

\* A balance the object in hand is given stays a natural.
LEMMA TypeCached ==
  ASSUME StoreTypeOK, RequestOK, NEW w \in Workers, pc[w] \in Placing,
         NEW c \in Nat, SetCached(w, c)
  PROVE  obj' \in [Workers -> [Handles -> Nat]]
  BY RequestFacts, CachedUpdate DEF SetCached, StoreTypeOK, ProcsTypeOK

\* The cash check of _fill_buy leaves a natural balance in the object.
LEMMA TypeBuyRead ==
  ASSUME StoreTypeOK, RequestOK, NEW w \in Workers, BuyRead(w)
  PROVE  StoreTypeOK'
<1>1. cash[Acct(w)] \in Nat /\ Amount(w) \in Nat
  BY RequestFacts DEF BuyRead
<1>2. Affordable(w) => cash[Acct(w)] - Amount(w) \in Nat
  BY <1>1 DEF Affordable
<1>3. obj' \in [Workers -> [Handles -> Nat]]
  BY <1>1, <1>2, TypeCached DEF BuyRead
<1>4. pc' \in [Workers -> PCs]
  BY DEF BuyRead, StoreTypeOK, ProcsTypeOK
<1>5. UNCHANGED <<rows, locks, job, req, ord, seen, wpos, fills, bounds>>
  BY DEF BuyRead
<1>6. RowsTypeOK' /\ HistoryTypeOK'
  BY <1>5 DEF StoreTypeOK, RowsTypeOK, HistoryTypeOK
<1>7. ProcsTypeOK'
  BY <1>3, <1>4, <1>5 DEF StoreTypeOK, ProcsTypeOK
<1>8. QED
  BY <1>6, <1>7 DEF StoreTypeOK

\* Adding the proceeds in _fill_sell leaves a natural balance in the object.
LEMMA TypeSellRead ==
  ASSUME StoreTypeOK, RequestOK, NEW w \in Workers, SellRead(w)
  PROVE  StoreTypeOK'
<1>1. BalanceAfterSale(w) \in Nat
  BY RequestFacts DEF SellRead, BalanceAfterSale
<1>2. obj' \in [Workers -> [Handles -> Nat]]
  BY <1>1, TypeCached DEF SellRead
<1>3. pc' \in [Workers -> PCs]
  BY DEF SellRead, StoreTypeOK, ProcsTypeOK
<1>4. UNCHANGED <<rows, locks, job, req, ord, seen, wpos, fills, bounds>>
  BY DEF SellRead
<1>5. RowsTypeOK' /\ HistoryTypeOK'
  BY <1>4 DEF StoreTypeOK, RowsTypeOK, HistoryTypeOK
<1>6. ProcsTypeOK'
  BY <1>2, <1>3, <1>4 DEF StoreTypeOK, ProcsTypeOK
<1>7. QED
  BY <1>5, <1>6 DEF StoreTypeOK

\* BuyCash and SellCash do no more than take the account row.
LEMMA TypeTakeCash ==
  ASSUME StoreTypeOK, NEW w \in Workers, BuyCash(w) \/ SellCash(w)
  PROVE  StoreTypeOK'
<1>1. /\ TakeCashLock(w) /\ pc' \in [Workers -> PCs]
      /\ UNCHANGED <<rows, posLock, job, obj, req, ord, seen, wpos, fills, bounds>>
  BY DEF BuyCash, SellCash, StoreTypeOK, ProcsTypeOK
<1>2. cashLock' \in [Accounts -> Workers \cup {NoWorker}]
  BY <1>1 DEF TakeCashLock, StoreTypeOK, ProcsTypeOK
<1>3. RowsTypeOK' /\ HistoryTypeOK'
  BY <1>1 DEF StoreTypeOK, RowsTypeOK, HistoryTypeOK
<1>4. ProcsTypeOK'
  BY <1>1, <1>2 DEF StoreTypeOK, ProcsTypeOK
<1>5. QED
  BY <1>3, <1>4 DEF StoreTypeOK

\* Staging the bought shares keeps the types.
LEMMA TypeBuyPos ==
  ASSUME StoreTypeOK, RequestOK, NEW w \in Workers, BuyPos(w)
  PROVE  StoreTypeOK'
<1>1. pos[Holding(w)] + req[w].qty \in Nat
  BY RequestFacts DEF BuyPos
<1>2. wpos' \in [Workers -> Nat]
  BY <1>1 DEF BuyPos, StoreTypeOK, ProcsTypeOK
<1>3. posLock' \in [Holdings -> Workers \cup {NoWorker}]
  BY DEF BuyPos, StoreTypeOK, ProcsTypeOK
<1>4. pc' \in [Workers -> PCs]
  BY DEF BuyPos, StoreTypeOK, ProcsTypeOK
<1>5. UNCHANGED <<rows, cashLock, job, obj, req, ord, seen, fills, bounds>>
  BY DEF BuyPos
<1>6. RowsTypeOK' /\ HistoryTypeOK'
  BY <1>5 DEF StoreTypeOK, RowsTypeOK, HistoryTypeOK
<1>7. ProcsTypeOK'
  BY <1>2, <1>3, <1>4, <1>5 DEF StoreTypeOK, ProcsTypeOK
<1>8. QED
  BY <1>6, <1>7 DEF StoreTypeOK

\* Staging the sold shares keeps the types: the shares are there.
LEMMA TypeSellPos ==
  ASSUME StoreTypeOK, RequestOK, NEW w \in Workers, SellPos(w)
  PROVE  StoreTypeOK'
<1>1. EnoughShares(w) => pos[Holding(w)] - req[w].qty \in Nat
  BY RequestFacts DEF SellPos, EnoughShares
<1>2. wpos' \in [Workers -> Nat]
  BY <1>1 DEF SellPos, StoreTypeOK, ProcsTypeOK
<1>3. posLock' \in [Holdings -> Workers \cup {NoWorker}]
  BY DEF SellPos, StoreTypeOK, ProcsTypeOK
<1>4. pc' \in [Workers -> PCs]
  BY DEF SellPos, StoreTypeOK, ProcsTypeOK
<1>5. UNCHANGED <<rows, cashLock, job, obj, req, ord, seen, fills, bounds>>
  BY DEF SellPos
<1>6. RowsTypeOK' /\ HistoryTypeOK'
  BY <1>5 DEF StoreTypeOK, RowsTypeOK, HistoryTypeOK
<1>7. ProcsTypeOK'
  BY <1>2, <1>3, <1>4, <1>5 DEF StoreTypeOK, ProcsTypeOK
<1>8. QED
  BY <1>6, <1>7 DEF StoreTypeOK

\* Leaving the transaction keeps the locks well typed.
LEMMA TypeRelease ==
  ASSUME StoreTypeOK, NEW w \in Workers, ReleaseLocks(w)
  PROVE  /\ cashLock' \in [Accounts -> Workers \cup {NoWorker}]
         /\ posLock' \in [Holdings -> Workers \cup {NoWorker}]
  BY DEF ReleaseLocks, StoreTypeOK, ProcsTypeOK

\* The fill of a transaction about to commit is one at a real price.
LEMMA FillFacts ==
  ASSUME StoreTypeOK, RequestOK, OrderOwnership, NEW w \in Workers,
         pc[w] \in InTransaction \cup Recording
  PROVE  [order |-> ord[w], price |-> seen[w]]
            \in [order : Nat \ {0}, price : PriceLevels]
<1>1. ord[w] \in Nat \ {0}
  BY OrderFacts
<1>2. seen[w] > 0 /\ seen[w] \in PriceLevels \cup {0}
  BY DEF RequestOK, StoreTypeOK, ProcsTypeOK
<1>3. seen[w] \in PriceLevels
  BY <1>2, PricesPositive
<1>4. QED
  BY <1>1, <1>3

\* The commit publishes a natural balance and a natural quantity.
LEMMA TypeCommit ==
  ASSUME StoreTypeOK, RequestOK, OrderOwnership, NEW w \in Workers, Commit(w)
  PROVE  StoreTypeOK'
<1>1. /\ Acct(w) \in Accounts /\ Holding(w) \in Holdings
      /\ Cached(w) \in Nat /\ wpos[w] \in Nat
  BY RequestFacts DEF Commit, StoreTypeOK, ProcsTypeOK
<1>2. cash' \in [Accounts -> Nat] /\ pos' \in [Holdings -> Nat]
  BY <1>1 DEF Commit, StoreTypeOK, RowsTypeOK
<1>3. fills' \subseteq [order : Nat \ {0}, price : PriceLevels]
  BY FillFacts DEF Commit, StoreTypeOK, HistoryTypeOK
<1>4. /\ cashLock' \in [Accounts -> Workers \cup {NoWorker}]
      /\ posLock' \in [Holdings -> Workers \cup {NoWorker}]
  BY TypeRelease DEF Commit
<1>5. pc' \in [Workers -> PCs]
  BY DEF Commit, StoreTypeOK, ProcsTypeOK
<1>6. UNCHANGED <<price, opening, orders, decisions, trades, job, obj, req, ord,
                  seen, wpos, bounds>>
  BY DEF Commit
<1>7. RowsTypeOK'
  BY <1>2, <1>6 DEF StoreTypeOK, RowsTypeOK
<1>8. HistoryTypeOK'
  BY <1>3, <1>6 DEF StoreTypeOK, HistoryTypeOK
<1>9. ProcsTypeOK'
  BY <1>4, <1>5, <1>6 DEF StoreTypeOK, ProcsTypeOK
<1>10. QED
  BY <1>7, <1>8, <1>9 DEF StoreTypeOK

\* Saving the FILLED order keeps the types.
LEMMA TypeSaveFill ==
  ASSUME StoreTypeOK, OrderOwnership, NEW w \in Workers, SaveFill(w)
  PROVE  StoreTypeOK'
<1>1. orders' \in Seq(Order)
  BY SaveFillWrites DEF SameTickets
<1>2. pc' \in [Workers -> PCs]
  BY DEF SaveFill, StoreTypeOK, ProcsTypeOK
<1>3. UNCHANGED <<cash, pos, price, opening, decisions, trades, locks, job, obj, req,
                  ord, seen, wpos, fills, bounds>>
  BY DEF SaveFill
<1>4. RowsTypeOK' /\ HistoryTypeOK'
  BY <1>1, <1>3 DEF StoreTypeOK, RowsTypeOK, HistoryTypeOK
<1>5. ProcsTypeOK'
  BY <1>2, <1>3 DEF StoreTypeOK, ProcsTypeOK
<1>6. QED
  BY <1>4, <1>5 DEF StoreTypeOK

\* Creating the Trade row keeps the types.
LEMMA TypeCreateTrade ==
  ASSUME StoreTypeOK, RequestOK, OrderOwnership, NEW w \in Workers, CreateTrade(w)
  PROVE  StoreTypeOK'
<1>1. [order |-> ord[w], qty |-> req[w].qty, price |-> seen[w]]
         \in [order : Nat \ {0}, qty : Nat \ {0}, price : PriceLevels]
  BY FillFacts, RequestFacts DEF CreateTrade
<1>2. trades' \subseteq [order : Nat \ {0}, qty : Nat \ {0}, price : PriceLevels]
  BY <1>1 DEF CreateTrade, StoreTypeOK, RowsTypeOK
<1>3. Leave(w) /\ UNCHANGED <<cash, pos, price, opening, orders, decisions, locks, job,
                              obj, fills, bounds>>
  BY DEF CreateTrade
<1>4. RowsTypeOK' /\ HistoryTypeOK'
  BY <1>2, <1>3 DEF StoreTypeOK, RowsTypeOK, HistoryTypeOK
<1>5. ProcsTypeOK'
  BY <1>3, TypeLeave DEF StoreTypeOK, ProcsTypeOK
<1>6. QED
  BY <1>4, <1>5 DEF StoreTypeOK

\* A deadlock abort rolls back and keeps the types.
LEMMA TypeAbortDeadlock ==
  ASSUME StoreTypeOK, NEW w \in Workers, AbortDeadlock(w)
  PROVE  StoreTypeOK'
<1>1. ReleaseLocks(w) /\ Leave(w) /\ UNCHANGED <<rows, job, obj, fills, bounds>>
  BY DEF AbortDeadlock
<1>2. RowsTypeOK' /\ HistoryTypeOK'
  BY <1>1 DEF StoreTypeOK, RowsTypeOK, HistoryTypeOK
<1>3. ProcsTypeOK'
  BY <1>1, TypeRelease, TypeLeave DEF StoreTypeOK, ProcsTypeOK
<1>4. QED
  BY <1>2, <1>3 DEF StoreTypeOK

\* A crash rolls the open transaction back and keeps the types.
LEMMA TypeCrash ==
  ASSUME StoreTypeOK, NEW w \in Workers, Crash(w)
  PROVE  StoreTypeOK'
<1>1. ReleaseLocks(w)
  BY DEF Crash
<1>2. << >> \in Seq(Strategies \X Instruments)
  BY EmptySeq
<1>3. job' \in [Workers -> Seq(Strategies \X Instruments)]
  BY <1>2 DEF Crash, StoreTypeOK, ProcsTypeOK
<1>4. obj' \in [Workers -> [Handles -> Nat]]
  BY DEF Crash, StoreTypeOK, ProcsTypeOK
<1>5. /\ pc' \in [Workers -> PCs] /\ req' \in [Workers -> Request \cup {NoReq}]
      /\ ord' \in [Workers -> Nat] /\ seen' \in [Workers -> PriceLevels \cup {0}]
      /\ wpos' \in [Workers -> Nat]
  BY DEF Crash, StoreTypeOK, ProcsTypeOK
<1>6. RowsTypeOK' /\ HistoryTypeOK'
  BY DEF Crash, StoreTypeOK, RowsTypeOK, HistoryTypeOK
<1>7. ProcsTypeOK'
  BY <1>1, <1>3, <1>4, <1>5, TypeRelease DEF ProcsTypeOK
<1>8. QED
  BY <1>6, <1>7 DEF StoreTypeOK

\* A strategy or instrument that is skipped keeps the types.
LEMMA TypeSkip ==
  ASSUME StoreTypeOK, NEW w \in Workers, Skip(w)
  PROVE  StoreTypeOK'
<1>1. job' \in [Workers -> Seq(Strategies \X Instruments)]
  BY HeadTailProperties DEF Skip, StoreTypeOK, ProcsTypeOK
<1>2. UNCHANGED <<rows, locks, pc, obj, req, ord, seen, wpos, fills, bounds>>
  BY DEF Skip
<1>3. RowsTypeOK' /\ HistoryTypeOK'
  BY <1>2 DEF StoreTypeOK, RowsTypeOK, HistoryTypeOK
<1>4. ProcsTypeOK'
  BY <1>1, <1>2 DEF StoreTypeOK, ProcsTypeOK
<1>5. QED
  BY <1>3, <1>4 DEF StoreTypeOK

\* The end of a cycle keeps the types.
LEMMA TypeFinish ==
  ASSUME StoreTypeOK, NEW w \in Workers, Finish(w)
  PROVE  StoreTypeOK'
<1>1. obj' \in [Workers -> [Handles -> Nat]]
  BY DEF Finish, StoreTypeOK, ProcsTypeOK
<1>2. pc' \in [Workers -> PCs]
  BY DEF Finish, StoreTypeOK, ProcsTypeOK
<1>3. UNCHANGED <<rows, locks, job, req, ord, seen, wpos, fills, bounds>>
  BY DEF Finish
<1>4. RowsTypeOK' /\ HistoryTypeOK'
  BY <1>3 DEF StoreTypeOK, RowsTypeOK, HistoryTypeOK
<1>5. ProcsTypeOK'
  BY <1>1, <1>2, <1>3 DEF StoreTypeOK, ProcsTypeOK
<1>6. QED
  BY <1>4, <1>5 DEF StoreTypeOK

\* Syncs, edits, cancellations and the passing of time keep the types.
LEMMA TypeEnvironment ==
  ASSUME StoreTypeOK, Environment
  PROVE  StoreTypeOK'
<1>1. ProcsTypeOK' /\ HistoryTypeOK'
  BY DEF StoreTypeOK, ProcsTypeOK, HistoryTypeOK, Environment, EnvStep, SyncPrice,
         WindowPasses, NewDay, EditAccount, LoadOrder, CancelOrder
<1>2. CASE SyncPrice
  <2>1. price' \in [Instruments -> PriceLevels \cup {0}]
    BY <1>2 DEF SyncPrice, StoreTypeOK, RowsTypeOK
  <2>2. QED
    BY <1>1, <1>2, <2>1 DEF SyncPrice, StoreTypeOK, RowsTypeOK
<1>3. CASE WindowPasses
  <2>1. orders' \in Seq(Order)
    BY <1>3, FlagsWrite DEF WindowPasses, SameTickets, StoreTypeOK, RowsTypeOK
  <2>2. QED
    BY <1>1, <1>3, <2>1 DEF WindowPasses, StoreTypeOK, RowsTypeOK
<1>4. CASE NewDay
  BY <1>1, <1>4 DEF NewDay, StoreTypeOK, RowsTypeOK
<1>5. CASE EditAccount
  <2>1. cash' \in [Accounts -> Nat]
    BY <1>5, FormTypes DEF EditAccount, StoreTypeOK, RowsTypeOK
  <2>2. QED
    BY <1>1, <1>5, <2>1 DEF EditAccount, StoreTypeOK, RowsTypeOK
<1>6. CASE CancelOrder
  <2>1. orders' \in Seq(Order)
    BY <1>6, CancelWrites DEF SameTickets
  <2>2. QED
    BY <1>1, <1>6, <2>1 DEF CancelOrder, StoreTypeOK, RowsTypeOK
<1>7. CASE LoadOrder
  BY <1>1, <1>7 DEF LoadOrder, rows, StoreTypeOK, RowsTypeOK
<1>8. QED
  BY <1>2, <1>3, <1>4, <1>5, <1>6, <1>7 DEF Environment

\* The initial rows and processes are well typed.
LEMMA TypeInit ==
  ASSUME Init
  PROVE  StoreTypeOK
<1>1. /\ cash \in [Accounts -> Nat] /\ pos \in [Holdings -> Nat]
      /\ price \in [Instruments -> PriceLevels \cup {0}]
  BY OpeningBooks DEF Init
<1>2. orders \in Seq(Order) /\ << >> \in Seq(Strategies \X Instruments)
  BY EmptySeq DEF Init
<1>3. RowsTypeOK /\ HistoryTypeOK
  BY <1>1, <1>2 DEF Init, RowsTypeOK, HistoryTypeOK
<1>4. ProcsTypeOK
  BY <1>2 DEF Init, ProcsTypeOK
<1>5. QED
  BY <1>3, <1>4 DEF StoreTypeOK

\* Every step keeps the types, one action at a time.
LEMMA TypePreserved ==
  ASSUME StoreTypeOK, RequestOK, OrderOwnership, [Next]_vars
  PROVE  StoreTypeOK'
<1>1. ASSUME NEW w \in Workers,
             StartCycle(w) \/ PlaceManually(w) \/ Step(w) \/ Crash(w)
      PROVE  StoreTypeOK'
  BY <1>1, TypeStartCycle, TypePlaceManually, TypeSkip, TypeFinish, TypeSignal,
     TypeCheckDuplicate, TypeInsertOrder, TypeReadPositions, TypeMarkPosition,
     TypeOpenDay,
     TypeCheckDailyLoss, TypeCheckPositionSize,
     TypeReject, TypeQuote, TypeBuyRead, TypeTakeCash, TypeBuyPos, TypeSellPos,
     TypeSellRead, TypeCommit, TypeSaveFill, TypeCreateTrade, TypeAbortDeadlock,
     TypeCrash DEF Step
<1>2. CASE UNCHANGED vars
  BY <1>2 DEF vars, StoreTypeOK, RowsTypeOK, ProcsTypeOK, HistoryTypeOK
<1>3. QED
  BY <1>1, <1>2, TypeEnvironment DEF Next

-----------------------------------------------------------------------------
(* RequestOK is preserved.                                                 *)

\* What RequestOK says of one process.
RequestOf(w) ==
    pc[w] \in Placing =>
        /\ req[w] \in Request
        /\ pc[w] \in Buying => req[w].side = "BUY"
        /\ pc[w] \in Selling => req[w].side = "SELL"
        /\ pc[w] \in InTransaction \cup Recording => seen[w] > 0

Act(w) == StartCycle(w) \/ PlaceManually(w) \/ Step(w) \/ Crash(w)

\* The objects of a process belong to it: no other process touches them.
LEMMA OnlyOwnState ==
  ASSUME StoreTypeOK, NEW w \in Workers, Act(w), NEW v \in Workers, v # w
  PROVE  /\ pc'[v] = pc[v] /\ req'[v] = req[v] /\ ord'[v] = ord[v]
         /\ seen'[v] = seen[v] /\ wpos'[v] = wpos[v]
<1>1. pc'[v] = pc[v]
  BY DEF Act, Step, StoreTypeOK, ProcsTypeOK, StartCycle, PlaceManually, Skip, Signal,
         Finish, CheckDuplicate, InsertOrder, ReadPositions, MarkPosition, OpenDay,
         CheckDailyLoss, CheckPositionSize,
         Reject, Quote, BuyRead, BuyCash, BuyPos, SellPos, SellRead, SellCash, Commit,
         SaveFill, CreateTrade, AbortDeadlock, Crash
<1>2. req'[v] = req[v]
  BY DEF Act, Step, StoreTypeOK, ProcsTypeOK, StartCycle, PlaceManually, Skip, Signal,
         Finish, CheckDuplicate, InsertOrder, ReadPositions, MarkPosition, OpenDay,
         CheckDailyLoss, CheckPositionSize,
         Reject, Quote, BuyRead, BuyCash, BuyPos, SellPos, SellRead, SellCash, Commit,
         SaveFill, CreateTrade, AbortDeadlock, Crash
<1>3. ord'[v] = ord[v]
  BY DEF Act, Step, StoreTypeOK, ProcsTypeOK, StartCycle, PlaceManually, Skip, Signal,
         Finish, CheckDuplicate, InsertOrder, ReadPositions, MarkPosition, OpenDay,
         CheckDailyLoss, CheckPositionSize,
         Reject, Quote, BuyRead, BuyCash, BuyPos, SellPos, SellRead, SellCash, Commit,
         SaveFill, CreateTrade, AbortDeadlock, Crash
<1>4. seen'[v] = seen[v]
  BY DEF Act, Step, StoreTypeOK, ProcsTypeOK, StartCycle, PlaceManually, Skip, Signal,
         Finish, CheckDuplicate, InsertOrder, ReadPositions, MarkPosition, OpenDay,
         CheckDailyLoss, CheckPositionSize,
         Reject, Quote, BuyRead, BuyCash, BuyPos, SellPos, SellRead, SellCash, Commit,
         SaveFill, CreateTrade, AbortDeadlock, Crash
<1>5. wpos'[v] = wpos[v]
  BY DEF Act, Step, StoreTypeOK, ProcsTypeOK, StartCycle, PlaceManually, Skip, Signal,
         Finish, CheckDuplicate, InsertOrder, ReadPositions, MarkPosition, OpenDay,
         CheckDailyLoss, CheckPositionSize,
         Reject, Quote, BuyRead, BuyCash, BuyPos, SellPos, SellRead, SellCash, Commit,
         SaveFill, CreateTrade, AbortDeadlock, Crash
<1>6. QED
  BY <1>1, <1>2, <1>3, <1>4, <1>5

\* What happens outside the processes changes no process and no lock.
LEMMA EnvironmentLeavesProcesses ==
  ASSUME Environment
  PROVE  UNCHANGED <<locks, procs, fills>>
  BY DEF Environment, SyncPrice, WindowPasses, NewDay, EditAccount, LoadOrder,
         CancelOrder

\* Every step of a process leaves its own request in order.
LEMMA RequestOfPreserved ==
  ASSUME StoreTypeOK, NEW w \in Workers, RequestOf(w), Act(w)
  PROVE  RequestOf(w)'
<1> USE DEF RequestOf
<1>1. CASE StartCycle(w) \/ Skip(w) \/ Finish(w) \/ Reject(w) \/ CreateTrade(w)
           \/ AbortDeadlock(w) \/ Crash(w)
  BY <1>1 DEF StoreTypeOK, ProcsTypeOK, StartCycle, Skip, Finish, Reject, CreateTrade,
              AbortDeadlock, Crash
<1>2. CASE PlaceManually(w)
  <2>1. pc'[w] = "dup"
    BY <1>2 DEF PlaceManually, StoreTypeOK, ProcsTypeOK
  <2>2. QED
    BY <1>2, <2>1, ManualRequest
<1>3. CASE Signal(w)
  <2>1. pc'[w] = "dup"
    BY <1>3 DEF Signal, StoreTypeOK, ProcsTypeOK
  <2>2. QED
    BY <1>3, <2>1, SignalRequest
<1>4. CASE CheckDuplicate(w)
  <2>1. pc'[w] = "signal" \/ (pc'[w] = "insert" /\ req' = req)
    BY <1>4 DEF CheckDuplicate, StoreTypeOK, ProcsTypeOK
  <2>2. QED
    BY <1>4, <2>1 DEF CheckDuplicate
<1>5. CASE InsertOrder(w) \/ ReadPositions(w) \/ MarkPosition(w) \/ OpenDay(w)
           \/ CheckDailyLoss(w) \/ CheckPositionSize(w)
  <2>1. CASE InsertOrder(w)
    BY <2>1 DEF InsertOrder, StoreTypeOK, ProcsTypeOK
  <2>2. CASE ReadPositions(w)
    <3>1. req' = req /\ pc'[w] \in {"snapshot", "stop", "limit"} /\ pc[w] \in Placing
      BY <2>2 DEF ReadPositions, StoreTypeOK, ProcsTypeOK
    <3> QED BY <3>1
  <2>3. CASE MarkPosition(w)
    BY <2>3 DEF MarkPosition
  <2>4. CASE OpenDay(w)
    <3>1. req' = req /\ pc'[w] \in {"current", "limit", "equity"} /\ pc[w] \in Placing
      BY <2>4 DEF OpenDay, SizeStep, StoreTypeOK, ProcsTypeOK
    <3> QED BY <3>1
  <2>5. CASE CheckDailyLoss(w)
    <3>1. req' = req /\ pc'[w] \in {"reject", "limit", "equity"} /\ pc[w] \in Placing
      BY <2>5 DEF CheckDailyLoss, SizeStep, StoreTypeOK, ProcsTypeOK
    <3> QED BY <3>1
  <2>6. CASE CheckPositionSize(w)
    <3>1. req' = req /\ pc'[w] \in {"reject", "quote"} /\ pc[w] \in Placing
      BY <2>6 DEF CheckPositionSize, AfterVerdict, StoreTypeOK, ProcsTypeOK
    <3> QED BY <3>1
  <2> QED BY <1>5, <2>1, <2>2, <2>3, <2>4, <2>5, <2>6
<1>6. CASE Quote(w)
  <2>1. price[req[w].inst] \in Nat
    BY <1>6, PricesPositive DEF Quote, Request, StoreTypeOK, RowsTypeOK
  <2>2. /\ req' = req /\ seen'[w] = price[req[w].inst]
        /\ pc'[w] = IF price[req[w].inst] = 0 THEN "reject"
                    ELSE IF req[w].side = "BUY" THEN "buyRead" ELSE "sellPos"
    BY <1>6 DEF Quote, StoreTypeOK, ProcsTypeOK
  <2>3. req[w].side \in {"BUY", "SELL"}
    BY <1>6 DEF Quote, Request
  <2>4. QED
    BY <1>6, <2>1, <2>2, <2>3 DEF Quote
<1>7. CASE BuyRead(w) \/ BuyCash(w) \/ BuyPos(w) \/ SellPos(w) \/ SellRead(w)
           \/ SellCash(w) \/ Commit(w) \/ SaveFill(w)
  BY <1>7 DEF BuyRead, BuyCash, BuyPos, SellPos, SellRead, SellCash, Commit, SaveFill,
              StoreTypeOK, ProcsTypeOK
<1>8. QED
  BY <1>1, <1>2, <1>3, <1>4, <1>5, <1>6, <1>7 DEF Act, Step

\* Every step keeps the request in hand real and on its side's branch.
LEMMA RequestsPreserved ==
  ASSUME StoreTypeOK, RequestOK, [Next]_vars
  PROVE  RequestOK'
<1>1. ASSUME NEW w \in Workers, Act(w)
      PROVE  RequestOK'
  <2>1. ASSUME NEW v \in Workers
        PROVE  RequestOf(v)'
    <3>1. CASE v = w
      BY <1>1, <3>1, RequestOfPreserved DEF RequestOf, RequestOK
    <3>2. CASE v # w
      BY <1>1, <3>2, OnlyOwnState DEF RequestOf, RequestOK
    <3>3. QED
      BY <3>1, <3>2
  <2>2. QED
    BY <2>1 DEF RequestOf, RequestOK
<1>2. CASE Environment \/ UNCHANGED vars
  BY <1>2, EnvironmentLeavesProcesses DEF RequestOK
<1>3. QED
  BY <1>1, <1>2 DEF Next, Act

-----------------------------------------------------------------------------
(* LockDiscipline and StagedQuantity are preserved.                        *)

LocksOf(w) ==
    /\ \A a \in Accounts : cashLock[a] = w <=> HoldsCash(w) /\ Acct(w) = a
    /\ \A x \in Holdings : posLock[x] = w <=> HoldsPos(w) /\ Holding(w) = x

\* A process takes a free lock or lets go of its own: it changes nobody else's.
LEMMA OthersKeepTheirLocks ==
  ASSUME StoreTypeOK, NEW w \in Workers, Act(w), NEW v \in Workers, v # w
  PROVE  /\ \A a \in Accounts : cashLock'[a] = v <=> cashLock[a] = v
         /\ \A x \in Holdings : posLock'[x] = v <=> posLock[x] = v
<1>1. CASE \/ StartCycle(w) \/ PlaceManually(w) \/ Skip(w) \/ Signal(w) \/ Finish(w)
           \/ CheckDuplicate(w) \/ InsertOrder(w)
           \/ ReadPositions(w) \/ MarkPosition(w) \/ OpenDay(w) \/ CheckDailyLoss(w)
           \/ CheckPositionSize(w) \/ Reject(w) \/ Quote(w) \/ BuyRead(w)
           \/ SellRead(w) \/ SaveFill(w) \/ CreateTrade(w)
  <2>1. UNCHANGED locks
    BY <1>1 DEF StartCycle, PlaceManually, Skip, Signal, Finish, CheckDuplicate,
                InsertOrder, ReadPositions, MarkPosition, OpenDay, CheckDailyLoss,
                CheckPositionSize, Reject, Quote, BuyRead,
                SellRead, SaveFill, CreateTrade
  <2>2. QED
    BY <2>1
<1>2. CASE BuyCash(w) \/ SellCash(w)
  BY <1>2, NobodyIsNoWorker DEF BuyCash, SellCash, TakeCashLock, StoreTypeOK,
                                ProcsTypeOK
<1>3. CASE BuyPos(w)
  BY <1>3, NobodyIsNoWorker DEF BuyPos, PosLockFree, StoreTypeOK, ProcsTypeOK
<1>4. CASE SellPos(w)
  <2>1. /\ UNCHANGED cashLock
        /\ \/ UNCHANGED posLock
           \/ /\ posLock[Holding(w)] = NoWorker
              /\ posLock' = [posLock EXCEPT ![Holding(w)] = w]
    BY <1>4 DEF SellPos, PosLockFree
  <2>2. QED
    BY <2>1, NobodyIsNoWorker DEF StoreTypeOK, ProcsTypeOK
<1>5. CASE Commit(w) \/ AbortDeadlock(w) \/ Crash(w)
  <2>1. ReleaseLocks(w)
    BY <1>5 DEF Commit, AbortDeadlock, Crash
  <2>2. QED
    BY <2>1, NobodyIsNoWorker DEF ReleaseLocks
<1>6. QED
  BY <1>1, <1>2, <1>3, <1>4, <1>5 DEF Act, Step

\* A process that takes a lock is then where it holds it, and one that leaves the
\* transaction has released both.
LEMMA OwnLocks ==
  ASSUME StoreTypeOK, RequestOK, NEW w \in Workers, LocksOf(w), Act(w)
  PROVE  LocksOf(w)'
<1> USE DEF LocksOf, HoldsCash, HoldsPos
<1>1. CASE \/ StartCycle(w) \/ PlaceManually(w) \/ Skip(w) \/ Signal(w) \/ Finish(w)
           \/ InsertOrder(w) \/ ReadPositions(w) \/ MarkPosition(w) \/ OpenDay(w)
           \/ CheckDailyLoss(w) \/ CheckPositionSize(w) \/ Reject(w)
           \/ Quote(w) \/ SaveFill(w) \/ CreateTrade(w)
  <2>1. UNCHANGED locks
    BY <1>1 DEF StartCycle, PlaceManually, Skip, Signal, Finish, InsertOrder,
                ReadPositions, MarkPosition, OpenDay, CheckDailyLoss,
                CheckPositionSize, Reject, Quote, SaveFill, CreateTrade
  <2>2. /\ pc[w] \notin InTransaction
        /\ pc'[w] \notin {"buyPos", "commit", "sellRead", "sellCash"}
    BY <1>1 DEF StartCycle, PlaceManually, Skip, Signal, Finish, InsertOrder,
                ReadPositions, MarkPosition, OpenDay, SizeStep, CheckDailyLoss,
                CheckPositionSize, AfterVerdict, Reject, Quote,
                SaveFill, CreateTrade, StoreTypeOK, ProcsTypeOK
  <2>3. QED
    BY <2>1, <2>2
<1>2. CASE CheckDuplicate(w)
  <2>1. UNCHANGED locks /\ pc[w] = "dup" /\ pc'[w] \in {"signal", "insert"}
    BY <1>2 DEF CheckDuplicate, StoreTypeOK, ProcsTypeOK
  <2>2. QED
    BY <2>1
<1>3. CASE BuyRead(w) \/ SellRead(w)
  <2>1. UNCHANGED <<cashLock, posLock, req>>
    BY <1>3 DEF BuyRead, SellRead
  <2>2. \/ pc[w] = "buyRead" /\ pc'[w] \in {"reject", "buyCash"}
        \/ pc[w] = "sellRead" /\ pc'[w] = "sellCash"
    BY <1>3 DEF BuyRead, SellRead, StoreTypeOK, ProcsTypeOK
  <2>3. QED
    BY <2>1, <2>2 DEF Acct, Holding
<1>4. CASE BuyCash(w) \/ SellCash(w)
  <2>1. /\ UNCHANGED <<posLock, req>>
        /\ cashLock' = [cashLock EXCEPT ![Acct(w)] = w]
    BY <1>4 DEF BuyCash, SellCash, TakeCashLock
  <2>2. \/ pc[w] = "buyCash" /\ pc'[w] = "buyPos"
        \/ pc[w] = "sellCash" /\ pc'[w] = "commit"
    BY <1>4 DEF BuyCash, SellCash, StoreTypeOK, ProcsTypeOK
  <2>3. QED
    BY <2>1, <2>2 DEF Acct, Holding, StoreTypeOK, ProcsTypeOK
<1>5. CASE BuyPos(w)
  <2>1. /\ UNCHANGED <<cashLock, req>>
        /\ posLock' = [posLock EXCEPT ![Holding(w)] = w]
    BY <1>5 DEF BuyPos
  <2>2. pc[w] = "buyPos" /\ pc'[w] = "commit"
    BY <1>5 DEF BuyPos, StoreTypeOK, ProcsTypeOK
  <2>3. QED
    BY <2>1, <2>2 DEF Acct, Holding, StoreTypeOK, ProcsTypeOK
<1>6. CASE SellPos(w)
  <2>1. UNCHANGED <<cashLock, req>>
    BY <1>6 DEF SellPos
  <2>2. pc[w] = "sellPos"
    BY <1>6 DEF SellPos
  <2>3. \/ pc'[w] = "reject" /\ UNCHANGED posLock
        \/ pc'[w] = "sellRead" /\ posLock' = [posLock EXCEPT ![Holding(w)] = w]
    BY <1>6 DEF SellPos, StoreTypeOK, ProcsTypeOK
  <2>4. QED
    BY <2>1, <2>2, <2>3 DEF Acct, Holding, StoreTypeOK, ProcsTypeOK
<1>7. CASE Commit(w) \/ AbortDeadlock(w) \/ Crash(w)
  <2>1. ReleaseLocks(w) /\ pc'[w] \in {"saveFill", "signal", "idle"}
    BY <1>7 DEF Commit, AbortDeadlock, Crash, StoreTypeOK, ProcsTypeOK
  <2>2. QED
    BY <2>1, NobodyIsNoWorker DEF ReleaseLocks
<1>8. QED
  BY <1>1, <1>2, <1>3, <1>4, <1>5, <1>6, <1>7 DEF Act, Step

\* Every step keeps the row locks exactly with the fills that took them.
LEMMA LocksPreserved ==
  ASSUME StoreTypeOK, RequestOK, LockDiscipline, [Next]_vars
  PROVE  LockDiscipline'
<1>1. ASSUME NEW w \in Workers, Act(w)
      PROVE  LockDiscipline'
  <2>1. ASSUME NEW v \in Workers
        PROVE  LocksOf(v)'
    <3>1. CASE v = w
      BY <1>1, <3>1, OwnLocks DEF LocksOf, LockDiscipline
    <3>2. CASE v # w
      BY <1>1, <3>2, OnlyOwnState, OthersKeepTheirLocks
         DEF LocksOf, LockDiscipline, HoldsCash, HoldsPos, Acct, Holding
    <3>3. QED
      BY <3>1, <3>2
  <2>2. QED
    BY <2>1 DEF LocksOf, LockDiscipline
<1>2. CASE Environment \/ UNCHANGED vars
  BY <1>2, EnvironmentLeavesProcesses
     DEF LockDiscipline, HoldsCash, HoldsPos, Acct, Holding
<1>3. QED
  BY <1>1, <1>2 DEF Next, Act

StagedBy(w) ==
    IF req[w].side = "BUY"
    THEN wpos[w] = pos[Holding(w)] + req[w].qty
    ELSE pos[Holding(w)] >= req[w].qty /\ wpos[w] = pos[Holding(w)] - req[w].qty

\* Committed share quantities move in Commit alone.
LEMMA OnlyCommitMovesShares ==
  ASSUME StoreTypeOK, NEW w \in Workers, Act(w), ~Commit(w)
  PROVE  UNCHANGED pos
  BY DEF Act, Step, StartCycle, PlaceManually, Skip, Signal, Finish, CheckDuplicate,
         InsertOrder, ReadPositions, MarkPosition, OpenDay, CheckDailyLoss,
         CheckPositionSize, Reject, Quote, BuyRead, BuyCash,
         BuyPos, SellPos, SellRead, SellCash, SaveFill, CreateTrade, AbortDeadlock,
         Crash

\* Two transactions never hold the same position.
LEMMA PositionsExclusive ==
  ASSUME StoreTypeOK, RequestOK, LockDiscipline,
         NEW v \in Workers, NEW w \in Workers, v # w, HoldsPos(v), HoldsPos(w)
  PROVE  Holding(v) # Holding(w)
<1>1. Holding(v) \in Holdings /\ Holding(w) \in Holdings
  BY RequestFacts DEF HoldsPos
<1>2. QED
  BY <1>1 DEF LockDiscipline

\* A process's own step keeps what it has staged the committed quantity moved by its order.
LEMMA OwnStage ==
  ASSUME StoreTypeOK, RequestOK, NEW w \in Workers, Act(w),
         HoldsPos(w) => StagedBy(w), HoldsPos(w)'
  PROVE  StagedBy(w)'
<1>1. CASE BuyPos(w)
  <2>1. UNCHANGED <<req, pos>> /\ wpos'[w] = pos[Holding(w)] + req[w].qty
    BY <1>1 DEF BuyPos, StoreTypeOK, ProcsTypeOK
  <2>2. req[w].side = "BUY"
    BY <1>1 DEF BuyPos, RequestOK
  <2>3. QED
    BY <2>1, <2>2 DEF StagedBy, Holding
<1>2. CASE SellPos(w)
  <2>1. UNCHANGED <<req, pos>>
    BY <1>2 DEF SellPos
  <2>2. EnoughShares(w) /\ wpos'[w] = pos[Holding(w)] - req[w].qty
    BY <1>2 DEF SellPos, HoldsPos, StoreTypeOK, ProcsTypeOK
  <2>3. req[w].side = "SELL"
    BY <1>2 DEF SellPos, RequestOK
  <2>4. pos[Holding(w)] >= req[w].qty
    BY <2>2 DEF EnoughShares
  <2>5. QED
    BY <2>1, <2>2, <2>3, <2>4 DEF StagedBy, Holding
<1>3. CASE SellRead(w) \/ SellCash(w)
  <2>1. UNCHANGED <<req, pos, wpos>> /\ HoldsPos(w)
    BY <1>3 DEF SellRead, SellCash, HoldsPos
  <2>2. QED
    BY <2>1 DEF StagedBy, Holding
<1>4. ASSUME ~BuyPos(w), ~SellPos(w), ~SellRead(w), ~SellCash(w)
      PROVE  FALSE
  <2>1. pc'[w] \in {"sellRead", "sellCash", "commit"}
    BY DEF HoldsPos
  <2>2. QED
    BY <1>4, <2>1 DEF Act, Step, StoreTypeOK, ProcsTypeOK, StartCycle, PlaceManually,
                      Skip,
         Signal, Finish, CheckDuplicate, InsertOrder, ReadPositions, MarkPosition,
         OpenDay,
         SizeStep, CheckDailyLoss, CheckPositionSize, AfterVerdict, Reject, Quote,
         BuyRead, BuyCash, Commit, SaveFill, CreateTrade,
         AbortDeadlock, Crash
<1>5. QED
  BY <1>1, <1>2, <1>3, <1>4

\* A step of another process does not move a quantity somebody has staged.
LEMMA OthersStage ==
  ASSUME StoreTypeOK, RequestOK, LockDiscipline, NEW w \in Workers, Act(w),
         NEW v \in Workers, v # w, HoldsPos(v), StagedBy(v)
  PROVE  StagedBy(v)'
<1>1. pos'[Holding(v)] = pos[Holding(v)]
  <2>1. CASE Commit(w)
    <3>1. Holding(v) # Holding(w)
      BY <2>1, PositionsExclusive DEF Commit, HoldsPos
    <3>2. pos' = [pos EXCEPT ![Holding(w)] = wpos[w]]
      BY <2>1 DEF Commit
    <3>3. Holding(v) \in Holdings
      BY RequestFacts DEF HoldsPos
    <3>4. QED
      BY <3>1, <3>2, <3>3 DEF StoreTypeOK, RowsTypeOK
  <2>2. CASE ~Commit(w)
    BY <2>2, OnlyCommitMovesShares
  <2>3. QED
    BY <2>1, <2>2
<1>2. QED
  BY <1>1, OnlyOwnState DEF StagedBy, Holding

\* Every step keeps the staged quantities right.
LEMMA StagePreserved ==
  ASSUME StoreTypeOK, RequestOK, LockDiscipline, StagedQuantity, [Next]_vars
  PROVE  StagedQuantity'
<1>1. ASSUME NEW w \in Workers, Act(w)
      PROVE  StagedQuantity'
  <2>1. ASSUME NEW v \in Workers, HoldsPos(v)'
        PROVE  StagedBy(v)'
    <3>1. CASE v = w
      BY <1>1, <2>1, <3>1, OwnStage DEF StagedQuantity, StagedBy
    <3>2. CASE v # w
      <4>1. HoldsPos(v)
        BY <1>1, <2>1, <3>2, OnlyOwnState DEF HoldsPos
      <4>2. QED
        BY <1>1, <3>2, <4>1, OthersStage DEF StagedQuantity, StagedBy
    <3>3. QED
      BY <3>1, <3>2
  <2>2. QED
    BY <2>1 DEF StagedQuantity, StagedBy
<1>2. CASE Environment
  <2>1. UNCHANGED <<pos, pc, req, wpos>>
    BY <1>2 DEF Environment, SyncPrice, WindowPasses, NewDay, EditAccount, LoadOrder,
                CancelOrder
  <2>2. QED
    BY <2>1 DEF StagedQuantity, HoldsPos, Holding
<1>3. CASE UNCHANGED vars
  BY <1>3 DEF StagedQuantity, HoldsPos, Holding
<1>4. QED
  BY <1>1, <1>2, <1>3 DEF Next, Act

-----------------------------------------------------------------------------
(* OrderOwnership is preserved.                                            *)

\* No step removes an order or rewrites the ticket on it.
TicketsKept ==
    /\ DOMAIN orders \subseteq DOMAIN orders'
    /\ \A n \in DOMAIN orders : BookOf(orders'[n]) = BookOf(orders[n])

\* A process only appends orders and sets statuses: tickets stay.
LEMMA ActKeepsTickets ==
  ASSUME StoreTypeOK, RequestOK, OrderOwnership, NEW w \in Workers, Act(w)
  PROVE  TicketsKept
<1>1. CASE CheckDuplicate(w) \/ InsertOrder(w)
  <2>1. req[w] \in Request
    BY <1>1, RequestFacts DEF CheckDuplicate, InsertOrder
  <2>2. UNCHANGED orders \/ \E o \in Order : orders' = Append(orders, o)
    BY <1>1, <2>1, NewOrderType DEF CheckDuplicate, InsertOrder
  <2>3. UNCHANGED orders \/ \E o \in Order : OneMoreTicket(o)
    BY <2>2, OrderAppended DEF StoreTypeOK, RowsTypeOK
  <2>4. QED
    BY <2>3 DEF OneMoreTicket, TicketsKept
<1>2. CASE Reject(w)
  BY <1>2, RejectWrites DEF SameTickets, TicketsKept
<1>3. CASE SaveFill(w)
  BY <1>3, SaveFillWrites DEF SameTickets, TicketsKept
<1>4. CASE ~(CheckDuplicate(w) \/ InsertOrder(w) \/ Reject(w) \/ SaveFill(w))
  <2>1. UNCHANGED orders
    BY <1>4 DEF Act, Step, StartCycle, PlaceManually, Skip, Signal, Finish,
         ReadPositions, MarkPosition, OpenDay, CheckDailyLoss, CheckPositionSize,
         Quote, BuyRead, BuyCash, BuyPos, SellPos,
         SellRead, SellCash, Commit, CreateTrade, AbortDeadlock, Crash
  <2>2. QED
    BY <2>1 DEF TicketsKept
<1>5. QED
  BY <1>1, <1>2, <1>3, <1>4

\* Cancellations and the window leave every ticket alone.
LEMMA EnvironmentKeepsTickets ==
  ASSUME StoreTypeOK, Environment
  PROVE  SameTickets
<1>1. CASE WindowPasses
  BY <1>1, FlagsWrite DEF WindowPasses, StoreTypeOK, RowsTypeOK
<1>2. CASE CancelOrder
  BY <1>2, CancelWrites
<1>3. CASE SyncPrice \/ NewDay \/ EditAccount \/ LoadOrder
  <2>1. UNCHANGED orders
    BY <1>3 DEF SyncPrice, NewDay, EditAccount, LoadOrder
  <2>2. QED
    BY <2>1 DEF SameTickets, StoreTypeOK, RowsTypeOK
<1>4. QED
  BY <1>1, <1>2, <1>3 DEF Environment

\* A commit fills the order in hand; no other step fills anything.
LEMMA CommitFills ==
  ASSUME NEW w \in Workers, Commit(w)
  PROVE  FilledOrders' = FilledOrders \cup {ord[w]}
<1>1. fills' = fills \cup {[order |-> ord[w], price |-> seen[w]]}
  BY DEF Commit
<1>2. \A n : n \in FilledOrders' <=> \E f \in fills' : f.order = n
  BY DEF FilledOrders
<1>3. \A n : n \in FilledOrders <=> \E f \in fills : f.order = n
  BY DEF FilledOrders
<1>4. [order |-> ord[w], price |-> seen[w]].order = ord[w]
  OBVIOUS
<1>5. \A n : n \in FilledOrders' <=> (n \in FilledOrders \/ n = ord[w])
  BY <1>1, <1>2, <1>3, <1>4
<1>6. QED
  BY <1>5

\* Only a commit adds a fill, and it is that of the process's own order.
LEMMA OnlyCommitFills ==
  ASSUME NEW w \in Workers, Act(w), ~Commit(w)
  PROVE  UNCHANGED fills /\ FilledOrders' = FilledOrders
<1>1. UNCHANGED fills
  BY DEF Act, Step, StartCycle, PlaceManually, Skip, Signal, Finish, CheckDuplicate,
         InsertOrder, ReadPositions, MarkPosition, OpenDay, CheckDailyLoss,
         CheckPositionSize, Reject, Quote, BuyRead, BuyCash,
         BuyPos, SellPos, SellRead, SellCash, SaveFill, CreateTrade, AbortDeadlock,
         Crash
<1>2. QED
  BY <1>1 DEF FilledOrders

Owning == Unfilled \cup Recording

OwnsOf(w) ==
    /\ ord[w] \in DOMAIN orders
    /\ BookOf(orders[ord[w]]) = BookOf(req[w])
    /\ pc[w] \in Unfilled => ord[w] \notin FilledOrders

\* Order ownership, said process by process and pair by pair.
LEMMA OwnershipByProcess ==
  ASSUME StoreTypeOK, RequestOK
  PROVE  OrderOwnership <=>
            /\ FilledOrders \subseteq DOMAIN orders
            /\ \A w \in Workers : pc[w] \in Owning => OwnsOf(w)
            /\ \A v, w \in Workers :
                  v # w /\ pc[v] \in Owning /\ pc[w] \in Owning => ord[v] # ord[w]
  BY DEF OrderOwnership, OwnsOf, Owning, BookOf

\* An order starts with the number after the last one and keeps it.
LEMMA OrderInHand ==
  ASSUME StoreTypeOK, NEW w \in Workers, Act(w), pc'[w] \in Owning
  PROVE  /\ req'[w] = req[w]
         /\ \/ InsertOrder(w) /\ ord'[w] = Len(orders) + 1
            \/ ~InsertOrder(w) /\ pc[w] \in Owning /\ ord'[w] = ord[w]
<1> USE DEF Owning
<1>1. CASE InsertOrder(w)
  BY <1>1 DEF InsertOrder, StoreTypeOK, ProcsTypeOK
<1>2. CASE \/ ReadPositions(w) \/ MarkPosition(w) \/ OpenDay(w)
           \/ CheckDailyLoss(w) \/ CheckPositionSize(w) \/ Quote(w) \/ BuyRead(w)
           \/ BuyCash(w) \/ BuyPos(w) \/ SellPos(w) \/ SellRead(w) \/ SellCash(w)
           \/ Commit(w) \/ SaveFill(w)
  <2>1. UNCHANGED <<req, ord>> /\ pc[w] \in Owning /\ pc[w] # "insert"
    BY <1>2 DEF ReadPositions, MarkPosition, OpenDay, CheckDailyLoss,
                CheckPositionSize, Quote, BuyRead, BuyCash, BuyPos,
                SellPos, SellRead, SellCash, Commit, SaveFill
  <2>2. ~InsertOrder(w)
    BY <2>1 DEF InsertOrder
  <2>3. QED
    BY <2>1, <2>2
<1>3. CASE \/ StartCycle(w) \/ PlaceManually(w) \/ Skip(w) \/ Signal(w) \/ Finish(w)
           \/ Reject(w) \/ CreateTrade(w) \/ AbortDeadlock(w) \/ Crash(w)
  BY <1>3 DEF StartCycle, PlaceManually, Skip, Signal, Finish, Reject, CreateTrade,
              AbortDeadlock, Crash, StoreTypeOK, ProcsTypeOK
<1>4. CASE CheckDuplicate(w)
  <2>1. pc'[w] \in {"signal", "insert"}
    BY <1>4 DEF CheckDuplicate, StoreTypeOK, ProcsTypeOK
  <2>2. QED
    BY <2>1
<1>5. QED
  BY <1>1, <1>2, <1>3, <1>4 DEF Act, Step

\* A new row carries the ticket of the request it was made for.
LEMMA InsertedTicket ==
  ASSUME StoreTypeOK, RequestOK, NEW w \in Workers, InsertOrder(w)
  PROVE  /\ Len(orders) + 1 \in DOMAIN orders'
         /\ Len(orders) + 1 \notin DOMAIN orders
         /\ BookOf(orders'[Len(orders) + 1]) = BookOf(req[w])
<1>1. req[w] \in Request
  BY RequestFacts DEF InsertOrder
<1>2. NewOrder(w, "PENDING") \in Order
      /\ BookOf(NewOrder(w, "PENDING")) = BookOf(req[w])
  BY <1>1, NewOrderType
<1>3. OneMoreTicket(NewOrder(w, "PENDING"))
  BY <1>2, OrderAppended DEF InsertOrder, StoreTypeOK, RowsTypeOK
<1>4. DOMAIN orders = 1..Len(orders) /\ Len(orders) \in Nat
  BY LenProperties DEF StoreTypeOK, RowsTypeOK
<1>5. QED
  BY <1>2, <1>3, <1>4 DEF OneMoreTicket

\* After its own step, the order in a process's hand is the one it was asked for.
LEMMA OwnOrder ==
  ASSUME StoreTypeOK, RequestOK, OrderOwnership, NEW w \in Workers, Act(w),
         pc'[w] \in Owning
  PROVE  OwnsOf(w)'
<1>1. CASE InsertOrder(w)
  <2>1. FilledOrders' = FilledOrders /\ FilledOrders \subseteq DOMAIN orders
    BY <1>1, OnlyCommitFills DEF InsertOrder, Commit, OrderOwnership
  <2>2. ord'[w] = Len(orders) + 1 /\ req'[w] = req[w]
    BY <1>1, OrderInHand
  <2>3. QED
    BY <1>1, <2>1, <2>2, InsertedTicket DEF OwnsOf, BookOf
<1>2. CASE ~InsertOrder(w)
  <2>1. pc[w] \in Owning /\ ord'[w] = ord[w] /\ req'[w] = req[w]
    BY <1>2, OrderInHand
  <2>2. OwnsOf(w)
    BY <2>1, OwnershipByProcess
  <2>3. ord'[w] \in DOMAIN orders' /\ BookOf(orders'[ord'[w]]) = BookOf(req'[w])
    BY <2>1, <2>2, ActKeepsTickets DEF OwnsOf, TicketsKept
  <2>4. ASSUME pc'[w] \in Unfilled PROVE ord'[w] \notin FilledOrders'
    <3>1. ~Commit(w)
      BY <2>4 DEF Commit, StoreTypeOK, ProcsTypeOK
    <3>2. FilledOrders' = FilledOrders
      BY <3>1, OnlyCommitFills
    <3>3. pc[w] \in Unfilled
      <4> SUFFICES ASSUME pc[w] \in {"saveFill", "trade"}
                   PROVE  FALSE
        BY <2>1 DEF Owning
      <4>1. SaveFill(w) \/ CreateTrade(w) \/ Crash(w)
        <5>1. /\ ~StartCycle(w) /\ ~PlaceManually(w) /\ ~Skip(w) /\ ~Signal(w)
              /\ ~Finish(w) /\ ~CheckDuplicate(w) /\ ~InsertOrder(w)
          BY DEF StartCycle, PlaceManually, Skip, Signal, Finish, CheckDuplicate,
                 InsertOrder
        <5>2. /\ ~ReadPositions(w) /\ ~MarkPosition(w) /\ ~OpenDay(w)
              /\ ~CheckDailyLoss(w) /\ ~CheckPositionSize(w) /\ ~Reject(w)
          BY DEF ReadPositions, MarkPosition, OpenDay, CheckDailyLoss,
                 CheckPositionSize, Reject
        <5>3. /\ ~Quote(w) /\ ~BuyRead(w) /\ ~BuyCash(w) /\ ~BuyPos(w) /\ ~SellPos(w)
              /\ ~SellRead(w) /\ ~SellCash(w) /\ ~Commit(w)
          BY DEF Quote, BuyRead, BuyCash, BuyPos, SellPos, SellRead, SellCash, Commit
        <5>4. ~AbortDeadlock(w)
          BY DEF AbortDeadlock, WaitsFor
        <5>5. QED
          BY <5>1, <5>2, <5>3, <5>4 DEF Act, Step
      <4>2. pc'[w] \in {"trade", "signal", "idle"}
        BY <4>1 DEF SaveFill, CreateTrade, Crash, StoreTypeOK, ProcsTypeOK
      <4>3. QED
        BY <2>4, <4>2
    <3>4. QED
      BY <2>1, <2>2, <3>2, <3>3 DEF OwnsOf
  <2>5. QED
    BY <2>3, <2>4 DEF OwnsOf, BookOf
<1>3. QED
  BY <1>1, <1>2

\* A step leaves the orders in the hands of the other processes alone.
LEMMA OthersOrder ==
  ASSUME StoreTypeOK, RequestOK, OrderOwnership, NEW w \in Workers, Act(w),
         NEW v \in Workers, v # w, pc'[v] \in Owning
  PROVE  OwnsOf(v)' /\ (pc'[w] \in Owning => ord'[v] # ord'[w])
<1>1. pc'[v] = pc[v] /\ ord'[v] = ord[v] /\ req'[v] = req[v]
  BY OnlyOwnState
<1>2. pc[v] \in Owning /\ OwnsOf(v)
  BY <1>1, OwnershipByProcess
<1>3. pc[w] \in Owning => ord[v] # ord[w]
  BY <1>2, OwnershipByProcess
<1>4. ord'[v] \in DOMAIN orders' /\ BookOf(orders'[ord'[v]]) = BookOf(req'[v])
  BY <1>1, <1>2, ActKeepsTickets DEF OwnsOf, TicketsKept
<1>5. CASE Commit(w)
  <2>1. pc[w] \in Owning
    BY <1>5 DEF Commit, Owning
  <2>2. FilledOrders' = FilledOrders \cup {ord[w]}
    BY <1>5, CommitFills
  <2>3. ord'[w] = ord[w]
    BY <1>5 DEF Commit
  <2>4. QED
    BY <1>1, <1>2, <1>3, <1>4, <2>1, <2>2, <2>3 DEF OwnsOf, BookOf
<1>6. CASE ~Commit(w)
  <2>1. FilledOrders' = FilledOrders
    BY <1>6, OnlyCommitFills
  <2>2. OwnsOf(v)'
    BY <1>1, <1>2, <1>4, <2>1 DEF OwnsOf, BookOf
  <2>3. ASSUME pc'[w] \in Owning PROVE ord'[v] # ord'[w]
    <3>1. CASE InsertOrder(w)
      BY <1>1, <1>2, <2>3, <3>1, OrderInHand, InsertedTicket DEF OwnsOf
    <3>2. CASE ~InsertOrder(w)
      BY <1>1, <1>3, <2>3, <3>2, OrderInHand
    <3>3. QED
      BY <3>1, <3>2
  <2>4. QED
    BY <2>2, <2>3
<1>7. QED
  BY <1>5, <1>6

\* Every fill is the fill of an existing order.
LEMMA FillsAreOrders ==
  ASSUME StoreTypeOK, RequestOK, OrderOwnership, NEW w \in Workers, Act(w)
  PROVE  FilledOrders' \subseteq DOMAIN orders'
<1>1. FilledOrders \subseteq DOMAIN orders /\ DOMAIN orders \subseteq DOMAIN orders'
  BY ActKeepsTickets DEF OrderOwnership, TicketsKept
<1>2. CASE Commit(w)
  <2>1. ord[w] \in DOMAIN orders
    BY <1>2, OrderFacts DEF Commit
  <2>2. QED
    BY <1>1, <1>2, <2>1, CommitFills
<1>3. CASE ~Commit(w)
  BY <1>1, <1>3, OnlyCommitFills
<1>4. QED
  BY <1>2, <1>3

\* Every step keeps the ownership of orders.
LEMMA OwnershipPreserved ==
  ASSUME StoreTypeOK, RequestOK, OrderOwnership, [Next]_vars
  PROVE  OrderOwnership'
<1>1. StoreTypeOK' /\ RequestOK'
  BY TypePreserved, RequestsPreserved
<1>2. ASSUME NEW w \in Workers, Act(w)
      PROVE  OrderOwnership'
  <2>1. ASSUME NEW v \in Workers, pc'[v] \in Owning
        PROVE  OwnsOf(v)'
    BY <1>2, <2>1, OwnOrder, OthersOrder
  <2>2. ASSUME NEW v \in Workers, NEW u \in Workers,
               v # u, pc'[v] \in Owning, pc'[u] \in Owning
        PROVE  ord'[v] # ord'[u]
    <3>1. CASE u = w
      BY <1>2, <2>2, <3>1, OthersOrder
    <3>2. CASE v = w
      BY <1>2, <2>2, <3>2, OthersOrder
    <3>3. CASE u # w /\ v # w
      <4>1. pc[v] = pc'[v] /\ pc[u] = pc'[u] /\ ord'[v] = ord[v] /\ ord'[u] = ord[u]
        BY <1>2, <3>3, OnlyOwnState
      <4>2. QED
        BY <2>2, <4>1, OwnershipByProcess
    <3>4. QED
      BY <3>1, <3>2, <3>3
  <2>3. FilledOrders' \subseteq DOMAIN orders'
    BY <1>2, FillsAreOrders
  <2>4. QED
    BY <1>1, <2>1, <2>2, <2>3 DEF OrderOwnership, OwnsOf, Owning, BookOf
<1>3. CASE Environment
  <2>1. UNCHANGED <<locks, procs, fills>> /\ SameTickets
    BY <1>3, EnvironmentLeavesProcesses, EnvironmentKeepsTickets
  <2>2. FilledOrders' = FilledOrders
    BY <2>1 DEF FilledOrders
  <2>3. ASSUME NEW v \in Workers, pc'[v] \in Owning
        PROVE  OwnsOf(v)'
    <3>1. OwnsOf(v)
      BY <2>1, <2>3, OwnershipByProcess
    <3>2. QED
      BY <2>1, <2>2, <3>1 DEF SameTickets, OwnsOf, BookOf
  <2>4. \A v, u \in Workers :
           v # u /\ pc'[v] \in Owning /\ pc'[u] \in Owning => ord'[v] # ord'[u]
    BY <2>1, OwnershipByProcess
  <2>5. FilledOrders' \subseteq DOMAIN orders'
    BY <2>1, <2>2 DEF SameTickets, OrderOwnership
  <2>6. QED
    BY <1>1, <2>3, <2>4, <2>5 DEF OrderOwnership, OwnsOf, Owning, BookOf
<1>4. CASE UNCHANGED vars
  BY <1>4 DEF OrderOwnership, FilledOrders
<1>5. QED
  BY <1>2, <1>3, <1>4 DEF Next, Act

-----------------------------------------------------------------------------
(* The theorems.                                                           *)

\* The initial states satisfy the inductive invariant.
LEMMA InitInvariant ==
  ASSUME Init
  PROVE  IInv
<1>1. StoreTypeOK
  BY TypeInit
<1>2. \A w \in Workers : pc[w] = "idle"
  BY DEF Init
<1>3. RequestOK /\ StagedQuantity
  BY <1>2 DEF RequestOK, StagedQuantity, HoldsPos
<1>4. LockDiscipline
  BY <1>2, NobodyIsNoWorker DEF Init, LockDiscipline, HoldsCash, HoldsPos
<1>5. OrderOwnership
  BY <1>2 DEF Init, OrderOwnership, FilledOrders
<1>6. ReadsTypeOK
  BY DEF Init, ReadsTypeOK, NoCheck, Unmarked, Check
<1>7. QED
  BY <1>1, <1>3, <1>4, <1>5, <1>6 DEF IInv

\* A risk evaluation reads quantities and closes, from rows that have them.
LEMMA CheckPreserved ==
  ASSUME IInv, [Next]_vars
  PROVE  check' \in [Workers -> Check]
<1>0. /\ check \in [Workers -> Check] /\ pos \in [Holdings -> Nat]
      /\ price \in [Instruments -> PriceLevels \cup {0}]
  BY DEF IInv, ReadsTypeOK, StoreTypeOK, RowsTypeOK
<1>1. NoCheck \in Check
  BY DEF NoCheck, Unmarked, Check
<1>2. ASSUME NEW w \in Workers, ReadPositions(w)
      PROVE  check' \in [Workers -> Check]
  <2> DEFINE d == IF pc[w] = "opening" THEN Len(opening) ELSE check[w].day
             h == [i \in Instruments |-> pos[<<Acct(w), i>>]]
             c == [held |-> h, mark |-> Unmarked, day |-> d]
  <2>1. Acct(w) \in Accounts
    BY <1>2, RequestFacts DEF ReadPositions, Reading, IInv
  <2>2. h \in [Instruments -> Nat] /\ Unmarked \in [Instruments -> PriceLevels \cup {0}]
    BY <1>0, <2>1 DEF Holdings, Unmarked
  <2>3. d \in Nat
    BY <1>0, LenProperties DEF Check, IInv, ReadsTypeOK
  <2>4. c \in Check
    BY <2>2, <2>3 DEF Check
  <2>5. check' = [check EXCEPT ![w] = c]
    BY <1>2 DEF ReadPositions
  <2> HIDE DEF c
  <2>6. QED
    BY <1>0, <2>4, <2>5
<1>3. ASSUME NEW w \in Workers, MarkPosition(w)
      PROVE  check' \in [Workers -> Check]
  <2>1. PICK i \in Instruments : check' = [check EXCEPT ![w].mark[i] = price[i]]
    BY <1>3 DEF MarkPosition, Unread
  <2>2. [check[w] EXCEPT !.mark[i] = price[i]] \in Check
    BY <1>0 DEF Check
  <2>3. check' = [check EXCEPT ![w] = [check[w] EXCEPT !.mark[i] = price[i]]]
    BY <2>1
  <2>4. QED
    BY <1>0, <2>2, <2>3
<1>4. ASSUME NEW w \in Workers, OpenDay(w)
      PROVE  check' \in [Workers -> Check]
  <2>1. [NoCheck EXCEPT !.day = check[w].day] \in Check
    BY <1>0, <1>1 DEF Check
  <2>2. QED
    BY <1>0, <1>4, <2>1 DEF OpenDay
<1>5. ASSUME NEW w \in Workers, CheckDailyLoss(w) \/ CheckPositionSize(w) \/ Crash(w)
      PROVE  check' \in [Workers -> Check]
  BY <1>0, <1>1, <1>5 DEF CheckDailyLoss, CheckPositionSize, Crash
<1>6. ASSUME NEW w \in Workers, Act(w),
             ~ReadPositions(w), ~MarkPosition(w), ~OpenDay(w),
             ~(CheckDailyLoss(w) \/ CheckPositionSize(w) \/ Crash(w))
      PROVE  UNCHANGED check
  BY <1>6 DEF Act, Step, StartCycle, PlaceManually, Skip, Signal, Finish,
       CheckDuplicate, InsertOrder, Reject, Quote, BuyRead, BuyCash, BuyPos, SellPos,
       SellRead, SellCash, Commit, SaveFill, CreateTrade, AbortDeadlock
<1>7. Environment \/ UNCHANGED vars => UNCHANGED check
  BY DEF Environment, SyncPrice, WindowPasses, NewDay, EditAccount, LoadOrder,
       CancelOrder, procs, vars
<1>8. QED
  BY <1>0, <1>2, <1>3, <1>4, <1>5, <1>6, <1>7 DEF Next, Act

\* A cancellation in progress is of an order there is.
LEMMA CancellingPreserved ==
  ASSUME IInv, [Next]_vars
  PROVE  cancelling' \subseteq DOMAIN orders'
<1>0. cancelling \subseteq DOMAIN orders
  BY DEF IInv, ReadsTypeOK
<1>1. ASSUME NEW w \in Workers, Act(w)
      PROVE  cancelling' \subseteq DOMAIN orders'
  <2>1. DOMAIN orders \subseteq DOMAIN orders'
    BY <1>1, ActKeepsTickets DEF IInv, TicketsKept
  <2>2. UNCHANGED cancelling
    BY <1>1 DEF Act, Step, StartCycle, PlaceManually, Skip, Signal, Finish,
       CheckDuplicate, InsertOrder, ReadPositions, MarkPosition, OpenDay,
       CheckDailyLoss, CheckPositionSize, Reject, Quote, BuyRead, BuyCash, BuyPos,
       SellPos, SellRead, SellCash, Commit, SaveFill, CreateTrade, AbortDeadlock, Crash
  <2>3. QED
    BY <1>0, <2>1, <2>2
<1>2. CASE Environment
  <2>1. DOMAIN orders' = DOMAIN orders
    BY <1>2, EnvironmentKeepsTickets DEF IInv, SameTickets
  <2>2. cancelling' \subseteq DOMAIN orders
    BY <1>0, <1>2 DEF Environment, SyncPrice, WindowPasses, NewDay, EditAccount,
         LoadOrder, CancelOrder
  <2>3. QED
    BY <2>1, <2>2
<1>3. CASE UNCHANGED vars
  BY <1>0, <1>3 DEF vars, rows
<1>4. QED
  BY <1>1, <1>2, <1>3 DEF Next, Act

\* Every step, stuttering included, preserves the inductive invariant.
LEMMA InvariantPreserved ==
  ASSUME IInv, [Next]_vars
  PROVE  IInv'
  BY TypePreserved, CheckPreserved, CancellingPreserved, RequestsPreserved,
     LocksPreserved, StagePreserved, OwnershipPreserved DEF IInv, ReadsTypeOK

(***************************************************************************)
(* In every reachable state of any number of processes the requests in     *)
(* hand are real ones, a row lock is held exactly inside the part of       *)
(* PaperBroker's transaction that took it, the quantity about to be        *)
(* written is the committed one moved by the order, and an order being     *)
(* processed belongs to one process and has not been filled.               *)
(***************************************************************************)
THEOREM Invariant == Spec => []IInv
  BY InitInvariant, InvariantPreserved, PTL DEF Spec

(***************************************************************************)
(* Every column and object keeps its type; in particular no interleaving   *)
(* of fills, crashes and deadlock aborts ever commits a negative balance   *)
(* or a negative position.                                                 *)
(***************************************************************************)
THEOREM StoreTypes == Spec => []StoreTypeOK
<1>1. IInv => StoreTypeOK
  BY DEF IInv
<1>2. QED
  BY <1>1, Invariant, PTL

\* A lock waited for by a buyer is a seller's, and the seller of that very account:
\* a fill can only be blocked for good in a cycle the deadlock detector sees.
LEMMA BuyerWaits ==
  ASSUME IInv
  PROVE  BuyerOnlyWaitsInDeadlock
<1>1. SUFFICES ASSUME NEW w \in Workers, NEW v \in Workers,
                      pc[w] = "buyPos", posLock[Holding(w)] = v
               PROVE  pc[v] \in {"sellRead", "sellCash"} /\ cashLock[Acct(v)] = w
  BY DEF BuyerOnlyWaitsInDeadlock
<1>2. Acct(w) \in Accounts /\ Holding(w) \in Holdings
  BY <1>1, RequestFacts DEF IInv
<1>3. HoldsPos(v) /\ Holding(v) = Holding(w)
  BY <1>1, <1>2 DEF IInv, LockDiscipline
<1>4. Acct(v) = Acct(w)
  BY <1>3 DEF Holding, Acct
<1>5. cashLock[Acct(w)] = w
  BY <1>1, <1>2 DEF IInv, LockDiscipline, HoldsCash
<1>6. pc[v] # "commit"
  <2>1. SUFFICES ASSUME pc[v] = "commit" PROVE FALSE
    OBVIOUS
  <2>2. cashLock[Acct(v)] = v
    BY <1>2, <1>4, <2>1 DEF IInv, LockDiscipline, HoldsCash
  <2>3. QED
    BY <1>1, <1>4, <1>5, <2>1, <2>2
<1>7. QED
  BY <1>3, <1>4, <1>5, <1>6 DEF HoldsPos

(***************************************************************************)
(* _fill_buy and _fill_sell take the account and the position in opposite  *)
(* orders; a buyer that waits for a position waits for a seller that in    *)
(* turn needs the buyer's account, whatever else is running.               *)
(***************************************************************************)
THEOREM BuyerWaitsInDeadlock == Spec => []BuyerOnlyWaitsInDeadlock
  BY BuyerWaits, Invariant, PTL

-----------------------------------------------------------------------------
(* The shares implement Positions.                                         *)

TicketsOf(s) == [n \in DOMAIN s |-> BookOf(s[n])]

\* The tickets of the Order rows are tickets of the abstract book.
LEMMA TicketType ==
  ASSUME NEW o \in Order
  PROVE  BookOf(o) \in P!Ticket
  BY DEF Order, BookOf, P!Ticket

\* The abstract book is as long as the table of orders.
LEMMA BookIsSequence ==
  ASSUME NEW s \in Seq(Order)
  PROVE  /\ TicketsOf(s) \in Seq(P!Ticket)
         /\ Len(TicketsOf(s)) = Len(s)
         /\ DOMAIN TicketsOf(s) = DOMAIN s
<1>1. DOMAIN s = 1..Len(s) /\ Len(s) \in Nat
  BY LenProperties
<1>2. \A n \in DOMAIN s : s[n] \in Order
  BY <1>1, ElementOfSeq
<1>3. TicketsOf(s) \in [1..Len(s) -> P!Ticket]
  BY <1>1, <1>2, TicketType DEF TicketsOf
<1>4. TicketsOf(s) \in Seq(P!Ticket)
  BY <1>1, <1>3, SeqDef
<1>5. QED
  BY <1>1, <1>3, <1>4, LenProperties

\* A new order is a Place; the holdings and the fills stay.
LEMMA AppendIsPlace ==
  ASSUME orders \in Seq(Order), NEW o \in Order, OneMoreTicket(o),
         UNCHANGED pos, FilledOrders' = FilledOrders
  PROVE  P!Place
<1> DEFINE book == TicketsOf(orders)
           next == TicketsOf(orders')
<1>1. /\ orders' \in Seq(Order) /\ Len(orders') = Len(orders) + 1
      /\ DOMAIN orders' = DOMAIN orders \cup {Len(orders) + 1}
      /\ \A n \in DOMAIN orders : orders'[n] = orders[n]
      /\ orders'[Len(orders) + 1] = o
  BY DEF OneMoreTicket
<1>2. book \in Seq(P!Ticket) /\ Len(book) = Len(orders) /\ Len(orders) \in Nat
  BY BookIsSequence, LenProperties
<1>3. next \in Seq(P!Ticket) /\ Len(next) = Len(book) + 1
  BY <1>1, <1>2, BookIsSequence
<1>4. next[Len(next)] = BookOf(o)
  BY <1>1, <1>2, <1>3 DEF TicketsOf
<1>5. BookOf(o) \in P!Ticket
  BY TicketType
<1>6. next = Append(book, next[Len(next)])
  <2>1. \A n \in 1..Len(book) : next[n] = book[n]
    <3>1. SUFFICES ASSUME NEW n \in 1..Len(book) PROVE next[n] = book[n]
      OBVIOUS
    <3>2. n \in DOMAIN orders /\ n \in DOMAIN orders'
      BY <1>1, <1>2, LenProperties
    <3>3. QED
      BY <1>1, <3>2 DEF TicketsOf
  <2> HIDE DEF book, next
  <2>2. Append(book, next[Len(next)]) \in Seq(P!Ticket)
    BY <1>2, <1>4, <1>5
  <2>3. Len(Append(book, next[Len(next)])) = Len(next)
    BY <1>2, <1>3, <1>4, <1>5
  <2>4. \A n \in 1..Len(next) : next[n] = Append(book, next[Len(next)])[n]
    BY <1>2, <1>3, <2>1
  <2>5. QED
    BY <1>3, <2>2, <2>3, <2>4, SeqEqual
<1>7. QED
  BY <1>3, <1>4, <1>5, <1>6 DEF P!Place, TicketsOf

\* A commit is the one Fill of the order in hand, by exactly the ordered quantity.
LEMMA CommitIsFill ==
  ASSUME IInv, NEW w \in Workers, Commit(w)
  PROVE  ord[w] \in DOMAIN TicketsOf(orders) /\ P!Fill(ord[w])
<1> DEFINE n == ord[w]
<1>1. /\ n \in DOMAIN orders /\ n \notin FilledOrders
      /\ BookOf(orders[n]) = BookOf(req[w])
  BY OwnershipByProcess DEF IInv, Commit, OwnsOf, Owning
<1>2. TicketsOf(orders)[n] = BookOf(req[w]) /\ n \in DOMAIN TicketsOf(orders)
  BY <1>1 DEF TicketsOf
<1>3. <<BookOf(req[w]).acct, BookOf(req[w]).inst>> = Holding(w)
  BY DEF BookOf, Holding
<1>4. /\ pos[Holding(w)] \in Nat /\ Holding(w) \in Holdings
      /\ req[w].qty \in Nat \ {0} /\ req[w].side \in {"BUY", "SELL"}
  BY RequestFacts DEF IInv, Commit, Request
<1>5. StagedBy(w) /\ wpos[w] \in Nat
  BY DEF IInv, StagedQuantity, StagedBy, HoldsPos, Commit, StoreTypeOK, ProcsTypeOK
<1>6. P!SignedQty(BookOf(req[w])) = IF req[w].side = "BUY" THEN req[w].qty ELSE -req[w].qty
  BY DEF P!SignedQty, BookOf
<1>7. wpos[w] = pos[Holding(w)] + P!SignedQty(BookOf(req[w]))
  BY <1>4, <1>5, <1>6 DEF StagedBy
<1>8. pos' = [pos EXCEPT ![Holding(w)] = wpos[w]] /\ UNCHANGED orders
  BY DEF Commit
<1>9. FilledOrders' = FilledOrders \cup {n}
  BY CommitFills
<1>10. pos[Holding(w)] + P!SignedQty(BookOf(req[w])) >= 0
  BY <1>5, <1>7
<1>11. pos' = [pos EXCEPT ![Holding(w)] = @ + P!SignedQty(BookOf(req[w]))]
  BY <1>7, <1>8
<1>12. QED
  BY <1>1, <1>2, <1>3, <1>8, <1>9, <1>10, <1>11 DEF P!Fill, TicketsOf

\* A write of a status or a flag leaves the abstract book as it is.
LEMMA SameBook ==
  ASSUME SameTickets
  PROVE  TicketsOf(orders') = TicketsOf(orders)
  BY DEF SameTickets, TicketsOf

\* Every step books an order, fills one order once or leaves the abstract state alone.
LEMMA StepImplements ==
  ASSUME IInv, [Next]_vars
  PROVE  [P!Next]_(P!positionVars)
<1>1. ASSUME NEW w \in Workers, Act(w)
      PROVE  P!Next \/ UNCHANGED P!positionVars
  <2>1. CASE Commit(w)
    BY <2>1, CommitIsFill DEF P!Next, TicketsOf
  <2>2. CASE ~Commit(w)
    <3>1. UNCHANGED pos /\ FilledOrders' = FilledOrders
      BY <1>1, <2>2, OnlyCommitMovesShares, OnlyCommitFills DEF IInv
    <3>2. CASE CheckDuplicate(w) \/ InsertOrder(w)
      <4>1. req[w] \in Request
        BY <3>2, RequestFacts DEF IInv, CheckDuplicate, InsertOrder
      <4>2. UNCHANGED orders \/ \E o \in Order : OneMoreTicket(o)
        BY <3>2, <4>1, NewOrderType, OrderAppended
           DEF IInv, CheckDuplicate, InsertOrder, StoreTypeOK, RowsTypeOK
      <4>3. QED
        BY <3>1, <4>2, AppendIsPlace
           DEF P!Next, P!positionVars, IInv, StoreTypeOK, RowsTypeOK
    <3>3. CASE ~(CheckDuplicate(w) \/ InsertOrder(w))
      <4>1. UNCHANGED orders \/ SameTickets
        BY <1>1, <2>2, <3>3, RejectWrites, SaveFillWrites DEF IInv, Act, Step,
           StartCycle, PlaceManually, Skip, Signal, Finish, ReadPositions,
           MarkPosition, OpenDay, CheckDailyLoss,
           CheckPositionSize, Quote, BuyRead, BuyCash, BuyPos, SellPos, SellRead,
           SellCash, CreateTrade, AbortDeadlock, Crash
      <4>2. TicketsOf(orders') = TicketsOf(orders)
        BY <4>1, SameBook
      <4>3. QED
        BY <3>1, <4>2 DEF P!positionVars, TicketsOf
    <3>4. QED
      BY <3>2, <3>3
  <2>3. QED
    BY <2>1, <2>2
<1>2. CASE Environment
  <2>1. UNCHANGED pos /\ UNCHANGED fills
    BY <1>2 DEF Environment, SyncPrice, WindowPasses, NewDay, EditAccount, LoadOrder,
                CancelOrder
  <2>2. TicketsOf(orders') = TicketsOf(orders)
    BY <1>2, EnvironmentKeepsTickets, SameBook DEF IInv
  <2>3. QED
    BY <2>1, <2>2 DEF P!positionVars, TicketsOf, FilledOrders
<1>3. CASE UNCHANGED vars
  BY <1>3 DEF P!positionVars, FilledOrders
<1>4. QED
  BY <1>1, <1>2, <1>3 DEF Next, Act

\* The initial rows are an initial state of the abstract book.
LEMMA InitImplements ==
  ASSUME Init
  PROVE  P!Init
<1>1. [n \in DOMAIN orders |-> BookOf(orders[n])] = << >>
  BY DEF Init
<1>2. FilledOrders = {}
  BY DEF Init, FilledOrders
<1>3. pos \in [Accounts \X Instruments -> Nat]
  BY OpeningBooks DEF Init, Holdings
<1>4. QED
  BY <1>1, <1>2, <1>3 DEF P!Init

(***************************************************************************)
(* The shares implement Positions for any number of processes: whatever    *)
(* the interleaving, deadlock aborts and crashes, an order is filled at    *)
(* most once, a fill moves exactly its quantity in one step, and no sale   *)
(* takes shares that are not there.                                        *)
(***************************************************************************)
THEOREM SharesImplementPositions == Spec => ImplementsPositions
<1>1. Spec => []IInv
  BY Invariant
<1>2. QED
  BY <1>1, InitImplements, StepImplements, PTL DEF Spec, ImplementsPositions, P!Spec

-----------------------------------------------------------------------------
(* RecordsMatchFills, for any number of processes: what place_order and    *)
(* PaperBroker record agrees with the fills that committed.                *)

\* What the process working on an order may rely on.
RecordsOf(w) ==
    /\ pc[w] \in Unfilled \cup {"saveFill"} =>
          orders[ord[w]].status \in {"PENDING", "CANCELLED"}
    /\ pc[w] = "trade" => orders[ord[w]].status \in {"FILLED", "CANCELLED"}
    /\ pc[w] \in {"quote"} \cup InTransaction \cup Recording =>
          [order |-> ord[w], approved |-> TRUE] \in decisions
    /\ pc[w] \in Recording => [order |-> ord[w], price |-> seen[w]] \in fills

OrderRecord(n) ==
    /\ orders[n].status = "FILLED" => n \in FilledOrders
    /\ orders[n].status = "REJECTED" => n \notin FilledOrders

TradeRecord(t) ==
    /\ t.order \in DOMAIN orders
    /\ t.qty = orders[t.order].qty
    /\ [order |-> t.order, price |-> t.price] \in fills

Recorded(f) ==
    \/ crashes > 0
    \/ \E w \in Workers : pc[w] \in Recording /\ ord[w] = f.order
    \/ /\ \E t \in trades : t.order = f.order
       /\ orders[f.order].status \in {"FILLED", "CANCELLED"}

Approved(n) == [order |-> n, approved |-> TRUE] \in decisions

RecordsInv ==
    /\ IInv
    /\ \A n \in DOMAIN orders : OrderRecord(n)
    /\ \A t \in trades : TradeRecord(t)
    /\ \A f \in fills : Approved(f.order) /\ Recorded(f)
    /\ \A w \in Workers : RecordsOf(w)

\* A row keeps its status and its ticket.
StatusStands(n) ==
    /\ n \in DOMAIN orders'
    /\ orders'[n].status = orders[n].status /\ orders'[n].qty = orders[n].qty

\* No row is refused or filled as it is created.
NewRowsOpen == \A n \in DOMAIN orders' \ DOMAIN orders : orders'[n].status \notin {"FILLED"}

\* Nothing in the history of a step is taken back.
HistoryGrows ==
    /\ fills \subseteq fills' /\ trades \subseteq trades' /\ decisions \subseteq decisions'
    /\ crashes' >= crashes

\* A process that does not move, and whose order keeps its status, keeps its records.
LEMMA RecordsOfStand ==
  ASSUME NEW v \in Workers, RecordsOf(v), pc'[v] = pc[v], ord'[v] = ord[v],
         seen'[v] = seen[v], HistoryGrows,
         pc[v] \in Owning => orders'[ord[v]].status = orders[ord[v]].status
  PROVE  RecordsOf(v)'
  BY DEF RecordsOf, HistoryGrows, Owning

\* Filled orders have a row.
LEMMA FilledHaveRows ==
  ASSUME IInv
  PROVE  /\ \A f \in fills : f.order \in DOMAIN orders
         /\ \A f \in fills : f.order \in FilledOrders
         /\ DOMAIN orders = 1..Len(orders) /\ Len(orders) \in Nat
  BY LenProperties
     DEF IInv, OrderOwnership, FilledOrders, StoreTypeOK, RowsTypeOK

\* A step that fills, records and changes no status: the records still match.
LEMMA QuietRecords ==
  ASSUME RecordsInv, IInv', HistoryGrows, fills' = fills, trades' = trades,
         \A n \in DOMAIN orders : StatusStands(n), NewRowsOpen,
         crashes' > 0 \/ \A v \in Workers : pc[v] \in Recording =>
                            pc'[v] \in Recording /\ ord'[v] = ord[v],
         \A v \in Workers : RecordsOf(v)'
  PROVE  RecordsInv'
<1>1. FilledOrders' = FilledOrders
  BY DEF FilledOrders
<1>2. \A n \in FilledOrders : n \in DOMAIN orders
  BY DEF RecordsInv, IInv, OrderOwnership
<1>3. \A n \in DOMAIN orders' : OrderRecord(n)'
  BY <1>1, <1>2 DEF RecordsInv, OrderRecord, StatusStands, NewRowsOpen
<1>4. \A t \in trades' : TradeRecord(t)'
  BY DEF RecordsInv, TradeRecord, StatusStands
<1>5. \A f \in fills' : Approved(f.order)'
  BY DEF RecordsInv, Approved, HistoryGrows
<1>6. \A f \in fills' : Recorded(f)'
  <2> SUFFICES ASSUME NEW f \in fills, ~ (crashes' > 0) PROVE Recorded(f)'
    BY DEF Recorded
  <2>1. ~ (crashes > 0) /\ Recorded(f)
    BY DEF HistoryGrows, RecordsInv, IInv, StoreTypeOK, HistoryTypeOK
  <2>2. f.order \in DOMAIN orders
    BY FilledHaveRows DEF RecordsInv
  <2>3. CASE \E w \in Workers : pc[w] \in Recording /\ ord[w] = f.order
    BY <2>3 DEF Recorded
  <2>4. CASE (\E t \in trades : t.order = f.order)
             /\ orders[f.order].status \in {"FILLED", "CANCELLED"}
    BY <2>2, <2>4 DEF Recorded, StatusStands
  <2> QED BY <2>1, <2>3, <2>4 DEF Recorded
<1> QED BY <1>3, <1>4, <1>5, <1>6 DEF RecordsInv

\* A step of a process writes a status in Reject and SaveFill alone.
LEMMA StatusesStand ==
  ASSUME IInv, NEW w \in Workers, Act(w), ~Reject(w), ~SaveFill(w)
  PROVE  (\A n \in DOMAIN orders : StatusStands(n)) /\ NewRowsOpen
<1>1. CASE CheckDuplicate(w) \/ InsertOrder(w)
  <2>1. req[w] \in Request
    BY <1>1, RequestFacts DEF IInv, CheckDuplicate, InsertOrder
  <2>2. \/ UNCHANGED orders
        \/ \E s \in {"REJECTED", "PENDING"} : orders' = Append(orders, NewOrder(w, s))
    BY <1>1 DEF CheckDuplicate, InsertOrder
  <2>3. CASE UNCHANGED orders
    BY <2>3 DEF StatusStands, NewRowsOpen
  <2>4. ASSUME NEW s \in {"REJECTED", "PENDING"}, orders' = Append(orders, NewOrder(w, s))
        PROVE  (\A n \in DOMAIN orders : StatusStands(n)) /\ NewRowsOpen
    <3>1. NewOrder(w, s) \in Order
      BY <2>1, NewOrderType
    <3>2. OneMoreTicket(NewOrder(w, s))
      BY <2>4, <3>1, OrderAppended DEF IInv, StoreTypeOK, RowsTypeOK
    <3>3. NewOrder(w, s).status = s
      BY DEF NewOrder
    <3> QED BY <3>2, <3>3 DEF OneMoreTicket, StatusStands, NewRowsOpen
  <2> QED BY <2>2, <2>3, <2>4
<1>2. CASE ~(CheckDuplicate(w) \/ InsertOrder(w))
  <2>1. UNCHANGED orders
    BY <1>2 DEF Act, Step, StartCycle, PlaceManually, Skip, Signal, Finish,
         ReadPositions, MarkPosition, OpenDay, CheckDailyLoss, CheckPositionSize,
         Quote, BuyRead, BuyCash, BuyPos, SellPos,
         SellRead, SellCash, Commit, CreateTrade, AbortDeadlock, Crash
  <2> QED BY <2>1 DEF StatusStands, NewRowsOpen
<1> QED BY <1>1, <1>2

\* No step takes a fill, a Trade or a RiskDecision back, or forgets a crash.
LEMMA HistoryOnlyGrows ==
  ASSUME IInv, [Next]_vars
  PROVE  HistoryGrows
<1>1. crashes \in Nat
  BY DEF IInv, StoreTypeOK, HistoryTypeOK
<1>2. ASSUME NEW w \in Workers, Act(w)
      PROVE  HistoryGrows
  <2>1. CASE Commit(w) \/ CreateTrade(w) \/ CheckDailyLoss(w) \/ CheckPositionSize(w)
             \/ Crash(w)
    BY <1>1, <2>1 DEF Commit, CreateTrade, CheckDailyLoss, CheckPositionSize, Crash,
                      Decide, HistoryGrows
  <2>2. CASE ~(Commit(w) \/ CreateTrade(w) \/ CheckDailyLoss(w)
               \/ CheckPositionSize(w) \/ Crash(w))
    <3>1. UNCHANGED <<fills, trades, decisions, crashes>>
      BY <1>2, <2>2 DEF Act, Step, StartCycle, PlaceManually, Skip, Signal, Finish,
         CheckDuplicate, InsertOrder, ReadPositions, MarkPosition, OpenDay, Reject,
         Quote,
         BuyRead, BuyCash, BuyPos, SellPos, SellRead, SellCash, SaveFill, AbortDeadlock
    <3> QED BY <1>1, <3>1 DEF HistoryGrows
  <2> QED BY <2>1, <2>2
<1>3. CASE Environment \/ UNCHANGED vars
  <2>1. UNCHANGED <<fills, trades, decisions, crashes>>
    BY <1>3 DEF Environment, SyncPrice, WindowPasses, NewDay, EditAccount, LoadOrder,
                CancelOrder
  <2> QED BY <1>1, <2>1 DEF HistoryGrows
<1> QED BY <1>2, <1>3 DEF Next, Act

\* A step of another process leaves a process its records.
LEMMA OthersRecords ==
  ASSUME RecordsInv, [Next]_vars, NEW w \in Workers, Act(w), NEW v \in Workers, v # w
  PROVE  RecordsOf(v)'
<1>1. IInv /\ RecordsOf(v) /\ HistoryGrows
  BY HistoryOnlyGrows DEF RecordsInv
<1>2. pc'[v] = pc[v] /\ ord'[v] = ord[v] /\ seen'[v] = seen[v]
  BY <1>1, OnlyOwnState DEF IInv
<1>3. ASSUME pc[v] \in Owning
      PROVE  orders'[ord[v]].status = orders[ord[v]].status
  <2>1. ord[v] \in DOMAIN orders /\ (pc[w] \in Owning => ord[v] # ord[w])
    BY <1>1, <1>3, OwnershipByProcess DEF IInv, OwnsOf
  <2>2. CASE Reject(w) \/ SaveFill(w)
    <3>1. pc[w] \in Owning
      BY <2>2 DEF Owning, Reject, SaveFill
    <3>2. orders' = [orders EXCEPT ![ord[w]].status = "REJECTED"]
          \/ orders' = [orders EXCEPT ![ord[w]].status = "FILLED"]
      BY <2>2 DEF Reject, SaveFill, SaveRejected
    <3> QED BY <2>1, <3>1, <3>2
  <2>3. CASE ~(Reject(w) \/ SaveFill(w))
    BY <1>1, <2>1, <2>3, StatusesStand DEF StatusStands
  <2> QED BY <2>2, <2>3
<1> QED BY <1>1, <1>2, <1>3, RecordsOfStand

\* A process reaches the broker with an approval, and records a fill it committed.
LEMMA OwnRecords ==
  ASSUME RecordsInv, NEW w \in Workers, Act(w)
  PROVE  RecordsOf(w)'
<1>0. /\ IInv /\ RecordsOf(w) /\ pc \in [Workers -> PCs] /\ ord \in [Workers -> Nat]
      /\ StoreTypeOK /\ RequestOK
  BY DEF RecordsInv, IInv, StoreTypeOK, ProcsTypeOK
<1>a. pc[w] \in Owning => ord[w] \in DOMAIN orders
  BY <1>0, OwnershipByProcess DEF IInv, OwnsOf
<1>1. CASE \/ StartCycle(w) \/ PlaceManually(w) \/ Skip(w) \/ Signal(w) \/ Finish(w)
           \/ CheckDuplicate(w) \/ Reject(w) \/ CreateTrade(w) \/ AbortDeadlock(w)
           \/ Crash(w)
  <2>1. pc'[w] \in {"idle", "signal", "dup", "insert"}
    BY <1>0, <1>1 DEF StartCycle, PlaceManually, Skip, Signal, Finish, CheckDuplicate,
       Reject, CreateTrade, AbortDeadlock, Crash
  <2> QED BY <2>1 DEF RecordsOf
<1>2. CASE InsertOrder(w)
  <2>1. pc'[w] \in {"reject", "opening"} /\ ord'[w] = Len(orders) + 1
    BY <1>0, <1>2 DEF InsertOrder
  <2>2. NewOrder(w, "PENDING") \in Order
    BY <1>0, <1>2, RequestFacts, NewOrderType DEF InsertOrder
  <2>3. OneMoreTicket(NewOrder(w, "PENDING"))
    BY <1>0, <1>2, <2>2, OrderAppended DEF InsertOrder, StoreTypeOK, RowsTypeOK
  <2>4. orders'[ord'[w]].status = "PENDING"
    BY <2>1, <2>3 DEF OneMoreTicket, NewOrder
  <2> QED BY <2>1, <2>4 DEF RecordsOf
<1>3. CASE ReadPositions(w) \/ MarkPosition(w) \/ OpenDay(w) \/ CheckDailyLoss(w)
  <2>1. /\ pc[w] \in Evaluating /\ pc'[w] \in Evaluating \cup {"reject"}
        /\ UNCHANGED <<orders, ord>>
    BY <1>0, <1>3 DEF ReadPositions, MarkPosition, OpenDay, SizeStep, CheckDailyLoss
  <2> QED BY <1>0, <2>1 DEF RecordsOf
<1>4. CASE CheckPositionSize(w)
  <2>1. /\ pc[w] = "limit" /\ pc'[w] = AfterVerdict(SizeAllows(w))
        /\ UNCHANGED <<orders, ord>>
        /\ [order |-> ord[w], approved |-> SizeAllows(w)] \in decisions'
    BY <1>0, <1>4 DEF CheckPositionSize, Decide
  <2>2. CASE SizeAllows(w) = TRUE
    BY <1>0, <2>1, <2>2 DEF RecordsOf, AfterVerdict
  <2>3. CASE SizeAllows(w) = FALSE
    BY <1>0, <2>1, <2>3 DEF RecordsOf, AfterVerdict
  <2> QED BY <2>2, <2>3 DEF SizeAllows, WithinLimit
<1>5. CASE \/ Quote(w) \/ BuyRead(w) \/ BuyCash(w) \/ BuyPos(w) \/ SellPos(w)
           \/ SellRead(w) \/ SellCash(w)
  <2>1. /\ pc[w] \in {"quote"} \cup InTransaction
        /\ pc'[w] \in {"reject"} \cup InTransaction
        /\ UNCHANGED <<orders, ord, decisions>>
    BY <1>0, <1>5 DEF Quote, BuyRead, BuyCash, BuyPos, SellPos, SellRead, SellCash
  <2> QED BY <1>0, <2>1 DEF RecordsOf
<1>6. CASE Commit(w)
  <2>1. /\ pc[w] = "commit" /\ pc'[w] = "saveFill"
        /\ UNCHANGED <<orders, ord, seen, decisions>>
        /\ [order |-> ord[w], price |-> seen[w]] \in fills'
    BY <1>0, <1>6 DEF Commit
  <2> QED BY <1>0, <2>1 DEF RecordsOf
<1>7. CASE SaveFill(w)
  <2>1. /\ pc[w] = "saveFill" /\ pc'[w] = "trade"
        /\ UNCHANGED <<ord, seen, decisions, fills>>
        /\ orders' = [orders EXCEPT ![ord[w]].status = "FILLED"]
    BY <1>0, <1>7 DEF SaveFill
  <2>2. ord[w] \in DOMAIN orders
    BY <1>a, <2>1 DEF Owning
  <2>3. orders[ord[w]] \in Order
    BY <1>0, <2>2, ElementOfSeq, LenProperties DEF StoreTypeOK, RowsTypeOK
  <2>4. orders'[ord'[w]].status = "FILLED"
    BY <2>1, <2>2, <2>3 DEF Order
  <2> QED BY <1>0, <2>1, <2>4 DEF RecordsOf
<1> QED BY <1>1, <1>2, <1>3, <1>4, <1>5, <1>6, <1>7 DEF Act, Step

\* A process that does not commit, reject or record keeps what it is recording.
LEMMA StillRecording ==
  ASSUME IInv, NEW w \in Workers, Act(w), ~CreateTrade(w), NEW v \in Workers,
         pc[v] \in Recording
  PROVE  \/ crashes' > 0
         \/ pc'[v] \in Recording /\ ord'[v] = ord[v]
<1>0. StoreTypeOK /\ pc \in [Workers -> PCs] /\ crashes \in Nat
  BY DEF IInv, StoreTypeOK, ProcsTypeOK, HistoryTypeOK
<1>1. CASE v # w
  BY <1>0, <1>1, OnlyOwnState
<1>2. CASE v = w
  <2>1. Crash(w) \/ SaveFill(w)
    BY <1>2 DEF Act, Step, StartCycle, PlaceManually, Skip, Signal, Finish,
       CheckDuplicate, InsertOrder, ReadPositions, MarkPosition, OpenDay,
       CheckDailyLoss, CheckPositionSize, Reject, Quote,
       BuyRead, BuyCash, BuyPos, SellPos, SellRead, SellCash, Commit, AbortDeadlock,
       WaitsFor
  <2>2. CASE Crash(w)
    BY <1>0, <2>2 DEF Crash
  <2>3. CASE SaveFill(w)
    BY <1>0, <1>2, <2>3 DEF SaveFill
  <2> QED BY <2>1, <2>2, <2>3
<1> QED BY <1>1, <1>2

\* A step of a process keeps the records of every process.
LEMMA EveryonesRecords ==
  ASSUME RecordsInv, [Next]_vars, NEW w \in Workers, Act(w)
  PROVE  \A v \in Workers : RecordsOf(v)'
  BY OthersRecords, OwnRecords

\* The status of one order is written: what the other orders' records say stands.
LEMMA StatusWritten ==
  ASSUME IInv, NEW n \in DOMAIN orders, NEW s,
         orders' = [orders EXCEPT ![n].status = s]
  PROVE  /\ DOMAIN orders' = DOMAIN orders
         /\ orders'[n].status = s
         /\ \A m \in DOMAIN orders : orders'[m].qty = orders[m].qty
         /\ \A m \in DOMAIN orders : m # n => orders'[m].status = orders[m].status
<1>1. orders[n] \in Order
  BY ElementOfSeq, LenProperties DEF IInv, StoreTypeOK, RowsTypeOK
<1> QED BY <1>1 DEF Order

\* Only an order that was never filled is rejected.
LEMMA RecordsReject ==
  ASSUME RecordsInv, IInv', [Next]_vars, NEW w \in Workers, Reject(w)
  PROVE  RecordsInv'
<1>0. IInv /\ Act(w) /\ HistoryGrows /\ ~CreateTrade(w)
  BY HistoryOnlyGrows DEF RecordsInv, Act, Step, Reject, CreateTrade
<1>1. /\ pc[w] = "reject" /\ UNCHANGED <<fills, trades, decisions, crashes>>
      /\ orders' = [orders EXCEPT ![ord[w]].status = "REJECTED"]
  BY DEF Reject, SaveRejected
<1>2. ord[w] \in DOMAIN orders /\ ord[w] \notin FilledOrders
  BY <1>0, <1>1, OwnershipByProcess DEF IInv, OwnsOf, Owning
<1>3. /\ DOMAIN orders' = DOMAIN orders
      /\ orders'[ord[w]].status = "REJECTED"
      /\ \A m \in DOMAIN orders : orders'[m].qty = orders[m].qty
      /\ \A m \in DOMAIN orders : m # ord[w] => orders'[m].status = orders[m].status
  BY <1>0, <1>1, <1>2, StatusWritten
<1>4. FilledOrders' = FilledOrders
  BY <1>1 DEF FilledOrders
<1>5. \A n \in DOMAIN orders' : OrderRecord(n)'
  BY <1>2, <1>3, <1>4 DEF RecordsInv, OrderRecord
<1>6. \A t \in trades' : TradeRecord(t)'
  BY <1>1, <1>3 DEF RecordsInv, TradeRecord
<1>7. ASSUME NEW f \in fills' PROVE Approved(f.order)' /\ Recorded(f)'
  <2>1. f \in fills /\ Approved(f.order) /\ Recorded(f)
    BY <1>1 DEF RecordsInv
  <2>2. f.order \in FilledOrders /\ f.order \in DOMAIN orders
    BY <1>0, <2>1, FilledHaveRows
  <2>3. orders'[f.order].status = orders[f.order].status
    BY <1>2, <1>3, <2>2
  <2>4. \A v \in Workers : pc[v] \in Recording =>
            crashes' > 0 \/ (pc'[v] \in Recording /\ ord'[v] = ord[v])
    BY <1>0, StillRecording
  <2> QED BY <1>1, <2>1, <2>3, <2>4 DEF Approved, Recorded
<1>8. \A v \in Workers : RecordsOf(v)'
  BY <1>0, EveryonesRecords
<1> QED BY <1>5, <1>6, <1>7, <1>8 DEF RecordsInv

\* A commit fills an approved order that the process goes on to record.
LEMMA RecordsCommit ==
  ASSUME RecordsInv, IInv', [Next]_vars, NEW w \in Workers, Commit(w)
  PROVE  RecordsInv'
<1>0. IInv /\ Act(w) /\ HistoryGrows /\ ~CreateTrade(w) /\ RecordsOf(w)
  BY HistoryOnlyGrows DEF RecordsInv, Act, Step, Commit, CreateTrade
<1>1. /\ pc[w] = "commit" /\ UNCHANGED <<orders, trades, decisions, crashes, ord>>
      /\ fills' = fills \cup {[order |-> ord[w], price |-> seen[w]]}
      /\ pc'[w] = "saveFill"
  BY <1>0 DEF Commit, IInv, StoreTypeOK, ProcsTypeOK
<1>2. FilledOrders' = FilledOrders \cup {ord[w]}
  BY CommitFills
<1>3. orders[ord[w]].status \in {"PENDING", "CANCELLED"}
  BY <1>0, <1>1 DEF RecordsOf
<1>4. \A n \in DOMAIN orders' : OrderRecord(n)'
  BY <1>1, <1>2, <1>3 DEF RecordsInv, OrderRecord
<1>5. \A t \in trades' : TradeRecord(t)'
  BY <1>1 DEF RecordsInv, TradeRecord
<1>6. ASSUME NEW f \in fills' PROVE Approved(f.order)' /\ Recorded(f)'
  <2>1. CASE f.order = ord[w]
    <3>1. Approved(ord[w])
      BY <1>0, <1>1 DEF RecordsOf, Approved
    <3> QED BY <1>1, <2>1, <3>1 DEF Approved, Recorded
  <2>2. CASE f \in fills
    <3>1. \A v \in Workers : pc[v] \in Recording =>
              crashes' > 0 \/ (pc'[v] \in Recording /\ ord'[v] = ord[v])
      BY <1>0, StillRecording
    <3> QED BY <1>1, <2>2, <3>1 DEF RecordsInv, Approved, Recorded
  <2> QED BY <1>1, <2>1, <2>2
<1>7. \A v \in Workers : RecordsOf(v)'
  BY <1>0, EveryonesRecords
<1> QED BY <1>4, <1>5, <1>6, <1>7 DEF RecordsInv

\* FILLED is saved for an order whose fill committed.
LEMMA RecordsSaveFill ==
  ASSUME RecordsInv, IInv', [Next]_vars, NEW w \in Workers, SaveFill(w)
  PROVE  RecordsInv'
<1>0. IInv /\ Act(w) /\ HistoryGrows /\ ~CreateTrade(w) /\ RecordsOf(w)
  BY HistoryOnlyGrows DEF RecordsInv, Act, Step, SaveFill, CreateTrade
<1>1. /\ pc[w] = "saveFill" /\ UNCHANGED <<fills, trades, decisions, crashes>>
      /\ orders' = [orders EXCEPT ![ord[w]].status = "FILLED"]
  BY DEF SaveFill
<1>2. ord[w] \in DOMAIN orders
  BY <1>0, <1>1, OwnershipByProcess DEF IInv, OwnsOf, Owning
<1>3. /\ DOMAIN orders' = DOMAIN orders
      /\ orders'[ord[w]].status = "FILLED"
      /\ \A m \in DOMAIN orders : orders'[m].qty = orders[m].qty
      /\ \A m \in DOMAIN orders : m # ord[w] => orders'[m].status = orders[m].status
  BY <1>0, <1>1, <1>2, StatusWritten
<1>4. FilledOrders' = FilledOrders /\ ord[w] \in FilledOrders
  BY <1>0, <1>1 DEF FilledOrders, RecordsOf
<1>5. \A n \in DOMAIN orders' : OrderRecord(n)'
  BY <1>2, <1>3, <1>4 DEF RecordsInv, OrderRecord
<1>6. \A t \in trades' : TradeRecord(t)'
  BY <1>1, <1>3 DEF RecordsInv, TradeRecord
<1>7. ASSUME NEW f \in fills' PROVE Approved(f.order)' /\ Recorded(f)'
  <2>1. f \in fills /\ Approved(f.order) /\ Recorded(f)
    BY <1>1 DEF RecordsInv
  <2>2. f.order \in DOMAIN orders
    BY <1>0, <2>1, FilledHaveRows
  <2>3. orders[f.order].status = "FILLED" => orders'[f.order].status = "FILLED"
    BY <1>2, <1>3, <2>2
  <2>4. \A v \in Workers : pc[v] \in Recording =>
            crashes' > 0 \/ (pc'[v] \in Recording /\ ord'[v] = ord[v])
    BY <1>0, StillRecording
  <2> QED BY <1>1, <2>1, <2>3, <2>4 DEF Approved, Recorded
<1>8. \A v \in Workers : RecordsOf(v)'
  BY <1>0, EveryonesRecords
<1> QED BY <1>5, <1>6, <1>7, <1>8 DEF RecordsInv

\* The Trade that is created has the quantity of its order and the price of its fill.
LEMMA RecordsCreateTrade ==
  ASSUME RecordsInv, IInv', [Next]_vars, NEW w \in Workers, CreateTrade(w)
  PROVE  RecordsInv'
<1> DEFINE new == [order |-> ord[w], qty |-> req[w].qty, price |-> seen[w]]
<1>0. IInv /\ Act(w) /\ RecordsOf(w) /\ StoreTypeOK
  BY DEF RecordsInv, Act, Step, IInv
<1>1. /\ pc[w] = "trade" /\ UNCHANGED <<fills, orders, decisions, crashes>>
      /\ trades' = trades \cup {new}
  BY DEF CreateTrade
<1>2. ord[w] \in DOMAIN orders /\ orders[ord[w]].qty = req[w].qty
  BY <1>1 DEF RecordsInv, IInv, OrderOwnership
<1>3. orders[ord[w]].status \in {"FILLED", "CANCELLED"}
  BY <1>0, <1>1 DEF RecordsOf
<1>4. [order |-> ord[w], price |-> seen[w]] \in fills
  BY <1>0, <1>1 DEF RecordsOf
<1>5. \A n \in DOMAIN orders' : OrderRecord(n)'
  BY <1>1 DEF RecordsInv, OrderRecord, FilledOrders
<1>6. ASSUME NEW t \in trades' PROVE TradeRecord(t)'
  <2>1. CASE t \in trades
    BY <1>1, <2>1 DEF RecordsInv, TradeRecord
  <2>2. CASE t = new
    <3>1. new.order = ord[w] /\ new.qty = req[w].qty /\ new.price = seen[w]
      OBVIOUS
    <3> HIDE DEF new
    <3> QED BY <1>1, <1>2, <1>4, <2>2, <3>1 DEF TradeRecord
  <2> QED BY <1>1, <2>1, <2>2
<1>7. ASSUME NEW f \in fills' PROVE Approved(f.order)' /\ Recorded(f)'
  <2>1. f \in fills /\ Approved(f.order) /\ Recorded(f)
    BY <1>1 DEF RecordsInv
  <2>2. Approved(f.order)'
    BY <1>1, <2>1 DEF Approved
  <2>3. CASE \E v \in Workers : pc[v] \in Recording /\ ord[v] = f.order
    <3>1. PICK v \in Workers : pc[v] \in Recording /\ ord[v] = f.order
      BY <2>3
    <3>2. CASE v = w
      <4>1. new \in trades' /\ new.order = f.order
        BY <1>1, <3>1, <3>2
      <4> HIDE DEF new
      <4> QED BY <1>1, <1>3, <2>2, <3>1, <3>2, <4>1 DEF Recorded
    <3>3. CASE v # w
      <4>1. pc'[v] = pc[v] /\ ord'[v] = ord[v]
        BY <1>0, <3>3, OnlyOwnState
      <4> QED BY <2>2, <3>1, <4>1 DEF Recorded
    <3> QED BY <3>2, <3>3
  <2> QED BY <1>1, <2>1, <2>2, <2>3 DEF Recorded
<1>8. \A v \in Workers : RecordsOf(v)'
  BY <1>0, EveryonesRecords
<1> QED BY <1>5, <1>6, <1>7, <1>8 DEF RecordsInv

\* Cancelling writes its status over any other, FILLED included.
LEMMA RecordsCancel ==
  ASSUME RecordsInv, IInv', [Next]_vars, CancelOrder
  PROVE  RecordsInv'
<1>0. IInv /\ HistoryGrows /\ cancelling \subseteq DOMAIN orders
  BY HistoryOnlyGrows DEF RecordsInv, IInv, ReadsTypeOK
<1>1. PICK n \in DOMAIN orders : orders' = [orders EXCEPT ![n].status = "CANCELLED"]
  BY <1>0 DEF CancelOrder, SaveCancelled
<1>2. UNCHANGED <<fills, trades, decisions, crashes, pc, ord, seen>>
  BY DEF CancelOrder
<1>3. /\ DOMAIN orders' = DOMAIN orders
      /\ orders'[n].status = "CANCELLED"
      /\ \A m \in DOMAIN orders : orders'[m].qty = orders[m].qty
      /\ \A m \in DOMAIN orders : m # n => orders'[m].status = orders[m].status
  BY <1>0, <1>1, StatusWritten
<1>4. \A m \in DOMAIN orders' : OrderRecord(m)'
  BY <1>2, <1>3 DEF RecordsInv, OrderRecord, FilledOrders
<1>5. \A t \in trades' : TradeRecord(t)'
  BY <1>2, <1>3 DEF RecordsInv, TradeRecord
<1>6. ASSUME NEW f \in fills' PROVE Approved(f.order)' /\ Recorded(f)'
  <2>1. f \in fills /\ f.order \in DOMAIN orders
    BY <1>0, <1>2, FilledHaveRows
  <2>2. orders[f.order].status \in {"FILLED", "CANCELLED"}
          => orders'[f.order].status \in {"FILLED", "CANCELLED"}
    BY <1>3, <2>1
  <2> QED BY <1>2, <2>1, <2>2 DEF RecordsInv, Approved, Recorded
<1>7. ASSUME NEW v \in Workers PROVE RecordsOf(v)'
  <2>1. RecordsOf(v) /\ (pc[v] \in Owning => ord[v] \in DOMAIN orders)
    BY <1>0, OwnershipByProcess DEF RecordsInv, IInv, OwnsOf
  <2> QED BY <1>2, <1>3, <2>1 DEF RecordsOf, Owning
<1> QED BY <1>4, <1>5, <1>6, <1>7 DEF RecordsInv

\* The other things that happen outside change no status.
LEMMA RecordsOutside ==
  ASSUME RecordsInv, IInv', [Next]_vars, (Environment /\ ~CancelOrder) \/ UNCHANGED vars
  PROVE  RecordsInv'
<1>0. IInv /\ HistoryGrows
  BY HistoryOnlyGrows DEF RecordsInv
<1>1. UNCHANGED <<fills, trades, decisions, crashes, pc, ord, seen>>
  BY DEF Environment, SyncPrice, WindowPasses, NewDay, EditAccount, LoadOrder
<1>2. (\A n \in DOMAIN orders : StatusStands(n)) /\ NewRowsOpen
  <2>1. CASE WindowPasses
    <3>1. PICK k \in DOMAIN orders :
            orders' = [n \in DOMAIN orders |-> [orders[n] EXCEPT !.recent = @ /\ n > k]]
      BY <2>1 DEF WindowPasses
    <3>2. DOMAIN orders' = DOMAIN orders
      BY <3>1
    <3>3. ASSUME NEW n \in DOMAIN orders PROVE StatusStands(n)
      <4>1. orders[n] \in Order
        BY <1>0, ElementOfSeq, LenProperties DEF IInv, StoreTypeOK, RowsTypeOK
      <4>2. orders'[n] = [orders[n] EXCEPT !.recent = orders[n].recent /\ n > k]
        BY <3>1
      <4> QED BY <3>2, <4>1, <4>2 DEF StatusStands, Order
    <3> QED BY <3>2, <3>3 DEF NewRowsOpen
  <2>2. CASE ~WindowPasses
    <3>1. UNCHANGED orders
      BY <2>2 DEF Environment, SyncPrice, NewDay, EditAccount, LoadOrder
    <3> QED BY <3>1 DEF StatusStands, NewRowsOpen
  <2> QED BY <2>1, <2>2
<1>3. ASSUME NEW v \in Workers PROVE RecordsOf(v)'
  <2>1. RecordsOf(v) /\ (pc[v] \in Owning => ord[v] \in DOMAIN orders)
    BY <1>0, OwnershipByProcess DEF RecordsInv, IInv, OwnsOf
  <2>2. pc[v] \in Owning => orders'[ord[v]].status = orders[ord[v]].status
    BY <1>2, <2>1 DEF StatusStands
  <2>3. pc'[v] = pc[v] /\ ord'[v] = ord[v] /\ seen'[v] = seen[v]
    BY <1>1
  <2> QED BY <1>0, <2>1, <2>2, <2>3, RecordsOfStand
<1> QED BY <1>0, <1>1, <1>2, <1>3, QuietRecords

\* Every step keeps the records in agreement with the fills.
LEMMA RecordsPreserved ==
  ASSUME RecordsInv, [Next]_vars
  PROVE  RecordsInv'
<1>0. IInv /\ IInv' /\ HistoryGrows
  BY HistoryOnlyGrows, InvariantPreserved DEF RecordsInv
<1>1. ASSUME NEW w \in Workers, Act(w)
      PROVE  RecordsInv'
  <2>1. CASE Reject(w) \/ Commit(w) \/ SaveFill(w) \/ CreateTrade(w)
    BY <1>0, <2>1, RecordsReject, RecordsCommit, RecordsSaveFill, RecordsCreateTrade
  <2>2. CASE ~(Reject(w) \/ Commit(w) \/ SaveFill(w) \/ CreateTrade(w))
    <3>1. fills' = fills
      BY <1>1, <2>2, OnlyCommitFills
    <3>2. trades' = trades
      BY <1>1, <2>2 DEF Act, Step, StartCycle, PlaceManually, Skip, Signal, Finish,
         CheckDuplicate, InsertOrder, ReadPositions, MarkPosition, OpenDay,
         CheckDailyLoss, CheckPositionSize, Quote, BuyRead,
         BuyCash, BuyPos, SellPos, SellRead, SellCash, AbortDeadlock, Crash
    <3>3. (\A n \in DOMAIN orders : StatusStands(n)) /\ NewRowsOpen
      BY <1>0, <1>1, <2>2, StatusesStand
    <3>4. crashes' > 0 \/ \A v \in Workers : pc[v] \in Recording =>
                             pc'[v] \in Recording /\ ord'[v] = ord[v]
      BY <1>0, <1>1, <2>2, StillRecording
    <3>5. \A v \in Workers : RecordsOf(v)'
      BY <1>1, EveryonesRecords
    <3> QED BY <1>0, <3>1, <3>2, <3>3, <3>4, <3>5, QuietRecords
  <2> QED BY <2>1, <2>2
<1>2. CASE Environment \/ UNCHANGED vars
  BY <1>0, <1>2, RecordsCancel, RecordsOutside
<1> QED BY <1>1, <1>2 DEF Next, Act

(***************************************************************************)
(* Nothing is recorded that did not happen, for any number of processes and*)
(* whatever crashes, deadlock aborts and stale cancellations come between: *)
(* a FILLED order was filled and a REJECTED one was not, a filled order    *)
(* says FILLED or was cancelled over its fill, a Trade has the             *)
(* quantity of its order and the price of a fill of it, only approved      *)
(* orders are filled, and a fill that has no Trade yet is in the hand of a *)
(* process about to create one, or was lost to a crash.                    *)
(***************************************************************************)
THEOREM RecordsMatch == Spec => []RecordsMatchFills
<1>1. Init => RecordsInv
  <2> SUFFICES ASSUME Init PROVE RecordsInv
    OBVIOUS
  <2>1. IInv
    BY InitInvariant
  <2>2. orders = << >> /\ trades = {} /\ fills = {} /\ \A w \in Workers : pc[w] = "idle"
    BY DEF Init
  <2> QED BY <2>1, <2>2 DEF RecordsInv, OrderRecord, TradeRecord, RecordsOf
<1>2. RecordsInv /\ [Next]_vars => RecordsInv'
  BY RecordsPreserved
<1>3. RecordsInv => RecordsMatchFills
  BY DEF RecordsInv, RecordsMatchFills, OrderRecord, TradeRecord, Approved, Recorded
<1> QED BY <1>1, <1>2, <1>3, PTL DEF Spec

-----------------------------------------------------------------------------
(* The duplicate guard, when one process places the orders.  The guard and *)
(* the insert are two statements, so a second process may pass between     *)
(* them (InsertOrder commits a row that CheckDuplicate has not seen).      *)

OneProcess == \A v, w \in Workers : v = w

\* An order that stands, or may come to stand because it is being processed.
Counted(n) ==
    /\ orders[n].recent
    /\ \/ orders[n].status \notin {"REJECTED", "CANCELLED"}
       \/ \E w \in Workers : pc[w] \in Owning /\ ord[w] = n

Kind(o) == <<o.acct, o.inst, o.side>>

DuplicateInv ==
    /\ IInv
    /\ \A w \in Workers : pc[w] = "insert" => ~IsDuplicate(req[w])
    /\ \A m, n \in DOMAIN orders :
          m # n /\ Counted(m) /\ Counted(n) => Kind(orders[m]) # Kind(orders[n])

\* Only the passing of the window ages an order.
LEMMA RecentStands ==
  ASSUME IInv, NEW w \in Workers, Act(w), NEW n \in DOMAIN orders
  PROVE  orders'[n].recent = orders[n].recent
<1>0. StoreTypeOK /\ RequestOK /\ OrderOwnership /\ orders \in Seq(Order)
  BY DEF IInv, StoreTypeOK, RowsTypeOK
<1>1. orders[n] \in Order
  BY <1>0, ElementOfSeq, LenProperties
<1>2. CASE Reject(w) \/ SaveFill(w)
  <2>1. orders' = [orders EXCEPT ![ord[w]].status = "REJECTED"]
        \/ orders' = [orders EXCEPT ![ord[w]].status = "FILLED"]
    BY <1>2 DEF Reject, SaveFill, SaveRejected
  <2> QED BY <1>1, <2>1 DEF Order
<1>3. CASE CheckDuplicate(w) \/ InsertOrder(w)
  <2>1. req[w] \in Request
    BY <1>0, <1>3, RequestFacts DEF CheckDuplicate, InsertOrder
  <2>2. UNCHANGED orders \/ \E o \in Order : orders' = Append(orders, o)
    BY <1>3, <2>1, NewOrderType DEF CheckDuplicate, InsertOrder
  <2>3. UNCHANGED orders \/ \E o \in Order : OneMoreTicket(o)
    BY <1>0, <2>2, OrderAppended
  <2> QED BY <2>3 DEF OneMoreTicket
<1>4. CASE ~(CheckDuplicate(w) \/ InsertOrder(w) \/ Reject(w) \/ SaveFill(w))
  <2>1. UNCHANGED orders
    BY <1>4 DEF Act, Step, StartCycle, PlaceManually, Skip, Signal, Finish,
         ReadPositions, MarkPosition, OpenDay, CheckDailyLoss, CheckPositionSize,
         Quote, BuyRead, BuyCash, BuyPos, SellPos,
         SellRead, SellCash, Commit, CreateTrade, AbortDeadlock, Crash
  <2> QED BY <2>1
<1> QED BY <1>2, <1>3, <1>4

\* What happens outside ages orders and cancels them; it revives none.
LEMMA OutsideShrinks ==
  ASSUME IInv, Environment, NEW n \in DOMAIN orders'
  PROVE  /\ n \in DOMAIN orders
         /\ Kind(orders'[n]) = Kind(orders[n])
         /\ orders'[n].recent => orders[n].recent
         /\ orders'[n].status \notin {"REJECTED", "CANCELLED"} =>
               orders[n].status \notin {"REJECTED", "CANCELLED"}
<1>0. StoreTypeOK /\ orders \in Seq(Order)
  BY DEF IInv, StoreTypeOK, RowsTypeOK
<1>1. n \in DOMAIN orders /\ BookOf(orders'[n]) = BookOf(orders[n])
  BY <1>0, EnvironmentKeepsTickets DEF SameTickets
<1>2. Kind(orders'[n]) = Kind(orders[n])
  BY <1>1 DEF BookOf, Kind
<1>3. orders[n] \in Order
  BY <1>0, <1>1, ElementOfSeq, LenProperties
<1>4. CASE WindowPasses
  <2>1. PICK k \in DOMAIN orders :
            orders' = [m \in DOMAIN orders |-> [orders[m] EXCEPT !.recent = @ /\ m > k]]
    BY <1>4 DEF WindowPasses
  <2>2. orders'[n] = [orders[n] EXCEPT !.recent = orders[n].recent /\ n > k]
    BY <1>1, <2>1
  <2> QED BY <1>1, <1>2, <1>3, <2>2 DEF Order
<1>5. CASE CancelOrder
  <2>1. PICK m : orders' = [orders EXCEPT ![m].status = "CANCELLED"]
    BY <1>5 DEF CancelOrder, SaveCancelled
  <2> QED BY <1>1, <1>2, <1>3, <2>1 DEF Order
<1>6. CASE SyncPrice \/ NewDay \/ EditAccount \/ LoadOrder
  <2>1. UNCHANGED orders
    BY <1>6 DEF SyncPrice, NewDay, EditAccount, LoadOrder
  <2> QED BY <1>1, <1>2, <2>1
<1> QED BY <1>4, <1>5, <1>6 DEF Environment

\* No step makes an existing order count that did not.
LEMMA CountedShrinks ==
  ASSUME IInv, NEW w \in Workers, Act(w), NEW n \in DOMAIN orders, Counted(n)'
  PROVE  Counted(n)
<1>0. StoreTypeOK /\ RequestOK /\ OrderOwnership /\ orders \in Seq(Order)
  BY DEF IInv, StoreTypeOK, RowsTypeOK
<1>1. orders[n].recent
  BY RecentStands DEF Counted
<1>2. Len(orders) + 1 # n
  BY <1>0, LenProperties
<1>3. ASSUME NEW v \in Workers, pc'[v] \in Owning, ord'[v] = n
      PROVE  pc[v] \in Owning /\ ord[v] = n
  <2>1. CASE v = w
    BY <1>0, <1>2, <1>3, <2>1, OrderInHand
  <2>2. CASE v # w
    BY <1>0, <1>3, <2>2, OnlyOwnState
  <2> QED BY <2>1, <2>2
<1>4. ASSUME orders'[n].status \notin {"REJECTED", "CANCELLED"}
      PROVE  \/ orders[n].status \notin {"REJECTED", "CANCELLED"}
             \/ \E v \in Workers : pc[v] \in Owning /\ ord[v] = n
  <2>1. CASE Reject(w) \/ SaveFill(w)
    <3>1. pc[w] \in Owning /\ ord[w] \in DOMAIN orders
      BY <1>0, <2>1, OwnershipByProcess DEF Reject, SaveFill, Owning, OwnsOf
    <3>2. n = ord[w] \/ orders'[n].status = orders[n].status
      BY <2>1, <3>1 DEF Reject, SaveRejected, SaveFill
    <3> QED BY <1>4, <3>1, <3>2
  <2>2. CASE ~(Reject(w) \/ SaveFill(w))
    <3>1. orders'[n].status = orders[n].status
      BY <2>2, StatusesStand DEF StatusStands
    <3> QED BY <1>4, <3>1
  <2> QED BY <2>1, <2>2
<1> QED BY <1>1, <1>3, <1>4 DEF Counted

\* The rows a step adds: none, a REJECTED one, or the one the guard let through.
LEMMA RowsAdded ==
  ASSUME IInv, NEW w \in Workers, Act(w), NEW n \in DOMAIN orders', n \notin DOMAIN orders
  PROVE  /\ n = Len(orders) + 1
         /\ \/ pc[w] = "dup" /\ pc'[w] = "signal" /\ orders'[n].status = "REJECTED"
            \/ InsertOrder(w) /\ Kind(orders'[n]) = Kind(req[w])
<1>0. /\ StoreTypeOK /\ RequestOK /\ OrderOwnership /\ orders \in Seq(Order)
      /\ pc \in [Workers -> PCs]
  BY DEF IInv, StoreTypeOK, RowsTypeOK, ProcsTypeOK
<1>1. CASE CheckDuplicate(w)
  <2>1. /\ orders' = Append(orders, NewOrder(w, "REJECTED"))
        /\ pc[w] = "dup" /\ pc'[w] = "signal"
    BY <1>0, <1>1 DEF CheckDuplicate
  <2>2. NewOrder(w, "REJECTED") \in Order
    BY <1>0, <1>1, RequestFacts, NewOrderType DEF CheckDuplicate
  <2>3. OneMoreTicket(NewOrder(w, "REJECTED"))
    BY <1>0, <2>1, <2>2, OrderAppended
  <2> QED BY <2>1, <2>3 DEF OneMoreTicket, NewOrder
<1>2. CASE InsertOrder(w)
  <2>1. NewOrder(w, "PENDING") \in Order
    BY <1>0, <1>2, RequestFacts, NewOrderType DEF InsertOrder
  <2>2. OneMoreTicket(NewOrder(w, "PENDING"))
    BY <1>0, <1>2, <2>1, OrderAppended DEF InsertOrder
  <2> QED BY <1>2, <2>2 DEF OneMoreTicket, NewOrder, Kind
<1>3. CASE ~(CheckDuplicate(w) \/ InsertOrder(w))
  <2>1. DOMAIN orders' = DOMAIN orders
    <3>1. CASE Reject(w) \/ SaveFill(w)
      BY <1>0, <3>1, RejectWrites, SaveFillWrites DEF SameTickets
    <3>2. CASE ~(Reject(w) \/ SaveFill(w))
      BY <1>3, <3>2 DEF Act, Step, StartCycle, PlaceManually, Skip, Signal, Finish,
         ReadPositions, MarkPosition, OpenDay, CheckDailyLoss, CheckPositionSize,
         Quote, BuyRead, BuyCash, BuyPos, SellPos,
         SellRead, SellCash, Commit, CreateTrade, AbortDeadlock, Crash
    <3> QED BY <3>1, <3>2
  <2> QED BY <2>1
<1> QED BY <1>1, <1>2, <1>3

\* The guard has just passed, or nothing has happened since that could matter.
LEMMA GuardStands ==
  ASSUME OneProcess, DuplicateInv, [Next]_vars, NEW w \in Workers, pc'[w] = "insert"
  PROVE  ~IsDuplicate(req[w])'
<1>0. IInv /\ pc \in [Workers -> PCs] /\ StoreTypeOK
  BY DEF DuplicateInv, IInv, StoreTypeOK, ProcsTypeOK
<1>1. ASSUME NEW v \in Workers, Act(v) PROVE ~IsDuplicate(req[w])'
  <2>1. v = w
    BY DEF OneProcess
  <2>2. CheckDuplicate(w)
    BY <1>0, <1>1, <2>1 DEF Act, Step, StartCycle, PlaceManually, Skip, Signal, Finish,
       InsertOrder, ReadPositions, MarkPosition, OpenDay, SizeStep, CheckDailyLoss,
       CheckPositionSize, AfterVerdict, Reject, Quote, BuyRead, BuyCash, BuyPos,
       SellPos, SellRead, SellCash, Commit, SaveFill,
       CreateTrade, AbortDeadlock, Crash
  <2>3. ~IsDuplicate(req[w]) /\ UNCHANGED <<orders, req>>
    BY <1>0, <2>2 DEF CheckDuplicate
  <2> QED BY <2>3 DEF IsDuplicate
<1>2. CASE Environment
  <2>1. UNCHANGED procs
    BY <1>2, EnvironmentLeavesProcesses
  <2>2. ~IsDuplicate(req[w]) /\ req' = req
    BY <2>1 DEF DuplicateInv
  <2>3. \A n \in DOMAIN orders' :
          /\ n \in DOMAIN orders
          /\ Kind(orders'[n]) = Kind(orders[n])
          /\ orders'[n].recent => orders[n].recent
          /\ orders'[n].status \notin {"REJECTED", "CANCELLED"} =>
                orders[n].status \notin {"REJECTED", "CANCELLED"}
    BY <1>0, <1>2, OutsideShrinks
  <2> QED BY <2>2, <2>3 DEF IsDuplicate, Kind
<1>3. CASE UNCHANGED vars
  BY <1>3 DEF DuplicateInv, IsDuplicate
<1> QED BY <1>1, <1>2, <1>3 DEF Next, Act

\* Two orders that count are of different kinds.
LEMMA KindsStayDistinct ==
  ASSUME OneProcess, DuplicateInv, [Next]_vars,
         NEW m \in DOMAIN orders', NEW n \in DOMAIN orders',
         m # n, Counted(m)', Counted(n)'
  PROVE  Kind(orders'[m]) # Kind(orders'[n])
<1>0. IInv /\ StoreTypeOK /\ RequestOK /\ OrderOwnership
  BY DEF DuplicateInv, IInv
<1>1. ASSUME NEW w \in Workers, Act(w) PROVE Kind(orders'[m]) # Kind(orders'[n])
  <2>0. \A k \in DOMAIN orders : Kind(orders'[k]) = Kind(orders[k])
    BY <1>0, <1>1, ActKeepsTickets DEF TicketsKept, BookOf, Kind
  <2>1. ASSUME NEW k \in DOMAIN orders', Counted(k)', k \notin DOMAIN orders
        PROVE  /\ k = Len(orders) + 1
               /\ InsertOrder(w) /\ Kind(orders'[k]) = Kind(req[w])
    <3>1. ASSUME pc'[w] = "signal", orders'[k].status = "REJECTED" PROVE FALSE
      BY <2>1, <3>1 DEF Counted, OneProcess, Owning
    <3> QED BY <1>0, <1>1, <2>1, <3>1, RowsAdded
  <2>2. ASSUME NEW j \in DOMAIN orders, NEW k \in DOMAIN orders', Counted(j)', Counted(k)',
               k \notin DOMAIN orders
        PROVE  Kind(orders'[j]) # Kind(orders'[k])
    <3>1. InsertOrder(w) /\ Kind(orders'[k]) = Kind(req[w])
      BY <2>1, <2>2
    <3>2. pc[w] = "insert" /\ ~IsDuplicate(req[w])
      BY <3>1 DEF InsertOrder, DuplicateInv
    <3>3. Counted(j)
      BY <1>0, <1>1, <2>2, CountedShrinks
    <3>4. orders[j].recent /\ orders[j].status \notin {"REJECTED", "CANCELLED"}
      BY <3>2, <3>3 DEF Counted, OneProcess, Owning
    <3>5. Kind(orders[j]) # Kind(req[w])
      BY <3>2, <3>4 DEF IsDuplicate, Kind
    <3> QED BY <2>0, <3>1, <3>5
  <2>3. CASE m \in DOMAIN orders /\ n \in DOMAIN orders
    <3>1. Counted(m) /\ Counted(n)
      BY <1>0, <1>1, <2>3, CountedShrinks
    <3> QED BY <2>0, <2>3, <3>1 DEF DuplicateInv
  <2>4. CASE m \notin DOMAIN orders /\ n \notin DOMAIN orders
    BY <2>1, <2>4
  <2> QED BY <2>2, <2>3, <2>4
<1>2. CASE Environment
  <2>1. UNCHANGED <<pc, ord>>
    BY <1>2, EnvironmentLeavesProcesses
  <2>2. ASSUME NEW k \in DOMAIN orders', Counted(k)'
        PROVE  k \in DOMAIN orders /\ Counted(k) /\ Kind(orders'[k]) = Kind(orders[k])
    BY <1>0, <1>2, <2>1, <2>2, OutsideShrinks DEF Counted
  <2> QED BY <2>2 DEF DuplicateInv
<1>3. CASE UNCHANGED vars
  BY <1>3 DEF DuplicateInv, Counted
<1> QED BY <1>1, <1>2, <1>3 DEF Next, Act

(***************************************************************************)
(* DUPLICATE_ORDER_WINDOW, when one process places the orders: however many*)
(* cycles, forms, cancellations, crashes and passing windows there are, no *)
(* two live orders of the same account, instrument and side are within the *)
(* window of each other.                                                   *)
(***************************************************************************)
THEOREM NoDuplicatesInTheWindow ==
  ASSUME OneProcess
  PROVE  Spec => []NoRecentDuplicates
<1>1. Init => DuplicateInv
  <2> SUFFICES ASSUME Init PROVE DuplicateInv
    OBVIOUS
  <2>1. IInv
    BY InitInvariant
  <2>2. orders = << >> /\ \A w \in Workers : pc[w] = "idle"
    BY DEF Init
  <2> QED BY <2>1, <2>2 DEF DuplicateInv
<1>2. DuplicateInv /\ [Next]_vars => DuplicateInv'
  <2> SUFFICES ASSUME DuplicateInv, [Next]_vars PROVE DuplicateInv'
    OBVIOUS
  <2>1. IInv'
    BY InvariantPreserved DEF DuplicateInv
  <2>2. \A w \in Workers : pc'[w] = "insert" => ~IsDuplicate(req[w])'
    BY GuardStands
  <2>3. \A m, n \in DOMAIN orders' :
          m # n /\ Counted(m)' /\ Counted(n)' => Kind(orders'[m]) # Kind(orders'[n])
    BY KindsStayDistinct
  <2> QED BY <2>1, <2>2, <2>3 DEF DuplicateInv, Kind
<1>3. DuplicateInv => NoRecentDuplicates
  BY DEF DuplicateInv, NoRecentDuplicates, Counted, Kind
<1> QED BY <1>1, <1>2, <1>3, PTL DEF Spec

-----------------------------------------------------------------------------
(* The cash, when one process places the orders and nobody types a balance *)
(* into the account form.  Both are needed: _fill_buy and _fill_sell read  *)
(* the balance without a lock and write back what they computed from it,   *)
(* so a commit or an edit in between is overwritten.                       *)

Undisturbed == OneProcess /\ "edit" \notin EnvOps

\* The transaction has a balance to write: the committed one moved by the fill.
StagedCash(w) ==
    /\ pc[w] \in {"buyCash", "buyPos"} \/ (pc[w] = "commit" /\ req[w].side = "BUY") =>
          cash[Acct(w)] >= Amount(w) /\ Cached(w) = cash[Acct(w)] - Amount(w)
    /\ pc[w] = "sellCash" \/ (pc[w] = "commit" /\ req[w].side = "SELL") =>
          Cached(w) = cash[Acct(w)] + Amount(w)

LedgerInv == IInv /\ \A w \in Workers : StagedCash(w)

\* Staged balances are those of a transaction that has computed one.
Staging == {"buyCash", "buyPos", "sellCash", "commit"}

\* A process outside its transaction has no balance to write.
LEMMA NothingStaged ==
  ASSUME NEW w \in Workers, pc[w] \notin Staging
  PROVE  StagedCash(w)
  BY DEF StagedCash, Staging

\* Committed balances move in Commit alone, as long as nobody edits an account.
LEMMA OnlyCommitMovesCash ==
  ASSUME [Next]_vars, "edit" \notin EnvOps, ~ \E w \in Workers : Commit(w)
  PROVE  UNCHANGED cash
<1>1. ASSUME NEW w \in Workers, Act(w), ~Commit(w) PROVE UNCHANGED cash
  BY <1>1 DEF Act, Step, StartCycle, PlaceManually, Skip, Signal, Finish,
              CheckDuplicate,
     InsertOrder, ReadPositions, MarkPosition, OpenDay, CheckDailyLoss,
     CheckPositionSize, Reject, Quote, BuyRead, BuyCash,
     BuyPos, SellPos, SellRead, SellCash, SaveFill, CreateTrade, AbortDeadlock, Crash
<1>2. CASE Environment
  BY <1>2 DEF Environment, SyncPrice, WindowPasses, NewDay, EditAccount, LoadOrder,
              CancelOrder, EnvStep
<1>3. CASE UNCHANGED vars
  BY <1>3
<1> QED BY <1>1, <1>2, <1>3 DEF Next, Act

\* Every step of the process keeps what it has staged.
LEMMA OwnCash ==
  ASSUME LedgerInv, NEW w \in Workers, Act(w)
  PROVE  StagedCash(w)'
<1>0. /\ StoreTypeOK /\ RequestOK /\ StagedCash(w)
      /\ pc \in [Workers -> PCs] /\ obj \in [Workers -> [Handles -> Nat]]
  BY DEF LedgerInv, IInv, StoreTypeOK, ProcsTypeOK
<1>1. CASE BuyRead(w)
  <2>0. pc[w] = "buyRead" /\ UNCHANGED <<cash, req, seen>>
    BY <1>1 DEF BuyRead
  <2>1. req[w].h \in Handles /\ cash[Acct(w)] \in Nat /\ Amount(w) \in Nat /\ req[w].side = "BUY"
    BY <1>0, <2>0, RequestFacts DEF RequestOK
  <2>2. CASE ~Affordable(w)
    <3>1. pc'[w] = "reject"
      BY <1>0, <1>1, <2>2 DEF BuyRead
    <3> QED BY <3>1, NothingStaged DEF StagedCash
  <2>3. CASE Affordable(w)
    <3>1. /\ pc'[w] = "buyCash"
          /\ obj' = [obj EXCEPT ![w][req[w].h] = cash[Acct(w)] - Amount(w)]
      BY <1>0, <1>1, <2>3 DEF BuyRead, SetCached
    <3>2. obj'[w][req[w].h] = cash[Acct(w)] - Amount(w)
      BY <1>0, <2>1, <3>1
    <3> QED BY <2>0, <2>3, <3>1, <3>2 DEF StagedCash, Acct, Amount, Cached, Affordable
  <2> QED BY <2>2, <2>3
<1>2. CASE SellRead(w)
  <2>0. pc[w] = "sellRead" /\ UNCHANGED <<cash, req, seen>> /\ pc'[w] = "sellCash"
    BY <1>0, <1>2 DEF SellRead
  <2>1. req[w].h \in Handles
    BY <1>0, <2>0, RequestFacts
  <2>2. obj' = [obj EXCEPT ![w][req[w].h] = cash[Acct(w)] + Amount(w)]
    BY <1>2 DEF SellRead, SetCached, BalanceAfterSale
  <2>3. obj'[w][req[w].h] = cash[Acct(w)] + Amount(w)
    BY <1>0, <2>1, <2>2
  <2> QED BY <2>0, <2>3 DEF StagedCash, Acct, Amount, Cached
<1>3. CASE BuyCash(w) \/ BuyPos(w) \/ SellCash(w)
  <2>1. /\ UNCHANGED <<cash, obj, req, seen>>
        /\ \/ pc[w] \in {"buyCash", "buyPos"} /\ pc'[w] \in {"buyPos", "commit"}
           \/ pc[w] = "sellCash" /\ pc'[w] = "commit"
    BY <1>0, <1>3 DEF BuyCash, BuyPos, SellCash
  <2>2. /\ pc[w] \in {"buyCash", "buyPos"} => req[w].side = "BUY"
        /\ pc[w] = "sellCash" => req[w].side = "SELL"
    BY <1>0 DEF RequestOK
  <2> QED BY <1>0, <2>1, <2>2 DEF StagedCash, Acct, Amount, Cached
<1>4. CASE ~(BuyRead(w) \/ SellRead(w) \/ BuyCash(w) \/ BuyPos(w) \/ SellCash(w))
  <2>1. pc'[w] \notin Staging
    BY <1>0, <1>4 DEF Staging, Act, Step, StartCycle, PlaceManually, Skip, Signal,
                      Finish,
       CheckDuplicate, InsertOrder, ReadPositions, MarkPosition, OpenDay, SizeStep,
       CheckDailyLoss, CheckPositionSize, AfterVerdict, Reject, Quote, SellPos,
       Commit, SaveFill, CreateTrade, AbortDeadlock, Crash
  <2> QED BY <2>1 DEF StagedCash, Staging
<1> QED BY <1>1, <1>2, <1>3, <1>4

\* Every step keeps what is staged, when nothing comes in between.
LEMMA CashPreserved ==
  ASSUME Undisturbed, LedgerInv, [Next]_vars
  PROVE  LedgerInv'
<1>1. IInv'
  BY InvariantPreserved DEF LedgerInv
<1>2. ASSUME NEW w \in Workers, Act(w), NEW v \in Workers PROVE StagedCash(v)'
  BY <1>2, OwnCash DEF Undisturbed, OneProcess
<1>3. CASE Environment \/ UNCHANGED vars
  <2>1. UNCHANGED procs
    BY <1>3, EnvironmentLeavesProcesses
  <2>2. UNCHANGED cash
    BY <1>3 DEF Environment, SyncPrice, WindowPasses, NewDay, EditAccount, LoadOrder,
                CancelOrder,
                EnvStep, Undisturbed
  <2> QED BY <1>1, <2>1, <2>2 DEF LedgerInv, StagedCash, Acct, Amount, Cached
<1> QED BY <1>1, <1>2, <1>3 DEF Next, Act, LedgerInv

\* A commit moves the balance by exactly the price times the quantity.
LEMMA CommitMovesCash ==
  ASSUME LedgerInv, NEW w \in Workers, Commit(w)
  PROVE  /\ seen[w] \in PriceLevels
         /\ BookOf(orders[ord[w]]) = BookOf(req[w])
         /\ Acct(w) \in Accounts /\ cash[Acct(w)] \in Nat
         /\ cash[Acct(w)] - seen[w] * P!SignedQty(BookOf(req[w])) >= 0
         /\ cash' = [cash EXCEPT ![Acct(w)] =
                        cash[Acct(w)] - seen[w] * P!SignedQty(BookOf(req[w]))]
<1>0. /\ IInv /\ StoreTypeOK /\ RequestOK /\ OrderOwnership /\ StagedCash(w)
      /\ pc[w] = "commit"
  BY DEF LedgerInv, IInv, Commit
<1>1. seen[w] \in PriceLevels /\ seen[w] \in Nat
  BY <1>0, FillFacts, PricesPositive
<1>2. BookOf(orders[ord[w]]) = BookOf(req[w])
  BY <1>0, OwnershipByProcess DEF OwnsOf, Owning
<1>3. /\ Acct(w) \in Accounts /\ cash[Acct(w)] \in Nat /\ req[w].qty \in Nat
      /\ req[w].side \in {"BUY", "SELL"} /\ Amount(w) \in Nat
  BY <1>0, RequestFacts DEF Request
<1>4. P!SignedQty(BookOf(req[w])) = IF req[w].side = "BUY" THEN req[w].qty ELSE -req[w].qty
  BY DEF P!SignedQty, BookOf
<1>5. cash' = [cash EXCEPT ![Acct(w)] = Cached(w)]
  BY DEF Commit
<1>6. CASE req[w].side = "BUY"
  <2>1. cash[Acct(w)] >= Amount(w) /\ Cached(w) = cash[Acct(w)] - Amount(w)
    BY <1>0, <1>6 DEF StagedCash
  <2>2. Amount(w) = seen[w] * P!SignedQty(BookOf(req[w]))
    BY <1>4, <1>6 DEF Amount
  <2>3. cash[Acct(w)] - Amount(w) >= 0
    BY <1>3, <2>1
  <2> QED BY <1>1, <1>2, <1>3, <1>5, <2>1, <2>2, <2>3, Zenon
<1>7. CASE req[w].side = "SELL"
  <2>1. Cached(w) = cash[Acct(w)] + Amount(w)
    BY <1>0, <1>7 DEF StagedCash
  <2>2. seen[w] * P!SignedQty(BookOf(req[w])) = -Amount(w)
    <3>1. P!SignedQty(BookOf(req[w])) = -req[w].qty
      BY <1>4, <1>7
    <3>2. \A m, n \in Nat : m * (-n) = -(m * n)
      OBVIOUS
    <3> QED BY <1>1, <1>3, <3>1, <3>2 DEF Amount
  <2>3. cash[Acct(w)] - (-Amount(w)) >= 0 /\ Cached(w) = cash[Acct(w)] - (-Amount(w))
    BY <1>3, <2>1
  <2> QED BY <1>1, <1>2, <1>3, <1>5, <2>2, <2>3, Zenon
<1> QED BY <1>3, <1>6, <1>7

\* Every step is a step of the full books, or leaves them alone.
LEMMA StepKeepsBooks ==
  ASSUME Undisturbed, LedgerInv, [Next]_vars
  PROVE  [L!LedgerNext]_(L!ledgerVars)
<1>0. IInv
  BY DEF LedgerInv
<1>1. ASSUME NEW w \in Workers, Commit(w)
      PROVE  L!LedgerNext
  <2>1. ord[w] \in DOMAIN TicketsOf(orders) /\ P!Fill(ord[w])
    BY <1>0, <1>1, CommitIsFill
  <2>2. L!Fill(ord[w])
    BY <2>1 DEF P!Fill, L!Fill, P!SignedQty, L!SignedQty
  <2>3. TicketsOf(orders)[ord[w]] = BookOf(orders[ord[w]])
    BY <2>1 DEF TicketsOf
  <2>4. /\ seen[w] \in PriceLevels
        /\ TicketsOf(orders)[ord[w]] = BookOf(req[w])
        /\ cash[Acct(w)] - seen[w] * P!SignedQty(BookOf(req[w])) >= 0
        /\ cash' = [cash EXCEPT ![Acct(w)] =
                       cash[Acct(w)] - seen[w] * P!SignedQty(BookOf(req[w]))]
    BY <1>1, <2>3, CommitMovesCash
  <2>5. BookOf(req[w]).acct = Acct(w)
    BY DEF BookOf, Acct
  <2>6. L!LedgerFill(ord[w], seen[w])
    BY <2>2, <2>4, <2>5 DEF L!LedgerFill, TicketsOf, P!SignedQty, L!SignedQty
  <2> QED BY <2>1, <2>4, <2>6 DEF L!LedgerNext, TicketsOf
<1>2. CASE ~ \E w \in Workers : Commit(w)
  <2>1. UNCHANGED cash
    BY <1>2, OnlyCommitMovesCash DEF Undisturbed
  <2>2. FilledOrders' = FilledOrders
    <3>1. ASSUME NEW w \in Workers, Act(w) PROVE FilledOrders' = FilledOrders
      BY <1>2, <3>1, OnlyCommitFills
    <3>2. CASE Environment \/ UNCHANGED vars
      BY <3>2, EnvironmentLeavesProcesses DEF FilledOrders
    <3> QED BY <3>1, <3>2 DEF Next, Act
  <2>3. P!Next \/ UNCHANGED P!positionVars
    BY <1>0, StepImplements
  <2>4. ~ \E n : P!Fill(n)
    BY <2>2 DEF P!Fill
  <2>5. P!Place => L!LedgerPlace
    BY <2>1 DEF P!Place, L!Place, L!LedgerPlace, P!Ticket, L!Ticket
  <2>6. CASE P!Place
    BY <2>5, <2>6 DEF L!LedgerNext
  <2>7. CASE UNCHANGED P!positionVars
    BY <2>1, <2>7 DEF P!positionVars, L!ledgerVars
  <2> QED BY <2>3, <2>4, <2>6, <2>7 DEF P!Next
<1> QED BY <1>1, <1>2

\* The initial rows are an initial state of the full books, with nothing staged.
LEMMA InitBooks ==
  ASSUME Init
  PROVE  LedgerInv /\ L!LedgerInit
<1>1. IInv /\ P!Init
  BY InitInvariant, InitImplements
<1>2. L!Init
  BY <1>1 DEF P!Init, L!Init
<1>3. cash \in [Accounts -> Nat]
  BY OpeningBooks DEF Init
<1>4. \A w \in Workers : pc[w] = "idle"
  BY DEF Init
<1>5. \A w \in Workers : StagedCash(w)
  BY <1>4 DEF StagedCash
<1> QED BY <1>1, <1>2, <1>3, <1>5 DEF LedgerInv, L!LedgerInit

(***************************************************************************)
(* The full books, when one process places the orders and nobody edits an  *)
(* account: every step books an order, or fills one order once and moves   *)
(* its shares and its cash together, by the price it was filled at, never  *)
(* below zero, or leaves the books alone.                                  *)
(***************************************************************************)
THEOREM BooksImplementLedger ==
  ASSUME Undisturbed
  PROVE  Spec => ImplementsLedger
<1>1. LedgerInv /\ [Next]_vars => LedgerInv'
  BY CashPreserved
<1>2. Init => LedgerInv /\ L!LedgerInit
  BY InitBooks
<1>3. LedgerInv /\ [Next]_vars => [L!LedgerNext]_(L!ledgerVars)
  BY StepKeepsBooks
<1> QED BY <1>1, <1>2, <1>3, PTL DEF Spec, ImplementsLedger, L!LedgerSpec

(***************************************************************************)
(* Under the same two conditions a fill moves the account's balance by     *)
(* exactly price times quantity; the runs show that with a second process  *)
(* it need not.                                                            *)
(***************************************************************************)
THEOREM FillsMoveCash ==
  ASSUME Undisturbed
  PROVE  Spec => FillMovesCash
<1>1. LedgerInv /\ [Next]_vars => LedgerInv'
  BY CashPreserved
<1>2. Init => LedgerInv
  BY InitBooks
<1> DEFINE Moved == \A f \in fills' \ fills :
                       LET o == orders[f.order]
                       IN  cash'[o.acct] = cash[o.acct] - f.price * P!SignedQty(o)
<1>3. LedgerInv /\ [Next]_vars => [Moved]_vars
  <2> SUFFICES ASSUME LedgerInv, [Next]_vars, NEW f \in fills' \ fills
               PROVE  cash'[orders[f.order].acct] =
                         cash[orders[f.order].acct] - f.price * P!SignedQty(orders[f.order])
    OBVIOUS
  <2>1. PICK w \in Workers : Commit(w)
    <3>1. ASSUME NEW w \in Workers, Act(w), ~Commit(w) PROVE FALSE
      BY <3>1, OnlyCommitFills
    <3>2. CASE Environment \/ UNCHANGED vars
      BY <3>2, EnvironmentLeavesProcesses
    <3> QED BY <3>1, <3>2 DEF Next, Act
  <2>2. f = [order |-> ord[w], price |-> seen[w]]
    BY <2>1 DEF Commit
  <2>3. f.order = ord[w] /\ f.price = seen[w]
    BY <2>2
  <2>4. /\ BookOf(orders[ord[w]]) = BookOf(req[w]) /\ Acct(w) \in Accounts
        /\ cash' = [cash EXCEPT ![Acct(w)] =
                       cash[Acct(w)] - seen[w] * P!SignedQty(BookOf(req[w]))]
    BY <2>1, CommitMovesCash
  <2>5. orders[ord[w]].acct = Acct(w) /\ P!SignedQty(orders[ord[w]]) = P!SignedQty(BookOf(req[w]))
    BY <2>4 DEF BookOf, Acct, P!SignedQty
  <2>6. cash \in [Accounts -> Nat]
    BY DEF LedgerInv, IInv, StoreTypeOK, RowsTypeOK
  <2> QED BY <2>3, <2>4, <2>5, <2>6
<1> QED BY <1>1, <1>2, <1>3, PTL DEF Spec, FillMovesCash

-----------------------------------------------------------------------------
(* The equity the risk engine judges by, when nothing comes in between and *)
(* no two strategies share an account (their cycle would hold an Account   *)
(* object each, and a fill refreshes one of them).                         *)

AccountsApart ==
    \A s, t \in Strategies : StrategyAccount[s] = StrategyAccount[t] => s = t

\* The request in progress is for the account of the object in hand.
OnHandle(w) ==
    \/ req[w].h \in Strategies /\ Acct(w) = StrategyAccount[req[w].h]
    \/ req[w].h \in Accounts /\ Acct(w) = req[w].h /\ job[w] = << >>

InCycle(w) ==
    \/ pc[w] = "signal" /\ job[w] # << >>
    \/ pc[w] \in Placing /\ req[w].h \in Strategies

\* Outside its transaction a process has fresh Account objects.
FreshObjects(w) ==
    /\ pc[w] = "idle" => job[w] = << >>
    /\ pc[w] \in Placing => OnHandle(w)
    /\ pc[w] \in Placing \ Staging => Cached(w) = cash[Acct(w)]
    /\ InCycle(w) => \A h \in Strategies :
          obj[w][h] = cash[StrategyAccount[h]] \/ (pc[w] \in Staging /\ h = req[w].h)

\* What account.equity has loaded is what the account holds.
FreshPositions(w) ==
    pc[w] \in {"snapshot", "stop"} \/ (pc[w] = "limit" /\ req[w].side = "BUY") =>
        check[w].held = [i \in Instruments |-> pos[<<Acct(w), i>>]]

\* The day get_opening_equity asked for is one there is.
KnownDay(w) ==
    pc[w] \in {"snapshot", "current", "stop"} => check[w].day \in DOMAIN opening

FreshInv == LedgerInv /\ \A w \in Workers : FreshObjects(w)

ReadInv ==
    /\ opening # << >>
    /\ \A w \in Workers : FreshPositions(w) /\ KnownDay(w)

\* A request that is over leaves the objects of its cycle fresh.
LEMMA FreshAfterLeaving ==
  ASSUME NEW w \in Workers, FreshObjects(w), pc[w] \in Placing \ Staging,
         pc \in [Workers -> PCs], Leave(w), UNCHANGED <<cash, obj, job>>
  PROVE  FreshObjects(w)'
<1>1. pc'[w] = "signal"
  OBVIOUS
<1>2. job[w] # << >> => InCycle(w)
  BY DEF FreshObjects, OnHandle, InCycle
<1>3. ASSUME NEW h \in Strategies, job[w] # << >>
      PROVE  obj[w][h] = cash[StrategyAccount[h]]
  BY <1>2, <1>3 DEF FreshObjects
<1>4. InCycle(w)' => job[w] # << >>
  BY <1>1 DEF InCycle
<1> QED BY <1>1, <1>3, <1>4 DEF FreshObjects

\* A statement that touches no object and no balance, inside or outside the transaction.
LEMMA FreshAfterStatement ==
  ASSUME NEW w \in Workers, FreshObjects(w), pc[w] \in Placing, pc'[w] \in Placing,
         UNCHANGED <<cash, obj, job, req>>, pc[w] \in Staging <=> pc'[w] \in Staging
  PROVE  FreshObjects(w)'
<1>1. OnHandle(w)' /\ Cached(w)' = Cached(w) /\ Acct(w)' = Acct(w)
  BY DEF FreshObjects, OnHandle, Cached, Acct
<1>2. InCycle(w)' => InCycle(w)
  BY DEF InCycle
<1>3. pc'[w] # "idle"
  OBVIOUS
<1> QED BY <1>1, <1>2, <1>3 DEF FreshObjects

\* Starting a cycle or a form, and moving to the next pair.
LEMMA FreshAtTheStart ==
  ASSUME FreshInv, NEW w \in Workers,
         \/ StartCycle(w) \/ PlaceManually(w) \/ Skip(w) \/ Signal(w) \/ Finish(w)
         \/ Crash(w)
  PROVE  FreshObjects(w)'
<1>0. /\ StoreTypeOK /\ FreshObjects(w) /\ pc \in [Workers -> PCs]
      /\ obj \in [Workers -> [Handles -> Nat]] /\ req \in [Workers -> Request \cup {NoReq}]
      /\ job \in [Workers -> Seq(Strategies \X Instruments)]
  BY DEF FreshInv, LedgerInv, IInv, StoreTypeOK, ProcsTypeOK
<1>1. CASE StartCycle(w)
  <2>1. pc'[w] = "signal" /\ UNCHANGED cash
    BY <1>0, <1>1 DEF StartCycle
  <2>2. \A h \in Strategies : obj'[w][h] = cash[StrategyAccount[h]]
    BY <1>0, <1>1 DEF StartCycle, Handles
  <2> QED BY <2>1, <2>2 DEF FreshObjects
<1>2. CASE PlaceManually(w)
  <2>1. PICK a \in Accounts, i \in Instruments, s \in {"BUY", "SELL"}, q \in ManualQty :
          /\ req' = [req EXCEPT ![w] = [h |-> a, acct |-> a, inst |-> i,
                                        side |-> s, qty |-> q]]
          /\ obj' = [obj EXCEPT ![w][a] = cash[a]]
    BY <1>2 DEF PlaceManually
  <2>2. pc'[w] = "dup" /\ pc[w] = "idle" /\ UNCHANGED <<cash, job>>
    BY <1>0, <1>2 DEF PlaceManually
  <2>3. req'[w].h = a /\ Acct(w)' = a /\ a \in Handles
    BY <1>0, <2>1 DEF Acct, Handles
  <2>4. Cached(w)' = cash[a]
    BY <1>0, <2>1, <2>3 DEF Cached
  <2>5. a \notin Strategies
    BY StrategyTypes
  <2>6. OnHandle(w)' /\ ~InCycle(w)'
    BY <1>0, <2>2, <2>3, <2>5 DEF OnHandle, InCycle, FreshObjects
  <2> QED BY <2>2, <2>3, <2>4, <2>6 DEF FreshObjects
<1>3. CASE Skip(w)
  <2>1. InCycle(w) /\ UNCHANGED <<pc, cash, obj>> /\ pc[w] = "signal"
    BY <1>3 DEF Skip, InCycle
  <2> QED BY <1>0, <2>1, Zenon DEF FreshObjects, Staging
<1>4. CASE Signal(w)
  <2>1. InCycle(w) /\ UNCHANGED <<cash, obj>> /\ pc[w] = "signal" /\ pc'[w] = "dup"
    BY <1>0, <1>4 DEF Signal, InCycle
  <2>2. \A h \in Strategies : obj[w][h] = cash[StrategyAccount[h]]
    BY <1>0, <2>1 DEF FreshObjects, Staging
  <2>3. job[w] \in Seq(Strategies \X Instruments) /\ job[w] # << >>
    BY <1>0, <1>4 DEF Signal
  <2>4. Head(job[w])[1] \in Strategies
    BY <2>3, HeadTailProperties
  <2>5. req'[w].h = Head(job[w])[1] /\ Acct(w)' = StrategyAccount[Head(job[w])[1]]
    BY <1>0, <1>4 DEF Signal, Acct
  <2> QED BY <2>1, <2>2, <2>4, <2>5 DEF FreshObjects, OnHandle, Cached, Acct
<1>5. CASE Finish(w)
  <2>1. pc'[w] = "idle" /\ job'[w] = << >>
    BY <1>0, <1>5 DEF Finish
  <2> QED BY <2>1 DEF FreshObjects, InCycle
<1>6. CASE Crash(w)
  <2>1. pc'[w] = "idle" /\ job'[w] = << >>
    BY <1>0, <1>6 DEF Crash
  <2> QED BY <2>1 DEF FreshObjects, InCycle
<1> QED BY <1>1, <1>2, <1>3, <1>4, <1>5, <1>6

\* The read that opens the transaction writes to the object in hand.
LEMMA FreshAfterRead ==
  ASSUME FreshInv, NEW w \in Workers, BuyRead(w) \/ SellRead(w)
  PROVE  FreshObjects(w)'
<1>0. /\ StoreTypeOK /\ RequestOK /\ FreshObjects(w) /\ pc \in [Workers -> PCs]
      /\ obj \in [Workers -> [Handles -> Nat]]
  BY DEF FreshInv, LedgerInv, IInv, StoreTypeOK, ProcsTypeOK
<1>1. /\ pc[w] \in {"buyRead", "sellRead"} /\ UNCHANGED <<cash, job, req>>
      /\ \/ pc'[w] \in Staging
         \/ pc'[w] = "reject" /\ obj' = [obj EXCEPT ![w][req[w].h] = cash[Acct(w)]]
      /\ \E c : obj' = [obj EXCEPT ![w][req[w].h] = c]
  BY <1>0 DEF BuyRead, SellRead, SetCached, Staging
<1>2. pc'[w] \in Placing
  BY <1>1 DEF Staging
<1>3. req[w].h \in Handles
  BY <1>0, <1>1, RequestFacts
<1>4. OnHandle(w)' /\ Acct(w)' = Acct(w)
  BY <1>0, <1>1 DEF FreshObjects, OnHandle, Acct
<1>5. pc'[w] \notin Staging => Cached(w)' = cash[Acct(w)]
  BY <1>0, <1>1, <1>3 DEF Cached
<1>6. ASSUME NEW h \in Strategies, InCycle(w)'
      PROVE  obj'[w][h] = cash[StrategyAccount[h]] \/ (pc'[w] \in Staging /\ h = req[w].h)
  <2>1. InCycle(w)
    BY <1>1, <1>2, <1>6 DEF InCycle
  <2>2. obj[w][h] = cash[StrategyAccount[h]]
    BY <1>0, <1>1, <2>1 DEF FreshObjects, Staging
  <2>3. CASE h # req[w].h
    BY <1>0, <1>1, <2>2, <2>3 DEF Handles
  <2>4. CASE h = req[w].h
    <3>1. Acct(w) = StrategyAccount[h]
      BY <1>0, <1>1, <2>4, StrategyTypes DEF FreshObjects, OnHandle
    <3> QED BY <1>1, <1>5, <2>4, <3>1 DEF Cached
  <2> QED BY <2>3, <2>4
<1> QED BY <1>1, <1>2, <1>4, <1>5, <1>6 DEF FreshObjects

\* The commit publishes what the object in hand says, and no other object's account moves.
LEMMA FreshAfterCommit ==
  ASSUME AccountsApart, FreshInv, NEW w \in Workers, Commit(w)
  PROVE  FreshObjects(w)'
<1>0. /\ StoreTypeOK /\ RequestOK /\ FreshObjects(w) /\ pc \in [Workers -> PCs]
      /\ cash \in [Accounts -> Nat]
  BY DEF FreshInv, LedgerInv, IInv, StoreTypeOK, ProcsTypeOK, RowsTypeOK
<1>1. /\ pc[w] = "commit" /\ pc'[w] = "saveFill" /\ UNCHANGED <<obj, job, req>>
      /\ cash' = [cash EXCEPT ![Acct(w)] = Cached(w)]
  BY <1>0 DEF Commit
<1>2. Acct(w) \in Accounts /\ Acct(w)' = Acct(w) /\ Cached(w)' = Cached(w)
  BY <1>0, <1>1, RequestFacts DEF Acct, Cached
<1>3. OnHandle(w) /\ OnHandle(w)'
  BY <1>0, <1>1 DEF FreshObjects, OnHandle, Acct
<1>4. cash'[Acct(w)] = Cached(w)
  BY <1>0, <1>1, <1>2
<1>5. ASSUME NEW h \in Strategies, InCycle(w)'
      PROVE  obj[w][h] = cash'[StrategyAccount[h]]
  <2>1. req[w].h \in Strategies /\ InCycle(w)
    BY <1>1, <1>5 DEF InCycle
  <2>2. Acct(w) = StrategyAccount[req[w].h]
    BY <1>3, <2>1, StrategyTypes DEF OnHandle
  <2>3. CASE h = req[w].h
    BY <1>4, <2>2, <2>3 DEF Cached
  <2>4. CASE h # req[w].h
    <3>1. obj[w][h] = cash[StrategyAccount[h]]
      BY <1>0, <2>1, <2>4 DEF FreshObjects
    <3>2. StrategyAccount[h] # Acct(w) /\ StrategyAccount[h] \in Accounts
      BY <2>1, <2>2, <2>4, StrategyTypes DEF AccountsApart
    <3> QED BY <1>0, <1>1, <3>1, <3>2
  <2> QED BY <2>3, <2>4
<1> QED BY <1>1, <1>2, <1>3, <1>4, <1>5 DEF FreshObjects

\* One process alone never deadlocks.
LEMMA NoDeadlockAlone ==
  ASSUME OneProcess, IInv, NEW w \in Workers
  PROVE  ~AbortDeadlock(w)
<1>1. ASSUME WaitsFor(w, w) PROVE FALSE
  <2>1. pc[w] \in {"buyCash", "sellCash", "buyPos", "sellPos"}
    BY <1>1 DEF WaitsFor
  <2>2. Acct(w) \in Accounts /\ Holding(w) \in Holdings
    BY <2>1, RequestFacts DEF IInv
  <2> QED BY <1>1, <2>1, <2>2 DEF WaitsFor, IInv, LockDiscipline, HoldsCash, HoldsPos
<1> QED BY <1>1 DEF AbortDeadlock, OneProcess

\* Every step of the process keeps its objects fresh.
LEMMA FreshOwn ==
  ASSUME OneProcess, AccountsApart, FreshInv, NEW w \in Workers, Act(w)
  PROVE  FreshObjects(w)'
<1>0. IInv /\ FreshObjects(w) /\ pc \in [Workers -> PCs]
  BY DEF FreshInv, LedgerInv, IInv, StoreTypeOK, ProcsTypeOK
<1>1. CASE (CheckDuplicate(w) /\ IsDuplicate(req[w])) \/ Reject(w) \/ CreateTrade(w)
  <2>1. pc[w] \in Placing \ Staging /\ Leave(w) /\ UNCHANGED <<cash, obj, job>>
    BY <1>1 DEF CheckDuplicate, Reject, CreateTrade, Staging
  <2> QED BY <1>0, <2>1, FreshAfterLeaving
<1>2. CASE \/ (CheckDuplicate(w) /\ ~IsDuplicate(req[w]))
           \/ InsertOrder(w) \/ ReadPositions(w) \/ MarkPosition(w) \/ OpenDay(w)
           \/ CheckDailyLoss(w) \/ CheckPositionSize(w) \/ Quote(w)
           \/ SellPos(w) \/ SaveFill(w)
  <2>1. /\ pc[w] \in Placing \ Staging /\ pc'[w] \in Placing \ Staging
        /\ UNCHANGED <<cash, obj, job, req>>
    BY <1>0, <1>2 DEF CheckDuplicate, InsertOrder, ReadPositions, MarkPosition,
                      OpenDay, SizeStep, CheckDailyLoss, CheckPositionSize,
                      AfterVerdict,
                      Quote, SellPos, SaveFill, Staging
  <2> QED BY <1>0, <2>1, FreshAfterStatement
<1>3. CASE BuyCash(w) \/ BuyPos(w) \/ SellCash(w)
  <2>1. /\ pc[w] \in Staging /\ pc'[w] \in Staging /\ pc[w] \in Placing
        /\ pc'[w] \in Placing /\ UNCHANGED <<cash, obj, job, req>>
    BY <1>0, <1>3 DEF BuyCash, BuyPos, SellCash, Staging
  <2> QED BY <1>0, <2>1, FreshAfterStatement
<1> QED
  BY <1>0, <1>1, <1>2, <1>3, FreshAtTheStart, FreshAfterRead, FreshAfterCommit,
     NoDeadlockAlone DEF Act, Step

\* Every step keeps the objects fresh, when nothing comes in between.
LEMMA FreshPreserved ==
  ASSUME Undisturbed, AccountsApart, FreshInv, [Next]_vars
  PROVE  FreshInv'
<1>1. LedgerInv'
  BY CashPreserved DEF FreshInv
<1>2. ASSUME NEW w \in Workers, Act(w), NEW v \in Workers PROVE FreshObjects(v)'
  BY <1>2, FreshOwn DEF Undisturbed, OneProcess
<1>3. CASE Environment \/ UNCHANGED vars
  <2>1. UNCHANGED procs
    BY <1>3, EnvironmentLeavesProcesses
  <2>2. UNCHANGED cash
    BY <1>3 DEF Environment, SyncPrice, WindowPasses, NewDay, EditAccount, LoadOrder,
                CancelOrder,
                EnvStep, Undisturbed
  <2> QED BY <1>1, <2>1, <2>2 DEF FreshInv, FreshObjects, OnHandle, InCycle, Acct,
                                  Cached
<1> QED BY <1>1, <1>2, <1>3 DEF Next, Act, FreshInv

\* Nothing is in hand at the start.
LEMMA InitFresh ==
  ASSUME Init
  PROVE  FreshInv
<1>1. LedgerInv
  BY InitBooks
<1>2. \A w \in Workers : pc[w] = "idle" /\ job[w] = << >>
  BY DEF Init
<1> QED BY <1>1, <1>2 DEF FreshInv, FreshObjects, InCycle

\* A process that passes a check is the one that ran it.
LEMMA VerdictIsOwn ==
  ASSUME IInv, [Next]_vars, NEW w \in Workers
  PROVE  /\ pc[w] = "limit" /\ pc'[w] = "quote" => CheckPositionSize(w) /\ SizeAllows(w)
         /\ pc[w] = "stop" /\ pc'[w] \in {"equity", "limit"} => CheckDailyLoss(w)
<1>0. StoreTypeOK /\ pc \in [Workers -> PCs]
  BY DEF IInv, StoreTypeOK, ProcsTypeOK
<1>1. CASE Act(w)
  <2>1. pc[w] = "limit" /\ pc'[w] = "quote" => CheckPositionSize(w)
    BY <1>0, <1>1 DEF Act, Step, StartCycle, PlaceManually, Skip, Signal, Finish,
       CheckDuplicate, InsertOrder, ReadPositions, MarkPosition, OpenDay,
       CheckDailyLoss, Reject, Quote, BuyRead, BuyCash, BuyPos, SellPos, SellRead,
       SellCash, Commit, SaveFill, CreateTrade, AbortDeadlock, Crash
  <2>2. pc[w] = "stop" /\ pc'[w] \in {"equity", "limit"} => CheckDailyLoss(w)
    BY <1>0, <1>1 DEF Act, Step, StartCycle, PlaceManually, Skip, Signal, Finish,
       CheckDuplicate, InsertOrder, ReadPositions, MarkPosition, OpenDay,
       CheckPositionSize, Reject, Quote, BuyRead, BuyCash, BuyPos, SellPos, SellRead,
       SellCash, Commit, SaveFill, CreateTrade, AbortDeadlock, Crash
  <2>3. CheckPositionSize(w) /\ pc'[w] = "quote" => SizeAllows(w)
    BY <1>0 DEF CheckPositionSize, AfterVerdict
  <2> QED BY <2>1, <2>2, <2>3
<1>2. CASE ~Act(w)
  <2>1. pc'[w] = pc[w]
    <3>1. ASSUME NEW v \in Workers, Act(v) PROVE pc'[w] = pc[w]
      BY <1>0, <1>2, <3>1, OnlyOwnState
    <3>2. CASE Environment \/ UNCHANGED vars
      BY <3>2, EnvironmentLeavesProcesses
    <3> QED BY <3>1, <3>2 DEF Next, Act
  <2> QED BY <2>1
<1> QED BY <1>1, <1>2

\* What one process has read of its account's positions stays true while it
\* evaluates, whatever is synced: only its own fills move them.
LEMMA PositionsStayFresh ==
  ASSUME OneProcess, IInv, ReadInv, [Next]_vars, NEW w \in Workers
  PROVE  FreshPositions(w)'
<1>0. /\ StoreTypeOK /\ pc \in [Workers -> PCs] /\ check \in [Workers -> Check]
      /\ FreshPositions(w) /\ req \in [Workers -> Request \cup {NoReq}]
  BY DEF IInv, ReadsTypeOK, StoreTypeOK, ProcsTypeOK, ReadInv
<1>1. CASE ReadPositions(w)
  <2>1. check'[w].held = [i \in Instruments |-> pos[<<Acct(w), i>>]]
    BY <1>0, <1>1 DEF ReadPositions
  <2>2. UNCHANGED <<pos, req>>
    BY <1>1 DEF ReadPositions
  <2>3. Acct(w)' = Acct(w)
    BY <2>2 DEF Acct
  <2> QED BY <2>1, <2>2, <2>3 DEF FreshPositions
<1>2. CASE MarkPosition(w)
  <2>1. check'[w].held = check[w].held
    BY <1>0, <1>2 DEF MarkPosition, Check
  <2>2. UNCHANGED <<pos, req, pc>>
    BY <1>2 DEF MarkPosition
  <2> QED BY <1>0, <2>1, <2>2 DEF FreshPositions, Acct
<1>3. CASE OpenDay(w) \/ CheckDailyLoss(w)
  <2>1. pc'[w] \in {"current", "reject", SizeStep(w)} /\ UNCHANGED req
    BY <1>0, <1>3 DEF OpenDay, CheckDailyLoss
  <2>2. pc'[w] = "limit" => req'[w].side # "BUY"
    BY <2>1 DEF SizeStep
  <2> QED BY <2>1, <2>2 DEF FreshPositions, SizeStep
<1>4. CASE Act(w) /\ ~ReadPositions(w) /\ ~MarkPosition(w) /\ ~OpenDay(w)
             /\ ~CheckDailyLoss(w)
  <2>1. pc'[w] \notin {"snapshot", "stop", "limit"}
    BY <1>0, <1>4 DEF Act, Step, StartCycle, PlaceManually, Skip, Signal, Finish,
       CheckDuplicate, InsertOrder, CheckPositionSize, AfterVerdict, Reject, Quote,
       BuyRead, BuyCash, BuyPos, SellPos, SellRead, SellCash, Commit, SaveFill,
       CreateTrade, AbortDeadlock, Crash
  <2> QED BY <2>1 DEF FreshPositions
<1>5. CASE Environment \/ UNCHANGED vars
  <2>1. UNCHANGED <<procs, pos>>
    BY <1>5, EnvironmentLeavesProcesses DEF Environment, SyncPrice, WindowPasses,
       NewDay, EditAccount, LoadOrder, CancelOrder
  <2> QED BY <1>0, <2>1 DEF FreshPositions, Acct
<1> QED BY <1>1, <1>2, <1>3, <1>4, <1>5 DEF Next, Act, OneProcess

\* Days are only added, and an evaluation keeps to the one it began on.
LEMMA DaysStayKnown ==
  ASSUME OneProcess, IInv, OpeningTypeOK, ReadInv, [Next]_vars, NEW w \in Workers
  PROVE  KnownDay(w)' /\ opening' # << >>
<1>0. /\ StoreTypeOK /\ pc \in [Workers -> PCs] /\ check \in [Workers -> Check]
      /\ KnownDay(w) /\ opening # << >>
      /\ opening \in Seq([Accounts -> Nat \cup {-1}])
  BY DEF IInv, ReadsTypeOK, StoreTypeOK, ProcsTypeOK, ReadInv, OpeningTypeOK
<1>1. Len(opening) \in DOMAIN opening /\ DOMAIN opening # {}
  BY <1>0, EmptySeq, LenProperties
<1>2. DOMAIN opening \subseteq DOMAIN opening'
  <2>1. CASE NewDay
    BY <1>0, <2>1, AppendProperties DEF NewDay
  <2>2. ASSUME NEW v \in Workers, OpenDay(v) PROVE DOMAIN opening \subseteq DOMAIN opening'
    BY <2>2 DEF OpenDay
  <2>3. ASSUME NEW v \in Workers, Act(v), ~OpenDay(v) PROVE UNCHANGED opening
    BY <2>3 DEF Act, Step, StartCycle, PlaceManually, Skip, Signal, Finish,
       CheckDuplicate, InsertOrder, ReadPositions, MarkPosition, CheckDailyLoss,
       CheckPositionSize, Reject, Quote, BuyRead, BuyCash, BuyPos, SellPos, SellRead,
       SellCash, Commit, SaveFill, CreateTrade, AbortDeadlock, Crash
  <2>4. CASE (Environment /\ ~NewDay) \/ UNCHANGED vars
    BY <2>4 DEF Environment, SyncPrice, WindowPasses, EditAccount, LoadOrder,
                CancelOrder
  <2> QED BY <2>1, <2>2, <2>3, <2>4 DEF Next, Act
<1>3. opening' # << >>
  BY <1>1, <1>2
<1>4. CASE ReadPositions(w)
  <2>1. check'[w].day = IF pc[w] = "opening" THEN Len(opening) ELSE check[w].day
    BY <1>0, <1>4 DEF ReadPositions
  <2>2. pc'[w] \in {"snapshot", "current", "stop"} => pc[w] \in {"opening", "current"}
    BY <1>0, <1>4 DEF ReadPositions
  <2> QED BY <1>0, <1>1, <1>2, <1>3, <2>1, <2>2 DEF KnownDay
<1>5. CASE MarkPosition(w) \/ OpenDay(w)
  <2>1. check'[w].day = check[w].day
    BY <1>0, <1>5 DEF MarkPosition, OpenDay, Check, NoCheck
  <2>2. pc'[w] \in {"snapshot", "current", "stop"} => pc[w] \in {"snapshot", "stop"}
    BY <1>0, <1>5 DEF MarkPosition, OpenDay, SizeStep
  <2> QED BY <1>0, <1>2, <1>3, <2>1, <2>2 DEF KnownDay
<1>6. CASE Act(w) /\ ~ReadPositions(w) /\ ~MarkPosition(w) /\ ~OpenDay(w)
  <2>1. pc'[w] \notin {"snapshot", "current", "stop"}
    BY <1>0, <1>6 DEF Act, Step, StartCycle, PlaceManually, Skip, Signal, Finish,
       CheckDuplicate, InsertOrder, CheckDailyLoss, SizeStep, CheckPositionSize,
       AfterVerdict, Reject, Quote, BuyRead, BuyCash, BuyPos, SellPos, SellRead,
       SellCash, Commit, SaveFill, CreateTrade, AbortDeadlock, Crash
  <2> QED BY <1>3, <2>1 DEF KnownDay
<1>7. CASE Environment \/ UNCHANGED vars
  <2>1. UNCHANGED procs
    BY <1>7, EnvironmentLeavesProcesses
  <2> QED BY <1>0, <1>2, <1>3, <2>1 DEF KnownDay
<1> QED BY <1>4, <1>5, <1>6, <1>7 DEF Next, Act, OneProcess

\* Nothing has been read at the start.
LEMMA InitReads ==
  ASSUME Init
  PROVE  ReadInv /\ OpeningTypeOK
<1>1. opening = << [a \in Accounts |-> -1] >> /\ \A w \in Workers : pc[w] = "idle"
  BY DEF Init
<1>2. opening \in Seq([Accounts -> Nat \cup {-1}]) /\ opening # << >>
  BY <1>1
<1> QED BY <1>1, <1>2 DEF ReadInv, FreshPositions, KnownDay, OpeningTypeOK

\* The equity a check judges by is the committed one, at the closes it read.
LEMMA EquityIsTrue ==
  ASSUME FreshInv, ReadInv, NEW w \in Workers,
         pc[w] = "stop" \/ (pc[w] = "limit" /\ req[w].side = "BUY")
  PROVE  Equity(w) = TrueEquity(w)
<1>1. Cached(w) = cash[Acct(w)]
  BY DEF FreshInv, FreshObjects, Staging
<1>2. check[w].held = [i \in Instruments |-> pos[<<Acct(w), i>>]]
  BY DEF ReadInv, FreshPositions
<1> QED BY <1>1, <1>2 DEF Equity, TrueEquity

-----------------------------------------------------------------------------
(* Equity is a sum, and its type.                                          *)

\* The value of positions at closes is a natural number.
LEMMA ValueType ==
  ASSUME NEW held \in [Instruments -> Nat], NEW mark \in [Instruments -> Nat]
  PROVE  Value(held, mark) \in Nat
<1> DEFINE Worth(x) == held[x] * mark[x]
           F == [i \in Instruments |-> Worth(i)]
           p == [s \in (SUBSET Instruments) \ {{}} |-> CHOOSE x \in s : TRUE]
           Sums(g) == g = [s \in SUBSET Instruments |->
                             IF s = {} THEN 0
                             ELSE Worth(CHOOSE x \in s : TRUE)
                                    + g[s \ {CHOOSE x \in s : TRUE}]]
<1>0. p \in Picks(Instruments)
  BY DEF Picks
<1>1. \A i \in Instruments : held[i] \in Nat /\ mark[i] \in Nat
  OBVIOUS
<1>2. F \in [Instruments -> Nat]
  BY <1>1, NatTimes
<1>3. IsFiniteSet(Instruments)
  BY ConstantsOK
<1>4. \A s \in SUBSET Instruments : s # {} =>
         /\ p[s] = CHOOSE x \in s : TRUE
         /\ F[p[s]] = Worth(CHOOSE x \in s : TRUE)
  <2> SUFFICES ASSUME NEW s \in SUBSET Instruments, s # {}
               PROVE  /\ p[s] = CHOOSE x \in s : TRUE
                      /\ F[p[s]] = Worth(p[s])
    OBVIOUS
  <2>1. p[s] \in Instruments
    OBVIOUS
  <2> QED BY <2>1
<1>5. ASSUME NEW g PROVE Sums(g) <=> AddsUp(g, F, p, SUBSET Instruments)
  <2> HIDE DEF F, p, Worth
  <2>1. [s \in SUBSET Instruments |->
            IF s = {} THEN 0
            ELSE Worth(CHOOSE x \in s : TRUE)
                   + g[s \ {CHOOSE x \in s : TRUE}]]
        = [s \in SUBSET Instruments |->
              IF s = {} THEN 0 ELSE F[p[s]] + g[s \ {p[s]}]]
    <3>1. ASSUME NEW s \in SUBSET Instruments
          PROVE  (IF s = {} THEN 0
                  ELSE Worth(CHOOSE x \in s : TRUE) + g[s \ {CHOOSE x \in s : TRUE}])
                 = IF s = {} THEN 0 ELSE F[p[s]] + g[s \ {p[s]}]
      <4>1. CASE s = {}
        BY <4>1
      <4>2. CASE s # {}
        <5> DEFINE c == CHOOSE x \in s : TRUE
        <5>1. p[s] = c /\ F[p[s]] = Worth(c)
          BY <1>4, <4>2
        <5> HIDE DEF c
        <5>2. (IF s = {} THEN 0 ELSE Worth(c) + g[s \ {c}])
              = IF s = {} THEN 0 ELSE F[p[s]] + g[s \ {p[s]}]
          BY <5>1
        <5> QED BY <5>2 DEF c
      <4> QED BY <4>1, <4>2
    <3> QED BY <3>1, Zenon
  <2> QED BY <2>1 DEF AddsUp
<1>6. Value(held, mark) = (CHOOSE g : Sums(g))[Instruments]
  BY DEF Value, MapThenSumSet, MapThenFoldSet
<1> HIDE DEF F, p, Worth, Sums
<1>7. \E g : Sums(g)
  BY <1>0, <1>2, <1>3, <1>5, SumExists
<1>8. Sums(CHOOSE g : Sums(g))
  BY <1>7
<1>9. AddsUp(CHOOSE g : Sums(g), F, p, SUBSET Instruments)
  BY <1>5, <1>8
<1> QED BY <1>0, <1>2, <1>3, <1>6, <1>9, SumIsIn

\* The equity judged in a placement is a natural number.
LEMMA EquityType ==
  ASSUME StoreTypeOK, ReadsTypeOK, RequestOK, NEW w \in Workers, pc[w] \in Placing
  PROVE  Equity(w) \in Nat
<1>1. Acct(w) \in Accounts /\ Cached(w) \in Nat
  BY RequestFacts
<1>2. check[w].held \in [Instruments -> Nat] /\ check[w].mark \in [Instruments -> Nat]
  BY PricesPositive DEF ReadsTypeOK, Check
<1>3. Value(check[w].held, check[w].mark) \in Nat
  BY <1>2, ValueType
<1> QED BY <1>1, <1>3 DEF Equity

\* The snapshot of a day is an equity, or there is none.
LEMMA OpeningTypePreserved ==
  ASSUME IInv, OpeningTypeOK, [Next]_vars
  PROVE  OpeningTypeOK'
<1>0. /\ StoreTypeOK /\ ReadsTypeOK /\ RequestOK
      /\ opening \in Seq([Accounts -> Nat \cup {-1}])
  BY DEF IInv, OpeningTypeOK
<1>1. ASSUME NEW w \in Workers, OpenDay(w) PROVE OpeningTypeOK'
  <2> DEFINE d == check[w].day
             open == IF opening[d][Acct(w)] = -1 THEN Equity(w) ELSE opening[d][Acct(w)]
  <2>1. Acct(w) \in Accounts /\ Equity(w) \in Nat
    BY <1>0, <1>1, RequestFacts, EquityType DEF OpenDay
  <2>2. opening' = [opening EXCEPT ![d][Acct(w)] = open]
    BY <1>1 DEF OpenDay
  <2>3. CASE d \in DOMAIN opening
    <3>1. opening[d] \in [Accounts -> Nat \cup {-1}]
      BY <1>0, <2>3, ElementOfSeq
    <3>2. open \in Nat \cup {-1}
      BY <2>1, <3>1
    <3>3. opening' = [opening EXCEPT ![d] = [opening[d] EXCEPT ![Acct(w)] = open]]
      BY <2>2
    <3> HIDE DEF open, d
    <3>4. [opening[d] EXCEPT ![Acct(w)] = open] \in [Accounts -> Nat \cup {-1}]
      BY <3>1, <3>2
    <3> QED BY <1>0, <2>3, <3>3, <3>4, ExceptSeq DEF OpeningTypeOK
  <2>4. CASE d \notin DOMAIN opening
    <3>1. opening' = opening
      BY <1>0, <2>2, <2>4
    <3> QED BY <1>0, <3>1 DEF OpeningTypeOK
  <2> QED BY <2>3, <2>4
<1>2. ASSUME NEW w \in Workers, Act(w), ~OpenDay(w) PROVE UNCHANGED opening
  BY <1>2 DEF Act, Step, StartCycle, PlaceManually, Skip, Signal, Finish,
     CheckDuplicate, InsertOrder, ReadPositions, MarkPosition, CheckDailyLoss,
     CheckPositionSize, Reject, Quote, BuyRead, BuyCash, BuyPos, SellPos, SellRead,
     SellCash, Commit, SaveFill, CreateTrade, AbortDeadlock, Crash
<1>3. CASE Environment \/ UNCHANGED vars
  <2>1. UNCHANGED opening \/ opening' = Append(opening, [a \in Accounts |-> -1])
    BY <1>3 DEF Environment, SyncPrice, WindowPasses, NewDay, EditAccount, LoadOrder,
       CancelOrder
  <2>2. [a \in Accounts |-> -1] \in [Accounts -> Nat \cup {-1}]
    OBVIOUS
  <2> QED BY <1>0, <2>1, <2>2, AppendProperties DEF OpeningTypeOK
<1> QED BY <1>0, <1>1, <1>2, <1>3 DEF Next, Act, OpeningTypeOK

\* What FreshInv and ReadInv say holds after every step, for one process.
LEMMA ReadsPreserved ==
  ASSUME Undisturbed, AccountsApart, FreshInv, ReadInv, OpeningTypeOK, [Next]_vars
  PROVE  FreshInv' /\ ReadInv' /\ OpeningTypeOK'
<1>0. IInv /\ OneProcess
  BY DEF FreshInv, LedgerInv, Undisturbed
<1>1. FreshInv'
  BY FreshPreserved
<1>2. OpeningTypeOK'
  BY <1>0, OpeningTypePreserved
<1>3. \A w \in Workers : FreshPositions(w)'
  BY <1>0, PositionsStayFresh
<1>4. \A w \in Workers : KnownDay(w)' /\ opening' # << >>
  BY <1>0, DaysStayKnown
<1>5. (\A w \in Workers : FreshPositions(w) /\ KnownDay(w))'
  BY <1>3, <1>4
<1>6. opening' # << >>
  <2>1. CASE Workers = {}
    <3>1. Environment \/ UNCHANGED vars
      BY <2>1 DEF Next
    <3>2. UNCHANGED opening \/ opening' = Append(opening, [a \in Accounts |-> -1])
      BY <3>1 DEF Environment, SyncPrice, WindowPasses, NewDay, EditAccount, LoadOrder,
         CancelOrder
    <3> QED BY <3>2, AppendProperties DEF ReadInv, OpeningTypeOK
  <2>2. CASE Workers # {}
    BY <1>4, <2>2
  <2> QED BY <2>1, <2>2
<1> QED BY <1>1, <1>2, <1>5, <1>6 DEF ReadInv

(***************************************************************************)
(* max_position_size_pct, under those conditions: the position a BUY leads *)
(* to when it passes the check is within the limit of the account's        *)
(* committed equity, at the closes the check read; the runs show what      *)
(* strategies that share an account can do.                                *)
(***************************************************************************)
THEOREM ExposureIsBounded ==
  ASSUME Undisturbed, AccountsApart
  PROVE  Spec => ApprovedExposureBounded
<1>1. FreshInv /\ ReadInv /\ OpeningTypeOK /\ [Next]_vars
        => FreshInv' /\ ReadInv' /\ OpeningTypeOK'
  BY ReadsPreserved
<1>2. Init => FreshInv /\ ReadInv /\ OpeningTypeOK
  BY InitFresh, InitReads
<1> DEFINE Bounded == \A w \in Workers :
               (pc[w] = "limit" /\ pc'[w] = "quote" /\ req[w].side = "BUY") =>
                   (pos[Holding(w)] + req[w].qty) * seen[w] * 100
                       <= TrueEquity(w) * PosPct
<1>3. FreshInv /\ ReadInv /\ [Next]_vars => [Bounded]_vars
  <2> SUFFICES ASSUME FreshInv, ReadInv, [Next]_vars, NEW w \in Workers,
                      pc[w] = "limit", pc'[w] = "quote", req[w].side = "BUY"
               PROVE  (pos[Holding(w)] + req[w].qty) * seen[w] * 100
                         <= TrueEquity(w) * PosPct
    OBVIOUS
  <2>1. SizeAllows(w)
    BY VerdictIsOwn DEF FreshInv, LedgerInv
  <2>2. WithinLimit(pos[Holding(w)] + req[w].qty, seen[w], Equity(w))
    BY <2>1 DEF SizeAllows
  <2>3. Equity(w) = TrueEquity(w)
    BY EquityIsTrue
  <2> QED BY <2>2, <2>3 DEF WithinLimit
<1> QED BY <1>1, <1>2, <1>3, PTL DEF Spec, ApprovedExposureBounded

(***************************************************************************)
(* Every variable keeps its type, the snapshots of the opening equity with *)
(* it: no equity the risk engine judges or stores is ever negative.        *)
(***************************************************************************)
THEOREM Types == Spec => []TypeOK
<1>1. Spec => []IInv
  BY Invariant
<1>2. Init => OpeningTypeOK
  BY InitReads
<1>3. IInv /\ OpeningTypeOK /\ [Next]_vars => OpeningTypeOK'
  BY OpeningTypePreserved
<1>4. IInv /\ OpeningTypeOK => TypeOK
  BY DEF IInv, TypeOK
<1> QED BY <1>1, <1>2, <1>3, <1>4, PTL DEF Spec

(***************************************************************************)
(* max_daily_loss_pct, when one process places the orders, nobody edits an *)
(* account and no two strategies share one: no order of an account whose   *)
(* committed equity, at the closes the check read, has lost LossPct since  *)
(* the snapshot of the day the check began on passes.                      *)
(***************************************************************************)
THEOREM LossesStop ==
  ASSUME Undisturbed, AccountsApart
  PROVE  Spec => LossStopHolds
<1>1. FreshInv /\ ReadInv /\ OpeningTypeOK /\ [Next]_vars
        => FreshInv' /\ ReadInv' /\ OpeningTypeOK'
  BY ReadsPreserved
<1>2. Init => FreshInv /\ ReadInv /\ OpeningTypeOK
  BY InitFresh, InitReads
<1> DEFINE Open(w) == opening[check[w].day][Acct(w)]
           Stops == \A w \in Workers :
               (pc[w] = "stop" /\ pc'[w] \in {"equity", "limit"} /\ Open(w) > 0) =>
                   TrueEquity(w) * 100 > (100 - LossPct) * Open(w)
<1>3. FreshInv /\ ReadInv /\ OpeningTypeOK /\ [Next]_vars => [Stops]_vars
  <2> SUFFICES ASSUME FreshInv, ReadInv, OpeningTypeOK, [Next]_vars, NEW w \in Workers,
                      pc[w] = "stop", pc'[w] \in {"equity", "limit"}, Open(w) > 0
               PROVE  TrueEquity(w) * 100 > (100 - LossPct) * Open(w)
    OBVIOUS
  <2>0. /\ IInv /\ StoreTypeOK /\ ReadsTypeOK /\ RequestOK /\ pc \in [Workers -> PCs]
        /\ check[w].day \in DOMAIN opening
    BY DEF FreshInv, LedgerInv, IInv, StoreTypeOK, ProcsTypeOK, ReadInv, KnownDay
  <2>1. CheckDailyLoss(w)
    BY <2>0, VerdictIsOwn
  <2>2. Acct(w) \in Accounts /\ Equity(w) \in Nat
    BY <2>0, RequestFacts, EquityType
  <2>3. opening[check[w].day] \in [Accounts -> Nat \cup {-1}]
    BY <2>0, ElementOfSeq DEF OpeningTypeOK
  <2>4. Open(w) \in Nat
    BY <2>2, <2>3
  <2>5. ~LossReached(Open(w), Equity(w))
    BY <2>0, <2>1 DEF CheckDailyLoss
  <2>6. Equity(w) = TrueEquity(w)
    BY EquityIsTrue
  <2> DEFINE open == Open(w)
  <2>7. open \in Nat /\ open > 0 /\ ~LossReached(open, Equity(w))
    BY <2>4, <2>5
  <2> HIDE DEF open
  <2>8. (open - Equity(w)) * 100 < LossPct * open
    <3>1. LossPct \in Nat
      BY ConstantsOK
    <3>2. ~ ((open - Equity(w)) * 100 >= LossPct * open)
      BY <2>7 DEF LossReached
    <3>3. (open - Equity(w)) * 100 \in Int /\ LossPct * open \in Int
      BY <2>2, <2>7, <3>1
    <3> QED BY <3>2, <3>3
  <2>9. ASSUME NEW l \in Nat, NEW o \in Nat, NEW e \in Nat, (o - e) * 100 < l * o
        PROVE  e * 100 > (100 - l) * o
    <3>1. (100 - l) * o = 100 * o - l * o
      OBVIOUS
    <3>2. l * o \in Nat
      OBVIOUS
    <3> QED BY <2>9, <3>1, <3>2
  <2>10. Equity(w) * 100 > (100 - LossPct) * open
    BY <2>2, <2>7, <2>8, <2>9, ConstantsOK
  <2> QED BY <2>6, <2>10 DEF open
<1> QED BY <1>1, <1>2, <1>3, PTL DEF Spec, LossStopHolds
=============================================================================
