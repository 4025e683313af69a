-------------------------- MODULE SpotExposureProofs --------------------------
(***************************************************************************)
(* The third inductive invariant of SpotExecution, on top of those of        *)
(* SpotExecutionProofs: what is sold and what is live at each step, what the *)
(* process thread knows of it, and what its entries are armed on.  From it:  *)
(* the account never has two live orders, a closed trade has none, a live    *)
(* order is named by an active row whenever entries are armed, a sale is     *)
(* prepared beside no other order, and an entry only when every earlier      *)
(* intent is certain.                                                        *)
(***************************************************************************)
EXTENDS SpotExecutionProofs

-----------------------------------------------------------------------------
(***************************************************************************)
(* The intents, the orders and the BTC.                                     *)
(***************************************************************************)
GuardOps == {"PROTECTION", "PARTIAL_FILL_PROTECTION", "REPLACE_PROTECTION"}

IsEntry(i) == intents[i].opn = "ENTRY"
IsSale(i)  == intents[i].opn \in SellOps
IsGuard(i) == intents[i].opn \in GuardOps

\* No entry was recorded after intent i.
Current(i) == \A k \in Ids : IsEntry(k) => k <= i

\* Intents are numbered without a gap; only POST operations are transmitted, a plan
\* never; a CONFIRMED one has its order.
KindInv ==
  /\ \A i, j \in Ids : intents[j].st # "NONE" /\ i < j => intents[i].st # "NONE"
  /\ \A i \in Ids :
       /\ posts[i] # 0 => intents[i].opn \in PostOps
       /\ intents[i].opn = "REPLACE_PROTECTION" => intents[i].st \in {"PREPARED", "ABORTED"}
       /\ intents[i].opn \in PostOps /\ intents[i].st = "CONFIRMED" => Exists(i)
       /\ ~Exists(i) => book[i].sold = 0

\* What is live or unresolved came with the last entry or after it; a sale or a plan
\* follows the entry of its trade, whose BUY is over.
CurrentInv ==
  /\ \A i \in Ids : Live(i) \/ i \in Unresolved => Current(i)
  /\ \A j \in Ids : IsSale(j) \/ IsGuard(j) =>
       \E e \in Ids : EntryOf(e, intents[j].trade) /\ e < j /\ (Current(j) => Current(e))
  /\ \A j, e \in Ids : (IsSale(j) \/ IsGuard(j)) /\ Current(j) /\ EntryOf(e, intents[j].trade) =>
       /\ Exists(e) /\ book[e].ph # "working"
       /\ IsSale(j) => book[e].ph = "done"

\* The BTC that open SELL legs lock, and the bare BTC of a working BUY.
StockInv ==
  /\ btc.free >= 0
  /\ \A i \in Ids : book[i].ph = "protecting" =>
       /\ btc.locked = book[i].qty - book[i].sold /\ book[i].sold < book[i].qty
       /\ IsEntry(i) \/ IsGuard(i)
       /\ IsEntry(i) => book[i].bought = book[i].qty
  /\ (\A i \in Ids : book[i].ph # "protecting") => btc.locked = 0
  /\ \A i \in Ids : book[i].ph = "working" =>
       IsEntry(i) /\ book[i].bought <= btc.free /\ book[i].bought < book[i].qty

\* The account holds no more than the last entry bought and no sale since has sold,
\* and no more than any plan or protection since was for.
LimitInv ==
  /\ \A e, j \in Ids : IsEntry(e) /\ Current(e) /\ e <= j => BtcTotal <= book[e].bought - book[j].sold
  /\ \A j \in Ids : IsGuard(j) /\ Current(j) => BtcTotal <= intents[j].qty - book[j].sold

Core == KindInv /\ CurrentInv /\ StockInv /\ LimitInv /\ OneLiveOrder

-----------------------------------------------------------------------------
LEMMA OpKinds ==
  /\ SellOps = {"PROTECTION", "PARTIAL_FILL_PROTECTION", "EMERGENCY_EXIT"}
  /\ \A o \in PostOps : o = "ENTRY" \/ o \in SellOps
  /\ \A o \in SellOps : o = "EMERGENCY_EXIT" \/ o \in GuardOps
  /\ SellOps \cap CancelOps = {} /\ GuardOps \cap CancelOps = {} /\ "ENTRY" \notin SellOps \cup GuardOps
BY DEF SellOps, PostOps, GuardOps, CancelOps

LEMMA OneEntry ==
  ASSUME NEW i \in Ids, NEW e \in Ids, IsEntry(i), IsEntry(e), Current(i), Current(e)
  PROVE  i = e
BY IdFacts DEF Current

LEMMA OrderKind ==
  ASSUME IInv, Core, NEW i \in Ids, Exists(i) PROVE IsEntry(i) \/ IsSale(i)
<1>1. posts[i] = 1
  BY DEF IInv, LedgerInv
<1> QED
  BY <1>1, OpKinds DEF Core, KindInv, IsEntry, IsSale

\* No BUY works any more once a sale or a plan for its BTC is recorded.
LEMMA NoneWorking ==
  ASSUME Core, NEW j \in Ids, IsSale(j) \/ IsGuard(j), Current(j), NEW i \in Ids
  PROVE  book[i].ph # "working"
<1>1. PICK e \in Ids : EntryOf(e, intents[j].trade) /\ Current(e)
  BY DEF Core, CurrentInv
<1>2. book[e].ph # "working" /\ IsEntry(e)
  BY <1>1 DEF Core, CurrentInv, EntryOf, IsEntry
<1>3. ASSUME book[i].ph = "working" PROVE FALSE
  <2>1. IsEntry(i) /\ Current(i)
    BY <1>3 DEF Core, StockInv, CurrentInv, Live
  <2> QED
    BY <1>1, <1>2, <1>3, <2>1, OneEntry
<1> QED
  BY <1>3

\* Open SELL legs lock all there is.
LEMMA LockedAll ==
  ASSUME IInv, BookInv, Core, NEW i \in Ids, book[i].ph = "protecting"
  PROVE  btc.free = 0 /\ BtcTotal > 0 /\ Current(i)
<1>1. /\ btc.free \in Int /\ btc.locked \in Int /\ book[i].qty \in Nat /\ book[i].sold \in Nat
      /\ book[i].bought \in Nat /\ i \in Nat
  BY OrderType, IdFacts DEF IInv
<1>2. Current(i)
  BY DEF Core, CurrentInv, Live
<1>3. /\ btc.free >= 0 /\ btc.locked = book[i].qty - book[i].sold /\ book[i].sold < book[i].qty
      /\ IsEntry(i) \/ IsGuard(i)
      /\ IsEntry(i) => book[i].bought = book[i].qty
  BY DEF Core, StockInv
<1>6. book[i].qty = intents[i].qty
  BY OrderOfIntent DEF IInv, Exists
<1>4. CASE IsEntry(i)
  <2>1. btc.free + btc.locked <= book[i].bought - book[i].sold
    BY <1>1, <1>2, <1>4 DEF Core, LimitInv, BtcTotal
  <2> QED
    BY <1>1, <1>2, <1>3, <1>4, <2>1 DEF BtcTotal
<1>5. CASE IsGuard(i)
  <2>1. btc.free + btc.locked <= intents[i].qty - book[i].sold
    BY <1>2, <1>5 DEF Core, LimitInv, BtcTotal
  <2> QED
    BY <1>1, <1>2, <1>3, <1>6, <2>1 DEF BtcTotal
<1> QED
  BY <1>3, <1>4, <1>5

\* Free BTC means that no SELL leg is open.
LEMMA FreeIdle ==
  ASSUME IInv, BookInv, Core, btc.free > 0
  PROVE  btc.locked = 0 /\ BtcTotal = btc.free /\ \A i \in Ids : book[i].ph # "protecting"
<1>1. btc.free \in Int
  BY DEF IInv, TypeOK, ExchangeTypeOK
<1>2. \A i \in Ids : book[i].ph # "protecting"
  BY <1>1, LockedAll
<1>3. btc.locked = 0
  BY <1>2 DEF Core, StockInv
<1> QED
  BY <1>1, <1>2, <1>3 DEF BtcTotal

\* An account without BTC, after the last entry stopped working, has no live order.
LEMMA Flat ==
  ASSUME IInv, BookInv, Core, BtcTotal <= 0, NEW e \in Ids, IsEntry(e), Current(e), book[e].ph # "working"
  PROVE  \A i \in Ids : ~Live(i)
<1>1. ASSUME NEW i \in Ids, Live(i) PROVE FALSE
  <2>1. book[i].ph # "protecting"
    BY LockedAll, OrderType DEF IInv, BtcTotal
  <2>2. book[i].ph = "working"
    BY <1>1, <2>1 DEF Live
  <2>3. IsEntry(i) /\ Current(i)
    BY <1>1, <2>2 DEF Core, StockInv, CurrentInv
  <2> QED
    BY <2>2, <2>3, OneEntry
<1> QED
  BY <1>1

-----------------------------------------------------------------------------
(***************************************************************************)
(* What the matching engine does to orders and balance.                     *)
(***************************************************************************)
Others(i) == \A j \in Ids \ {i} : book'[j] = book[j]

LEMMA BuyFillFacts ==
  ASSUME TypeOK, NEW i \in Ids, BuyFill(i)
  PROVE  /\ book[i].ph = "working" /\ Others(i)
         /\ book'[i].bought = book[i].bought + 1 /\ book'[i].sold = book[i].sold
         /\ book'[i].qty = book[i].qty
         /\ IF book[i].bought + 1 = book[i].qty
              THEN /\ book'[i].ph = "protecting"
                   /\ btc'.free = btc.free + 1 - book[i].qty /\ btc'.locked = btc.locked + book[i].qty
              ELSE book'[i].ph = "working" /\ btc'.free = btc.free + 1 /\ btc'.locked = btc.locked
<1> DEFINE o == book[i]
<1>1. /\ book \in [Ids -> Order] /\ o \in Order /\ o.ph = "working"
      /\ btc \in [free : Int, locked : Int]
  BY DEF TypeOK, ExchangeTypeOK, BuyFill
<1>2. CASE o.bought + 1 = o.qty
  <2>1. /\ book' = [book EXCEPT ![i] = [o EXCEPT !.bought = o.bought + 1, !.ph = "protecting"]]
        /\ btc' = [free |-> btc.free + 1 - o.qty, locked |-> btc.locked + o.qty]
    BY <1>1, <1>2 DEF BuyFill, Order
  <2>2. book'[i] = [o EXCEPT !.bought = o.bought + 1, !.ph = "protecting"] /\ Others(i)
    BY <1>1, <2>1 DEF Others
  <2> HIDE DEF o
  <2>3. /\ book'[i].bought = o.bought + 1 /\ book'[i].sold = o.sold /\ book'[i].qty = o.qty
        /\ book'[i].ph = "protecting"
    BY <1>1, <2>2 DEF Order
  <2> QED
    BY <1>1, <1>2, <2>1, <2>2, <2>3 DEF o
<1>3. CASE o.bought + 1 # o.qty
  <2>1. /\ book' = [book EXCEPT ![i] = [o EXCEPT !.bought = o.bought + 1]]
        /\ btc' = [btc EXCEPT !.free = btc.free + 1]
    BY <1>1, <1>3 DEF BuyFill, Order
  <2>2. book'[i] = [o EXCEPT !.bought = o.bought + 1] /\ Others(i)
    BY <1>1, <2>1 DEF Others
  <2> HIDE DEF o
  <2>3. /\ book'[i].bought = o.bought + 1 /\ book'[i].sold = o.sold /\ book'[i].qty = o.qty
        /\ book'[i].ph = "working"
    BY <1>1, <2>2 DEF Order
  <2>4. btc'.free = btc.free + 1 /\ btc'.locked = btc.locked
    BY <1>1, <2>1
  <2> QED
    BY <1>1, <1>3, <2>2, <2>3, <2>4 DEF o
<1> QED
  BY <1>2, <1>3

LEMMA SellFillFacts ==
  ASSUME TypeOK, NEW i \in Ids, SellFill(i)
  PROVE  /\ book[i].ph = "protecting" /\ Others(i)
         /\ book'[i].bought = book[i].bought /\ book'[i].sold = book[i].sold + 1
         /\ book'[i].qty = book[i].qty
         /\ book'[i].ph = IF book[i].sold + 1 = book[i].qty THEN "done" ELSE "protecting"
         /\ btc'.free = btc.free /\ btc'.locked = btc.locked - 1
<1> DEFINE ph == IF book[i].sold + 1 = book[i].qty THEN "done" ELSE book[i].ph
<1>1. /\ book \in [Ids -> Order] /\ book[i] \in Order /\ book[i].ph = "protecting"
      /\ btc \in [free : Int, locked : Int]
  BY DEF TypeOK, ExchangeTypeOK, SellFill
<1>2. /\ book' = [book EXCEPT ![i] = [book[i] EXCEPT !.sold = book[i].sold + 1, !.ph = ph]]
      /\ btc' = [btc EXCEPT !.locked = btc.locked - 1]
  BY DEF SellFill
<1>3. ph = IF book[i].sold + 1 = book[i].qty THEN "done" ELSE "protecting"
  BY <1>1
<1> HIDE DEF ph
<1>4. book'[i] = [book[i] EXCEPT !.sold = book[i].sold + 1, !.ph = ph] /\ Others(i)
  BY <1>1, <1>2 DEF Others
<1>5. /\ book'[i].bought = book[i].bought /\ book'[i].sold = book[i].sold + 1
      /\ book'[i].qty = book[i].qty /\ book'[i].ph = ph
  BY <1>1, <1>4 DEF Order
<1>6. btc'.free = btc.free /\ btc'.locked = btc.locked - 1
  BY <1>1, <1>2
<1> QED
  BY <1>1, <1>3, <1>4, <1>5, <1>6

LEMMA TerminateFacts ==
  ASSUME TypeOK, NEW i \in Ids, Terminate(i)
  PROVE  /\ Others(i)
         /\ book'[i].bought = book[i].bought /\ book'[i].sold = book[i].sold
         /\ book'[i].qty = book[i].qty /\ book'[i].ph = "done"
         /\ IF book[i].ph = "protecting"
              THEN /\ btc'.free = btc.free + (book[i].qty - book[i].sold)
                   /\ btc'.locked = btc.locked - (book[i].qty - book[i].sold)
              ELSE btc' = btc
<1>1. book \in [Ids -> Order] /\ book[i] \in Order
  BY DEF TypeOK, ExchangeTypeOK
<1>2. book' = [book EXCEPT ![i] = [book[i] EXCEPT !.ph = "done"]]
  BY DEF Terminate
<1>3. book'[i] = [book[i] EXCEPT !.ph = "done"] /\ Others(i)
  BY <1>1, <1>2 DEF Others
<1>4. /\ book'[i].bought = book[i].bought /\ book'[i].sold = book[i].sold
      /\ book'[i].qty = book[i].qty /\ book'[i].ph = "done"
  BY <1>1, <1>3 DEF Order
<1> QED
  BY <1>3, <1>4 DEF Terminate

\* The POST of intent i is executed.
Lands(i) == /\ Acceptable(i, KindOf(i), intents[i].qty) /\ Accept(i, KindOf(i), intents[i].qty)
            /\ i \in Unresolved /\ intents[i].opn \in PostOps

LEMMA LandFacts ==
  ASSUME TypeOK, NEW i \in Ids, Lands(i)
  PROVE  /\ ~Exists(i) /\ Others(i) /\ book'[i].bought = 0
         /\ book'[i].qty = intents[i].qty
         /\ \/ /\ IsEntry(i) /\ btc' = btc
               /\ book'[i].ph = "working" /\ book'[i].sold = 0
            \/ /\ IsSale(i) /\ IsGuard(i) /\ 0 < intents[i].qty /\ intents[i].qty <= btc.free
               /\ book'[i].ph = "protecting" /\ book'[i].sold = 0
               /\ btc'.free = btc.free - intents[i].qty /\ btc'.locked = btc.locked + intents[i].qty
            \/ /\ intents[i].opn = "EMERGENCY_EXIT" /\ intents[i].qty <= btc.free
               /\ book'[i].ph = "done" /\ book'[i].sold \in 0 .. intents[i].qty
               /\ btc'.free = btc.free - book'[i].sold /\ btc'.locked = btc.locked
<1> DEFINE q == intents[i].qty
<1>1. book \in [Ids -> Order] /\ btc \in [free : Int, locked : Int] /\ q \in Nat
  BY DEF TypeOK, ExchangeTypeOK, Intent
<1>2. ~Exists(i)
  BY DEF Lands, Acceptable
<1> HIDE DEF q
<1>3. CASE intents[i].opn = "ENTRY"
  <2>1. KindOf(i) = "entry"
    BY <1>3 DEF KindOf
  <2>2. /\ book' = [book EXCEPT ![i] = [kind |-> "entry", ph |-> "working", qty |-> q, bought |-> 0, sold |-> 0]]
        /\ btc' = btc
    BY <2>1 DEF Lands, Accept, q
  <2> QED
    BY <1>1, <1>2, <1>3, <2>2 DEF Others, IsEntry, q
<1>4. CASE intents[i].opn \in {"PROTECTION", "PARTIAL_FILL_PROTECTION"}
  <2>1. KindOf(i) = "protection"
    BY <1>4 DEF KindOf
  <2>2. /\ book' = [book EXCEPT ![i] = [kind |-> "protection", ph |-> "protecting", qty |-> q,
                                        bought |-> 0, sold |-> 0]]
        /\ btc' = [free |-> btc.free - q, locked |-> btc.locked + q]
        /\ 0 < q /\ q <= btc.free
    BY <2>1 DEF Lands, Accept, Acceptable, q
  <2>3. IsSale(i) /\ IsGuard(i)
    BY <1>4, OpKinds DEF IsSale, IsGuard, GuardOps
  <2> QED
    BY <1>1, <1>2, <2>2, <2>3 DEF Others, q
<1>5. CASE intents[i].opn = "EMERGENCY_EXIT"
  <2>1. KindOf(i) = "emergency"
    BY <1>5 DEF KindOf
  <2>2. PICK x \in 0 .. q :
          /\ book' = [book EXCEPT ![i] = [kind |-> "emergency", ph |-> "done", qty |-> q,
                                          bought |-> 0, sold |-> x]]
          /\ btc' = [btc EXCEPT !.free = @ - x]
    BY <2>1 DEF Lands, Accept, q
  <2>3. 0 < q /\ q <= btc.free
    BY <2>1 DEF Lands, Acceptable, q
  <2> QED
    BY <1>1, <1>2, <1>5, <2>2, <2>3 DEF Others, q
<1>6. intents[i].opn \in {"ENTRY", "PROTECTION", "PARTIAL_FILL_PROTECTION", "EMERGENCY_EXIT"}
  BY DEF Lands, PostOps
<1> QED
  BY <1>3, <1>4, <1>5, <1>6

MarketStep(i) == BuyFill(i) \/ SellFill(i) \/ (Live(i) /\ Terminate(i)) \/ Lands(i)

\* No step but a BUY fill adds BTC, and what the account holds and a sale has sold
\* never add up to more than before.
Ebb == \A j \in Ids : /\ book[j].sold <= book'[j].sold /\ book'[j].bought = book[j].bought
                      /\ BtcTotal' + book'[j].sold <= BtcTotal + book[j].sold

Flow(i) == /\ BtcTotal' = BtcTotal + 1
           /\ \A j \in Ids : /\ book'[j].sold = book[j].sold
                             /\ book'[j].bought = IF j = i THEN book[j].bought + 1 ELSE book[j].bought

LEMMA MarketEffect ==
  ASSUME TypeOK, LedgerInv, BookInv, KindInv, NEW i \in Ids, MarketStep(i)
  PROVE  IF book[i].ph = "working" /\ BuyFill(i) THEN Flow(i) ELSE Ebb
<1>1. /\ btc.free \in Int /\ btc.locked \in Int
      /\ \A j \in Ids : book[j].sold \in Nat /\ book[j].bought \in Nat /\ book[j].qty \in Nat
  BY OrderType
<1>2. CASE BuyFill(i)
  <2>1. Flow(i)
    BY <1>1, <1>2, BuyFillFacts DEF Flow, Others, BtcTotal
  <2> QED
    BY <1>2, <2>1, BuyFillFacts
<1>3. CASE SellFill(i)
  <2>1. book[i].ph = "protecting" /\ Ebb
    BY <1>1, <1>3, SellFillFacts DEF Ebb, Others, BtcTotal
  <2> QED
    BY <2>1
<1>4. CASE Live(i) /\ Terminate(i) /\ ~BuyFill(i)
  <2>1. Ebb
    BY <1>1, <1>4, TerminateFacts DEF Ebb, Others, BtcTotal
  <2> QED
    BY <1>4, <2>1
<1>5. CASE Lands(i)
  <2>1. book[i].bought = 0 /\ book[i].sold = 0 /\ book[i].ph # "working"
    BY <1>5, LandFacts, OrderOfIntent DEF KindInv, Exists
  <2>2. intents[i].qty \in Nat
    BY DEF TypeOK, Intent
  <2>3. Ebb
    BY <1>1, <1>5, <2>1, <2>2, LandFacts DEF Ebb, Others, BtcTotal
  <2> QED
    BY <2>1, <2>3
<1> QED
  BY <1>2, <1>3, <1>4, <1>5 DEF MarketStep

\* An order whose BUY is over stays so, and a new live order is one that lands.
LEMMA MarketOrders ==
  ASSUME TypeOK, NEW i \in Ids, MarketStep(i)
  PROVE  \A e \in Ids :
           /\ Exists(e) /\ book[e].ph # "working" =>
                Exists(e)' /\ book'[e].ph # "working" /\ book'[e].bought = book[e].bought
           /\ book[e].ph = "done" => book'[e].ph = "done"
           /\ Live(e)' => Live(e) \/ (e = i /\ Lands(i))
<1>1. CASE BuyFill(i)
  BY <1>1, BuyFillFacts DEF Others, Exists, Live
<1>2. CASE SellFill(i)
  BY <1>2, SellFillFacts DEF Others, Exists, Live
<1>3. CASE Live(i) /\ Terminate(i)
  BY <1>3, TerminateFacts DEF Others, Exists, Live
<1>4. CASE Lands(i)
  BY <1>4, LandFacts DEF Others, Exists, Live
<1> QED
  BY <1>1, <1>2, <1>3, <1>4 DEF MarketStep

LEMMA SameIntents ==
  ASSUME NEW i \in Ids, intents'[i].opn = intents[i].opn
  PROVE  /\ IsEntry(i)' <=> IsEntry(i)
         /\ IsSale(i)' <=> IsSale(i)
         /\ IsGuard(i)' <=> IsGuard(i)
BY DEF IsEntry, IsSale, IsGuard

LEMMA SameCurrent ==
  ASSUME \A k \in Ids : intents'[k].opn = intents[k].opn, NEW i \in Ids
  PROVE  Current(i)' <=> Current(i)
BY DEF Current, IsEntry

LEMMA MarketCurrent ==
  ASSUME TypeOK, CurrentInv, UNCHANGED intents, NEW i \in Ids, MarketStep(i)
  PROVE  CurrentInv'
<1>1. \A k \in Ids : /\ IsEntry(k)' <=> IsEntry(k)
                     /\ IsSale(k)' <=> IsSale(k)
                     /\ IsGuard(k)' <=> IsGuard(k)
                     /\ Current(k)' <=> Current(k)
                     /\ \A t : EntryOf(k, t)' <=> EntryOf(k, t)
  BY DEF IsEntry, IsSale, IsGuard, Current, EntryOf
<1>2. Unresolved' = Unresolved
  BY DEF Unresolved
<1>3. ASSUME NEW k \in Ids, Live(k)' \/ k \in Unresolved' PROVE Current(k)'
  BY <1>1, <1>2, <1>3, MarketOrders DEF CurrentInv, Lands
<1>4. ASSUME NEW j \in Ids, (IsSale(j) \/ IsGuard(j))'
      PROVE  \E e \in Ids : EntryOf(e, intents[j].trade)' /\ e < j /\ (Current(j) => Current(e))'
  BY <1>1, <1>4 DEF CurrentInv
<1>5. ASSUME NEW j \in Ids, NEW e \in Ids, ((IsSale(j) \/ IsGuard(j)) /\ Current(j) /\ EntryOf(e, intents[j].trade))'
      PROVE  (Exists(e) /\ book[e].ph # "working" /\ (IsSale(j) => book[e].ph = "done"))'
  <2>1. /\ Exists(e) /\ book[e].ph # "working"
        /\ IsSale(j) => book[e].ph = "done"
    BY <1>1, <1>5 DEF CurrentInv, EntryOf
  <2> QED
    BY <1>1, <2>1, MarketOrders
<1> QED
  BY <1>3, <1>4, <1>5 DEF CurrentInv

LEMMA MarketLimit ==
  ASSUME IInv, BookInv, Core, TypeOK', UNCHANGED intents, NEW i \in Ids, MarketStep(i)
  PROVE  LimitInv'
<1>1. \A k \in Ids : /\ IsEntry(k)' <=> IsEntry(k)
                     /\ IsGuard(k)' <=> IsGuard(k)
                     /\ Current(k)' <=> Current(k)
  BY DEF IsEntry, IsGuard, Current
<1>2. /\ BtcTotal \in Int
      /\ \A j \in Ids : book[j].sold \in Nat /\ book[j].bought \in Nat /\ intents[j].qty \in Nat
  BY OrderType DEF IInv, TypeOK, Intent, BtcTotal, ExchangeTypeOK
<1>3. BtcTotal' \in Int /\ \A j \in Ids : book'[j].sold \in Nat
  BY DEF TypeOK, ExchangeTypeOK, Order, BtcTotal
<1>4. ASSUME NEW e \in Ids, NEW j \in Ids, (IsEntry(e) /\ Current(e))', e <= j
      PROVE  BtcTotal' <= book'[e].bought - book'[j].sold
  <2>1. BtcTotal <= book[e].bought - book[j].sold
    BY <1>1, <1>4 DEF Core, LimitInv
  <2>2. CASE Ebb
    <3>1. book'[e].bought = book[e].bought /\ BtcTotal' + book'[j].sold <= BtcTotal + book[j].sold
      BY <2>2 DEF Ebb
    <3> QED
      BY <1>2, <1>3, <2>1, <3>1
  <2>3. CASE Flow(i) /\ book[i].ph = "working"
    <3>1. IsEntry(i) /\ Current(i)
      BY <2>3 DEF Core, StockInv, CurrentInv, Live
    <3>2. i = e
      BY <1>1, <1>4, <3>1, OneEntry
    <3>3. book'[e].bought = book[e].bought + 1 /\ book'[j].sold = book[j].sold /\ BtcTotal' = BtcTotal + 1
      BY <2>3, <3>2 DEF Flow
    <3> QED
      BY <1>2, <2>1, <3>3
  <2> QED
    BY <2>2, <2>3, MarketEffect DEF IInv, Core
<1>5. ASSUME NEW j \in Ids, (IsGuard(j) /\ Current(j))'
      PROVE  BtcTotal' <= intents'[j].qty - book'[j].sold
  <2>1. BtcTotal <= intents[j].qty - book[j].sold
    BY <1>1, <1>5 DEF Core, LimitInv
  <2>2. book[i].ph # "working"
    BY <1>1, <1>5, NoneWorking
  <2>3. Ebb
    BY <2>2, MarketEffect DEF IInv, Core
  <2>4. BtcTotal' + book'[j].sold <= BtcTotal + book[j].sold
    BY <2>3 DEF Ebb
  <2> QED
    BY <1>2, <1>3, <2>1, <2>4
<1> QED
  BY <1>4, <1>5 DEF LimitInv

LEMMA MarketStock ==
  ASSUME IInv, BookInv, ShapeInv, Core, TypeOK', UNCHANGED intents, NEW i \in Ids, MarketStep(i)
  PROVE  StockInv' /\ OneLiveOrder'
<1>1. /\ btc.free \in Int /\ btc.locked \in Int
      /\ \A j \in Ids : book[j].sold \in Nat /\ book[j].bought \in Nat /\ book[j].qty \in Nat
  BY OrderType DEF IInv
<1>2. \A j \in Ids : (IsEntry(j)' <=> IsEntry(j)) /\ (IsGuard(j)' <=> IsGuard(j))
  BY DEF IsEntry, IsGuard
<1>3. /\ btc.free >= 0
      /\ \A j \in Ids : book[j].ph = "protecting" =>
           /\ btc.locked = book[j].qty - book[j].sold /\ book[j].sold < book[j].qty
           /\ IsEntry(j) \/ IsGuard(j)
           /\ IsEntry(j) => book[j].bought = book[j].qty
      /\ (\A j \in Ids : book[j].ph # "protecting") => btc.locked = 0
      /\ \A j \in Ids : book[j].ph = "working" =>
           IsEntry(j) /\ book[j].bought <= btc.free /\ book[j].bought < book[j].qty
  BY DEF Core, StockInv
<1>4. \A j, k \in Ids : Live(j) /\ Live(k) => j = k
  BY DEF Core, OneLiveOrder
\* Nothing else is live beside the order that the step is about.
<1>5. CASE Live(i) /\ ~Lands(i)
  <2>1. \A j \in Ids \ {i} : book'[j] = book[j] /\ ~Live(j)
    BY <1>4, <1>5, BuyFillFacts, SellFillFacts, TerminateFacts DEF MarketStep, Others, IInv
  <2>2. OneLiveOrder'
    BY <2>1 DEF OneLiveOrder, Live
  <2>3. CASE BuyFill(i)
    <3>1. book[i].ph = "working" /\ btc.locked = 0
      BY <1>3, <2>1, <2>3, BuyFillFacts DEF Live, IInv
    <3>2. /\ IsEntry(i) /\ book[i].bought <= btc.free /\ book[i].bought < book[i].qty
          /\ book[i].sold = 0
      <4>1. Current(i) /\ IsEntry(i)
        BY <1>3, <1>5, <3>1 DEF Core, CurrentInv
      <4>2. BtcTotal <= book[i].bought - book[i].sold
        BY <4>1, IdFacts DEF Core, LimitInv
      <4> QED
        BY <1>1, <1>3, <3>1, <4>1, <4>2 DEF BtcTotal
    <3> QED
      BY <1>1, <1>2, <2>1, <2>2, <2>3, <3>1, <3>2, BuyFillFacts DEF StockInv, Live, IInv
  <2>4. CASE SellFill(i)
    <3>1. book[i].ph = "protecting"
      BY <2>4, SellFillFacts DEF IInv
    <3>2. /\ btc.locked = book[i].qty - book[i].sold /\ book[i].sold < book[i].qty
          /\ IsEntry(i) \/ IsGuard(i)
          /\ IsEntry(i) => book[i].bought = book[i].qty
          /\ btc.free >= 0
      BY <1>3, <3>1
    <3> QED
      BY <1>1, <1>2, <2>1, <2>2, <2>4, <3>2, SellFillFacts DEF StockInv, Live, IInv
  <2>5. CASE Terminate(i)
    <3>1. \A j \in Ids : book'[j].ph \notin {"protecting", "working"}
      BY <2>1, <2>5, TerminateFacts DEF Live, IInv
    <3>2. CASE book[i].ph = "protecting"
      <4>1. btc.locked = book[i].qty - book[i].sold /\ book[i].sold < book[i].qty /\ btc.free >= 0
        BY <1>3, <3>2
      <4> QED
        BY <1>1, <2>2, <2>5, <3>1, <3>2, <4>1, TerminateFacts DEF StockInv, IInv
    <3>3. CASE book[i].ph # "protecting"
      <4>1. btc.locked = 0 /\ btc.free >= 0 /\ btc' = btc
        BY <1>3, <2>1, <2>5, <3>3, TerminateFacts DEF Live, IInv
      <4> QED
        BY <2>2, <3>1, <4>1 DEF StockInv
    <3> QED
      BY <3>2, <3>3
  <2> QED
    BY <1>5, <2>3, <2>4, <2>5 DEF MarketStep
<1>6. CASE Lands(i)
  <2>1. Others(i) /\ ~Exists(i) /\ Current(i)
    BY <1>6, LandFacts DEF Core, CurrentInv, Lands, IInv
  <2>2. \A j \in Ids : ~Live(j)
    <3>1. CASE IsEntry(i)
      <4>1. ASSUME NEW j \in Ids, Live(j) PROVE FALSE
        <5>1. Exists(j) /\ Current(j)
          BY <4>1 DEF Live, Exists, Core, CurrentInv
        <5>2. ~IsEntry(j)
          BY <2>1, <3>1, <5>1, OneEntry
        <5>3. IsSale(j)
          BY <5>1, <5>2, OrderKind
        <5>4. PICK e \in Ids : EntryOf(e, intents[j].trade) /\ Current(e)
          BY <5>1, <5>3 DEF Core, CurrentInv
        <5>5. Exists(e) /\ IsEntry(e)
          BY <5>1, <5>3, <5>4 DEF Core, CurrentInv, EntryOf, IsEntry
        <5> QED
          BY <2>1, <3>1, <5>4, <5>5, OneEntry
      <4> QED
        BY <4>1
    <3>2. CASE IsSale(i)
      <4>1. btc.free > 0
        BY <1>1, <1>6, <3>2 DEF Lands, Acceptable, KindOf, IsSale, SellOps, IInv, TypeOK, Intent
      <4>2. \A j \in Ids : book[j].ph # "working"
        BY <2>1, <3>2, NoneWorking
      <4> QED
        BY <4>1, <4>2, FreeIdle DEF Live
    <3> QED
      BY <1>6, <3>1, <3>2, OpKinds DEF Lands, IsEntry, IsSale
  <2>3. btc.locked = 0
    BY <1>3, <2>2 DEF Live
  <2>4. OneLiveOrder'
    BY <2>1, <2>2 DEF OneLiveOrder, Live, Others
  <2>5. intents[i].qty \in Nat /\ (IsEntry(i) => intents[i].qty > 0)
    BY ExchangeAssumption DEF IInv, TypeOK, Intent, ShapeInv, IsEntry
  <2>6. \A j \in Ids \ {i} : book'[j].ph \notin {"protecting", "working"}
    BY <2>1, <2>2 DEF Others, Live
  <2> QED
    BY <1>1, <1>2, <1>3, <1>6, <2>3, <2>4, <2>5, <2>6, LandFacts, OpKinds
    DEF StockInv, IInv, IsEntry, IsSale, IsGuard
<1> QED
  BY <1>5, <1>6, BuyFillFacts, SellFillFacts DEF MarketStep, Live, IInv

-----------------------------------------------------------------------------
(***************************************************************************)
(* The trade rows.  Sound(t, r) says what a row r of trade t tells of the   *)
(* BTC that the account holds, if the entry of t is the last one.           *)
(***************************************************************************)
GuardOf(t) == \E j \in Ids : IsGuard(j) /\ intents[j].trade = t

Guarded(t, r) == r.prot > 0 \/ GuardOf(t)

Dead(t) == \A i \in Ids : intents[i].trade = t => ~Live(i)

IsOpen(r) == r.lc \notin Terminal \cup {"NONE"}

NamesOf(t, r) ==
  /\ r.obj # 0 => r.ent # 0
  /\ r.ent # 0 => Exists(r.ent) /\ EntryOf(r.ent, t)
  /\ r.ent = 0 => r.filled = 0 /\ r.prot = 0
  /\ r.obj # 0 => /\ Exists(r.obj)
                  /\ \/ r.obj = r.ent
                     \/ IsGuard(r.obj) /\ IsSale(r.obj) /\ intents[r.obj].trade = t

HeldBy(t, r, e) ==
  /\ r.prot > 0 => BtcTotal <= r.prot /\ Exists(e) /\ book[e].ph # "working"
  /\ Guarded(t, r) =>
       /\ BtcTotal <= LargerOf(r.filled, r.prot)
       /\ \A j \in Ids : intents[j].opn = "EMERGENCY_EXIT" /\ intents[j].trade = t =>
            BtcTotal <= intents[j].qty - book[j].sold \/ r.filled = book[e].bought
  /\ r.lc \in Terminal /\ GuardOf(t) => BtcTotal <= 0

Sound(t, r) ==
  /\ NamesOf(t, r)
  /\ \A e \in Ids : EntryOf(e, t) => /\ IsOpen(r) => Current(e)
                                     /\ Current(e) => HeldBy(t, r, e)
  /\ r.lc \in Terminal => Dead(t)

HoldInv ==
  /\ \A i \in Ids : book[i].bought <= book[i].qty
  /\ \A t \in Trades : Sound(t, rows[t])

-----------------------------------------------------------------------------
(***************************************************************************)
(* What the main thread knows at each step.                                 *)
(***************************************************************************)
PostSteps == {"mark", "post", "lookup", "confirm", "bind"}

NoLive == \A i \in Ids : ~Live(i)

\* Of the trade and the intent that it works on.
HandInv ==
  /\ pc \in {"down", "idle", "arming", "refresh", "exits"} => op = NoOp
  /\ op.t # 0 => \A e \in Ids : EntryOf(e, op.t) => Current(e)
  /\ pc \in SubmitSteps =>
       /\ intents[op.i].opn \in PostOps
       /\ op.h \in {"partial", "stale"} => intents[op.i].opn = "PARTIAL_FILL_PROTECTION"
       /\ op.h = "emergency" => intents[op.i].opn = "EMERGENCY_EXIT"
  /\ pc = "free" \/ (op.h \in {"convert", "auto"} /\ pc \in PlanSteps) =>
       /\ intents[op.plan].opn = "REPLACE_PROTECTION" /\ intents[op.plan].trade = op.t
       /\ intents[op.plan].qty = op.q
  /\ pc = "plans" \/ op.h = "plan" => \A p \in rec.todo : intents[p].opn = "REPLACE_PROTECTION"
  /\ pc = "cancelFailed" /\ op.c = "CANCEL_PARTIAL_ENTRY" => op.h \in {"partial", "stale"}

\* Of the BTC and the orders.
SightInv ==
  /\ pc = "prepare" => Unresolved = {} /\ NoLive /\ BtcTotal <= 0 /\ ActiveRows \subseteq {op.t}
  /\ pc = "exitRow" => BtcTotal <= 0 /\ GuardOf(op.t)
  /\ pc = "partialPlace" => LET r == rows[op.t]
                            IN  r.ent # 0 /\ r.filled = book[r.ent].bought /\ BuyTerminal(r.ent)
  /\ op.h \in {"partial", "stale"} /\ op.t # 0 /\ pc # "posted" => rows[op.t].lc # "EXIT_FILLED"
  /\ pc \in PostSteps /\ op.h \in {"entry", "manual", "partial", "stale"} =>
       /\ op.t \in ActiveRows
       /\ rows[op.t].obj # 0 => book[rows[op.t].obj].ph = "done"
  /\ op.h = "emergency" =>
       /\ op.t # 0 /\ Guarded(op.t, rows[op.t]) =>
            BtcTotal <= op.q - (IF op.i = 0 THEN 0 ELSE book[op.i].sold)
       /\ pc \in PlanSteps => op.x = rows[op.t].obj /\ op.c = "CANCEL_PROTECTION"
       /\ pc = "canceled" => op.x # 0 /\ book[op.x].ph = "done"
       /\ pc \in PostSteps => rows[op.t].obj # 0 /\ book[rows[op.t].obj].ph = "done"

KnowInv == HandInv /\ SightInv

\* Of what entries may be armed on.
Covered == \E t \in ActiveRows, e \in Ids : EntryOf(e, t)

PastExits == \/ pc \in {"recStale", "recPartial", "verdict"}
             \/ InReconcile /\ op.h \in {"stale", "partial"}

OwnWork(i) == i = op.i /\ pc \in {"mark", "post", "lookup", "confirm"}

BoundOpen(i) == \E t \in ActiveRows : i \in Bound(t)

ArmInv ==
  /\ armed => /\ op.h \in {"none", "entry", "manual", "partial", "stale"} /\ pc # "ambiguous"
              /\ \A i \in Unresolved : IsCancel(i) \/ OwnWork(i)
  /\ pc = "arming" => Unresolved = {}
  /\ armed \/ pc = "arming" =>
       /\ (BtcTotal <= 0 /\ NoLive) \/ Covered
       /\ \A i \in Ids : Live(i) => BoundOpen(i) \/ (i = op.i /\ pc \in {"lookup", "confirm", "bind"})
  /\ armed \/ pc = "arming" \/ (PastExits /\ rec.ok) =>
       \A j \in Ids : intents[j].opn = "EMERGENCY_EXIT" /\ intents[j].st = "CONFIRMED" =>
         intents[j].trade \notin ActiveRows

\* Which steps and handlers no reconciliation is waiting for, and which steps a handler is.
TurnInv ==
  /\ pc \in {"down", "idle", "arming", "tick", "submit", "prepare"}
       \/ op.h \in {"entry", "manual", "convert", "auto", "emergency"} => ~InReconcile
  /\ pc \in SubmitSteps => op.h # "none"

EInv == Core /\ HoldInv /\ KnowInv /\ ArmInv /\ TurnInv

-----------------------------------------------------------------------------
(***************************************************************************)
(* KindInv, CurrentInv, StockInv and LimitInv, step by step.                *)
(***************************************************************************)
SubmitOp == pc \in SubmitSteps => op.i \in Ids /\ intents[op.i].opn \in PostOps

LEMMA OpOfSubmit == ASSUME RInv, HandInv PROVE SubmitOp
BY DEF RInv, SubmitInv, HandInv, SubmitOp

\* What moves an order or the balance: the matching engine, on its own or called by the
\* thread; it leaves everything else.
LEMMA MarketCauses ==
  ASSUME IInv, RInv, KindInv, SubmitOp, Next
  PROVE  \/ UNCHANGED <<book, btc>>
         \/ /\ UNCHANGED <<intents, rows, latest, armed, paused, rec>>
            /\ \E i \in Ids : /\ MarketStep(i)
                              /\ \/ UNCHANGED <<pc, op>> /\ (Lands(i) => posts[i] # 0)
                                 \/ PostAccepted /\ i = op.i
                                 \/ DeleteAccepted
<1>1. TypeOK /\ LedgerInv /\ BookInv /\ StepInv
  BY DEF IInv, ControlInv, RInv
<1>2. CASE Exchange
  <2>1. UNCHANGED <<intents, rows, latest, armed, paused, rec, pc, op>>
    BY <1>2 DEF Exchange, durableVars
  <2>2. ASSUME NEW i \in Ids, BuyFill(i) \/ SellFill(i) \/ ExpireEntry(i)
        PROVE  MarketStep(i) /\ ~Lands(i)
    BY <2>2 DEF MarketStep, Live, ExpireEntry, Lands, Acceptable, BuyFill, SellFill, Exists
  <2>3. ASSUME NEW m \in wire, LandPost(m)
        PROVE  UNCHANGED <<book, btc>> \/ (m.id \in Ids /\ Lands(m.id) /\ posts[m.id] # 0)
    <3>1. CASE Acceptable(m.id, m.kind, m.qty)
      <4>1. m.id \in Ids /\ ~Exists(m.id) /\ posts[m.id] = 1 /\ m.kind = KindOf(m.id) /\ m.qty = intents[m.id].qty
        BY <1>1, <2>3, WireFacts DEF LandPost
      <4>2. intents[m.id].opn \in PostOps
        BY <4>1 DEF KindInv
      <4>3. Present(m.id)
        BY <2>3 DEF LandPost, Present, OnWire
      <4>4. intents[m.id].st \in Landed
        BY <1>1, <4>1, <4>3, PresentFacts
      <4>5. intents[m.id].st # "CONFIRMED"
        BY <4>1, <4>2 DEF KindInv
      <4>6. m.id \in Unresolved
        BY <4>1, <4>4, <4>5 DEF Landed, Unresolved
      <4> QED
        BY <2>3, <3>1, <4>1, <4>2, <4>6 DEF LandPost, Lands
    <3> QED
      BY <2>3, <3>1 DEF LandPost
  <2>4. ASSUME NEW m \in wire, LandDelete(m)
        PROVE  UNCHANGED <<book, btc>> \/ (m.id \in Ids /\ Live(m.id) /\ Terminate(m.id))
    BY <1>1, <2>4 DEF LandDelete, TypeOK, ExchangeTypeOK, Request
  <2>5. ASSUME NEW i \in Ids, Live(i), Terminate(i) PROVE MarketStep(i) /\ ~Lands(i)
    BY <2>5 DEF MarketStep, Lands, Acceptable, Live, Exists
  <2> QED
    BY <1>2, <2>1, <2>2, <2>3, <2>4, <2>5 DEF Exchange, ExchangeStep, MarketStep
<1>3. CASE PostAccepted
  <2>1. op.i \in Ids /\ intents[op.i].st = "SUBMITTING" /\ intents[op.i].opn \in PostOps
    BY <1>1, <1>3 DEF PostAccepted, StepInv, SubmitOp, SubmitSteps
  <2>2. Lands(op.i)
    BY <1>3, <2>1 DEF PostAccepted, Lands, Unresolved
  <2> QED
    BY <1>3, <2>1, <2>2 DEF PostAccepted, MarketStep, PostUnchanged, KeepRows, KeepArming
<1>4. CASE DeleteAccepted
  <2>1. op.x \in Ids
    BY <1>1, <1>4 DEF DeleteAccepted, StepInv
  <2> QED
    BY <1>4, <2>1 DEF DeleteAccepted, MarketStep, CancelUnchanged, KeepRows, KeepArming
<1>5. CASE PostUnanswered \/ DeleteFails
  BY <1>5 DEF PostUnanswered, DeleteFails
<1> QED
  BY <1>2, <1>3, <1>4, <1>5, BookCauses

\* The new intent has the highest number: what was there keeps its operation, nothing
\* follows it, and it has no order.
LEMMA NewestFacts ==
  ASSUME IInv, RInv, KindInv, NEW i \in Ids, NEW n, Prepare(i, n)
  PROVE  /\ intents[i].st = "NONE" /\ intents[i].opn = "NONE" /\ intents'[i] = n
         /\ ~Exists(i) /\ book[i].sold = 0 /\ book[i].bought = 0 /\ posts[i] = 0
         /\ \A j \in Ids : j < i => intents[j].st # "NONE"
         /\ \A j \in Ids : i < j => intents[j].st = "NONE" /\ intents[j].opn = "NONE"
         /\ \A j \in Ids \ {i} :
              /\ intents'[j].opn = intents[j].opn /\ intents'[j].trade = intents[j].trade
              /\ intents'[j].qty = intents[j].qty
              /\ \/ intents'[j].st = intents[j].st
                 \/ j = n.parent /\ intents[j].st = "PREPARED" /\ intents'[j].st = "ABORTED"
<1>1. TypeOK /\ LedgerInv /\ ShapeInv /\ BookInv
  BY DEF IInv, RInv
<1>2. /\ intents[i].st = "NONE" /\ intents'[i] = n
      /\ \A j \in Ids \ {i} :
           /\ intents'[j].opn = intents[j].opn /\ intents'[j].trade = intents[j].trade
           /\ intents'[j].qty = intents[j].qty
           /\ \/ intents'[j].st = intents[j].st
              \/ j = n.parent /\ intents[j].st = "PREPARED" /\ intents'[j].st = "ABORTED"
  BY <1>1, PrepareFields
<1>3. ~Exists(i) /\ posts[i] = 0
  BY <1>1, <1>2 DEF LedgerInv, Landed
<1>4. book[i].bought = 0 /\ book[i].sold = 0
  BY <1>1, <1>3, OrderOfIntent DEF KindInv
<1>5. \A j \in Ids : i < j => intents[j].st = "NONE"
  BY <1>2 DEF KindInv
<1> QED
  BY <1>1, <1>2, <1>3, <1>4, <1>5 DEF ShapeInv, Prepare, NewIntent

\* A step that leaves the orders and the balance alone, and the operations.
LEMMA StockKept ==
  ASSUME KindInv, StockInv, OneLiveOrder, UNCHANGED <<book, btc>>,
         \A i \in Ids : Exists(i) => intents'[i].opn = intents[i].opn
  PROVE  StockInv' /\ OneLiveOrder'
<1>1. \A i \in Ids : Exists(i) => (IsEntry(i)' <=> IsEntry(i)) /\ (IsGuard(i)' <=> IsGuard(i))
  BY DEF IsEntry, IsGuard
<1>2. \A i \in Ids : book[i].ph \in {"protecting", "working"} => Exists(i)
  BY DEF Exists
<1>3. StockInv'
  BY <1>1, <1>2 DEF StockInv
<1> QED
  BY <1>3 DEF OneLiveOrder, Live

\* What a new intent must be, with everything that it may find on the exchange.
Fitting(n) ==
  /\ n.st = "PREPARED" /\ n.opn # "NONE" /\ n.trade \in Trades /\ n.qty \in Nat
  /\ n.opn = "ENTRY" => /\ Unresolved = {} /\ NoLive /\ BtcTotal <= 0
                        /\ \A j \in Ids : intents[j].trade # n.trade
  /\ n.opn \in SellOps \cup GuardOps =>
       /\ \E e \in Ids : /\ EntryOf(e, n.trade) /\ Current(e) /\ Exists(e) /\ book[e].ph # "working"
                         /\ n.opn \in SellOps => book[e].ph = "done"
       /\ n.opn \in GuardOps => BtcTotal <= n.qty

LEMMA FittingCore ==
  ASSUME IInv, RInv, Core, UNCHANGED <<book, btc, posts>>, NEW i \in Ids, NEW n, Prepare(i, n), Fitting(n)
  PROVE  Core'
<1>1. /\ intents[i].st = "NONE" /\ intents[i].opn = "NONE" /\ intents'[i] = n
      /\ ~Exists(i) /\ book[i].sold = 0 /\ book[i].bought = 0 /\ posts[i] = 0
      /\ \A j \in Ids : j < i => intents[j].st # "NONE"
      /\ \A j \in Ids : i < j => intents[j].st = "NONE" /\ intents[j].opn = "NONE"
      /\ \A j \in Ids \ {i} :
           /\ intents'[j].opn = intents[j].opn /\ intents'[j].trade = intents[j].trade
           /\ intents'[j].qty = intents[j].qty
           /\ \/ intents'[j].st = intents[j].st
              \/ j = n.parent /\ intents[j].st = "PREPARED" /\ intents'[j].st = "ABORTED"
  BY NewestFacts DEF Core
<1>2. \A j \in Ids : posts[j] = posts'[j] /\ (Exists(j)' <=> Exists(j)) /\ (Live(j)' <=> Live(j))
  BY DEF Exists, Live
<1>3. \A j \in Ids \ {i} : /\ IsEntry(j)' <=> IsEntry(j)
                           /\ IsSale(j)' <=> IsSale(j)
                           /\ IsGuard(j)' <=> IsGuard(j)
                           /\ \A t : EntryOf(j, t)' <=> EntryOf(j, t)
  BY <1>1 DEF IsEntry, IsSale, IsGuard, EntryOf
<1>4. /\ IsEntry(i)' <=> n.opn = "ENTRY"
      /\ IsSale(i)' <=> n.opn \in SellOps
      /\ IsGuard(i)' <=> n.opn \in GuardOps
      /\ \A t : EntryOf(i, t)' <=> n.opn = "ENTRY" /\ n.trade = t
  BY <1>1 DEF IsEntry, IsSale, IsGuard, EntryOf
<1>5. \A j \in Ids : intents[j].opn # "NONE" => j < i
  BY <1>1, IdFacts
<1>6. \A j \in Ids : IsEntry(j) \/ IsSale(j) \/ IsGuard(j) => j < i /\ j # i
  BY <1>1, <1>5, IdFacts, OpKinds DEF IsEntry, IsSale, IsGuard, SellOps, PostOps, GuardOps
<1>7. Current(i)'
  <2>1. \A k \in Ids : IsEntry(k)' => k <= i
    BY <1>3, <1>6, IdFacts
  <2> QED
    BY <2>1 DEF Current
<1>8. n.opn # "ENTRY" => \A j \in Ids : Current(j)' <=> Current(j)
  BY <1>3, <1>4, <1>6 DEF Current
<1>9. n.opn = "ENTRY" => \A j \in Ids : Current(j)' => ~(j < i)
  BY <1>4, IdFacts DEF Current
<1>10. n.opn \in SellOps \cup GuardOps => n.opn # "ENTRY"
  BY OpKinds
<1>11. KindInv'
  <2>1. \A k, j \in Ids : intents'[j].st # "NONE" /\ k < j => intents'[k].st # "NONE"
    <3>1. ASSUME NEW k \in Ids, NEW j \in Ids, intents'[j].st # "NONE", k < j
          PROVE  intents'[k].st # "NONE"
      <4>1. j <= i
        BY <1>1, <3>1, IdFacts
      <4>2. k < i /\ k # i
        BY <3>1, <4>1, IdFacts
      <4> QED
        BY <1>1, <4>2
    <3> QED
      BY <3>1
  <2>2. \A j \in Ids :
          /\ posts'[j] # 0 => intents'[j].opn \in PostOps
          /\ intents'[j].opn = "REPLACE_PROTECTION" => intents'[j].st \in {"PREPARED", "ABORTED"}
          /\ intents'[j].opn \in PostOps /\ intents'[j].st = "CONFIRMED" => Exists(j)
          /\ ~Exists(j) => book'[j].sold = 0
    BY <1>1, <1>2 DEF Core, KindInv, Fitting
  <2> QED
    BY <1>2, <2>1, <2>2 DEF KindInv
<1>12. CurrentInv'
  <2>1. ASSUME NEW k \in Ids, Live(k)' \/ k \in Unresolved' PROVE Current(k)'
    <3>1. CASE k = i
      BY <1>7, <3>1
    <3>2. CASE k # i
      <4>1. Live(k) \/ k \in Unresolved
        BY <1>1, <1>2, <2>1, <3>2 DEF Unresolved
      <4>2. Current(k) /\ n.opn # "ENTRY"
        BY <4>1 DEF Core, CurrentInv, Fitting, NoLive
      <4> QED
        BY <1>8, <4>2
    <3> QED
      BY <3>1, <3>2
  <2>2. ASSUME NEW j \in Ids, (IsSale(j) \/ IsGuard(j))'
        PROVE  \E e \in Ids : EntryOf(e, intents[j].trade)' /\ e < j /\ (Current(j) => Current(e))'
    <3>1. CASE j = i
      <4>1. PICK e \in Ids : EntryOf(e, n.trade) /\ Current(e)
        BY <1>4, <2>2, <3>1 DEF Fitting
      <4>2. e < i /\ e # i
        BY <1>6, <4>1 DEF EntryOf, IsEntry
      <4>3. EntryOf(e, n.trade)' /\ Current(e)'
        BY <1>3, <1>4, <1>8, <1>10, <2>2, <3>1, <4>1, <4>2
      <4> QED
        BY <1>1, <3>1, <4>2, <4>3
    <3>2. CASE j # i
      <4>1. j < i /\ (IsSale(j) \/ IsGuard(j))
        BY <1>3, <1>6, <2>2, <3>2
      <4>2. PICK e \in Ids : EntryOf(e, intents[j].trade) /\ e < j /\ (Current(j) => Current(e))
        BY <4>1 DEF Core, CurrentInv
      <4>3. e # i
        BY <1>6, <4>2 DEF EntryOf, IsEntry
      <4>4. EntryOf(e, intents[j].trade)' /\ (Current(j)' => Current(e)')
        BY <1>1, <1>3, <1>8, <1>9, <3>2, <4>1, <4>2, <4>3
      <4> QED
        BY <4>2, <4>4
    <3> QED
      BY <3>1, <3>2
  <2>3. ASSUME NEW j \in Ids, NEW e \in Ids,
               ((IsSale(j) \/ IsGuard(j)) /\ Current(j) /\ EntryOf(e, intents[j].trade))'
        PROVE  (Exists(e) /\ book[e].ph # "working" /\ (IsSale(j) => book[e].ph = "done"))'
    <3>1. CASE j = i
      <4>1. n.opn \in SellOps \cup GuardOps
        BY <1>4, <2>3, <3>1
      <4>2. e # i
        BY <1>4, <1>10, <2>3, <4>1
      <4>3. EntryOf(e, n.trade)
        BY <1>1, <1>3, <2>3, <3>1, <4>2
      <4>4. PICK d \in Ids : /\ EntryOf(d, n.trade) /\ Exists(d) /\ book[d].ph # "working"
                             /\ n.opn \in SellOps => book[d].ph = "done"
        BY <4>1 DEF Fitting
      <4>5. d = e
        BY <4>3, <4>4, EntryUnique DEF EntryOf
      <4> QED
        BY <1>2, <1>4, <3>1, <4>4, <4>5
    <3>2. CASE j # i
      <4>1. (IsSale(j) \/ IsGuard(j)) /\ (IsSale(j)' <=> IsSale(j))
        BY <1>3, <2>3, <3>2
      <4>2. n.opn # "ENTRY" /\ Current(j)
        BY <1>6, <1>8, <1>9, <2>3, <4>1
      <4>3. e # i /\ EntryOf(e, intents[j].trade)
        BY <1>1, <1>3, <1>4, <2>3, <3>2, <4>2
      <4> QED
        BY <1>2, <4>1, <4>2, <4>3 DEF Core, CurrentInv
    <3> QED
      BY <3>1, <3>2
  <2> QED
    BY <2>1, <2>2, <2>3 DEF CurrentInv
<1>13. LimitInv'
  <2>1. BtcTotal' = BtcTotal /\ \A j \in Ids : book'[j] = book[j] /\ book[j].sold \in Nat
    BY OrderType DEF BtcTotal, IInv
  <2>2. ASSUME NEW e \in Ids, NEW j \in Ids, (IsEntry(e) /\ Current(e))', e <= j
        PROVE  BtcTotal <= book[e].bought - book[j].sold
    <3>1. CASE e = i
      <4>1. BtcTotal <= 0
        BY <1>4, <2>2, <3>1 DEF Fitting
      <4>2. book[j].sold = 0
        BY <1>1, <2>2, <3>1, IdFacts, OrderOfIntent DEF Core, KindInv, IInv, RInv
      <4> QED
        BY <1>1, <3>1, <4>1, <4>2
    <3>2. CASE e # i
      <4>1. IsEntry(e) /\ Current(e)
        BY <1>3, <1>6, <1>8, <1>9, <2>2, <3>2
      <4> QED
        BY <2>2, <4>1 DEF Core, LimitInv
    <3> QED
      BY <3>1, <3>2
  <2>3. ASSUME NEW j \in Ids, (IsGuard(j) /\ Current(j))' PROVE BtcTotal <= intents'[j].qty - book[j].sold
    <3>1. CASE j = i
      <4>1. BtcTotal <= n.qty
        BY <1>4, <2>3, <3>1 DEF Fitting
      <4>2. BtcTotal \in Int /\ n.qty \in Int
        <5>1. BtcTotal \in Int
          BY DEF BtcTotal, IInv, TypeOK, ExchangeTypeOK
        <5> QED
          BY <5>1 DEF Fitting
      <4> QED
        BY <1>1, <3>1, <4>1, <4>2
    <3>2. CASE j # i
      <4>1. IsGuard(j) /\ Current(j) /\ intents'[j].qty = intents[j].qty
        BY <1>1, <1>3, <1>6, <1>8, <1>9, <2>3, <3>2
      <4> QED
        BY <4>1 DEF Core, LimitInv
    <3> QED
      BY <3>1, <3>2
  <2> QED
    BY <2>1, <2>2, <2>3 DEF LimitInv
<1>14. StockInv' /\ OneLiveOrder'
  BY <1>1, StockKept DEF Core
<1> QED
  BY <1>11, <1>12, <1>13, <1>14 DEF Core

\* A sale or a plan whose trade has the last entry came after it.
LEMMA AfterEntry ==
  ASSUME IInv, RInv, Core, NEW j \in Ids, IsSale(j) \/ IsGuard(j),
         NEW e \in Ids, EntryOf(e, intents[j].trade), Current(e)
  PROVE  /\ e < j /\ Current(j) /\ Exists(e) /\ book[e].ph # "working"
         /\ IsSale(j) => book[e].ph = "done"
<1>1. PICK d \in Ids : EntryOf(d, intents[j].trade) /\ d < j
  BY DEF Core, CurrentInv
<1>2. d = e
  BY <1>1, EntryUnique DEF EntryOf
<1>3. \A k \in Ids : IsEntry(k) => k <= j
  BY <1>1, <1>2, IdFacts DEF Current
<1>4. Current(j)
  BY <1>3 DEF Current
<1> QED
  BY <1>1, <1>2, <1>4 DEF Core, CurrentInv

LEMMA EntryLimit ==
  ASSUME Core, NEW t, NEW e \in Ids, EntryOf(e, t), Current(e)
  PROVE  IsEntry(e) /\ BtcTotal <= book[e].bought - book[e].sold
<1>1. IsEntry(e) /\ e <= e
  BY IdFacts DEF EntryOf, IsEntry
<1> QED
  BY <1>1 DEF Core, LimitInv

\* A BUY that is over while BTC is free has no open SELL legs either.
LEMMA FreeEnded ==
  ASSUME IInv, RInv, Core, btc.free > 0, NEW e \in Ids, Exists(e), book[e].ph # "working"
  PROVE  book[e].ph = "done"
<1>1. book[e].ph \in {"none", "working", "protecting", "done"}
  BY DEF IInv, TypeOK, ExchangeTypeOK, Order
<1> QED
  BY <1>1, FreeIdle DEF Exists, RInv

\* What a new intent must be for the rows.
RowFit(n) ==
  LET t == n.trade
      r == rows[n.trade]
  IN
  /\ n.opn = "ENTRY" => ActiveRows \subseteq {t}
  /\ n.opn \in GuardOps =>
       \E e \in Ids : /\ EntryOf(e, t)
                      /\ \/ Guarded(t, r) /\ (GuardOf(t) \/ r.lc \notin Terminal)
                         \/ r.filled = book[e].bought /\ r.lc \notin Terminal
  /\ n.opn = "EMERGENCY_EXIT" /\ Guarded(t, r) => BtcTotal <= n.qty

LEMMA SmallerFacts ==
  ASSUME NEW a \in Int, NEW b \in Int
  PROVE  /\ SmallerOf(a, b) \in {a, b} /\ SmallerOf(a, b) <= a /\ SmallerOf(a, b) <= b
         /\ LargerOf(a, b) \in {a, b} /\ a <= LargerOf(a, b) /\ b <= LargerOf(a, b)
BY DEF SmallerOf, LargerOf

LEMMA RowHolds ==
  ASSUME HoldInv, NEW t \in Trades
  PROVE  NamesOf(t, rows[t]) /\ Sound(t, rows[t])
BY DEF HoldInv, Sound

LEMMA PreparedFits ==
  ASSUME IInv, RInv, Core, HoldInv, KnowInv, NEW i \in Ids, PreparedBy(i)
  PROVE  /\ \E n : Prepare(i, n) /\ Fitting(n) /\ RowFit(n)
         /\ UNCHANGED <<book, btc, posts, wire, rows>>
<1>1. /\ TypeOK /\ StepInv /\ PlanInv /\ TargetInv /\ RowInv /\ LedgerInv /\ SubmitInv /\ op \in Op
      /\ btc.free \in Int /\ BtcTotal \in Int /\ 0 \notin Ids
      /\ HandInv /\ SightInv /\ BookInv
  BY IdFacts DEF IInv, ControlInv, RInv, TypeOK, ExchangeTypeOK, BtcTotal, KnowInv
<1>2. UNCHANGED <<book, btc, posts, wire, rows>>
  BY DEF PreparedBy, PrepareEntry, CancelPrepare, PrepareReplacement, EmergencySell, ConvertBegin,
     PartialPlace, exchangeVars, KeepRows, CancelUnchanged, ReplaceUnchanged, EmergencyUnchanged,
     RecoveryUnchanged
<1>3. SellOps \cap {"ENTRY", "NONE", "REPLACE_PROTECTION"} = {} /\ "REPLACE_PROTECTION" \in GuardOps
  BY DEF SellOps, PostOps, GuardOps
<1>4. CASE PrepareEntry(i)
  <2> DEFINE n == NewPost("ENTRY", op.t, 0, "list", EntryQty)
  <2>1. n.opn = "ENTRY" /\ n.trade = op.t /\ n.st = "PREPARED" /\ n.qty = EntryQty
    BY NewPostFacts
  <2>2. Prepare(i, n) /\ pc = "prepare" /\ op.t \in Trades /\ EntryQty \in Nat
    BY <1>1, <1>4, ExchangeAssumption DEF PrepareEntry, StepInv, TradeSteps
  <2>3. /\ Unresolved = {} /\ NoLive /\ BtcTotal <= 0 /\ ActiveRows \subseteq {op.t}
        /\ \A j \in Ids : intents[j].trade # op.t
    BY <1>1, <2>2 DEF SightInv, SubmitInv
  <2> HIDE DEF n
  <2>4. Fitting(n)
    BY <2>1, <2>2, <2>3, OpKinds DEF Fitting
  <2>5. RowFit(n)
    BY <2>1, <2>3, OpKinds DEF RowFit
  <2> QED
    BY <1>2, <2>2, <2>4, <2>5
<1>5. CASE CancelPrepare(i)
  <2> DEFINE n == [NoIntent EXCEPT !.opn = op.c, !.trade = op.t, !.obj = op.x, !.st = "PREPARED"]
  <2>1. n.opn = op.c /\ n.trade = op.t /\ n.st = "PREPARED" /\ n.qty = 0
    BY DEF NoIntent
  <2>2. Prepare(i, n) /\ op.t \in Trades /\ op.c \in CancelOps
    BY <1>1, <1>5 DEF CancelPrepare, StepInv, TradeSteps, Op
  <2>3. op.c # "NONE" /\ op.c # "ENTRY" /\ op.c \notin SellOps \cup GuardOps /\ op.c # "EMERGENCY_EXIT"
    BY <2>2 DEF CancelOps, SellOps, PostOps, GuardOps
  <2> HIDE DEF n
  <2>4. Fitting(n) /\ RowFit(n)
    BY <2>1, <2>2, <2>3 DEF Fitting, RowFit
  <2> QED
    BY <1>2, <2>2, <2>4
<1>6. ASSUME NEW h, NEW t \in Trades, NEW ep, ConvertBegin(h, t, i, ep)
      PROVE  \E n : Prepare(i, n) /\ Fitting(n) /\ RowFit(n)
  <2> DEFINE n == [NoIntent EXCEPT !.opn = "REPLACE_PROTECTION", !.trade = t, !.ep = ep,
                                   !.qty = rows[t].prot, !.st = "PREPARED"]
             e == rows[t].ent
  <2>1. n.opn = "REPLACE_PROTECTION" /\ n.trade = t /\ n.st = "PREPARED" /\ n.qty = rows[t].prot
    BY DEF NoIntent
  <2>2. Prepare(i, n) /\ t \in ActiveRows /\ LargerOf(rows[t].prot, 0) > 0
    BY <1>6 DEF ConvertBegin, ActiveTrade
  <2>3. rows[t].prot \in Nat /\ rows[t].prot > 0 /\ e \in Ids \cup {0}
    BY <1>1, <2>2 DEF LargerOf, TypeOK, Row
  <2>4. e \in Ids /\ Exists(e) /\ EntryOf(e, t)
    BY <2>3, RowHolds DEF NamesOf
  <2>5. IsOpen(rows[t]) /\ rows[t].lc \notin Terminal
    BY <2>2 DEF ActiveRows, IsOpen
  <2>6. Current(e) /\ HeldBy(t, rows[t], e)
    BY <2>4, <2>5, RowHolds DEF Sound
  <2>7. BtcTotal <= rows[t].prot /\ book[e].ph # "working" /\ Guarded(t, rows[t])
    BY <2>3, <2>6 DEF HeldBy, Guarded
  <2> HIDE DEF n, e
  <2>8. Fitting(n)
    BY <1>3, <2>1, <2>3, <2>4, <2>6, <2>7 DEF Fitting
  <2>9. RowFit(n)
    BY <2>1, <2>4, <2>5, <2>7 DEF RowFit
  <2> QED
    BY <2>2, <2>8, <2>9
<1>7. CASE PrepareReplacement(i)
  <2> DEFINE q == SmallerOf(btc.free, op.q)
             n == NewPost("PROTECTION", op.t, op.plan, intents[op.plan].ep, q)
  <2>1. n.opn = "PROTECTION" /\ n.trade = op.t /\ n.st = "PREPARED" /\ n.qty = q
    BY NewPostFacts
  <2>2. Prepare(i, n) /\ pc = "free" /\ btc.free > 0 /\ op.t \in Trades /\ op.q \in Nat
    BY <1>1, <1>7 DEF PrepareReplacement, StepInv, TradeSteps, Op
  <2>3. /\ op.plan \in Ids /\ intents[op.plan].st = "PREPARED"
        /\ intents[op.plan].opn = "REPLACE_PROTECTION" /\ intents[op.plan].trade = op.t
        /\ intents[op.plan].qty = op.q
    BY <1>1, <2>2 DEF PlanInv, HandInv
  <2>4. IsGuard(op.plan) /\ Current(op.plan) /\ GuardOf(op.t)
    BY <1>3, <2>3 DEF IsGuard, Core, CurrentInv, Unresolved, GuardOf
  <2>5. PICK e \in Ids : EntryOf(e, op.t) /\ Current(e)
    BY <2>3, <2>4 DEF Core, CurrentInv
  <2>6. Exists(e) /\ book[e].ph # "working"
    BY <2>3, <2>4, <2>5, AfterEntry
  <2>7. book[e].ph = "done"
    BY <2>2, <2>6, FreeEnded
  <2>8. BtcTotal = btc.free /\ BtcTotal <= op.q
    <3>1. BtcTotal <= op.q - book[op.plan].sold /\ book[op.plan].sold \in Nat
      BY <2>3, <2>4, OrderType DEF Core, LimitInv, IInv
    <3> QED
      BY <1>1, <2>2, <3>1, FreeIdle DEF RInv
  <2>9. q \in Nat /\ BtcTotal <= q
    BY <1>1, <2>2, <2>8 DEF SmallerOf
  <2> HIDE DEF n, q
  <2>10. Fitting(n)
    BY <2>1, <2>2, <2>5, <2>6, <2>7, <2>9 DEF Fitting
  <2>11. RowFit(n)
    BY <2>1, <2>4, <2>5 DEF RowFit, Guarded
  <2> QED
    BY <1>2, <2>2, <2>10, <2>11
<1>8. CASE EmergencySell(i)
  <2> DEFINE q == SmallerOf(btc.free, op.q)
             n == NewPost("EMERGENCY_EXIT", op.t, 0, "order", q)
             r == rows[op.t]
             e == rows[op.t].ent
  <2>1. n.opn = "EMERGENCY_EXIT" /\ n.trade = op.t /\ n.st = "PREPARED" /\ n.qty = q
    BY NewPostFacts
  <2>2. /\ Prepare(i, n) /\ op.h = "emergency" /\ pc = "canceled" /\ q > 0
        /\ op.t \in Trades /\ op.q \in Nat /\ r \in Row /\ op.t # 0
    BY <1>1, <1>8, IdFacts DEF EmergencySell, StepInv, TradeSteps, Op, TypeOK
  <2>3. op.x = r.obj /\ op.x # 0 /\ book[op.x].ph = "done"
    BY <1>1, <2>2 DEF SightInv, PlanSteps
  <2>4. e \in Ids /\ Exists(e) /\ EntryOf(e, op.t)
    BY <2>2, <2>3, RowHolds DEF NamesOf, Row
  <2>5. Current(e)
    BY <1>1, <2>2, <2>4 DEF HandInv
  <2>6. book[e].ph = "done"
    <3>1. CASE r.obj = e
      BY <2>3, <3>1
    <3>2. CASE r.obj # e
      <4>1. r.obj \in Ids /\ IsSale(r.obj) /\ intents[r.obj].trade = op.t
        BY <2>2, <2>3, <3>2, RowHolds DEF NamesOf, Row
      <4> QED
        BY <2>4, <2>5, <4>1, AfterEntry
    <3> QED
      BY <3>1, <3>2
  <2>7. q \in Nat /\ btc.free > 0
    BY <1>1, <2>2 DEF SmallerOf
  <2>8. Guarded(op.t, r) => BtcTotal <= q
    <3>1. BtcTotal = btc.free
      BY <2>7, FreeIdle DEF RInv
    <3>2. Guarded(op.t, r) => BtcTotal <= op.q - (IF op.i = 0 THEN 0 ELSE book[op.i].sold)
      BY <1>1, <2>2 DEF SightInv
    <3>3. op.i # 0 => book[op.i].sold \in Nat
      BY <1>1, OrderType DEF Op
    <3> QED
      BY <1>1, <2>2, <3>1, <3>2, <3>3 DEF SmallerOf
  <2> HIDE DEF n, q, r, e
  <2>9. Fitting(n)
    BY <2>1, <2>2, <2>4, <2>5, <2>6, <2>7 DEF Fitting, GuardOps
  <2>10. RowFit(n)
    BY <2>1, <2>8 DEF RowFit, GuardOps, r, Guarded
  <2> QED
    BY <1>2, <2>2, <2>9, <2>10
<1>9. ASSUME NEW ep, PartialPlace(i, ep) PROVE \E n : Prepare(i, n) /\ Fitting(n) /\ RowFit(n)
  <2> DEFINE r == rows[op.t]
             e == rows[op.t].ent
             q == SmallerOf(btc.free, rows[op.t].filled)
             n == NewPost("PARTIAL_FILL_PROTECTION", op.t, 0, ep, q)
  <2>1. n.opn = "PARTIAL_FILL_PROTECTION" /\ n.trade = op.t /\ n.st = "PREPARED" /\ n.qty = q
    BY NewPostFacts
  <2>2. /\ Prepare(i, n) /\ pc = "partialPlace" /\ q > 0
        /\ op.t \in Trades /\ r \in Row /\ op.h \in {"partial", "stale"} /\ op.t # 0
    BY <1>1, <1>9, IdFacts DEF PartialPlace, StepInv, TradeSteps, Op, TypeOK, TargetInv
  <2>3. e # 0 /\ r.filled = book[e].bought /\ BuyTerminal(e) /\ r.lc # "EXIT_FILLED"
    BY <1>1, <2>2, IdFacts DEF SightInv
  <2>4. e \in Ids /\ Exists(e) /\ EntryOf(e, op.t)
    BY <2>2, <2>3, RowHolds DEF NamesOf, Row
  <2>5. Current(e)
    BY <1>1, <2>2, <2>4 DEF HandInv
  <2>6. btc.free > 0 /\ r.filled > 0 /\ r.filled \in Nat
    BY <1>1, <2>2 DEF SmallerOf, Row
  <2>7. book[e].ph = "done"
    <3>1. book[e].ph # "working"
      <4>1. book[e].bought \in Nat /\ book[e].qty \in Nat
        BY <2>4, OrderType DEF IInv
      <4> QED
        BY <2>3, <2>4, <4>1 DEF BuyTerminal, Core, StockInv
    <3> QED
      BY <2>4, <2>6, <3>1, FreeEnded
  <2>8. q \in Nat /\ BtcTotal <= q
    <3>1. BtcTotal = btc.free
      BY <2>6, FreeIdle DEF RInv
    <3>2. BtcTotal <= book[e].bought - book[e].sold /\ book[e].sold \in Nat
      BY <2>4, <2>5, EntryLimit, OrderType DEF IInv
    <3> QED
      BY <1>1, <2>3, <2>6, <3>1, <3>2 DEF SmallerOf
  <2>9. r.lc \notin Terminal
    <3>1. ASSUME r.lc = "ENTRY_REJECTED" PROVE FALSE
      <4>1. Unfilled(e)
        BY <1>1, <2>2, <2>4, <3>1, RowFacts
      <4>2. intents[e].st \in Landed
        BY <1>1, <2>4, PresentFacts DEF Present
      <4> QED
        BY <2>3, <2>6, <4>1, <4>2 DEF Unfilled, Landed
    <3> QED
      BY <2>3, <3>1 DEF Terminal
  <2> HIDE DEF n, q, r, e
  <2>10. Fitting(n)
    BY <2>1, <2>2, <2>4, <2>5, <2>7, <2>8 DEF Fitting
  <2>11. RowFit(n)
    BY <2>1, <2>3, <2>4, <2>9 DEF RowFit, r
  <2> QED
    BY <2>2, <2>10, <2>11
<1> QED
  BY <1>2, <1>4, <1>5, <1>6, <1>7, <1>8, <1>9 DEF PreparedBy

\* A POST is counted where it is sent.
LEMMA PostsCause == ASSUME Next PROVE UNCHANGED posts \/ (pc = "post" /\ Transmit)
<1>1. CASE Exchange \/ Stream \/ Owner \/ Crash
  BY <1>1 DEF Exchange, Stream, StreamUpdate, StreamPartialFill, StreamResync, Owner,
     ClearRiskPause, OwnerPause, Crash
<1>2. CASE Entry
  BY <1>2 DEF Entry, ProcessSignal, ManualEntry, SubmitRefused, SubmitRaises, SubmitPersist,
     EntryDone, PrepareEntry
<1>3. CASE PostProcedure
  BY <1>3 DEF PostProcedure, MarkSubmitting, PostAccepted, PostRejected, PostUnanswered, LookupFound,
     LookupMissing, ConfirmIntent, BindIntent
<1>4. CASE CancelProcedure
  BY <1>4 DEF CancelProcedure, CancelWithoutTarget, CancelAlreadyPrepared, CancelOutOfRoom,
     CancelPrepare, CancelMark, DeleteAccepted, DeleteFails, CancelConfirm, CancelUnchanged
<1>5. CASE Convert
  BY <1>5 DEF Convert, ConvertBegin, ConvertStops, ConvertCanceled, ReplaceFoundFlat,
     ConvertExited, ConvertDone, PrepareReplacement, ReplaceUnchanged
<1>6. CASE Emergency
  BY <1>6 DEF Emergency, EmergencyBegin, EmergencyStops, EmergencyVerify, EmergencySell,
     EmergencyUnchanged
<1>7. CASE Tick
  BY <1>7 DEF Tick, EntryWindowExpires, TickBegin, TickPartial, StaleFails, StaleCancels,
     StaleCanceled, StaleTerminal, PartialCompletes, PartialRefuses, PartialCancels,
     PartialProceeds, PartialFails, PartialCanceled, PartialTerminal, PartialDone, PartialPlace,
     PartialReturn, RecoveryUnchanged
<1>8. CASE Reconcile
  BY <1>8 DEF Reconcile, ReconcileCommand, ArmCommand, ArmFinish, Start, ResolveSkips,
     ResolveChild, ResolvePrepared, ResolveCancel, ResolveFound, PlanWithoutCancel,
     PlanResumes, ResolveAbortedEntry, ResolveDone, ResolveEnds, PlanStays,
     PlanDone, PlansEnd, Refresh, RecoverExits, ReconcileRecovers, Verdict, ResolveUnchanged,
     ReconcileUnchanged
<1> QED
  BY <1>1, <1>2, <1>3, <1>4, <1>5, <1>6, <1>7, <1>8 DEF Next

LEMMA PostsKind ==
  ASSUME IInv, RInv, KindInv, SubmitOp, Next, NEW i \in Ids, posts'[i] # 0
  PROVE  intents[i].opn \in PostOps /\ intents'[i].opn = intents[i].opn
<1>1. TypeOK /\ ShapeInv /\ IntentsLast
  BY IntentsStep DEF IInv, RInv
<1>2. intents[i].opn \in PostOps
  <2>1. CASE UNCHANGED posts
    BY <2>1 DEF KindInv
  <2>2. CASE pc = "post" /\ Transmit
    <3>1. op.i \in Ids /\ intents[op.i].opn \in PostOps
      BY <2>2 DEF SubmitOp, SubmitSteps
    <3>2. i # op.i => posts'[i] = posts[i]
      BY <1>1, <2>2, <3>1 DEF Transmit, TypeOK
    <3> QED
      BY <3>1, <3>2 DEF KindInv
  <2> QED
    BY <2>1, <2>2, PostsCause
<1>3. intents[i].st # "NONE"
  BY <1>1, <1>2 DEF ShapeInv, PostOps
<1> QED
  BY <1>1, <1>2, <1>3 DEF IntentsLast

\* What a step that settles an intent may set it to.
LEMMA SettledKind ==
  ASSUME IInv, RInv, KindInv, SubmitOp, Settles
  PROVE  \E i \in Ids, st \in {"SUBMITTING", "ABORTED", "AMBIGUOUS", "CONFIRMED", "DEFINITE_REJECT"} :
           /\ SetState(i, st) /\ i \in Unresolved
           /\ intents[i].opn = "REPLACE_PROTECTION" => st = "ABORTED"
           /\ intents[i].opn \in PostOps /\ st = "CONFIRMED" => Exists(i)
<1>1. /\ TypeOK /\ StepInv /\ PlanInv /\ TodoInv /\ TargetInv /\ SubmitInv /\ 0 \notin Ids
      /\ "REPLACE_PROTECTION" \notin PostOps \cup CancelOps /\ PostOps \cap CancelOps = {}
  BY IdFacts DEF IInv, ControlInv, RInv, PostOps, CancelOps
<1>2. CASE MarkSubmitting \/ PostRejected \/ LookupMissing \/ ConfirmIntent
  <2>1. /\ op.i \in Ids /\ op.i \in Unresolved /\ intents[op.i].opn \in PostOps
        /\ ConfirmIntent => Exists(op.i)
    BY <1>1, <1>2 DEF MarkSubmitting, PostRejected, LookupMissing, ConfirmIntent, StepInv, SubmitInv,
       SubmitOp, SubmitSteps, Unresolved
  <2>2. \E st \in {"SUBMITTING", "AMBIGUOUS", "DEFINITE_REJECT", "CONFIRMED"} :
           SetState(op.i, st) /\ (st = "CONFIRMED" => Exists(op.i))
    BY <1>2, <2>1 DEF MarkSubmitting, PostRejected, LookupMissing, ConfirmIntent
  <2> QED
    BY <1>1, <2>1, <2>2
<1>3. CASE CancelMark \/ DeleteFails \/ CancelConfirm
  <2>1. op.i \in Ids /\ op.i \in Unresolved /\ intents[op.i].opn \in CancelOps
    BY <1>1, <1>3 DEF CancelMark, DeleteFails, CancelConfirm, StepInv, TargetInv, Unresolved
  <2>2. \E st \in {"SUBMITTING", "AMBIGUOUS", "CONFIRMED"} : SetState(op.i, st)
    BY <1>3 DEF CancelMark, DeleteFails, CancelConfirm
  <2> QED
    BY <1>1, <2>1, <2>2
<1>4. CASE ReplaceFoundFlat
  BY <1>1, <1>4 DEF ReplaceFoundFlat, PlanInv, Unresolved
<1>5. ASSUME NEW i \in Ids, ResolvePrepared(i)
      PROVE  SetState(i, "ABORTED") /\ i \in Unresolved
  BY <1>5 DEF ResolvePrepared, Unresolved
<1>6. ASSUME NEW i \in Ids, ResolveCancel(i) \/ ResolveFound(i)
      PROVE  /\ SetState(i, "CONFIRMED") /\ i \in Unresolved /\ intents[i].opn # "REPLACE_PROTECTION"
             /\ intents[i].opn \in PostOps => Exists(i)
  <2>1. pc = "resolve" /\ i \in rec.todo /\ intents[i].st # "PREPARED"
    BY <1>6 DEF ResolveCancel, ResolveFound, Resolving
  <2>2. op.i = 0
    BY <1>1, <2>1 DEF TodoInv, NoOp
  <2>3. intents[i].st \in {"SUBMITTING", "AMBIGUOUS"}
    BY <1>1, <2>1, <2>2 DEF TodoInv
  <2> QED
    BY <1>1, <1>6, <2>3 DEF ResolveCancel, ResolveFound, IsCancel, Unresolved, KindInv
<1>7. ASSUME NEW i \in Ids, PlanWithoutCancel(i)
      PROVE  SetState(i, "ABORTED") /\ i \in Unresolved
  <2>1. pc = "plans" /\ i \in rec.todo
    BY <1>7 DEF PlanWithoutCancel, Resuming
  <2>2. op.plan = 0
    BY <1>1, <2>1 DEF TodoInv, NoOp
  <2>3. intents[i].st = "PREPARED"
    BY <1>1, <2>1, <2>2 DEF TodoInv
  <2> QED
    BY <1>7, <2>3 DEF PlanWithoutCancel, Unresolved
<1> QED
  BY <1>2, <1>3, <1>4, <1>5, <1>6, <1>7 DEF Settles, SettledBy

LEMMA SettlesQuiet == ASSUME Settles PROVE UNCHANGED <<book, btc>>
BY DEF Settles, SettledBy, MarkSubmitting, PostRejected, LookupMissing, ConfirmIntent, CancelMark,
   DeleteFails, CancelConfirm, ReplaceFoundFlat, ResolvePrepared, ResolveCancel, ResolveFound,
   PlanWithoutCancel, exchangeVars

\* Core holds over a step that changes neither operations nor orders, nor opens an intent.
LEMMA CoreKept ==
  ASSUME IInv, RInv, Core, UNCHANGED <<book, btc>>, KindInv',
         \A i \in Ids : /\ intents'[i].opn = intents[i].opn /\ intents'[i].trade = intents[i].trade
                        /\ intents'[i].qty = intents[i].qty,
         Unresolved' \subseteq Unresolved
  PROVE  Core'
<1>1. \A k \in Ids : /\ IsEntry(k)' <=> IsEntry(k)
                     /\ IsSale(k)' <=> IsSale(k)
                     /\ IsGuard(k)' <=> IsGuard(k)
                     /\ \A t : EntryOf(k, t)' <=> EntryOf(k, t)
  BY DEF IsEntry, IsSale, IsGuard, EntryOf
<1>2. \A k \in Ids : Current(k)' <=> Current(k)
  BY <1>1 DEF Current
<1>3. CurrentInv'
  <2>1. ASSUME NEW k \in Ids, Live(k)' \/ k \in Unresolved' PROVE Current(k)'
    BY <1>2, <2>1 DEF Core, CurrentInv, Live
  <2>2. ASSUME NEW j \in Ids, (IsSale(j) \/ IsGuard(j))'
        PROVE  \E e \in Ids : EntryOf(e, intents[j].trade)' /\ e < j /\ (Current(j) => Current(e))'
    BY <1>1, <1>2, <2>2 DEF Core, CurrentInv
  <2>3. ASSUME NEW j \in Ids, NEW e \in Ids,
               ((IsSale(j) \/ IsGuard(j)) /\ Current(j) /\ EntryOf(e, intents[j].trade))'
        PROVE  (Exists(e) /\ book[e].ph # "working" /\ (IsSale(j) => book[e].ph = "done"))'
    BY <1>1, <1>2, <2>3 DEF Core, CurrentInv, Exists
  <2> QED
    BY <2>1, <2>2, <2>3 DEF CurrentInv
<1>4. LimitInv'
  BY <1>1, <1>2 DEF Core, LimitInv, BtcTotal
<1>5. StockInv' /\ OneLiveOrder'
  BY StockKept DEF Core
<1> QED
  BY <1>3, <1>4, <1>5 DEF Core

\* Numbering and kinds of intents over a step that inserts none.
LEMMA KindKept ==
  ASSUME IInv, RInv, Core, SubmitOp, Next,
         \A i \in Ids : /\ intents'[i].opn = intents[i].opn
                        /\ intents'[i].st = "NONE" <=> intents[i].st = "NONE",
         \A i \in Ids : /\ intents[i].opn = "REPLACE_PROTECTION" => intents'[i].st \in {"PREPARED", "ABORTED"}
                        /\ intents[i].opn \in PostOps /\ intents'[i].st = "CONFIRMED" => Exists(i)
  PROVE  KindInv'
<1>1. KindInv /\ OrdersLast /\ TypeOK
  BY OrdersStep DEF Core, RInv, IInv
<1>2. \A i \in Ids : posts'[i] # 0 => intents'[i].opn \in PostOps
  BY <1>1, PostsKind
<1>3. \A i \in Ids : intents'[i].opn \in PostOps /\ intents'[i].st = "CONFIRMED" => Exists(i)'
  BY <1>1, LastOf
<1>4. \A i, j \in Ids : intents'[j].st # "NONE" /\ i < j => intents'[i].st # "NONE"
  BY <1>1 DEF KindInv
<1>5. ASSUME NEW i \in Ids, ~Exists(i)' PROVE book'[i].sold = 0
  <2>1. ~Exists(i) /\ book[i].sold = 0
    BY <1>1, <1>5, LastOf DEF KindInv
  <2>2. CASE UNCHANGED book
    BY <2>1, <2>2
  <2>3. ASSUME NEW k \in Ids, MarketStep(k) PROVE book'[i].sold = 0
    <3>1. k # i
      BY <1>1, <1>5, <2>1, <2>3, LandFacts, BuyFillFacts, SellFillFacts DEF MarketStep, Live, Exists
    <3>2. book'[i] = book[i]
      BY <1>1, <2>3, <3>1, LandFacts, BuyFillFacts, SellFillFacts, TerminateFacts DEF MarketStep, Others
    <3> QED
      BY <2>1, <3>2
  <2> QED
    BY <1>1, <2>2, <2>3, MarketCauses
<1> QED
  BY <1>2, <1>3, <1>4, <1>5 DEF KindInv

LEMMA CoreStep ==
  ASSUME IInv, RInv, Core, HoldInv, KnowInv, Next, TypeOK' PROVE Core'
<1>1. TypeOK /\ BookInv /\ ShapeInv /\ KindInv /\ SubmitOp /\ CurrentInv
  BY OpOfSubmit DEF IInv, RInv, Core, KnowInv
<1>2. CASE UNCHANGED intents
  <2>1. KindInv'
    BY <1>1, <1>2, KindKept DEF KindInv
  <2>2. Unresolved' = Unresolved
    BY <1>2 DEF Unresolved
  <2>3. CASE UNCHANGED <<book, btc>>
    BY <1>2, <2>1, <2>2, <2>3, CoreKept
  <2>4. ASSUME NEW i \in Ids, MarketStep(i) PROVE Core'
    <3>1. CurrentInv'
      BY <1>1, <1>2, <2>4, MarketCurrent
    <3>2. LimitInv'
      BY <1>1, <1>2, <2>4, MarketLimit
    <3>3. StockInv' /\ OneLiveOrder'
      BY <1>1, <1>2, <2>4, MarketStock
    <3> QED
      BY <2>1, <3>1, <3>2, <3>3 DEF Core
  <2> QED
    BY <1>1, <2>3, <2>4, MarketCauses
<1>3. ASSUME NEW i \in Ids, PreparedBy(i) PROVE Core'
  BY <1>3, PreparedFits, FittingCore
<1>4. CASE Settles
  <2>1. PICK i \in Ids, st \in {"SUBMITTING", "ABORTED", "AMBIGUOUS", "CONFIRMED", "DEFINITE_REJECT"} :
           /\ SetState(i, st) /\ i \in Unresolved
           /\ intents[i].opn = "REPLACE_PROTECTION" => st = "ABORTED"
           /\ intents[i].opn \in PostOps /\ st = "CONFIRMED" => Exists(i)
    BY <1>1, <1>4, SettledKind
  <2>2. \A j \in Ids : /\ intents'[j].opn = intents[j].opn /\ intents'[j].trade = intents[j].trade
                       /\ intents'[j].qty = intents[j].qty
                       /\ intents'[j].st = IF j = i THEN st ELSE intents[j].st
    BY <1>1, <2>1, SetStateFields
  <2>3. Unresolved' \subseteq Unresolved
    BY <2>1, <2>2 DEF Unresolved
  <2>4. intents[i].st # "NONE" /\ st # "NONE"
    BY <2>1 DEF Unresolved
  <2>5. KindInv'
    <3>1. \A j \in Ids : intents'[j].st = "NONE" <=> intents[j].st = "NONE"
      BY <2>2, <2>4
    <3>2. \A j \in Ids : /\ intents[j].opn = "REPLACE_PROTECTION" => intents'[j].st \in {"PREPARED", "ABORTED"}
                         /\ intents[j].opn \in PostOps /\ intents'[j].st = "CONFIRMED" => Exists(j)
      BY <1>1, <2>1, <2>2 DEF KindInv
    <3> QED
      BY <1>1, <2>2, <3>1, <3>2, KindKept
  <2>6. UNCHANGED <<book, btc>>
    BY <1>4, SettlesQuiet
  <2> QED
    BY <2>2, <2>3, <2>5, <2>6, CoreKept
<1> QED
  BY <1>2, <1>3, <1>4, Causes

-----------------------------------------------------------------------------
(***************************************************************************)
(* What the reports of orders do to a sound row.                            *)
(***************************************************************************)

\* The last entry is over, and with it what it bought.
Closed(t) == \A e \in Ids : EntryOf(e, t) => BtcTotal <= 0 /\ NoLive

\* Row s of trade t follows row r without another order.
Follows(t, r, s) ==
  /\ s \in Row /\ s.ent = r.ent /\ s.obj = r.obj /\ s.lc # "NONE"
  /\ IsOpen(s) => IsOpen(r)
  /\ IsOpen(r) /\ ~IsOpen(s) => Closed(t)
  /\ Sound(t, s)

LEMMA SoundParts ==
  ASSUME NEW t, NEW r, Sound(t, r)
  PROVE  /\ NamesOf(t, r)
         /\ \A e \in Ids : EntryOf(e, t) => /\ IsOpen(r) => Current(e)
                                            /\ Current(e) => HeldBy(t, r, e)
         /\ r.lc \in Terminal => Dead(t)
BY DEF Sound

\* An entry without BTC, whose BUY is over, leaves nothing live.
LEMMA EndedFlat ==
  ASSUME IInv, RInv, Core, NEW t, NEW e \in Ids, EntryOf(e, t), Current(e), book[e].ph # "working",
         BtcTotal <= 0
  PROVE  NoLive /\ Dead(t) /\ Closed(t)
<1>1. NoLive
  BY Flat DEF RInv, NoLive, EntryOf, IsEntry
<1> QED
  BY <1>1 DEF NoLive, Dead, Closed

\* An intent with an order, or a guard, of a trade is for one entry.
LEMMA NoneLiveWithoutGuard ==
  ASSUME IInv, RInv, Core, NEW t, ~GuardOf(t), \A e \in Ids : EntryOf(e, t) => ~Live(e)
  PROVE  Dead(t)
<1>1. ASSUME NEW i \in Ids, intents[i].trade = t, Live(i) PROVE FALSE
  <2>1. IsEntry(i) \/ IsGuard(i)
    BY <1>1 DEF Live, Core, StockInv
  <2> QED
    BY <1>1, <2>1 DEF IsEntry, EntryOf, GuardOf
<1> QED
  BY <1>1 DEF Dead

\* A lifecycle that stays open.
LEMMA OpenSound ==
  ASSUME NEW t, NEW r \in Row, Sound(t, r), NEW lc \in Lifecycles, lc \notin Terminal \cup {"NONE"},
         \A e \in Ids : EntryOf(e, t) => Current(e)
  PROVE  Sound(t, [r EXCEPT !.lc = lc])
<1> DEFINE s == [r EXCEPT !.lc = lc]
<1>1. s.ent = r.ent /\ s.obj = r.obj /\ s.filled = r.filled /\ s.prot = r.prot /\ s.lc = lc
  BY DEF Row
<1> HIDE DEF s
<1>2. NamesOf(t, s)
  BY <1>1 DEF Sound, NamesOf
<1>3. Guarded(t, s) <=> Guarded(t, r)
  BY <1>1 DEF Guarded
<1>4. \A e \in Ids : HeldBy(t, r, e) => HeldBy(t, s, e)
  BY <1>1, <1>3 DEF HeldBy
<1> QED
  BY <1>1, <1>2, <1>4 DEF Sound, s

\* A lifecycle that ends the trade.
LEMMA CloseSound ==
  ASSUME NEW t, NEW r \in Row, Sound(t, r), NEW lc \in Terminal, Dead(t),
         \A e \in Ids : EntryOf(e, t) /\ Current(e) /\ GuardOf(t) => BtcTotal <= 0
  PROVE  Sound(t, [r EXCEPT !.lc = lc])
<1> DEFINE s == [r EXCEPT !.lc = lc]
<1>1. s.ent = r.ent /\ s.obj = r.obj /\ s.filled = r.filled /\ s.prot = r.prot /\ s.lc = lc
  BY DEF Row
<1> HIDE DEF s
<1>2. NamesOf(t, s)
  BY <1>1 DEF Sound, NamesOf
<1>3. Guarded(t, s) <=> Guarded(t, r)
  BY <1>1 DEF Guarded
<1>4. \A e \in Ids : EntryOf(e, t) /\ Current(e) /\ HeldBy(t, r, e) => HeldBy(t, s, e)
  BY <1>1, <1>3 DEF HeldBy
<1>5. ~IsOpen(s)
  BY <1>1 DEF IsOpen
<1> QED
  BY <1>2, <1>4, <1>5 DEF Sound, s

LEMMA AdvanceFacts ==
  ASSUME NEW a \in Lifecycles, a # "NONE", NEW b \in Lifecycles, b # "NONE"
  PROVE  /\ a \in Terminal => Advance(a, b) = a
         /\ Advance(a, b) \in {a, b} /\ Advance(a, a) = a
BY DEF Advance

LEMMA BuyFollows ==
  ASSUME IInv, RInv, Core, HoldInv, NEW t \in Trades, NEW r \in Row, r.lc # "NONE", Sound(t, r)
  PROVE  Follows(t, r, ApplyBuy(r))
<1>1. CASE r.ent = 0
  <2>1. ApplyBuy(r) = r
    BY <1>1 DEF ApplyBuy
  <2> QED
    BY <2>1 DEF Follows
<1>2. CASE r.ent # 0
  <2> DEFINE e == r.ent
             o == book[r.ent]
             w == IF o.bought = o.qty THEN "ENTRY_FILLED"
                  ELSE IF o.bought > 0 THEN "ENTRY_PARTIALLY_FILLED"
                  ELSE IF o.ph = "done" THEN "ENTRY_REJECTED"
                  ELSE r.lc
             s == [r EXCEPT !.filled = o.bought, !.lc = Advance(@, w)]
  <2>1. ApplyBuy(r) = s
    BY <1>2 DEF ApplyBuy
  <2>2. e \in Ids /\ Exists(e) /\ EntryOf(e, t)
    BY <1>2, SoundParts DEF NamesOf, Row
  <2>3. o.bought \in Nat /\ o.qty \in Nat /\ o.qty = EntryQty /\ EntryQty > 0
    BY <2>2, OrderType, OrderOfIntent, ExchangeAssumption DEF IInv, RInv, ShapeInv, EntryOf
  <2>4. w \in Lifecycles /\ w # "NONE" /\ (w \in Terminal => w = r.lc \/ (o.ph = "done" /\ o.bought = 0))
    <3>1. o.bought # o.qty /\ ~(o.bought > 0) => o.bought = 0
      BY <2>3
    <3> QED
      BY <3>1 DEF Lifecycles, Terminal, Row
  <2>5. r.lc \in Lifecycles
    BY DEF Row
  <2> HIDE DEF w
  <2>6. s \in Row
    BY <2>3, <2>4, <2>5, AdvanceType DEF Row
  <2>7. /\ s.ent = r.ent /\ s.obj = r.obj /\ s.prot = r.prot /\ s.filled = o.bought
        /\ s.lc = Advance(r.lc, w)
    BY DEF Row
  <2>8. /\ s.lc # "NONE" /\ s.lc \in {r.lc, w}
        /\ r.lc \in Terminal => s.lc = r.lc
    BY <2>4, <2>5, <2>7, AdvanceFacts
  <2>9. \A d \in Ids : EntryOf(d, t) => d = e
    BY <2>2, EntryUnique DEF EntryOf
  <2> HIDE DEF s, e, o
  <2>10. IsOpen(s) => IsOpen(r)
    BY <2>8 DEF IsOpen
  <2>11. ASSUME IsOpen(r), ~IsOpen(s) PROVE Closed(t) /\ Dead(t) /\ BtcTotal <= 0
    <3>1. Current(e)
      BY <2>2, <2>11, SoundParts
    <3>2. s.lc \in Terminal /\ s.lc # r.lc
      BY <2>8, <2>11 DEF IsOpen
    <3>3. o.ph = "done" /\ o.bought = 0
      BY <2>4, <2>8, <3>2
    <3>4. BtcTotal <= book[e].bought - book[e].sold /\ book[e].sold \in Nat /\ BtcTotal \in Int
      BY <2>2, <3>1, EntryLimit, OrderType DEF IInv, BtcTotal
    <3>5. BtcTotal <= 0
      BY <3>3, <3>4 DEF o, e
    <3> QED
      BY <2>2, <3>1, <3>3, <3>5, EndedFlat DEF o, e
  <2>12. NamesOf(t, s)
    BY <1>2, <2>7, SoundParts DEF NamesOf
  <2>13. s.lc \in Terminal => Dead(t)
    BY <2>11, SoundParts, <2>8 DEF IsOpen
  <2>14. ASSUME Current(e) PROVE HeldBy(t, s, e)
    <3>1. HeldBy(t, r, e)
      BY <2>2, <2>14, SoundParts
    <3>2. Guarded(t, s) <=> Guarded(t, r)
      BY <2>7 DEF Guarded
    <3>3. BtcTotal <= o.bought
      <4>1. BtcTotal <= book[e].bought - book[e].sold /\ book[e].sold \in Nat /\ BtcTotal \in Int
        BY <2>2, <2>14, EntryLimit, OrderType DEF IInv, BtcTotal
      <4> QED
        BY <2>3, <4>1 DEF o, e
    <3>4. BtcTotal <= LargerOf(s.filled, s.prot)
      <4>1. s.prot \in Nat /\ BtcTotal \in Int
        BY <2>6, OrderType, <2>2 DEF Row, IInv, BtcTotal
      <4> QED
        BY <2>3, <2>7, <3>3, <4>1 DEF LargerOf
    <3>5. s.lc \in Terminal /\ GuardOf(t) => BtcTotal <= 0
      BY <2>8, <2>11, <3>1 DEF HeldBy, IsOpen
    <3>6. s.filled = book[e].bought
      BY <2>7 DEF o, e
    <3> QED
      BY <2>7, <3>1, <3>2, <3>4, <3>5, <3>6 DEF HeldBy
  <2>15. Sound(t, s)
    BY <2>2, <2>9, <2>10, <2>12, <2>13, <2>14, SoundParts DEF Sound
  <2> QED
    BY <2>1, <2>6, <2>7, <2>8, <2>10, <2>11, <2>15 DEF Follows
<1> QED
  BY <1>1, <1>2

LEMMA SellFollows ==
  ASSUME IInv, RInv, Core, HoldInv, NEW t \in Trades, NEW r \in Row, r.lc # "NONE", Sound(t, r)
  PROVE  Follows(t, r, ApplySell(r))
<1> DEFINE o == book[r.obj]
           x == r.obj
           e == r.ent
<1>1. CASE ApplySell(r) = r
  BY <1>1 DEF Follows
<1>2. CASE r.obj # 0 /\ ApplySell(r) # r
  <2>1. x \in Ids /\ e \in Ids /\ Exists(x) /\ Exists(e) /\ EntryOf(e, t)
    BY <1>2, SoundParts DEF NamesOf, Row
  <2>2. x = e \/ (IsGuard(x) /\ IsSale(x) /\ intents[x].trade = t)
    BY <1>2, SoundParts DEF NamesOf
  <2>3. /\ o.qty \in Nat /\ o.sold \in Nat /\ o.bought \in Nat /\ o.bought <= o.qty
        /\ o.qty = intents[x].qty /\ BtcTotal \in Int
    BY <2>1, OrderType, OrderOfIntent DEF HoldInv, IInv, RInv, BtcTotal
  <2>4. \A d \in Ids : EntryOf(d, t) => d = e
    BY <2>1, EntryUnique DEF EntryOf
  <2>5. r.lc \in Lifecycles
    BY DEF Row
  <2>6. intents[x].trade = t
    BY <2>1, <2>2 DEF EntryOf
  <2>7. CASE o.ph = "protecting"
    <3> DEFINE s == [r EXCEPT !.prot = o.qty, !.lc = Advance(@, "PROTECTION_ACTIVE")]
    <3>1. ApplySell(r) = s
      BY <1>2, <2>7 DEF ApplySell
    <3>2. Live(x) /\ r.lc \notin Terminal /\ Current(x)
      BY <2>1, <2>6, <2>7, SoundParts DEF Live, Dead, Core, CurrentInv
    <3>3. Current(e) /\ book[e].ph # "working"
      <4>1. CASE x = e
        BY <2>7, <3>2, <4>1
      <4>2. CASE x # e
        BY <2>1, <2>2, <3>2, <4>2, EntryUnique DEF Core, CurrentInv, EntryOf
      <4> QED
        BY <4>1, <4>2
    <3>4. BtcTotal <= o.qty
      <4>1. btc.free = 0 /\ btc.locked = o.qty - o.sold
        BY <2>1, <2>7, LockedAll DEF RInv, Core, StockInv
      <4> QED
        BY <2>3, <4>1 DEF BtcTotal
    <3>5. Advance(r.lc, "PROTECTION_ACTIVE") \in {r.lc, "PROTECTION_ACTIVE"}
      BY DEF Advance
    <3>6. s \in Row
      BY <2>3, <2>5, <3>5 DEF Row, Lifecycles
    <3>7. s.ent = e /\ s.obj = x /\ s.filled = r.filled /\ s.prot = o.qty /\ s.lc \in {r.lc, "PROTECTION_ACTIVE"}
      BY <3>5 DEF Row
    <3>8. IsOpen(r) /\ s.lc # "NONE" /\ s.lc \notin Terminal
      BY <3>2, <3>7 DEF IsOpen, Terminal
    <3> HIDE DEF s
    <3>9. NamesOf(t, s)
      BY <1>2, <2>1, <3>7, SoundParts DEF NamesOf
    <3>10. ASSUME NEW j \in Ids, intents[j].opn = "EMERGENCY_EXIT", intents[j].trade = t
           PROVE  BtcTotal <= intents[j].qty - book[j].sold \/ s.filled = book[e].bought
      <4>1. IsSale(j)
        BY <3>10, OpKinds DEF IsSale
      <4>2. book[e].ph = "done"
        BY <2>1, <3>3, <3>10, <4>1, AfterEntry
      <4>3. GuardOf(t)
        BY <2>1, <2>2, <2>6, <2>7, <4>2 DEF GuardOf
      <4>4. HeldBy(t, r, e)
        BY <2>1, <3>3, SoundParts
      <4> QED
        BY <3>7, <3>10, <4>3, <4>4 DEF HeldBy, Guarded
    <3>11. BtcTotal <= LargerOf(s.filled, s.prot)
      BY <2>3, <3>4, <3>6, <3>7 DEF LargerOf, Row
    <3>12. HeldBy(t, s, e)
      BY <2>1, <3>3, <3>4, <3>7, <3>8, <3>10, <3>11 DEF HeldBy
    <3>13. Sound(t, s)
      BY <2>4, <3>3, <3>8, <3>9, <3>12 DEF Sound
    <3> QED
      BY <3>1, <3>6, <3>7, <3>8, <3>13 DEF Follows, IsOpen
  <2>8. CASE o.ph = "done" /\ o.sold = o.qty
    <3> DEFINE lc == Advance(r.lc, "EXIT_FILLED")
    <3>1. ApplySell(r) = [r EXCEPT !.lc = lc]
      BY <1>2, <2>8 DEF ApplySell
    <3>2. lc \in {r.lc, "EXIT_FILLED"} /\ (r.lc \in Terminal => lc = r.lc)
      BY DEF Advance
    <3> HIDE DEF lc
    <3>3. lc # r.lc
      BY <1>2, <3>1 DEF Row
    <3>4. lc = "EXIT_FILLED" /\ IsOpen(r)
      BY <3>2, <3>3 DEF IsOpen
    <3>5. Current(e)
      BY <2>1, <3>4, SoundParts
    <3>6. BtcTotal <= 0 /\ book[e].ph # "working"
      <4>1. CASE x = e
        <5>1. BtcTotal <= o.bought - o.sold
          BY <2>1, <3>5, <4>1, EntryLimit
        <5> QED
          BY <2>3, <2>8, <4>1, <5>1
      <4>2. CASE x # e
        <5>1. Current(x) /\ book[e].ph # "working" /\ IsGuard(x)
          BY <2>1, <2>2, <2>6, <3>5, <4>2, AfterEntry
        <5>2. BtcTotal <= intents[x].qty - book[x].sold
          BY <2>1, <5>1 DEF Core, LimitInv
        <5> QED
          BY <2>3, <2>8, <5>1, <5>2
      <4> QED
        BY <4>1, <4>2
    <3>7. Dead(t) /\ Closed(t)
      BY <2>1, <3>5, <3>6, EndedFlat
    <3>8. Sound(t, [r EXCEPT !.lc = lc])
      BY <3>4, <3>6, <3>7, CloseSound DEF Terminal
    <3>9. /\ [r EXCEPT !.lc = lc] \in Row
          /\ [r EXCEPT !.lc = lc].ent = r.ent /\ [r EXCEPT !.lc = lc].obj = r.obj
          /\ [r EXCEPT !.lc = lc].lc = "EXIT_FILLED"
      BY <3>4 DEF Row, Lifecycles
    <3> QED
      BY <3>1, <3>4, <3>7, <3>8, <3>9 DEF Follows
  <2> QED
    BY <1>2, <2>7, <2>8 DEF ApplySell
<1> QED
  BY <1>1, <1>2 DEF ApplySell

LEMMA FollowsBoth ==
  ASSUME NEW t, NEW a, NEW b, NEW c, Follows(t, a, b), Follows(t, b, c)
  PROVE  Follows(t, a, c)
BY DEF Follows

LEMMA ReportsFollow ==
  ASSUME IInv, RInv, Core, HoldInv, NEW t \in Trades, NEW r \in Row, r.lc # "NONE", Sound(t, r)
  PROVE  /\ Follows(t, r, r) /\ Follows(t, r, ApplyBuy(r)) /\ Follows(t, r, ApplySell(r))
         /\ Follows(t, r, ApplyAll(r))
<1>1. Follows(t, r, r)
  BY DEF Follows
<1>2. Follows(t, r, ApplyBuy(r))
  BY BuyFollows
<1>3. ApplyBuy(r) \in Row /\ ApplyBuy(r).lc # "NONE" /\ Sound(t, ApplyBuy(r))
  BY <1>2 DEF Follows
<1>4. Follows(t, ApplyBuy(r), ApplyAll(r))
  BY <1>3, SellFollows DEF ApplyAll
<1> QED
  BY <1>1, <1>2, <1>4, SellFollows, FollowsBoth

\* A lifecycle that a handler sets, of an open trade or of one that has ended.
LEMMA OpenFollows ==
  ASSUME NEW t, NEW r \in Row, Sound(t, r), IsOpen(r), NEW lc \in Lifecycles, lc \notin Terminal \cup {"NONE"}
  PROVE  Follows(t, r, [r EXCEPT !.lc = lc])
<1>1. \A e \in Ids : EntryOf(e, t) => Current(e)
  BY DEF Sound
<1>2. Sound(t, [r EXCEPT !.lc = lc])
  BY <1>1, OpenSound
<1>3. /\ [r EXCEPT !.lc = lc] \in Row
      /\ [r EXCEPT !.lc = lc].ent = r.ent /\ [r EXCEPT !.lc = lc].obj = r.obj
      /\ [r EXCEPT !.lc = lc].lc = lc
  BY DEF Row
<1> QED
  BY <1>2, <1>3 DEF Follows, IsOpen

-----------------------------------------------------------------------------
(***************************************************************************)
(* The steps that change rows keep them sound, and close one only when its  *)
(* BTC is gone; an emergency exit of an unprotected trade may do otherwise. *)
(***************************************************************************)
Ends(u) == IsOpen(rows[u]) /\ rows'[u].lc \in Terminal

RowGood(u) == /\ Sound(u, rows'[u])
              /\ Ends(u) => Closed(u) \/ op.h = "emergency" \/ pc = "exits"

RowsGood == \A u \in Trades : RowGood(u)

LEMMA SameGood ==
  ASSUME HoldInv, NEW u \in Trades, rows'[u] = rows[u] PROVE RowGood(u)
BY DEF HoldInv, RowGood, Ends, IsOpen

LEMMA KeepGood == ASSUME HoldInv, UNCHANGED rows PROVE RowsGood
BY SameGood DEF RowsGood

LEMMA SetRowGood ==
  ASSUME TypeOK, HoldInv, NEW t \in Trades, NEW s, SetRow(t, s), Sound(t, s),
         IsOpen(rows[t]) /\ s.lc \in Terminal => Closed(t) \/ op.h = "emergency" \/ pc = "exits"
  PROVE  RowsGood
<1>1. rows'[t] = s /\ \A u \in Trades \ {t} : rows'[u] = rows[u]
  BY DEF SetRow, TypeOK
<1>2. RowGood(t)
  BY <1>1 DEF RowGood, Ends
<1> QED
  BY <1>1, <1>2, SameGood DEF RowsGood

LEMMA FollowsGood ==
  ASSUME TypeOK, HoldInv, NEW t \in Trades, NEW s, SetRow(t, s), Follows(t, rows[t], s)
  PROVE  RowsGood
BY SetRowGood DEF Follows, IsOpen

LEMMA ReportsGood ==
  ASSUME IInv, RInv, Core, HoldInv, NEW t \in Trades, rows[t].lc # "NONE",
         NEW s \in {rows[t], ApplyBuy(rows[t]), ApplySell(rows[t]), ApplyAll(rows[t])}, SetRow(t, s)
  PROVE  RowsGood
<1>1. TypeOK /\ rows[t] \in Row /\ Sound(t, rows[t])
  BY DEF IInv, TypeOK, HoldInv
<1>2. Follows(t, rows[t], s)
  BY <1>1, ReportsFollow
<1> QED
  BY <1>1, <1>2, FollowsGood

LEMMA OpenGood ==
  ASSUME TypeOK, HoldInv, NEW t \in Trades, NEW lc \in Lifecycles, lc \notin Terminal \cup {"NONE"},
         SetLifecycle(t, lc), \A e \in Ids : EntryOf(e, t) => Current(e)
  PROVE  RowsGood
<1>1. rows[t] \in Row /\ Sound(t, rows[t])
  BY DEF TypeOK, HoldInv
<1>2. Sound(t, [rows[t] EXCEPT !.lc = lc])
  BY <1>1, OpenSound
<1>3. [rows[t] EXCEPT !.lc = lc].lc = lc
  BY <1>1 DEF Row
<1> QED
  BY <1>2, <1>3, SetRowGood DEF SetLifecycle

LEMMA CloseGood ==
  ASSUME TypeOK, HoldInv, NEW t \in Trades, NEW lc \in Terminal, SetLifecycle(t, lc), Dead(t),
         \A e \in Ids : EntryOf(e, t) /\ Current(e) /\ GuardOf(t) => BtcTotal <= 0,
         IsOpen(rows[t]) => Closed(t) \/ op.h = "emergency" \/ pc = "exits"
  PROVE  RowsGood
<1>1. rows[t] \in Row /\ Sound(t, rows[t])
  BY DEF TypeOK, HoldInv
<1>2. Sound(t, [rows[t] EXCEPT !.lc = lc])
  BY <1>1, CloseSound
<1> QED
  BY <1>2, SetRowGood DEF SetLifecycle

\* The handler's trade has the last entry.
LEMMA HandCurrent ==
  ASSUME HandInv, op.t \in Trades PROVE \A e \in Ids : EntryOf(e, op.t) => Current(e)
BY IdFacts DEF HandInv

\* An entry that was refused, or aborted before it left, is all that its trade has.
LEMMA RefusedGood ==
  ASSUME IInv, RInv, Core, HoldInv, NEW t \in Trades, SetLifecycle(t, "ENTRY_REJECTED"),
         \A e \in Ids : EntryOf(e, t) => Current(e),
         NEW i \in Ids, EntryOf(i, t), intents[i].st \in {"ABORTED", "DEFINITE_REJECT"}
  PROVE  RowsGood
<1>1. ~Exists(i) /\ book[i].bought = 0 /\ book[i].sold = 0
  BY PresentFacts, OrderOfIntent DEF IInv, RInv, Core, KindInv, Present, Landed
<1>2. rows[t].obj = 0
  BY RowFacts DEF RInv
<1>3. \A j \in Ids : intents[j].trade = t => intents[j].opn = "ENTRY"
  BY <1>2, RowFacts DEF RInv
<1>4. \A e \in Ids : EntryOf(e, t) => e = i
  BY EntryUnique DEF EntryOf
<1>5. ~GuardOf(t) /\ Dead(t)
  <2>1. ~GuardOf(t)
    BY <1>3, OpKinds DEF GuardOf, IsGuard
  <2> QED
    BY <1>1, <1>4, <2>1, NoneLiveWithoutGuard DEF Live, Exists
<1>6. BtcTotal <= 0
  BY <1>1, EntryLimit DEF IInv, TypeOK, ExchangeTypeOK, BtcTotal
<1>7. Closed(t)
  BY <1>1, <1>6, EndedFlat DEF Exists
<1> QED
  BY <1>5, <1>7, CloseGood DEF IInv, Terminal

LEMMA EntryGood ==
  ASSUME IInv, RInv, Core, HoldInv, KnowInv, Entry, UNCHANGED intents PROVE RowsGood
<1>1. TypeOK /\ SubmitInv /\ RowInv /\ HandInv
  BY DEF IInv, RInv, KnowInv
<1>2. pc = "submit" => /\ op.t \in Trades
                       /\ \A i \in Ids : ~EntryOf(i, op.t)
                       /\ ~GuardOf(op.t) /\ Dead(op.t)
  <2>1. pc = "submit" => op.t \in Trades
    BY DEF IInv, ControlInv, StepInv, TradeSteps
  <2> QED
    BY <1>1, <2>1 DEF SubmitInv, EntryOf, GuardOf, Dead
<1>3. ASSUME NEW t \in Trades, ProcessSignal(t) PROVE RowsGood
  <2>1. \A e \in Ids : ~EntryOf(e, t)
    BY <1>1, <1>3, RowFacts DEF ProcessSignal, NewTrade, EntryOf
  <2> QED
    BY <1>1, <1>3, <2>1, OpenGood DEF ProcessSignal, Lifecycles, Terminal
<1>4. CASE SubmitRefused
  <2>1. CASE SetLifecycle(op.t, "ENTRY_REJECTED")
    <3>1. Closed(op.t)
      BY <1>2, <1>4 DEF Closed, SubmitRefused
    <3> QED
      BY <1>1, <1>2, <1>4, <2>1, <3>1, CloseGood DEF SubmitRefused, Terminal
  <2>2. CASE KeepRows
    BY <2>2, KeepGood DEF KeepRows
  <2> QED
    BY <1>4, <2>1, <2>2 DEF SubmitRefused
<1>5. CASE SubmitPersist
  <2> DEFINE s == [NoRow EXCEPT !.lc = "ENTRY_SUBMITTED"]
  <2>1. op.t \in Trades /\ SetRow(op.t, s) /\ \A i \in Ids : ~EntryOf(i, op.t)
    BY <1>2, <1>5 DEF SubmitPersist
  <2>2. s.lc = "ENTRY_SUBMITTED" /\ s.ent = 0 /\ s.obj = 0 /\ s.filled = 0 /\ s.prot = 0
    BY DEF NoRow
  <2> HIDE DEF s
  <2>3. Sound(op.t, s)
    BY <2>1, <2>2 DEF Sound, NamesOf, Terminal
  <2> QED
    BY <1>1, <2>1, <2>2, <2>3, SetRowGood DEF Terminal
<1>6. CASE EntryDone
  <2>1. CASE pc = "posted" /\ KeepRows
    BY <2>1, KeepGood DEF KeepRows
  <2>2. pc \in {"rejected", "ambiguous"} => /\ op.t \in Trades /\ op.i \in Ids /\ EntryOf(op.i, op.t)
                                            /\ \A e \in Ids : EntryOf(e, op.t) => Current(e)
    BY <1>1, <1>6, HandCurrent, SubmitFacts DEF EntryDone, SubmitInv, SubmitSteps, EntryOf
  <2>3. CASE pc = "rejected" /\ SetLifecycle(op.t, "ENTRY_REJECTED")
    <3>1. intents[op.i].st = "DEFINITE_REJECT"
      BY <1>1, <2>3 DEF SubmitInv
    <3> QED
      BY <2>2, <2>3, <3>1, RefusedGood
  <2>4. CASE pc = "ambiguous" /\ SetLifecycle(op.t, "AMBIGUOUS")
    BY <1>1, <2>2, <2>4, OpenGood DEF Lifecycles, Terminal
  <2> QED
    BY <1>6, <2>1, <2>3, <2>4 DEF EntryDone
<1>7. CASE SubmitRaises \/ \E t \in Trades : ManualEntry(t)
  BY <1>7, KeepGood DEF SubmitRaises, ManualEntry, KeepRows
<1>8. ASSUME NEW i \in Ids, PrepareEntry(i) PROVE RowsGood
  BY <1>8, KeepGood DEF PrepareEntry, KeepRows
<1> QED
  BY <1>3, <1>4, <1>5, <1>6, <1>7, <1>8 DEF Entry

\* A position that a sale or a plan was for, and of which nothing is left.
LEMMA SoldGood ==
  ASSUME IInv, RInv, Core, HoldInv, NEW t \in Trades, SetLifecycle(t, "EXIT_FILLED"),
         \A e \in Ids : EntryOf(e, t) => Current(e),
         NEW j \in Ids, IsSale(j) \/ IsGuard(j), intents[j].trade = t, BtcTotal <= 0
  PROVE  RowsGood
<1>1. PICK e \in Ids : EntryOf(e, t)
  BY DEF Core, CurrentInv
<1>2. Current(e) /\ book[e].ph # "working"
  BY <1>1, AfterEntry
<1>3. Dead(t) /\ Closed(t)
  BY <1>1, <1>2, EndedFlat
<1> QED
  BY <1>3, CloseGood DEF IInv, Terminal

LEMMA ExitRowGood ==
  ASSUME IInv, RInv, Core, HoldInv, KnowInv, pc = "exitRow", SetLifecycle(op.t, "EXIT_FILLED")
  PROVE  RowsGood
<1>1. op.t \in Trades /\ BtcTotal <= 0 /\ GuardOf(op.t)
  BY DEF IInv, ControlInv, StepInv, TradeSteps, KnowInv, SightInv
<1>2. PICK j \in Ids : IsGuard(j) /\ intents[j].trade = op.t
  BY <1>1 DEF GuardOf
<1>3. \A e \in Ids : EntryOf(e, op.t) => Current(e)
  BY <1>1, HandCurrent DEF KnowInv
<1> QED
  BY <1>1, <1>2, <1>3, SoldGood

\* An emergency sale is no guard: without one nothing of the trade can be live.
LEMMA UnguardedDead ==
  ASSUME IInv, RInv, Core, NEW t \in Trades, ~GuardOf(t),
         NEW j \in Ids, IsSale(j), intents[j].trade = t, \A e \in Ids : EntryOf(e, t) => Current(e)
  PROVE  Dead(t)
<1>1. \A e \in Ids : EntryOf(e, t) => ~Live(e)
  BY AfterEntry DEF Live
<1> QED
  BY <1>1, NoneLiveWithoutGuard

LEMMA HandlerGood ==
  ASSUME IInv, RInv, Core, HoldInv, KnowInv, Convert \/ Emergency, UNCHANGED intents PROVE RowsGood
<1>1. TypeOK /\ HandInv /\ SightInv
  BY DEF IInv, KnowInv
<1>2. CASE ConvertExited
  BY <1>2, ExitRowGood DEF ConvertExited
<1>3. CASE ConvertDone
  <2>1. pc \in SubmitSteps
    BY <1>3 DEF ConvertDone, SubmitSteps
  <2>2. op.t \in Trades /\ \A e \in Ids : EntryOf(e, op.t) => Current(e)
    BY <1>1, <2>1, SubmitFacts, HandCurrent
  <2>3. PICK lc \in {"AMBIGUOUS", "PROTECTION_ACTIVE"} : SetLifecycle(op.t, lc)
    BY <1>3 DEF ConvertDone
  <2> QED
    BY <1>1, <2>2, <2>3, OpenGood DEF Lifecycles, Terminal
<1>4. CASE EmergencyVerify
  <2>1. CASE KeepRows
    BY <2>1, KeepGood DEF KeepRows
  <2>2. CASE op.q - book[op.i].sold < 1 /\ SetLifecycle(op.t, "EXIT_FILLED")
    <3>1. pc \in SubmitSteps /\ op.h = "emergency"
      BY <1>4 DEF EmergencyVerify, SubmitSteps
    <3>2. op.t \in Trades /\ op.i \in Ids /\ intents[op.i].trade = op.t
      BY <3>1, SubmitFacts
    <3>3. \A e \in Ids : EntryOf(e, op.t) => Current(e)
      BY <1>1, <3>2, HandCurrent
    <3>4. IsSale(op.i)
      BY <1>1, <3>1, OpKinds DEF HandInv, IsSale
    <3>5. CASE GuardOf(op.t)
      <4>1. BtcTotal <= op.q - book[op.i].sold
        BY <1>1, <3>1, <3>2, <3>5, IdFacts DEF SightInv, Guarded
      <4>2. BtcTotal \in Int /\ book[op.i].sold \in Nat /\ op.q \in Nat
        BY <1>1, <3>2, OrderType DEF BtcTotal, TypeOK, Op
      <4>3. BtcTotal <= 0
        BY <2>2, <4>1, <4>2
      <4> QED
        BY <2>2, <3>2, <3>3, <3>4, <4>3, SoldGood
    <3>6. CASE ~GuardOf(op.t)
      <4>1. Dead(op.t)
        BY <3>2, <3>3, <3>4, <3>6, UnguardedDead
      <4> QED
        BY <1>1, <2>2, <3>1, <3>2, <3>6, <4>1, CloseGood DEF Terminal
    <3> QED
      BY <3>5, <3>6
  <2> QED
    BY <1>4, <2>1, <2>2 DEF EmergencyVerify
<1>5. CASE UNCHANGED rows
  BY <1>5, KeepGood
<1> QED
  BY <1>2, <1>3, <1>4, <1>5 DEF Convert, ConvertBegin, ConvertStops, ConvertCanceled, ReplaceFoundFlat,
     PrepareReplacement, Emergency, EmergencyBegin, EmergencyStops, EmergencySell, KeepRows

LEMMA BindGood ==
  ASSUME IInv, RInv, Core, HoldInv, KnowInv, BindIntent PROVE RowsGood
<1> DEFINE n == intents[op.i]
           t == intents[op.i].trade
           b == BoundRow(n, rows[t], op.i)
<1>1. TypeOK /\ RowInv /\ pc = "bind" /\ op \in Op /\ HandInv
  BY DEF BindIntent, IInv, TypeOK, RInv, KnowInv
<1>2. /\ op.i \in Ids /\ op.i # 0 /\ Exists(op.i) /\ t \in Trades /\ n \in Intent
      /\ n.opn \in PostOps /\ t = op.t
  <2>1. op.i \in Ids /\ t \in Trades /\ t = op.t
    BY <1>1, SubmitFacts DEF SubmitSteps
  <2>2. Exists(op.i)
    BY <1>1 DEF RInv, SubmitInv
  <2>3. n.opn \in PostOps
    BY <1>1 DEF HandInv, SubmitSteps
  <2> QED
    BY <1>1, <2>1, <2>2, <2>3, IdFacts DEF TypeOK
<1>3. \A e \in Ids : EntryOf(e, t) => Current(e)
  BY <1>1, <1>2, HandCurrent
<1>4. rows[t] \in Row /\ Sound(t, rows[t]) /\ rows[t].lc # "NONE"
  BY <1>1, <1>2, RowFacts DEF TypeOK, HoldInv
<1>5. PICK s \in Reported(n, b) : SetRow(t, s)
  BY DEF BindIntent
<1> HIDE DEF n, t, b
<1>6. s \in {b, ApplyAll(b), ApplyBuy(b)}
  BY <1>5 DEF Reported
\* A bound row, before the reports that came with it, is open.
<1>7. ASSUME b \in Row, IsOpen(b), Sound(t, b) PROVE RowsGood
  <2>1. Follows(t, b, s)
    BY <1>2, <1>6, <1>7, ReportsFollow DEF IsOpen
  <2>2. Sound(t, s) /\ (s.lc \in Terminal => Closed(t))
    BY <1>7, <2>1 DEF Follows, IsOpen
  <2> QED
    BY <1>1, <1>2, <1>5, <2>2, SetRowGood
<1>8. CASE n.opn = "ENTRY"
  <2>1. b = [rows[t] EXCEPT !.lc = "ENTRY_SUBMITTED", !.ent = op.i, !.obj = op.i]
    BY <1>8 DEF b, BoundRow
  <2>2. /\ b \in Row /\ b.ent = op.i /\ b.obj = op.i /\ b.lc = "ENTRY_SUBMITTED"
        /\ b.filled = rows[t].filled /\ b.prot = rows[t].prot
    BY <1>2, <1>4, <2>1 DEF Row, Lifecycles
  <2>3. EntryOf(op.i, t)
    BY <1>8 DEF EntryOf, n, t
  <2>4. NamesOf(t, b)
    BY <1>2, <2>2, <2>3 DEF NamesOf
  <2>5. Guarded(t, b) <=> Guarded(t, rows[t])
    BY <2>2 DEF Guarded
  <2>6. \A e \in Ids : HeldBy(t, rows[t], e) => HeldBy(t, b, e)
    BY <2>2, <2>5 DEF HeldBy, Terminal
  <2>7. Sound(t, b)
    BY <1>3, <1>4, <2>2, <2>4, <2>6 DEF Sound, Terminal
  <2> QED
    BY <1>7, <2>2, <2>7 DEF IsOpen, Terminal
<1>9. CASE n.opn \in {"PROTECTION", "PARTIAL_FILL_PROTECTION"}
  <2>1. b = [rows[t] EXCEPT !.lc = "PROTECTION_ACTIVE", !.obj = op.i, !.prot = n.qty]
    BY <1>9 DEF b, BoundRow
  <2>2. n.qty \in Nat
    BY <1>2 DEF Intent
  <2>3. /\ b \in Row /\ b.ent = rows[t].ent /\ b.obj = op.i /\ b.lc = "PROTECTION_ACTIVE"
        /\ b.filled = rows[t].filled /\ b.prot = n.qty
    BY <1>2, <1>4, <2>1, <2>2 DEF Row, Lifecycles
  <2>4. IsGuard(op.i) /\ IsSale(op.i) /\ intents[op.i].trade = t /\ GuardOf(t)
    BY <1>2, <1>9, OpKinds DEF IsGuard, IsSale, GuardOps, n, t, GuardOf
  <2>5. rows[t].obj # 0 /\ rows[t].ent # 0
    BY <1>1, <1>2, <1>4, <1>9, RowFacts, SoundParts DEF n, t, NamesOf
  <2>6. NamesOf(t, b)
    BY <1>2, <1>4, <2>3, <2>4, <2>5, SoundParts DEF NamesOf
  <2>7. ASSUME NEW e \in Ids, EntryOf(e, t) PROVE Current(e) /\ HeldBy(t, b, e)
    <3>1. Current(e) /\ HeldBy(t, rows[t], e)
      BY <1>3, <1>4, <2>7, SoundParts
    <3>2. Current(op.i) /\ Exists(e) /\ book[e].ph # "working"
      BY <1>2, <2>4, <2>7, <3>1, AfterEntry
    <3>3. BtcTotal <= n.qty
      <4>1. BtcTotal <= intents[op.i].qty - book[op.i].sold
        BY <1>2, <2>4, <3>2 DEF Core, LimitInv
      <4>2. BtcTotal \in Int /\ book[op.i].sold \in Nat
        BY <1>1, <1>2, OrderType DEF BtcTotal
      <4> QED
        BY <2>2, <4>1, <4>2 DEF n
    <3>4. BtcTotal <= LargerOf(b.filled, b.prot)
      <4>1. BtcTotal \in Int /\ b.filled \in Nat
        BY <1>1, <1>2, <2>3, OrderType DEF BtcTotal, Row
      <4> QED
        BY <2>2, <2>3, <3>3, <4>1 DEF LargerOf
    <3> QED
      BY <2>3, <2>4, <3>1, <3>2, <3>3, <3>4 DEF HeldBy, Guarded, Terminal
  <2>8. Sound(t, b)
    BY <2>3, <2>6, <2>7 DEF Sound, Terminal
  <2> QED
    BY <1>7, <2>3, <2>8 DEF IsOpen, Terminal
<1>10. CASE n.opn = "EMERGENCY_EXIT"
  <2>1. b = rows[t]
    BY <1>10 DEF b, BoundRow
  <2>2. s \in {rows[t], ApplyBuy(rows[t]), ApplySell(rows[t]), ApplyAll(rows[t])}
    BY <1>6, <2>1
  <2> QED
    BY <1>2, <1>4, <1>5, <2>2, ReportsGood
<1> QED
  BY <1>2, <1>8, <1>9, <1>10 DEF PostOps

LEMMA TickGood ==
  ASSUME IInv, RInv, Core, HoldInv, KnowInv, Tick, UNCHANGED intents PROVE RowsGood
<1>1. TypeOK /\ HandInv /\ RowInv /\ rows \in [Trades -> Row]
  BY DEF IInv, KnowInv, RInv, TypeOK
<1>2. ASSUME NEW t \in Trades, rows[t].ent # 0, SetRow(t, ApplyBuy(rows[t])) PROVE RowsGood
  BY <1>1, <1>2, RowFacts, ReportsGood
<1>3. ASSUME NEW t \in Trades, EntryWindowExpires(t) PROVE RowsGood
  <2> DEFINE s == [rows[t] EXCEPT !.stale = TRUE]
  <2>1. rows'[t] = s /\ \A u \in Trades \ {t} : rows'[u] = rows[u]
    BY <1>1, <1>3 DEF EntryWindowExpires
  <2>2. rows[t] \in Row /\ Sound(t, rows[t])
    BY <1>1 DEF HoldInv
  <2>3. /\ s.ent = rows[t].ent /\ s.obj = rows[t].obj /\ s.filled = rows[t].filled
        /\ s.prot = rows[t].prot /\ s.lc = rows[t].lc
    BY <2>2 DEF Row
  <2> HIDE DEF s
  <2>4. Sound(t, s)
    BY <2>2, <2>3 DEF Sound, NamesOf, HeldBy, Guarded, IsOpen
  <2>5. RowGood(t)
    BY <2>1, <2>3, <2>4 DEF RowGood, Ends, IsOpen
  <2> QED
    BY <2>1, <2>5, SameGood DEF RowsGood
<1>4. pc \in {"stale", "staleTerminal", "partialTerminal"} => op.t \in Trades
  BY DEF IInv, ControlInv, StepInv, TradeSteps
<1>5. CASE StaleCancels
  BY <1>2, <1>4, <1>5 DEF StaleCancels
<1>6. CASE StaleTerminal
  <2> DEFINE t == op.t
             e == rows[op.t].ent
  <2>1. t \in Trades /\ e # 0 /\ BuyTerminal(e) /\ rows[t] \in Row /\ Sound(t, rows[t])
    BY <1>1, <1>4, <1>6 DEF StaleTerminal, HoldInv
  <2>2. CASE book[e].bought > 0
    BY <1>2, <1>6, <2>1, <2>2 DEF StaleTerminal
  <2>3. CASE ~(book[e].bought > 0)
    <3> DEFINE r == ApplyBuy(rows[t])
    <3>1. SetRow(t, [r EXCEPT !.lc = "ENTRY_REJECTED"])
      BY <1>6, <2>3 DEF StaleTerminal
    <3>2. e \in Ids /\ Exists(e) /\ EntryOf(e, t)
      BY <2>1, SoundParts DEF NamesOf, Row
    <3>3. Current(e)
      BY <1>1, <2>1, <3>2, HandCurrent
    <3>4. /\ book[e].bought = 0 /\ book[e].qty = EntryQty /\ EntryQty > 0 /\ EntryQty \in Nat
          /\ book[e].sold \in Nat /\ BtcTotal \in Int
      BY <1>1, <2>3, <3>2, OrderType, OrderOfIntent, ExchangeAssumption
      DEF IInv, RInv, ShapeInv, EntryOf, BtcTotal
    <3>5. book[e].ph = "done"
      BY <2>1, <3>4 DEF BuyTerminal
    <3>6. BtcTotal <= 0
      BY <3>2, <3>3, <3>4, EntryLimit
    <3>7. Dead(t) /\ Closed(t)
      BY <3>2, <3>3, <3>5, <3>6, EndedFlat
    <3>8. Follows(t, rows[t], r)
      BY <1>1, <2>1, RowFacts, ReportsFollow
    <3> HIDE DEF r
    <3>9. Sound(t, [r EXCEPT !.lc = "ENTRY_REJECTED"])
      BY <3>6, <3>7, <3>8, CloseSound DEF Follows, Terminal
    <3> QED
      BY <1>1, <2>1, <3>1, <3>7, <3>9, SetRowGood
  <2> QED
    BY <2>2, <2>3
<1>7. ASSUME NEW t \in Trades, PartialCompletes(t) PROVE RowsGood
  <2> DEFINE r == ApplyBuy(rows[t])
  <2>1. t \in ActiveRows /\ SetRow(t, [r EXCEPT !.lc = "PROTECTION_ACTIVE"])
    BY <1>7 DEF PartialCompletes, PartialLookup, ActiveTrade
  <2>2. rows[t] \in Row /\ Sound(t, rows[t]) /\ IsOpen(rows[t]) /\ rows[t].lc # "NONE"
    BY <1>1, <2>1 DEF HoldInv, ActiveRows, IsOpen
  <2>3. Follows(t, rows[t], r)
    BY <2>2, ReportsFollow
  <2>4. \A e \in Ids : EntryOf(e, t) => Current(e)
    BY <2>2, SoundParts
  <2> HIDE DEF r
  <2>5. Sound(t, [r EXCEPT !.lc = "PROTECTION_ACTIVE"])
    BY <2>3, <2>4, OpenSound DEF Follows, Lifecycles, Terminal
  <2>6. [r EXCEPT !.lc = "PROTECTION_ACTIVE"].lc = "PROTECTION_ACTIVE"
    BY <2>3 DEF Follows, Row
  <2> QED
    BY <1>1, <2>1, <2>5, <2>6, SetRowGood DEF Terminal
<1>8. ASSUME NEW t \in Trades, PartialRefuses(t) \/ PartialCancels(t) \/ PartialProceeds(t) PROVE RowsGood
  BY <1>2, <1>8 DEF PartialRefuses, PartialCancels, PartialProceeds, PartialLookup
<1>9. CASE PartialTerminal
  <2>1. CASE SetRow(op.t, ApplyBuy(rows[op.t]))
    <3>1. op.t \in Trades /\ rows[op.t].obj # 0
      BY <1>4, <1>9 DEF PartialTerminal, RInv, TargetInv, BoundSteps
    <3>2. rows[op.t].lc # "NONE"
      BY <1>1, <3>1, RowFacts
    <3> QED
      BY <2>1, <3>1, <3>2, ReportsGood
  <2>2. CASE KeepRows
    BY <2>2, KeepGood DEF KeepRows
  <2> QED
    BY <1>9, <2>1, <2>2 DEF PartialTerminal
<1>10. CASE UNCHANGED rows
  BY <1>10, KeepGood
<1> QED
  BY <1>3, <1>5, <1>6, <1>7, <1>8, <1>9, <1>10 DEF Tick, TickBegin, TickPartial, StaleFails, StaleCanceled,
     PartialFails, PartialCanceled, PartialDone, PartialPlace, KeepRows

LEMMA ReconcileGood ==
  ASSUME IInv, RInv, Core, HoldInv, KnowInv, Reconcile, UNCHANGED intents PROVE RowsGood
<1>1. TypeOK /\ HandInv /\ RowInv /\ rows \in [Trades -> Row]
  BY DEF IInv, KnowInv, RInv, TypeOK
<1>2. CASE ResolveAbortedEntry
  <2>1. pc = "abortRow" /\ SetLifecycle(op.t, "ENTRY_REJECTED")
    BY <1>2 DEF ResolveAbortedEntry
  <2>2. op.t \in Trades /\ op.i \in Ids /\ EntryOf(op.i, op.t) /\ intents[op.i].st = "ABORTED"
    BY <2>1 DEF IInv, ControlInv, StepInv, TradeSteps, RInv, SubmitInv
  <2>3. \A e \in Ids : EntryOf(e, op.t) => Current(e)
    BY <1>1, <2>2, HandCurrent
  <2> QED
    BY <2>1, <2>2, <2>3, RefusedGood
<1>3. CASE ResolveDone \/ PlanDone
  <2>1. CASE pc = "posted" /\ SetLifecycle(op.t, "PROTECTION_ACTIVE")
    <3>1. op.t \in Trades /\ \A e \in Ids : EntryOf(e, op.t) => Current(e)
      BY <1>1, <2>1, SubmitFacts, HandCurrent DEF SubmitSteps
    <3> QED
      BY <1>1, <2>1, <3>1, OpenGood DEF Lifecycles, Terminal
  <2>2. CASE pc = "exitRow" /\ SetLifecycle(op.t, "EXIT_FILLED")
    BY <2>2, ExitRowGood
  <2>3. CASE KeepRows
    BY <2>3, KeepGood DEF KeepRows
  <2> QED
    BY <1>3, <2>1, <2>2, <2>3 DEF ResolveDone, PlanDone
<1>4. CASE Refresh
  <2>1. CASE KeepRows
    BY <2>1, KeepGood DEF KeepRows
  <2>2. CASE rows' = [t \in Trades |-> IF t \in ActiveRows THEN ApplyAll(rows[t]) ELSE rows[t]]
    <3>1. ASSUME NEW t \in Trades PROVE RowGood(t)
      <4>1. CASE t \in ActiveRows
        <5>1. rows'[t] = ApplyAll(rows[t]) /\ rows[t] \in Row /\ Sound(t, rows[t]) /\ rows[t].lc # "NONE"
          BY <1>1, <2>2, <4>1 DEF ActiveRows, HoldInv
        <5>2. Follows(t, rows[t], ApplyAll(rows[t]))
          BY <5>1, ReportsFollow
        <5> QED
          BY <5>1, <5>2 DEF Follows, RowGood, Ends, IsOpen
      <4>2. CASE t \notin ActiveRows
        BY <2>2, <4>2, SameGood
      <4> QED
        BY <4>1, <4>2
    <3> QED
      BY <3>1 DEF RowsGood
  <2> QED
    BY <1>4, <2>1, <2>2 DEF Refresh
<1>5. CASE RecoverExits
  <2> DEFINE candidates == {t \in ActiveRows : ConfirmedExits(t) # {}}
  <2>1. CASE KeepRows
    BY <2>1, KeepGood DEF KeepRows
  <2>2. CASE rows' = [t \in Trades |-> IF t \in candidates /\ Exited(t)
                                         THEN [rows[t] EXCEPT !.lc = "EXIT_FILLED"] ELSE rows[t]]
    <3>1. ASSUME NEW t \in Trades, t \in candidates, Exited(t)
          PROVE  Sound(t, [rows[t] EXCEPT !.lc = "EXIT_FILLED"])
      <4> DEFINE r == rows[t]
      <4>1. PICK j \in Ids : /\ intents[j].opn = "EMERGENCY_EXIT" /\ intents[j].trade = t
                             /\ intents[j].qty = LargerOf(r.filled, r.prot)
                             /\ book[j].sold = intents[j].qty
        BY <3>1 DEF Exited, ConfirmedExits
      <4>2. IsSale(j)
        BY <4>1, OpKinds DEF IsSale
      <4>3. r \in Row /\ Sound(t, r) /\ IsOpen(r)
        BY <1>1, <3>1 DEF ActiveRows, IsOpen, HoldInv
      <4>4. \A e \in Ids : EntryOf(e, t) => Current(e) /\ HeldBy(t, r, e)
        BY <4>3, SoundParts
      <4>5. ASSUME NEW e \in Ids, EntryOf(e, t), GuardOf(t) PROVE BtcTotal <= 0 /\ Dead(t)
        <5>1. e < j /\ book[e].ph # "working"
          BY <4>1, <4>2, <4>4, <4>5, AfterEntry
        <5>2. BtcTotal <= book[e].bought - book[j].sold
          BY <4>4, <4>5, <5>1, IdFacts DEF Core, LimitInv, EntryOf, IsEntry
        <5>3. BtcTotal <= intents[j].qty - book[j].sold \/ r.filled = book[e].bought
          BY <4>1, <4>4, <4>5 DEF HeldBy, Guarded
        <5>4. /\ BtcTotal \in Int /\ intents[j].qty \in Nat /\ r.filled \in Nat /\ r.prot \in Nat
          BY <1>1, <4>3, OrderType DEF BtcTotal, TypeOK, Intent, Row
        <5>5. BtcTotal <= 0
          BY <4>1, <5>2, <5>3, <5>4 DEF LargerOf
        <5> QED
          BY <4>4, <4>5, <5>1, <5>5, EndedFlat
      <4>6. Dead(t)
        <5>1. PICK e \in Ids : EntryOf(e, t)
          BY <4>1, <4>2 DEF Core, CurrentInv
        <5>2. CASE GuardOf(t)
          BY <4>5, <5>1, <5>2
        <5>3. CASE ~GuardOf(t)
          BY <4>1, <4>2, <4>4, <5>3, UnguardedDead
        <5> QED
          BY <5>2, <5>3
      <4> QED
        BY <4>3, <4>5, <4>6, CloseSound DEF Terminal
    <3>2. ASSUME NEW t \in Trades PROVE RowGood(t)
      <4>1. CASE t \in candidates /\ Exited(t)
        BY <1>5, <2>2, <3>1, <4>1 DEF RowGood, RecoverExits
      <4>2. CASE ~(t \in candidates /\ Exited(t))
        BY <2>2, <4>2, SameGood
      <4> QED
        BY <4>1, <4>2
    <3> QED
      BY <3>2 DEF RowsGood
  <2> QED
    BY <1>5, <2>1, <2>2 DEF RecoverExits
<1>6. CASE UNCHANGED rows
  BY <1>6, KeepGood
<1> QED
  BY <1>2, <1>3, <1>4, <1>5, <1>6 DEF Reconcile, ReconcileCommand, ArmCommand, ArmFinish, Start, ResolveSkips,
     ResolveChild, ResolvePrepared, ResolveCancel, ResolveFound, PlanWithoutCancel, PlanResumes,
     ResolveEnds, PlanStays, PlansEnd, ReconcileRecovers, Verdict, KeepRows

LEMMA StreamGood ==
  ASSUME IInv, RInv, Core, HoldInv, Stream PROVE RowsGood
<1>1. \A t \in Trades : rows[t].ent # 0 => rows[t].lc # "NONE"
  BY RowFacts DEF RInv
<1>2. ASSUME NEW t \in Trades, StreamUpdate(t) PROVE RowsGood
  BY <1>1, <1>2, ReportsGood DEF StreamUpdate
<1>3. ASSUME NEW i \in Ids, StreamPartialFill(i) PROVE RowsGood
  <2>1. CASE KeepRows
    BY <2>1, KeepGood DEF KeepRows
  <2>2. ASSUME NEW t \in Trades, rows[t].ent = i, SetRow(t, ApplyBuy(rows[t])) PROVE RowsGood
    BY <1>1, <2>2, IdFacts, ReportsGood
  <2> QED
    BY <1>3, <2>1, <2>2 DEF StreamPartialFill
<1>4. CASE StreamResync
  BY <1>4, KeepGood DEF StreamResync, KeepRows
<1> QED
  BY <1>2, <1>3, <1>4 DEF Stream

LEMMA RowsGoodStep ==
  ASSUME IInv, RInv, Core, HoldInv, KnowInv, Next PROVE RowsGood
<1>1. CASE UNCHANGED intents
  <2>1. CASE Exchange \/ CancelProcedure \/ Owner \/ Crash
    <3>1. UNCHANGED rows
      BY <2>1 DEF Exchange, durableVars, CancelProcedure, CancelWithoutTarget, CancelAlreadyPrepared,
         CancelOutOfRoom, CancelPrepare, CancelMark, DeleteAccepted, DeleteFails, CancelConfirm,
         CancelUnchanged, Owner, ClearRiskPause, OwnerPause, Crash, KeepRows
    <3> QED
      BY <3>1, KeepGood
  <2>2. CASE PostProcedure
    <3>1. CASE BindIntent
      BY <3>1, BindGood
    <3>2. CASE UNCHANGED rows
      BY <3>2, KeepGood
    <3> QED
      BY <2>2, <3>1, <3>2 DEF PostProcedure, MarkSubmitting, PostAccepted, PostRejected, PostUnanswered,
         LookupFound, LookupMissing, ConfirmIntent, PostUnchanged, KeepRows
  <2> QED
    BY <1>1, <2>1, <2>2, EntryGood, HandlerGood, TickGood, ReconcileGood, StreamGood DEF Next
<1>2. CASE UNCHANGED rows
  BY <1>2, KeepGood
<1> QED
  BY <1>1, <1>2, Causes

-----------------------------------------------------------------------------
(***************************************************************************)
(* HoldInv, step by step.                                                   *)
(***************************************************************************)

\* A step that leaves the orders, the balance and the operations alone.
LEMMA SoundSame ==
  ASSUME UNCHANGED <<book, btc>>,
         \A i \in Ids : /\ intents'[i].opn = intents[i].opn /\ intents'[i].trade = intents[i].trade
                        /\ intents'[i].qty = intents[i].qty
  PROVE  \A t : \A r \in Row : Sound(t, r) => Sound(t, r)'
<1>1. /\ \A i \in Ids : /\ (IsGuard(i)' <=> IsGuard(i)) /\ (IsSale(i)' <=> IsSale(i))
                        /\ (IsEntry(i)' <=> IsEntry(i)) /\ (Live(i)' <=> Live(i))
                        /\ \A t : EntryOf(i, t)' <=> EntryOf(i, t)
      /\ \A i : Exists(i)' <=> Exists(i)
      /\ BtcTotal' = BtcTotal
  BY DEF IsGuard, IsSale, IsEntry, EntryOf, Live, Exists, BtcTotal
<1>2. \A i \in Ids : Current(i)' <=> Current(i)
  BY <1>1 DEF Current
<1>3. \A t : (GuardOf(t)' <=> GuardOf(t)) /\ (Dead(t)' <=> Dead(t))
  BY <1>1 DEF GuardOf, Dead
<1> SUFFICES ASSUME NEW t, NEW r \in Row, Sound(t, r) PROVE Sound(t, r)'
  OBVIOUS
<1>4. NamesOf(t, r)'
  <2>1. NamesOf(t, r)
    BY DEF Sound
  <2>2. r.ent \in Ids \cup {0} /\ r.obj \in Ids \cup {0}
    BY DEF Row
  <2>3. r.obj # 0 => intents'[r.obj].trade = intents[r.obj].trade
    BY <2>2
  <2> QED
    BY <1>1, <2>1, <2>2, <2>3 DEF NamesOf
<1>5. ASSUME NEW e \in Ids, HeldBy(t, r, e) PROVE HeldBy(t, r, e)'
  BY <1>1, <1>3, <1>5 DEF HeldBy, Guarded
<1> QED
  BY <1>1, <1>2, <1>3, <1>4, <1>5 DEF Sound

\* The matching engine under a row that stays.
LEMMA MarketSound ==
  ASSUME IInv, RInv, Core, OrdersLast, TypeOK', UNCHANGED intents, NEW i \in Ids, MarketStep(i),
         NEW t \in Trades, NEW r \in Row, r = rows[t], Sound(t, r)
  PROVE  Sound(t, r)'
<1>1. /\ \A k \in Ids : /\ (IsGuard(k)' <=> IsGuard(k)) /\ (IsSale(k)' <=> IsSale(k))
                        /\ (EntryOf(k, t)' <=> EntryOf(k, t)) /\ (Current(k)' <=> Current(k))
      /\ GuardOf(t)' <=> GuardOf(t)
      /\ Guarded(t, r)' <=> Guarded(t, r)
  BY DEF IsGuard, IsSale, IsEntry, EntryOf, Current, GuardOf, Guarded
<1>2. /\ NamesOf(t, r)
      /\ \A e \in Ids : EntryOf(e, t) => /\ IsOpen(r) => Current(e)
                                         /\ Current(e) => HeldBy(t, r, e)
      /\ r.lc \in Terminal => Dead(t)
  BY DEF Sound
<1>3. r.ent \in Ids \cup {0} /\ r.obj \in Ids \cup {0} /\ r.prot \in Nat /\ r.filled \in Nat
  BY DEF Row
<1>4. \A k \in Ids : Exists(k) => Exists(k)'
  BY DEF OrdersLast
<1>5. NamesOf(t, r)'
  BY <1>1, <1>2, <1>3, <1>4 DEF NamesOf
<1>6. /\ BtcTotal \in Int /\ BtcTotal' \in Int /\ LargerOf(r.filled, r.prot) \in Int
      /\ \A j \in Ids : book[j].sold \in Nat /\ book'[j].sold \in Nat /\ intents[j].qty \in Nat
  BY <1>3, OrderType DEF IInv, TypeOK, Intent, BtcTotal, ExchangeTypeOK, Order, LargerOf
<1>7. ASSUME NEW e \in Ids, EntryOf(e, t), Current(e) PROVE HeldBy(t, r, e)'
  <2>1. HeldBy(t, r, e)
    BY <1>2, <1>7
  <2>2. CASE Ebb
    <3>1. /\ BtcTotal' <= BtcTotal
          /\ \A j \in Ids : BtcTotal' + book'[j].sold <= BtcTotal + book[j].sold
          /\ book'[e].bought = book[e].bought
      BY <1>6, <1>7, <2>2 DEF Ebb
    <3>2. r.prot > 0 => BtcTotal' <= r.prot /\ Exists(e)' /\ book'[e].ph # "working"
      BY <1>3, <1>6, <2>1, <3>1, MarketOrders DEF HeldBy, IInv
    <3>3. ASSUME Guarded(t, r)
          PROVE  /\ BtcTotal' <= LargerOf(r.filled, r.prot)
                 /\ \A j \in Ids : intents[j].opn = "EMERGENCY_EXIT" /\ intents[j].trade = t =>
                      BtcTotal' <= intents[j].qty - book'[j].sold \/ r.filled = book'[e].bought
      BY <1>6, <2>1, <3>1, <3>3 DEF HeldBy
    <3>4. r.lc \in Terminal /\ GuardOf(t) => BtcTotal' <= 0
      BY <1>6, <2>1, <3>1 DEF HeldBy
    <3> QED
      BY <1>1, <3>2, <3>3, <3>4 DEF HeldBy
  <2>3. CASE book[i].ph = "working"
    <3>1. IsEntry(i) /\ Current(i)
      BY <2>3 DEF Core, StockInv, CurrentInv, Live
    <3>2. i = e
      BY <1>7, <3>1, OneEntry DEF EntryOf, IsEntry
    <3>3. ~(r.prot > 0)
      BY <2>1, <2>3, <3>2 DEF HeldBy
    <3>4. ~GuardOf(t)
      BY <1>7, <2>3, <3>2, AfterEntry DEF GuardOf
    <3> QED
      BY <1>1, <3>3, <3>4 DEF HeldBy, Guarded
  <2> QED
    BY <2>2, <2>3, MarketEffect DEF IInv, RInv, Core
<1>8. ASSUME r.lc \in Terminal PROVE Dead(t)'
  <2>1. ASSUME NEW k \in Ids, intents[k].trade = t, Live(k)' PROVE FALSE
    <3>1. k = i /\ Lands(i)
      BY <1>2, <1>8, <2>1, MarketOrders DEF Dead, IInv
    <3>2. ~IsEntry(i)
      BY <1>8, <2>1, <3>1, RowFacts DEF RInv, Lands, Unresolved, EntryOf, IsEntry
    <3>3. IsGuard(i) /\ IsSale(i) /\ 0 < intents[i].qty /\ intents[i].qty <= btc.free
      BY <2>1, <3>1, <3>2, LandFacts DEF IInv, Live
    <3>4. Current(i)
      BY <3>1 DEF Core, CurrentInv, Lands
    <3>5. PICK e \in Ids : EntryOf(e, t) /\ Current(e)
      BY <2>1, <3>1, <3>3, <3>4 DEF Core, CurrentInv
    <3>6. BtcTotal <= 0
      BY <1>2, <1>8, <2>1, <3>1, <3>3, <3>5 DEF HeldBy, GuardOf
    <3>7. btc.free \in Int /\ btc.free > 0
      BY <1>6, <3>3, OrderType DEF IInv
    <3>8. BtcTotal = btc.free
      BY <3>7, FreeIdle DEF RInv
    <3> QED
      BY <3>6, <3>7, <3>8
  <2> QED
    BY <2>1 DEF Dead
<1> QED
  BY <1>1, <1>2, <1>5, <1>7, <1>8 DEF Sound

\* A new intent under a row that stays.
LEMMA PreparedSound ==
  ASSUME IInv, RInv, Core, UNCHANGED <<book, btc>>, NEW i \in Ids, NEW n,
         Prepare(i, n), Fitting(n), RowFit(n),
         NEW t \in Trades, NEW r \in Row, r = rows[t], Sound(t, r)
  PROVE  Sound(t, r)'
<1>1. /\ intents[i].st = "NONE" /\ intents[i].opn = "NONE" /\ intents'[i] = n
      /\ ~Exists(i) /\ book[i].sold = 0
      /\ \A j \in Ids : i < j => intents[j].opn = "NONE"
      /\ \A j \in Ids \ {i} :
           /\ intents'[j].opn = intents[j].opn /\ intents'[j].trade = intents[j].trade
           /\ intents'[j].qty = intents[j].qty
  BY NewestFacts DEF Core
<1>2. /\ NamesOf(t, r)
      /\ \A e \in Ids : EntryOf(e, t) => /\ IsOpen(r) => Current(e)
                                         /\ Current(e) => HeldBy(t, r, e)
      /\ r.lc \in Terminal => Dead(t)
  BY DEF Sound
<1>3. r.ent \in Ids \cup {0} /\ r.obj \in Ids \cup {0} /\ r.prot \in Nat /\ r.filled \in Nat
  BY DEF Row
<1>4. /\ \A k : (Exists(k)' <=> Exists(k)) /\ (Live(k)' <=> Live(k))
      /\ BtcTotal' = BtcTotal /\ BtcTotal \in Int
      /\ \A j \in Ids : book[j].sold \in Nat /\ book[j].bought \in Nat /\ intents[j].qty \in Nat
  BY OrderType DEF Exists, Live, BtcTotal, IInv, TypeOK, Intent
<1>5. \A j \in Ids \ {i} : /\ (IsGuard(j)' <=> IsGuard(j)) /\ (IsSale(j)' <=> IsSale(j))
                           /\ (IsEntry(j)' <=> IsEntry(j)) /\ (EntryOf(j, t)' <=> EntryOf(j, t))
  BY <1>1 DEF IsGuard, IsSale, IsEntry, EntryOf
<1>6. /\ ~IsEntry(i) /\ ~IsGuard(i) /\ ~EntryOf(i, t)
      /\ IsEntry(i)' <=> n.opn = "ENTRY"
      /\ IsGuard(i)' <=> n.opn \in GuardOps
      /\ EntryOf(i, t)' <=> n.opn = "ENTRY" /\ n.trade = t
  BY <1>1, OpKinds DEF IsGuard, IsEntry, EntryOf, GuardOps
<1>7. n.opn # "ENTRY" => \A e \in Ids : Current(e)' <=> Current(e)
  BY <1>5, <1>6 DEF Current
<1>8. n.opn = "ENTRY" => \A e \in Ids \ {i} : EntryOf(e, t) => ~Current(e)'
  BY <1>1, <1>6, IdFacts DEF Current, EntryOf
<1>9. NamesOf(t, r)'
  <2>1. r.ent # 0 => r.ent \in Ids /\ r.ent # i
    BY <1>1, <1>2, <1>3 DEF NamesOf
  <2>2. r.obj # 0 => r.obj \in Ids /\ r.obj # i
    BY <1>1, <1>2, <1>3 DEF NamesOf
  <2> QED
    BY <1>1, <1>2, <1>4, <1>5, <2>1, <2>2 DEF NamesOf
<1>10. r.lc \in Terminal => Dead(t)'
  BY <1>1, <1>2, <1>4 DEF Dead, Live, Exists
<1>11. CASE n.trade # t
  <2>1. \A e \in Ids : EntryOf(e, t)' <=> EntryOf(e, t)
    BY <1>5, <1>6, <1>11
  <2>2. GuardOf(t)' <=> GuardOf(t)
    BY <1>1, <1>5, <1>6, <1>11 DEF GuardOf
  <2>3. ASSUME NEW e \in Ids, HeldBy(t, r, e) PROVE HeldBy(t, r, e)'
    BY <1>1, <1>4, <1>11, <2>2, <2>3 DEF HeldBy, Guarded
  <2>4. n.opn = "ENTRY" => ~IsOpen(r)
    BY <1>11 DEF RowFit, ActiveRows, IsOpen
  <2> QED
    BY <1>2, <1>6, <1>7, <1>8, <1>9, <1>10, <2>1, <2>3, <2>4 DEF Sound
<1>12. CASE n.trade = t /\ n.opn = "ENTRY"
  <2>1. \A j \in Ids : intents[j].trade # t
    BY <1>12 DEF Fitting
  <2>2. \A e \in Ids : EntryOf(e, t)' => e = i
    BY <1>5, <2>1 DEF EntryOf
  <2>3. r.ent = 0 /\ r.prot = 0
    BY <1>2, <1>3, <2>1 DEF NamesOf, EntryOf
  <2>4. ~GuardOf(t)'
    BY <1>1, <1>6, <1>12, <2>1, OpKinds DEF GuardOf
  <2>5. HeldBy(t, r, i)'
    BY <2>3, <2>4 DEF HeldBy, Guarded
  <2>6. Current(i)'
    BY <1>1, <1>5, <1>6, IdFacts DEF Current, IsEntry
  <2> QED
    BY <1>9, <1>10, <2>2, <2>5, <2>6 DEF Sound
<1>13. CASE n.trade = t /\ n.opn # "ENTRY"
  <2>1. \A e \in Ids : /\ EntryOf(e, t)' <=> EntryOf(e, t)
                       /\ Current(e)' <=> Current(e)
    BY <1>5, <1>6, <1>7, <1>13
  <2>2. GuardOf(t)' <=> GuardOf(t) \/ n.opn \in GuardOps
    BY <1>1, <1>5, <1>6, <1>13 DEF GuardOf
  <2>3. ASSUME NEW e \in Ids, EntryOf(e, t), Current(e) PROVE HeldBy(t, r, e)'
    <3>1. HeldBy(t, r, e)
      BY <1>2, <2>3
    <3>2. CASE n.opn \in GuardOps
      <4>1. PICK d \in Ids : /\ EntryOf(d, t)
                             /\ \/ Guarded(t, r) /\ (GuardOf(t) \/ r.lc \notin Terminal)
                                \/ r.filled = book[d].bought /\ r.lc \notin Terminal
        BY <1>13, <3>2 DEF RowFit
      <4>2. d = e
        BY <2>3, <4>1, EntryUnique DEF EntryOf
      <4>3. BtcTotal <= book[e].bought - book[e].sold
        BY <2>3, EntryLimit
      <4>4. \A j \in Ids : (intents'[j].opn = "EMERGENCY_EXIT" /\ intents'[j].trade = t) =>
              intents[j].opn = "EMERGENCY_EXIT" /\ intents[j].trade = t /\ intents'[j].qty = intents[j].qty
        BY <1>1, <3>2 DEF GuardOps
      <4>5. r.filled <= LargerOf(r.filled, r.prot) /\ LargerOf(r.filled, r.prot) \in Nat
        BY <1>3, SmallerFacts
      <4>6. CASE Guarded(t, r) /\ (GuardOf(t) \/ r.lc \notin Terminal)
        BY <1>4, <3>1, <4>4, <4>6 DEF HeldBy
      <4>7. CASE r.filled = book[e].bought /\ r.lc \notin Terminal
        <5>1. BtcTotal <= LargerOf(r.filled, r.prot)
          BY <1>4, <4>3, <4>5, <4>7
        <5> QED
          BY <1>4, <3>1, <4>4, <4>7, <5>1 DEF HeldBy
      <4> QED
        BY <4>1, <4>2, <4>6, <4>7
    <3>3. CASE n.opn \notin GuardOps
      <4>1. (GuardOf(t)' <=> GuardOf(t)) /\ (Guarded(t, r)' <=> Guarded(t, r))
        BY <2>2, <3>3 DEF Guarded
      <4>2. ASSUME Guarded(t, r), NEW j \in Ids, intents'[j].opn = "EMERGENCY_EXIT", intents'[j].trade = t
            PROVE  BtcTotal <= intents'[j].qty - book[j].sold \/ r.filled = book[e].bought
        <5>1. CASE j = i
          <6>1. BtcTotal <= n.qty /\ n.qty \in Nat
            BY <1>1, <1>13, <4>2, <5>1 DEF RowFit, Fitting
          <6> QED
            BY <1>1, <1>4, <5>1, <6>1
        <5>2. CASE j # i
          BY <1>1, <3>1, <4>2, <5>2 DEF HeldBy
        <5> QED
          BY <5>1, <5>2
      <4> QED
        BY <1>4, <3>1, <4>1, <4>2 DEF HeldBy
    <3> QED
      BY <3>2, <3>3
  <2> QED
    BY <1>2, <1>9, <1>10, <2>1, <2>3 DEF Sound
<1> QED
  BY <1>11, <1>12, <1>13

LEMMA MarketBought ==
  ASSUME TypeOK, Core, \A j \in Ids : book[j].bought <= book[j].qty, NEW i \in Ids, MarketStep(i)
  PROVE  \A j \in Ids : book'[j].bought <= book'[j].qty
<1>1. \A j \in Ids : book[j].qty \in Nat /\ book[j].bought \in Nat /\ intents[j].qty \in Nat
  BY OrderType DEF TypeOK, Intent
<1>2. book[i].ph = "working" => book[i].bought < book[i].qty
  BY DEF Core, StockInv
<1>3. CASE BuyFill(i)
  BY <1>1, <1>2, <1>3, BuyFillFacts DEF Others
<1>4. CASE SellFill(i)
  BY <1>4, SellFillFacts DEF Others
<1>5. CASE Live(i) /\ Terminate(i)
  BY <1>5, TerminateFacts DEF Others
<1>6. CASE Lands(i)
  BY <1>1, <1>6, LandFacts DEF Others
<1> QED
  BY <1>3, <1>4, <1>5, <1>6 DEF MarketStep

LEMMA HoldStep ==
  ASSUME IInv, RInv, Core, HoldInv, KnowInv, Next, TypeOK' PROVE HoldInv'
<1>1. SubmitOp /\ TypeOK /\ KindInv /\ BookInv /\ OrdersLast
  BY OpOfSubmit, OrdersStep DEF KnowInv, IInv, Core, RInv
<1>2. \A t \in Trades : rows[t] \in Row /\ rows'[t] \in Row /\ Sound(t, rows[t])
  BY DEF IInv, TypeOK, HoldInv
<1>3. (\A i \in Ids : book[i].bought <= book[i].qty)'
  <2>1. \A i \in Ids : book[i].bought <= book[i].qty
    BY DEF HoldInv
  <2>2. CASE UNCHANGED <<book, btc>>
    BY <2>1, <2>2
  <2>3. ASSUME NEW i \in Ids, MarketStep(i) PROVE (\A j \in Ids : book[j].bought <= book[j].qty)'
    BY <1>1, <2>1, <2>3, MarketBought
  <2> QED
    BY <1>1, <2>2, <2>3, MarketCauses
<1>4. (\A t \in Trades : Sound(t, rows[t]))'
  <2>1. CASE ~UNCHANGED <<book, btc>>
    <3>1. PICK i \in Ids : MarketStep(i) /\ UNCHANGED <<intents, rows>>
      BY <1>1, <2>1, MarketCauses
    <3>2. ASSUME NEW t \in Trades PROVE Sound(t, rows[t])'
      <4>1. rows[t] \in Row /\ Sound(t, rows[t]) /\ rows'[t] = rows[t] /\ UNCHANGED intents
        BY <1>2, <3>1
      <4> QED
        BY <1>1, <3>1, <4>1, MarketSound
    <3> QED
      BY <3>2
  <2>2. CASE UNCHANGED <<book, btc>> /\ \E i \in Ids : PreparedBy(i)
    <3>1. PICK i \in Ids : PreparedBy(i)
      BY <2>2
    <3>2. PICK n : Prepare(i, n) /\ Fitting(n) /\ RowFit(n) /\ UNCHANGED rows
      BY <3>1, PreparedFits
    <3>3. ASSUME NEW t \in Trades PROVE Sound(t, rows[t])'
      <4>1. rows[t] \in Row /\ Sound(t, rows[t]) /\ rows'[t] = rows[t]
        BY <1>2, <3>2
      <4> QED
        BY <2>2, <3>2, <4>1, PreparedSound
    <3> QED
      BY <3>3
  <2>3. CASE /\ UNCHANGED <<book, btc>>
             /\ \A i \in Ids : /\ intents'[i].opn = intents[i].opn /\ intents'[i].trade = intents[i].trade
                               /\ intents'[i].qty = intents[i].qty
    <3>1. \A t \in Trades : Sound(t, rows'[t])
      BY RowsGoodStep DEF RowsGood, RowGood
    <3>2. \A t : \A r \in Row : Sound(t, r) => Sound(t, r)'
      BY <2>3, SoundSame
    <3> QED
      BY <1>2, <3>1, <3>2
  <2>4. ASSUME Settles
        PROVE  \A i \in Ids : /\ intents'[i].opn = intents[i].opn /\ intents'[i].trade = intents[i].trade
                              /\ intents'[i].qty = intents[i].qty
    BY <1>1, <2>4, SettledFacts, SetStateFields
  <2> QED
    BY <2>1, <2>2, <2>3, <2>4, Causes
<1> QED
  BY <1>3, <1>4 DEF HoldInv

-----------------------------------------------------------------------------
(***************************************************************************)
(* HandInv, step by step.                                                   *)
(***************************************************************************)

\* What happens around the thread, at whatever step it is.
Env == Exchange \/ Stream \/ Owner \/ \E t \in Trades : EntryWindowExpires(t)

LEMMA EnvKeeps == ASSUME Env PROVE UNCHANGED <<pc, op, rec, intents>>
BY DEF Env, Exchange, durableVars, Stream, StreamUpdate, StreamPartialFill, StreamResync, Owner,
   ClearRiskPause, OwnerPause, EntryWindowExpires

\* Where the trade that the thread works on comes from.
Picked(t) ==
  \/ t = 0 \/ t = op.t
  \/ t \in Trades /\ (rows[t].lc = "NONE" \/ t \in ActiveRows)
  \/ \E i \in Unresolved : ~IsCancel(i) /\ t = intents[i].trade

LEMMA ReturnPicks ==
  ASSUME NEW ok, \/ Finish \/ StaleReturns(ok) \/ PartialReturns(ok) \/ PartialReturn(ok)
                 \/ ConvertReturns(ok) \/ \E r, w : BeginReconcile(r, w)
  PROVE  op' = NoOp
BY DEF Finish, StaleReturns, PartialReturns, PartialReturn, ConvertReturns, BeginReconcile

LEMMA ResolvingFacts ==
  ASSUME IInv, NEW i, Resolving(i) PROVE i \in Unresolved /\ i \in Ids /\ op = NoOp
<1>1. i \in Ids /\ rec \in Rec /\ op = NoOp /\ i # op.i
  BY IdFacts DEF NoOp, Resolving, IInv, TypeOK, Rec, ControlInv, TodoInv
<1> QED
  BY <1>1 DEF Resolving, IInv, ControlInv, TodoInv, Unresolved

LEMMA ResumingFacts ==
  ASSUME IInv, HandInv, NEW p, Resuming(p)
  PROVE  p \in Unresolved /\ p \in Ids /\ op = NoOp /\ intents[p].opn = "REPLACE_PROTECTION"
<1>1. p \in Ids /\ op = NoOp /\ op.plan = 0
  BY DEF Resuming, IInv, TypeOK, Rec, ControlInv, TodoInv, NoOp
<1>2. intents[p].st = "PREPARED"
  BY <1>1, IdFacts DEF Resuming, IInv, ControlInv, TodoInv
<1> QED
  BY <1>1, <1>2 DEF Resuming, HandInv, Unresolved

LEMMA TradePicked == ASSUME IInv, RInv, HandInv, Next PROVE Picked(op'.t)
<1>1. op \in Op /\ NoOp \in Op /\ SellOps \cap CancelOps = {} /\ "REPLACE_PROTECTION" \notin CancelOps
      /\ "ENTRY" \notin CancelOps /\ NoOp.t = 0
  BY NoOpType, OpKinds DEF IInv, TypeOK, CancelOps, NoOp
<1>2. op' = op \/ op' = NoOp => Picked(op'.t)
  BY <1>1 DEF Picked
<1>3. ASSUME NEW t \in Trades, t \in ActiveRows \/ rows[t].lc = "NONE", op'.t = t PROVE Picked(op'.t)
  BY <1>3 DEF Picked
<1>4. op'.t = op.t => Picked(op'.t)
  BY DEF Picked
<1>5. CASE Env \/ Crash
  BY <1>2, <1>5, EnvKeeps DEF Crash
<1>6. CASE Entry
  <2>1. ASSUME NEW t \in Trades, ProcessSignal(t) \/ ManualEntry(t) PROVE op'.t = t /\ rows[t].lc = "NONE"
    BY <1>1, <2>1 DEF ProcessSignal, ManualEntry, NewTrade, Op
  <2>2. ASSUME NEW i \in Ids, PrepareEntry(i) PROVE op'.t = op.t
    BY <1>1, <2>2 DEF PrepareEntry, Op
  <2>3. CASE SubmitRefused \/ SubmitRaises \/ SubmitPersist \/ EntryDone
    BY <1>2, <2>3 DEF SubmitRefused, SubmitRaises, SubmitPersist, EntryDone, Finish
  <2> QED
    BY <1>3, <1>4, <1>6, <2>1, <2>2, <2>3 DEF Entry
<1>7. CASE PostProcedure
  BY <1>1, <1>7 DEF Op, PostProcedure, MarkSubmitting, PostAccepted, PostRejected, PostUnanswered, LookupFound,
     LookupMissing, ConfirmIntent, BindIntent, Picked
<1>8. CASE CancelProcedure
  BY <1>1, <1>8 DEF Op, CancelProcedure, CancelWithoutTarget, CancelAlreadyPrepared, CancelOutOfRoom,
     CancelPrepare, CancelMark, DeleteAccepted, DeleteFails, CancelConfirm, Picked
<1>9. CASE Convert
  <2>1. ASSUME NEW h \in {"convert", "auto"}, NEW t \in Trades, NEW i \in Ids, NEW ep \in Endpoints,
               ConvertBegin(h, t, i, ep)
        PROVE  op'.t = t /\ t \in ActiveRows
    BY <1>1, <2>1 DEF ConvertBegin, ActiveTrade, Op
  <2>2. ASSUME NEW i \in Ids, PrepareReplacement(i) PROVE op'.t = op.t
    BY <1>1, <2>2 DEF PrepareReplacement, Op
  <2>3. CASE ConvertStops \/ ConvertCanceled \/ ReplaceFoundFlat \/ ConvertExited \/ ConvertDone
    BY <1>2, <2>3, ReturnPicks DEF ConvertStops, ConvertCanceled, ReplaceFoundFlat, ConvertExited, ConvertDone
  <2> QED
    BY <1>3, <1>4, <1>9, <2>1, <2>2, <2>3 DEF Convert
<1>10. CASE Emergency
  <2>1. ASSUME NEW t \in Trades, EmergencyBegin(t) PROVE op'.t = t /\ t \in ActiveRows
    BY <1>1, <2>1 DEF EmergencyBegin, ActiveTrade, Op
  <2>2. ASSUME NEW i \in Ids, EmergencySell(i) PROVE op'.t = op.t
    BY <1>1, <2>2 DEF EmergencySell, Op
  <2>3. CASE EmergencyStops \/ EmergencyVerify
    BY <1>2, <2>3 DEF EmergencyStops, EmergencyVerify, Finish
  <2> QED
    BY <1>3, <1>4, <1>10, <2>1, <2>2, <2>3 DEF Emergency
<1>11. CASE Tick
  <2>1. ASSUME NEW t \in Trades, EntryWindowExpires(t) PROVE op' = op
    BY <2>1 DEF EntryWindowExpires
  <2>2. ASSUME NEW t \in StaleRows, op' = [NoOp EXCEPT !.h = "stale", !.t = t] PROVE Picked(op'.t)
    <3>1. op'.t = t /\ t \in Trades /\ t \in ActiveRows
      BY <1>1, <2>2 DEF StaleRows, ActiveRows, Op
    <3> QED
      BY <1>3, <3>1
  <2>3. op' = [NoOp EXCEPT !.h = "partial"] => Picked(op'.t)
    BY <1>1 DEF Op, Picked
  <2>4. CASE TickBegin
    BY <2>2, <2>3, <2>4 DEF TickBegin
  <2>5. CASE TickPartial
    BY <1>2, <2>3, <2>5 DEF TickPartial, Finish
  <2>6. CASE StaleFails \/ StaleTerminal \/ PartialFails \/ PartialDone \/ PartialTerminal
             \/ StaleCanceled \/ PartialCanceled
    BY <1>2, <2>6, ReturnPicks DEF StaleFails, StaleTerminal, PartialFails, PartialDone, PartialTerminal,
       StaleCanceled, PartialCanceled
  <2>7. CASE StaleCancels
    BY <1>1, <1>4, <2>7 DEF StaleCancels, Op
  <2>8. ASSUME NEW t \in Trades, PartialCompletes(t) \/ PartialRefuses(t) PROVE op' = NoOp
    BY <2>8, ReturnPicks DEF PartialCompletes, PartialRefuses
  <2>9. ASSUME NEW t \in Trades, PartialCancels(t) \/ PartialProceeds(t) PROVE op'.t = t /\ t \in ActiveRows
    BY <1>1, <2>9 DEF PartialCancels, PartialProceeds, PartialLookup, ActiveTrade, Op
  <2>10. ASSUME NEW i \in Ids, NEW ep \in Endpoints, PartialPlace(i, ep) PROVE op'.t = op.t
    BY <1>1, <2>10 DEF PartialPlace, Op
  <2> QED
    BY <1>2, <1>3, <1>4, <1>11, <2>1, <2>4, <2>5, <2>6, <2>7, <2>8, <2>9, <2>10 DEF Tick
<1>12. CASE Reconcile
  <2>1. ASSUME NEW i \in Ids, ResolveChild(i) \/ ResolvePrepared(i) \/ ResolveFound(i) PROVE Picked(op'.t)
    <3>1. i \in Unresolved /\ intents[i].trade \in Trades \cup {0}
      BY <2>1, ResolvingFacts DEF ResolveChild, ResolvePrepared, ResolveFound, IInv, TypeOK, Intent
    <3>2. CASE ResolveChild(i) \/ ResolveFound(i)
      <4>1. op'.t = intents[i].trade
        BY <1>1, <3>1, <3>2 DEF ResolveChild, ResolveFound, Op
      <4>2. ~IsCancel(i)
        BY <1>1, <3>2 DEF ResolveChild, ResolveFound, IsCancel, IsChild, CancelOps
      <4> QED
        BY <3>1, <4>1, <4>2 DEF Picked
    <3>3. CASE ResolvePrepared(i)
      <4>1. op' = NoOp \/ (op'.t = intents[i].trade /\ intents[i].opn = "ENTRY")
        BY <1>1, <3>1, <3>3 DEF ResolvePrepared, Resolved, Op
      <4> QED
        BY <1>1, <1>2, <3>1, <4>1 DEF Picked, IsCancel
    <3> QED
      BY <2>1, <3>2, <3>3
  <2>2. ASSUME NEW p \in Ids, PlanResumes(p) PROVE Picked(op'.t)
    <3>1. p \in Unresolved /\ ~IsCancel(p)
      BY <1>1, <2>2, ResumingFacts DEF PlanResumes, IsCancel
    <3>2. op'.t = intents[p].trade
      BY <1>1, <2>2 DEF PlanResumes, Op
    <3> QED
      BY <3>1, <3>2 DEF Picked
  <2>3. ASSUME NEW i \in Ids, ResolveSkips(i) \/ ResolveCancel(i) \/ PlanWithoutCancel(i) PROVE op' = NoOp
    BY <2>3 DEF ResolveSkips, ResolveCancel, PlanWithoutCancel, Resolved, PlanLeaves
  <2>4. CASE ReconcileCommand \/ ArmCommand \/ ArmFinish \/ Start \/ PlanStays \/ PlanDone \/ PlansEnd
             \/ ResolveAbortedEntry \/ ResolveDone
    BY <1>2, <2>4 DEF ReconcileCommand, ArmCommand, ArmFinish, Start, PlanStays, PlanDone, PlansEnd,
       ResolveAbortedEntry, ResolveDone, Resolved, PlanLeaves, Finish, BeginReconcile
  <2>5. CASE ResolveEnds \/ Refresh \/ RecoverExits \/ Verdict
    BY <1>2, <2>5 DEF ResolveEnds, Refresh, RecoverExits, Verdict
  <2>6. CASE ReconcileRecovers
    <3>1. ASSUME NEW t \in StaleRows, op' = [NoOp EXCEPT !.h = "stale", !.t = t] PROVE Picked(op'.t)
      <4>1. op'.t = t /\ t \in Trades /\ t \in ActiveRows
        BY <1>1, <3>1 DEF StaleRows, ActiveRows, Op
      <4> QED
        BY <1>3, <4>1
    <3>2. op' = [NoOp EXCEPT !.h = "partial"] => Picked(op'.t)
      BY <1>1 DEF Op, Picked
    <3> QED
      BY <1>2, <2>6, <3>1, <3>2 DEF ReconcileRecovers
  <2> QED
    BY <1>2, <1>12, <2>1, <2>2, <2>3, <2>4, <2>5, <2>6 DEF Reconcile
<1> QED
  BY <1>5, <1>6, <1>7, <1>8, <1>9, <1>10, <1>11, <1>12 DEF Next, Env

LEMMA PickedCurrent ==
  ASSUME IInv, RInv, Core, HoldInv, HandInv, NEW t, t # 0, Picked(t)
  PROVE  \A e \in Ids : EntryOf(e, t) => Current(e)
<1>1. CASE t = op.t
  BY <1>1 DEF HandInv
<1>2. CASE t \in Trades /\ rows[t].lc = "NONE"
  BY <1>2, RowFacts DEF RInv, EntryOf
<1>3. CASE t \in ActiveRows
  BY <1>3 DEF ActiveRows, HoldInv, Sound, IsOpen
<1>4. ASSUME NEW i \in Unresolved, ~IsCancel(i), t = intents[i].trade, NEW e \in Ids, EntryOf(e, t)
      PROVE  Current(e)
  <2>1. i \in Ids /\ Current(i) /\ intents[i].opn \in Ops /\ intents[i].st # "NONE"
    BY <1>4 DEF Unresolved, Core, CurrentInv, IInv, TypeOK, Intent
  <2>2. IsEntry(i) \/ IsSale(i) \/ IsGuard(i)
    BY <1>4, <2>1, OpKinds DEF IsEntry, IsSale, IsGuard, Ops, IsCancel, RInv, ShapeInv, GuardOps
  <2>3. CASE IsEntry(i)
    BY <1>4, <2>1, <2>3, EntryUnique DEF IsEntry, EntryOf
  <2>4. CASE IsSale(i) \/ IsGuard(i)
    <3>1. PICK d \in Ids : EntryOf(d, t) /\ Current(d)
      BY <1>4, <2>1, <2>4 DEF Core, CurrentInv
    <3>2. d = e
      BY <1>4, <3>1, EntryUnique DEF EntryOf
    <3> QED
      BY <3>1, <3>2
  <2> QED
    BY <2>2, <2>3, <2>4
<1> QED
  BY <1>1, <1>2, <1>3, <1>4 DEF Picked

\* The operations of the intents last.
LEMMA FieldsOfSettles ==
  ASSUME IInv, RInv, Settles
  PROVE  \A i \in Ids : /\ intents'[i].opn = intents[i].opn /\ intents'[i].trade = intents[i].trade
                        /\ intents'[i].qty = intents[i].qty
BY SettledFacts, SetStateFields DEF IInv

TradeNow == op.t # 0 => \A e \in Ids : EntryOf(e, op.t) => Current(e)

LEMMA TradeCurrent ==
  ASSUME IInv, RInv, Core, HoldInv, HandInv, Next
  PROVE  TradeNow'
<1> SUFFICES ASSUME op'.t # 0, NEW e \in Ids,
                      intents'[e].opn = "ENTRY", intents'[e].trade = op'.t
               PROVE  Current(e)'
  BY DEF EntryOf, TradeNow
<1>1. \A d \in Ids : EntryOf(d, op'.t) => Current(d)
  BY TradePicked, PickedCurrent
<1>2. CASE \A i \in Ids : intents'[i].opn = intents[i].opn /\ intents'[i].trade = intents[i].trade
  BY <1>1, <1>2, SameCurrent DEF EntryOf
<1>3. ASSUME NEW i \in Ids, PreparedBy(i) PROVE Current(e)'
  <2>1. PICK n : Prepare(i, n) /\ Asked(n)
    BY <1>3, PreparedFacts
  <2>2. /\ intents[i].opn = "NONE" /\ intents'[i] = n
        /\ \A j \in Ids : i < j => intents[j].opn = "NONE"
        /\ \A j \in Ids \ {i} : intents'[j].opn = intents[j].opn /\ intents'[j].trade = intents[j].trade
    BY <2>1, NewestFacts DEF Core
  <2>3. CASE n.opn = "ENTRY"
    <3>1. pc = "prepare" /\ \A j \in Ids : intents[j].trade # op.t
      BY <2>1, <2>3 DEF Asked, RInv, SubmitInv
    <3>2. PrepareEntry(i)
      BY <1>3, <3>1 DEF PreparedBy, CancelPrepare, PrepareReplacement, EmergencySell, ConvertBegin, PartialPlace
    <3>3. op'.t = op.t
      BY <3>2 DEF PrepareEntry, Op, IInv, TypeOK
    <3>4. e = i
      BY <2>2, <3>1, <3>3 DEF EntryOf
    <3> QED
      BY <2>2, <3>4, IdFacts DEF Current, IsEntry
  <2>4. CASE n.opn # "ENTRY"
    <3>1. EntryOf(e, op'.t)
      BY <2>2, <2>4 DEF EntryOf
    <3>2. Current(e)
      BY <1>1, <3>1
    <3> QED
      BY <2>2, <2>4, <3>2 DEF Current, IsEntry
  <2> QED
    BY <2>3, <2>4
<1> QED
  BY <1>2, <1>3, FieldsOfSettles, Causes

Planned == \A p \in rec.todo : intents[p].opn = "REPLACE_PROTECTION"

PlanOf == /\ intents[op.plan].opn = "REPLACE_PROTECTION" /\ intents[op.plan].trade = op.t
          /\ intents[op.plan].qty = op.q

LEMMA PlainHand ==
  ASSUME TradeNow', pc' \in Steps \ (SubmitSteps \cup PlanSteps \cup {"free", "cancelFailed"}),
         pc' \in {"down", "idle", "arming", "refresh", "exits"} => op' = NoOp,
         pc' = "plans" \/ op'.h = "plan" => Planned'
  PROVE  HandInv'
BY DEF HandInv, TradeNow, Planned, PlanSteps

\* Every return of a routine forgets its locals.
LEMMA ReturnHand ==
  ASSUME TradeNow', op' = NoOp,
         pc' \in Steps \ (SubmitSteps \cup PlanSteps \cup {"free", "cancelFailed"}),
         pc' = "plans" => Planned'
  PROVE  HandInv'
<1>1. op'.h # "plan"
  BY DEF NoOp
<1> QED
  BY <1>1, PlainHand

LEMMA SubmitHand ==
  ASSUME TradeNow', pc' \in SubmitSteps, intents'[op'.i].opn \in PostOps,
         op'.h \in {"partial", "stale"} => intents'[op'.i].opn = "PARTIAL_FILL_PROTECTION",
         op'.h = "emergency" => intents'[op'.i].opn = "EMERGENCY_EXIT",
         op'.h = "plan" => Planned'
  PROVE  HandInv'
<1>1. pc' \notin PlanSteps \cup {"free", "cancelFailed", "plans", "down", "idle", "arming", "refresh", "exits"}
  BY DEF PlanSteps, SubmitSteps
<1> QED
  BY <1>1 DEF HandInv, TradeNow, Planned

LEMMA CancelHand ==
  ASSUME TradeNow', pc' \in PlanSteps \cup {"cancelFailed"}, op'.h # "plan",
         op'.h \in {"convert", "auto"} /\ pc' \in PlanSteps => PlanOf',
         pc' = "cancelFailed" /\ op'.c = "CANCEL_PARTIAL_ENTRY" => op'.h \in {"partial", "stale"}
  PROVE  HandInv'
<1>1. pc' \notin SubmitSteps \cup {"free", "plans", "down", "idle", "arming", "refresh", "exits"}
  BY DEF PlanSteps, SubmitSteps
<1> QED
  BY <1>1 DEF HandInv, TradeNow, PlanOf

LEMMA FreeHand ==
  ASSUME TradeNow', pc' = "free", PlanOf', op'.h = "plan" => Planned'
  PROVE  HandInv'
BY DEF HandInv, TradeNow, PlanOf, Planned, SubmitSteps, PlanSteps

LEMMA PlannedLasts ==
  ASSUME IInv, RInv, Next, rec'.todo \subseteq rec.todo, Planned PROVE Planned'
<1>1. IntentsLast /\ rec.todo \subseteq Ids
  BY IntentsStep DEF IInv, TypeOK, Rec
<1>2. \A p \in Ids : intents[p].opn = "REPLACE_PROTECTION" => intents[p].st # "NONE"
  BY DEF RInv, ShapeInv
<1> QED
  BY <1>1, <1>2 DEF IntentsLast, Planned

LEMMA PlanOfLasts ==
  ASSUME IInv, RInv, Next, op'.plan = op.plan, op'.t = op.t, op'.q = op.q, PlanOf, op.plan \in Ids
  PROVE  PlanOf'
<1>1. IntentsLast
  BY IntentsStep
<1>2. intents[op.plan].st # "NONE"
  BY DEF RInv, ShapeInv, PlanOf
<1> QED
  BY <1>1, <1>2 DEF IntentsLast, PlanOf

\* The parts of HandInv that the steps start from.
LEMMA HandParts ==
  ASSUME HandInv
  PROVE  /\ pc \in {"down", "idle", "arming", "refresh", "exits"} => op = NoOp
         /\ pc \in SubmitSteps =>
              /\ intents[op.i].opn \in PostOps
              /\ op.h \in {"partial", "stale"} => intents[op.i].opn = "PARTIAL_FILL_PROTECTION"
              /\ op.h = "emergency" => intents[op.i].opn = "EMERGENCY_EXIT"
         /\ pc = "free" \/ (op.h \in {"convert", "auto"} /\ pc \in PlanSteps) => PlanOf
         /\ pc = "plans" \/ op.h = "plan" => Planned
         /\ pc = "cancelFailed" /\ op.c = "CANCEL_PARTIAL_ENTRY" => op.h \in {"partial", "stale"}
BY DEF HandInv, PlanOf, Planned

LEMMA EnvHand == ASSUME HandInv, Env PROVE HandInv'
BY EnvKeeps DEF HandInv, EntryOf, Current, IsEntry

LEMMA PostHand == ASSUME IInv, RInv, Core, HoldInv, HandInv, Next, PostProcedure PROVE HandInv'
<1>1. TradeNow' /\ IntentsLast /\ op \in Op
  BY TradeCurrent, IntentsStep DEF IInv, TypeOK
<1>2. /\ pc \in SubmitSteps /\ pc' \in SubmitSteps /\ rec' = rec
      /\ op'.i = op.i /\ op'.h = op.h
  BY <1>1 DEF PostProcedure, MarkSubmitting, PostAccepted, PostRejected, PostUnanswered, LookupFound,
     LookupMissing, ConfirmIntent, BindIntent, PostUnchanged, Goto, SubmitSteps, Op
<1>3. op.i \in Ids /\ intents[op.i].st # "NONE"
  BY <1>2, HandParts DEF RInv, SubmitInv, ShapeInv, PostOps
<1>4. intents'[op'.i].opn = intents[op.i].opn
  BY <1>1, <1>2, <1>3 DEF IntentsLast
<1>5. op'.h = "plan" => Planned'
  BY <1>2, HandParts, PlannedLasts
<1> QED
  BY <1>1, <1>2, <1>4, <1>5, HandParts, SubmitHand

LEMMA CancelProcedureHand ==
  ASSUME IInv, RInv, Core, HoldInv, HandInv, Next, CancelProcedure PROVE HandInv'
<1>1. TradeNow' /\ op \in Op
  BY TradeCurrent DEF IInv, TypeOK
<1>2. /\ pc \in PlanSteps \ {"canceled"} /\ pc' \in PlanSteps \cup {"cancelFailed"}
      /\ op'.h = op.h /\ op'.c = op.c /\ op'.plan = op.plan /\ op'.t = op.t /\ op'.q = op.q
  BY <1>1 DEF CancelProcedure, CancelWithoutTarget, CancelAlreadyPrepared, CancelOutOfRoom,
     CancelPrepare, CancelMark, DeleteAccepted, DeleteFails, CancelConfirm, Goto, PlanSteps, Op
<1>3. op.h # "plan"
  BY <1>2 DEF IInv, ControlInv, TodoInv, HandlerSteps, PlanSteps
<1>4. op.h \in {"convert", "auto"} => PlanOf'
  BY <1>2, HandParts, PlanOfLasts DEF IInv, ControlInv, PlanInv
<1>5. op.c = "CANCEL_PARTIAL_ENTRY" => op.h \in {"partial", "stale"}
  BY <1>2 DEF RInv, TargetInv
<1> QED
  BY <1>1, <1>2, <1>3, <1>4, <1>5, CancelHand

LEMMA EntryHand == ASSUME IInv, RInv, Core, HoldInv, HandInv, Next, Entry PROVE HandInv'
<1> USE DEF Goto
<1>1. TradeNow' /\ op \in Op /\ NoOp \in Op
  BY TradeCurrent, NoOpType DEF IInv, TypeOK
<1>2. {"submit", "prepare", "idle"} \subseteq Steps \ (SubmitSteps \cup PlanSteps \cup {"free", "cancelFailed"})
  BY DEF Steps, SubmitSteps, PlanSteps
<1>3. ASSUME NEW t \in Trades, ProcessSignal(t) \/ ManualEntry(t) PROVE HandInv'
  <2>1. pc' = "submit" /\ op'.h \in {"entry", "manual"}
    BY <1>1, <1>3 DEF ProcessSignal, ManualEntry, Op
  <2> QED
    BY <1>1, <1>2, <2>1, PlainHand
<1>4. CASE SubmitPersist
  <2>1. pc' = "prepare" /\ op'.h \in {"entry", "manual"}
    BY <1>4 DEF SubmitPersist, RInv, SubmitInv
  <2> QED
    BY <1>1, <1>2, <2>1, PlainHand
<1>5. CASE SubmitRefused \/ SubmitRaises \/ EntryDone
  BY <1>1, <1>2, <1>5, ReturnHand DEF SubmitRefused, SubmitRaises, EntryDone, Finish
<1>6. ASSUME NEW i \in Ids, PrepareEntry(i) PROVE HandInv'
  <2>1. pc' = "mark" /\ op'.i = i /\ op'.h = op.h /\ op.h \in {"entry", "manual"}
    BY <1>1, <1>6 DEF PrepareEntry, Op, RInv, SubmitInv
  <2>2. intents'[i] = NewPost("ENTRY", op.t, 0, "list", EntryQty)
    BY <1>6, PrepareFacts DEF PrepareEntry, IInv
  <2>3. intents'[i].opn = "ENTRY"
    BY <2>2, NewPostFacts
  <2> QED
    BY <1>1, <2>1, <2>3, SubmitHand DEF SubmitSteps, PostOps
<1> QED
  BY <1>3, <1>4, <1>5, <1>6 DEF Entry

PlainSteps == Steps \ (SubmitSteps \cup PlanSteps \cup {"free", "cancelFailed"})

LEMMA PlainNames ==
  {"down", "idle", "submit", "prepare", "arming", "tick", "exitRow", "abortRow", "verify", "stale",
   "staleTerminal", "partial", "partialTerminal", "partialPlace", "resolve", "plans", "refresh",
   "exits", "recStale", "recPartial", "verdict"} \subseteq PlainSteps
BY DEF PlainSteps, Steps, SubmitSteps, PlanSteps

\* A new sale, on behalf of a handler.
LEMMA SaleHand ==
  ASSUME IInv, TradeNow', NEW i \in Ids, NEW o \in {"PROTECTION", "PARTIAL_FILL_PROTECTION", "EMERGENCY_EXIT"},
         NEW p, NEW ep, NEW q, Prepare(i, NewPost(o, op.t, p, ep, q)),
         op' = [op EXCEPT !.i = i] \/ op' = [op EXCEPT !.i = i, !.free = btc.free],
         pc' = "mark",
         op.h \in {"partial", "stale"} => o = "PARTIAL_FILL_PROTECTION",
         op.h = "emergency" => o = "EMERGENCY_EXIT",
         op.h = "plan" => Planned'
  PROVE  HandInv'
<1>1. op'.i = i /\ op'.h = op.h
  BY DEF IInv, TypeOK, Op
<1>2. intents'[i] = NewPost(o, op.t, p, ep, q)
  BY PrepareFacts DEF IInv
<1>3. intents'[i].opn = o
  BY <1>2, NewPostFacts
<1>4. o \in PostOps
  BY DEF PostOps
<1> QED
  BY <1>1, <1>3, <1>4, SubmitHand DEF SubmitSteps

LEMMA ConvertHand == ASSUME IInv, RInv, Core, HoldInv, HandInv, Next, Convert PROVE HandInv'
<1> USE DEF Goto
<1>1. TradeNow' /\ op \in Op /\ NoOp \in Op
  BY TradeCurrent, NoOpType DEF IInv, TypeOK
<1>2. ASSUME NEW h \in {"convert", "auto"}, NEW t \in Trades, NEW i \in Ids, NEW ep \in Endpoints,
             ConvertBegin(h, t, i, ep)
      PROVE  HandInv'
  <2> DEFINE n == [NoIntent EXCEPT !.opn = "REPLACE_PROTECTION", !.trade = t, !.ep = ep,
                                   !.qty = rows[t].prot, !.st = "PREPARED"]
  <2>1. /\ pc' = "cancel" /\ op'.h = h /\ op'.t = t /\ op'.plan = i /\ op'.q = rows[t].prot
    BY <1>1, <1>2 DEF ConvertBegin, Op
  <2>2. intents'[i] = n
    BY <1>2, PrepareFacts DEF ConvertBegin, IInv
  <2>3. n.opn = "REPLACE_PROTECTION" /\ n.trade = t /\ n.qty = rows[t].prot
    BY DEF NoIntent
  <2>4. PlanOf'
    BY <2>1, <2>2, <2>3 DEF PlanOf
  <2> QED
    BY <1>1, <2>1, <2>4, CancelHand DEF PlanSteps
<1>3. CASE ConvertStops
  BY <1>1, <1>3, PlainNames, ReturnHand DEF ConvertStops, Finish, PlainSteps
<1>4. CASE ConvertExited \/ ConvertDone
  BY <1>1, <1>4, PlainNames, ReturnHand
  DEF ConvertExited, ConvertDone, ConvertReturns, BeginReconcile, Finish, PlainSteps
<1>5. CASE ConvertCanceled
  <2>1. pc' = "free" /\ op' = op /\ pc \in PlanSteps /\ op.h \in {"convert", "auto"}
    BY <1>5 DEF ConvertCanceled, PlanSteps
  <2>2. PlanOf /\ op.plan \in Ids /\ op'.plan = op.plan /\ op'.t = op.t /\ op'.q = op.q /\ op'.h # "plan"
    BY <2>1, HandParts DEF IInv, ControlInv, PlanInv
  <2>3. PlanOf'
    BY <2>2, PlanOfLasts
  <2> QED
    BY <1>1, <2>1, <2>2, <2>3, FreeHand
<1>6. CASE ReplaceFoundFlat
  <2>1. pc' = "exitRow" /\ op' = op /\ rec' = rec
    BY <1>6 DEF ReplaceFoundFlat
  <2>2. op'.h = "plan" => Planned'
    BY <2>1, HandParts, PlannedLasts
  <2> QED
    BY <1>1, <2>1, <2>2, PlainNames, PlainHand DEF PlainSteps
<1>7. ASSUME NEW i \in Ids, PrepareReplacement(i) PROVE HandInv'
  <2>1. /\ op.h \in {"convert", "auto", "plan"} /\ rec' = rec /\ pc' = "mark"
        /\ op' = [op EXCEPT !.i = i]
        /\ Prepare(i, NewPost("PROTECTION", op.t, op.plan, intents[op.plan].ep, SmallerOf(btc.free, op.q)))
    BY <1>7 DEF PrepareReplacement, IInv, ControlInv, PlanInv
  <2>2. op.h = "plan" => Planned'
    BY <2>1, HandParts, PlannedLasts
  <2> QED
    BY <1>1, <2>1, <2>2, SaleHand
<1> QED
  BY <1>2, <1>3, <1>4, <1>5, <1>6, <1>7 DEF Convert

LEMMA EmergencyHand == ASSUME IInv, RInv, Core, HoldInv, HandInv, Next, Emergency PROVE HandInv'
<1> USE DEF Goto
<1>1. TradeNow' /\ op \in Op /\ NoOp \in Op /\ NoOp.c = "CANCEL_PROTECTION"
  BY TradeCurrent, NoOpType DEF IInv, TypeOK, NoOp
<1>2. ASSUME NEW t \in Trades, EmergencyBegin(t) PROVE HandInv'
  <2>1. pc' = "cancel" /\ op'.h = "emergency"
    BY <1>1, <1>2 DEF EmergencyBegin, Op
  <2> QED
    BY <1>1, <2>1, CancelHand DEF PlanSteps
<1>3. CASE EmergencyStops \/ EmergencyVerify
  BY <1>1, <1>3, PlainNames, ReturnHand DEF EmergencyStops, EmergencyVerify, Finish, PlainSteps
<1>4. ASSUME NEW i \in Ids, EmergencySell(i) PROVE HandInv'
  BY <1>1, <1>4, SaleHand DEF EmergencySell
<1> QED
  BY <1>2, <1>3, <1>4 DEF Emergency

LEMMA TickHand == ASSUME IInv, RInv, Core, HoldInv, HandInv, Next, Tick PROVE HandInv'
<1> USE DEF Goto
<1>1. TradeNow' /\ op \in Op /\ NoOp \in Op
  BY TradeCurrent, NoOpType DEF IInv, TypeOK
<1>2. ASSUME NEW ok, StaleReturns(ok) \/ PartialReturns(ok) \/ PartialReturn(ok) PROVE HandInv'
  <2>1. op' = NoOp
    BY <1>2, ReturnPicks
  <2>2. pc' \in {"recPartial", "tick", "verdict", "idle"}
    BY <1>2 DEF StaleReturns, PartialReturns, PartialReturn
  <2> QED
    BY <1>1, <2>1, <2>2, PlainNames, ReturnHand DEF PlainSteps
<1>3. ASSUME op'.h \in {"stale", "partial"},
             pc' \in {"stale", "staleTerminal", "partial", "partialTerminal", "partialPlace"}
      PROVE  HandInv'
  BY <1>1, <1>3, PlainNames, PlainHand DEF PlainSteps
<1>4. ASSUME op'.h \in {"stale", "partial"}, pc' = "cancel" PROVE HandInv'
  BY <1>1, <1>4, CancelHand DEF PlanSteps
<1>5. ASSUME NEW t \in Trades, EntryWindowExpires(t) PROVE HandInv'
  BY <1>5, EnvHand DEF Env
<1>6. CASE TickBegin
  <2>1. pc' \in {"stale", "partial"} /\ op'.h \in {"stale", "partial"}
    BY <1>1, <1>6 DEF TickBegin, Op
  <2> QED
    BY <1>3, <2>1
<1>7. CASE TickPartial
  <2>1. (pc' = "partial" /\ op'.h = "partial") \/ (pc' = "idle" /\ op' = NoOp)
    BY <1>1, <1>7 DEF TickPartial, Finish, Op
  <2> QED
    BY <1>1, <1>3, <2>1, PlainNames, ReturnHand DEF PlainSteps
<1>8. CASE StaleFails \/ PartialFails \/ PartialDone
  BY <1>2, <1>8 DEF StaleFails, PartialFails, PartialDone
<1>9. CASE StaleCancels
  <2>1. pc' = "cancel" /\ op'.h = "stale"
    BY <1>1, <1>9 DEF StaleCancels, Op, IInv, ControlInv, PlanInv
  <2> QED
    BY <1>4, <2>1
<1>10. CASE StaleCanceled \/ PartialCanceled
  <2>1. pc = "canceled" /\ op' = op /\ pc' \in {"staleTerminal", "partialTerminal"}
        /\ (op.h = "stale" \/ op.c = "CANCEL_PARTIAL_ENTRY")
    BY <1>10 DEF StaleCanceled, PartialCanceled
  <2>2. op.h \in {"stale", "partial"}
    BY <2>1 DEF RInv, TargetInv, PlanSteps
  <2> QED
    BY <1>3, <2>1, <2>2
<1>11. CASE StaleTerminal
  <2>1. op.h = "stale"
    BY <1>11 DEF StaleTerminal, IInv, ControlInv, PlanInv
  <2>2. StaleReturns(TRUE) \/ (pc' = "partial" /\ op' = op)
    BY <1>11 DEF StaleTerminal
  <2> QED
    BY <1>2, <1>3, <2>1, <2>2
<1>12. ASSUME NEW t \in Trades, PartialCompletes(t) \/ PartialRefuses(t) PROVE HandInv'
  BY <1>2, <1>12 DEF PartialCompletes, PartialRefuses
<1>13. ASSUME NEW t \in Trades, PartialCancels(t) \/ PartialProceeds(t) PROVE HandInv'
  <2>1. pc' \in {"cancel", "partialPlace"} /\ op'.h = op.h /\ op.h \in {"stale", "partial"}
    BY <1>1, <1>13 DEF PartialCancels, PartialProceeds, PartialLookup, Op, IInv, ControlInv, PlanInv
  <2> QED
    BY <1>3, <1>4, <2>1
<1>14. CASE PartialTerminal
  <2>1. PartialReturn(FALSE) \/ (pc' = "partialPlace" /\ op' = op /\ op.h \in {"stale", "partial"})
    BY <1>14 DEF PartialTerminal, RInv, TargetInv
  <2> QED
    BY <1>2, <1>3, <2>1
<1>15. ASSUME NEW i \in Ids, NEW ep, PartialPlace(i, ep) PROVE HandInv'
  <2>1. op.h \in {"stale", "partial"}
    BY <1>15 DEF PartialPlace, RInv, TargetInv
  <2> QED
    BY <1>1, <1>15, <2>1, SaleHand DEF PartialPlace
<1> QED
  BY <1>5, <1>6, <1>7, <1>8, <1>9, <1>10, <1>11, <1>12, <1>13, <1>14, <1>15 DEF Tick

LEMMA ReconcileHand == ASSUME IInv, RInv, Core, HoldInv, HandInv, Next, Reconcile PROVE HandInv'
<1> USE DEF Goto
<1>1. TradeNow' /\ op \in Op /\ NoOp \in Op /\ rec \in Rec /\ rec.todo \subseteq Ids
  BY TradeCurrent, NoOpType DEF IInv, TypeOK, Rec
<1>2. ASSUME pc' \in {"down", "idle", "arming", "resolve", "refresh", "recStale", "recPartial", "verdict"},
             op' = NoOp
      PROVE  HandInv'
  BY <1>1, <1>2, PlainNames, ReturnHand DEF PlainSteps
<1>3. CASE ReconcileCommand \/ ArmCommand \/ Start
  BY <1>2, <1>3 DEF ReconcileCommand, ArmCommand, Start, BeginReconcile
<1>4. CASE ArmFinish \/ Verdict \/ PlansEnd
  BY <1>2, <1>4 DEF ArmFinish, Finish, Verdict, PlansEnd
<1>5. ASSUME NEW i, Resolved(i) PROVE HandInv'
  BY <1>2, <1>5 DEF Resolved
<1>6. CASE ResolveAbortedEntry \/ ResolveDone
  BY <1>5, <1>6 DEF ResolveAbortedEntry, ResolveDone
<1>7. ASSUME NEW i \in Ids, ResolveSkips(i) \/ ResolveCancel(i) PROVE HandInv'
  BY <1>5, <1>7 DEF ResolveSkips, ResolveCancel
<1>8. ASSUME NEW i \in Ids, ResolvePrepared(i) PROVE HandInv'
  <2>1. Resolved(i) \/ (pc' = "abortRow" /\ op'.h = "none")
    BY <1>1, <1>8 DEF ResolvePrepared, Op, NoOp
  <2> QED
    BY <1>1, <1>5, <2>1, PlainNames, PlainHand DEF PlainSteps
<1>9. ASSUME NEW i \in Ids, ResolveChild(i) PROVE HandInv'
  <2>1. pc' = "mark" /\ op'.i = i /\ op'.h = "child" /\ intents'[i].opn = "PROTECTION"
    BY <1>1, <1>9 DEF ResolveChild, IsChild, Op
  <2> QED
    BY <1>1, <2>1, SubmitHand DEF SubmitSteps, PostOps
<1>10. ASSUME NEW i \in Ids, ResolveFound(i) PROVE HandInv'
  <2>1. pc' = "bind" /\ op'.i = i /\ op'.h = "found" /\ Exists(i) /\ SetState(i, "CONFIRMED")
    BY <1>1, <1>10 DEF ResolveFound, Op
  <2>2. intents[i].opn \in PostOps
    BY <2>1, OrderKind DEF IsEntry, IsSale, SellOps, PostOps
  <2>3. intents'[i].opn = intents[i].opn
    BY <2>1, SetStateFields DEF IInv
  <2> QED
    BY <1>1, <2>1, <2>2, <2>3, SubmitHand DEF SubmitSteps
<1>11. CASE ResolveEnds
  <2>1. pc' = "plans" /\ op' = NoOp /\ intents' = intents
        /\ rec' = [rec EXCEPT !.todo = {i \in Ids : intents[i].opn = "REPLACE_PROTECTION" /\ intents[i].st = "PREPARED"}]
    BY <1>11 DEF ResolveEnds, IInv, ControlInv, TodoInv
  <2>2. rec'.todo = {i \in Ids : intents[i].opn = "REPLACE_PROTECTION" /\ intents[i].st = "PREPARED"}
    BY <1>1, <2>1 DEF Rec
  <2>3. Planned'
    BY <2>1, <2>2 DEF Planned
  <2> QED
    BY <1>1, <2>1, <2>3, PlainNames, ReturnHand DEF PlainSteps
<1>12. ASSUME NEW p, PlanLeaves(p), pc = "plans" \/ op.h = "plan" PROVE HandInv'
  <2>1. pc' = "plans" /\ op' = NoOp /\ rec' = [rec EXCEPT !.todo = @ \ {p}]
    BY <1>12 DEF PlanLeaves
  <2>2. rec'.todo \subseteq rec.todo
    BY <1>1, <2>1 DEF Rec
  <2>3. Planned'
    BY <1>12, <2>2, HandParts, PlannedLasts
  <2> QED
    BY <1>1, <2>1, <2>3, PlainNames, ReturnHand DEF PlainSteps
<1>13. CASE PlanStays
  BY <1>12, <1>13 DEF PlanStays
<1>14. CASE PlanDone
  BY <1>12, <1>14 DEF PlanDone
<1>15. ASSUME NEW p \in Ids, PlanWithoutCancel(p) PROVE HandInv'
  BY <1>12, <1>15 DEF PlanWithoutCancel, Resuming
<1>16. ASSUME NEW p \in Ids, PlanResumes(p) PROVE HandInv'
  <2>1. pc = "plans" /\ p \in rec.todo /\ pc' = "free" /\ rec' = rec /\ intents' = intents
    BY <1>16 DEF PlanResumes, Resuming
  <2>2. op'.plan = p /\ op'.t = intents[p].trade /\ op'.q = intents[p].qty
    <3>1. op' = [NoOp EXCEPT !.h = "plan", !.t = intents[p].trade, !.plan = p, !.q = intents[p].qty]
      BY <1>16 DEF PlanResumes
    <3> QED
      BY <1>1, <3>1 DEF Op
  <2>3. Planned'
    BY <2>1, HandParts, PlannedLasts
  <2>4. PlanOf'
    BY <2>1, <2>2, HandParts DEF PlanOf, Planned
  <2> QED
    BY <1>1, <2>1, <2>3, <2>4, FreeHand
<1>17. CASE Refresh \/ RecoverExits
  <2>1. pc' \in {"exits", "recStale"} /\ op' = op /\ pc \in {"refresh", "exits"}
    BY <1>17 DEF Refresh, RecoverExits
  <2>2. op' = NoOp
    BY <2>1, HandParts
  <2> QED
    BY <1>1, <2>1, <2>2, PlainNames, ReturnHand DEF PlainSteps
<1>18. CASE ReconcileRecovers
  <2>1. pc' \in {"stale", "partial", "recPartial", "verdict"} /\ op'.h \in {"none", "stale", "partial"}
    <3>1. NoOp.h = "none"
      BY DEF NoOp
    <3> QED
      BY <1>1, <1>18, <3>1 DEF ReconcileRecovers, Op
  <2> QED
    BY <1>1, <2>1, PlainNames, PlainHand DEF PlainSteps
<1> QED
  BY <1>3, <1>4, <1>6, <1>7, <1>8, <1>9, <1>10, <1>11, <1>13, <1>14, <1>15, <1>16, <1>17, <1>18 DEF Reconcile

LEMMA HandStep == ASSUME IInv, RInv, Core, HoldInv, HandInv, Next PROVE HandInv'
<1>1. CASE Crash
  BY <1>1, TradeCurrent, PlainNames, ReturnHand DEF Crash, PlainSteps
<1>2. CASE Exchange \/ Stream \/ Owner
  BY <1>2, EnvHand DEF Env
<1> QED
  BY <1>1, <1>2, EntryHand, PostHand, CancelProcedureHand, ConvertHand, EmergencyHand, TickHand, ReconcileHand DEF Next

-----------------------------------------------------------------------------
(***************************************************************************)
(* SightInv, step by step.                                                  *)
(***************************************************************************)
PreparePart == pc = "prepare" => Unresolved = {} /\ NoLive /\ BtcTotal <= 0 /\ ActiveRows \subseteq {op.t}

ExitPart == pc = "exitRow" => BtcTotal <= 0 /\ GuardOf(op.t)

FilledRow(t) == rows[t].ent # 0 /\ rows[t].filled = book[rows[t].ent].bought /\ BuyTerminal(rows[t].ent)

OpenPart == op.h \in {"partial", "stale"} /\ op.t # 0 /\ pc # "posted" => rows[op.t].lc # "EXIT_FILLED"

OldOrderDone(t) == rows[t].obj # 0 => book[rows[t].obj].ph = "done"

PostPart == pc \in PostSteps /\ op.h \in {"entry", "manual", "partial", "stale"} =>
              op.t \in ActiveRows /\ OldOrderDone(op.t)

\* What an emergency sale may still have to sell.
SaleLimit ==
  op.t # 0 /\ Guarded(op.t, rows[op.t]) => BtcTotal <= op.q - (IF op.i = 0 THEN 0 ELSE book[op.i].sold)

SalePart ==
  op.h = "emergency" =>
    /\ SaleLimit
    /\ pc \in PlanSteps => op.x = rows[op.t].obj /\ op.c = "CANCEL_PROTECTION"
    /\ pc = "canceled" => op.x # 0 /\ book[op.x].ph = "done"
    /\ pc \in PostSteps => rows[op.t].obj # 0 /\ book[rows[op.t].obj].ph = "done"

LEMMA SightParts ==
  SightInv <=> /\ PreparePart /\ ExitPart /\ (pc = "partialPlace" => FilledRow(op.t))
               /\ OpenPart /\ PostPart /\ SalePart
BY DEF SightInv, PreparePart, ExitPart, FilledRow, OpenPart, OldOrderDone, PostPart, SaleLimit, SalePart

LEMMA SightPartsNext ==
  ASSUME PreparePart', ExitPart', pc' = "partialPlace" => FilledRow(op.t)', OpenPart', PostPart', SalePart'
  PROVE  SightInv'
BY DEF SightInv, PreparePart, ExitPart, FilledRow, OpenPart, OldOrderDone, PostPart, SaleLimit, SalePart

\* Other handlers and other steps have nothing to know.
LEMMA OtherSight ==
  ASSUME pc' \notin {"prepare", "exitRow", "partialPlace"}, op'.h \notin {"partial", "stale", "emergency"},
         pc' \in PostSteps => op'.h \notin {"entry", "manual"}
  PROVE  SightInv'
BY SightPartsNext DEF PreparePart, ExitPart, OpenPart, PostPart, SalePart

LEMMA ReturnSight ==
  ASSUME pc' \notin {"prepare", "exitRow", "partialPlace"}, op' = NoOp PROVE SightInv'
<1>1. op'.h = "none"
  BY DEF NoOp
<1> QED
  BY <1>1, OtherSight

\* A recovery routine looks for its row or cancels its order.
LEMMA RecoverySight ==
  ASSUME pc' \notin {"prepare", "exitRow", "partialPlace"} \cup PostSteps, op'.h \in {"partial", "stale"},
         op'.t # 0 => rows'[op'.t].lc # "EXIT_FILLED"
  PROVE  SightInv'
BY SightPartsNext DEF PreparePart, ExitPart, OpenPart, PostPart, SalePart

\* Where a plan, a sale or a protection was recorded, the BUY is over.
LEMMA GuardedEbb ==
  ASSUME IInv, RInv, Core, HoldInv, NEW t \in Trades, GuardOf(t) \/ Guarded(t, rows[t]),
         \A e \in Ids : EntryOf(e, t) => Current(e), NEW i \in Ids, MarketStep(i)
  PROVE  Ebb
<1>1. CASE GuardOf(t)
  <2>1. PICK j \in Ids : IsGuard(j) /\ intents[j].trade = t
    BY <1>1 DEF GuardOf
  <2>2. PICK e \in Ids : EntryOf(e, t)
    BY <2>1 DEF Core, CurrentInv
  <2>3. Current(j)
    BY <2>1, <2>2, AfterEntry
  <2>4. book[i].ph # "working"
    BY <2>1, <2>3, NoneWorking
  <2> QED
    BY <2>4, MarketEffect DEF IInv, RInv, Core
<1>2. CASE rows[t].prot > 0
  <2>1. rows[t].ent # 0 /\ rows[t].ent \in Ids
    BY <1>2, RowHolds DEF NamesOf, IInv, TypeOK, Row
  <2>2. EntryOf(rows[t].ent, t) /\ Current(rows[t].ent)
    BY <2>1, RowFacts DEF RInv
  <2>3. book[rows[t].ent].ph # "working"
    BY <1>2, <2>1, <2>2 DEF HoldInv, Sound, HeldBy
  <2>4. ASSUME book[i].ph = "working" PROVE FALSE
    <3>1. IsEntry(i) /\ Current(i)
      BY <2>4 DEF Core, StockInv, CurrentInv, Live
    <3> QED
      BY <2>1, <2>2, <2>3, <2>4, <3>1, OneEntry DEF EntryOf, IsEntry
  <2> QED
    BY <2>4, MarketEffect DEF IInv, RInv, Core
<1> QED
  BY <1>1, <1>2 DEF Guarded

LEMMA EbbDown ==
  ASSUME TypeOK, TypeOK', Ebb PROVE BtcTotal' <= BtcTotal
<1>1. 1 \in Ids
  BY ExchangeAssumption DEF Ids
<1>2. /\ book[1].sold \in Nat /\ book'[1].sold \in Nat
      /\ BtcTotal \in Int /\ BtcTotal' \in Int
  BY <1>1 DEF TypeOK, ExchangeTypeOK, Order, BtcTotal
<1> QED
  BY <1>1, <1>2 DEF Ebb

LEMMA SaleEbb ==
  ASSUME IInv, RInv, Core, HoldInv, HandInv, TypeOK', UNCHANGED <<rows, intents, op>>, SaleLimit,
         NEW i \in Ids, MarketStep(i)
  PROVE  SaleLimit'
<1>1. Guarded(op.t, rows[op.t])' <=> Guarded(op.t, rows[op.t])
  BY DEF Guarded, GuardOf, IsGuard
<1>2. CASE op.t # 0 /\ Guarded(op.t, rows[op.t])
  <2>1. op.t \in Trades /\ op.i \in Ids \cup {0} /\ op.q \in Int
    BY <1>2 DEF IInv, TypeOK, Op
  <2>2. Ebb
    BY <1>2, <2>1, GuardedEbb DEF HandInv
  <2>3. /\ BtcTotal \in Int /\ BtcTotal' \in Int
        /\ op.i # 0 => book[op.i].sold \in Int /\ book'[op.i].sold \in Int
    BY <2>1 DEF IInv, TypeOK, ExchangeTypeOK, Order, BtcTotal
  <2>4. BtcTotal <= op.q - (IF op.i = 0 THEN 0 ELSE book[op.i].sold)
    BY <1>2 DEF SaleLimit
  <2>5. CASE op.i = 0
    <3>1. BtcTotal' <= op.q
      BY <2>1, <2>2, <2>3, <2>4, <2>5, EbbDown DEF IInv
    <3> QED
      BY <2>1, <2>5, <3>1 DEF SaleLimit
  <2>6. CASE op.i # 0
    <3>1. BtcTotal' + book'[op.i].sold <= BtcTotal + book[op.i].sold
      BY <2>1, <2>2, <2>6 DEF Ebb
    <3>2. BtcTotal' <= op.q - book'[op.i].sold
      BY <2>1, <2>3, <2>4, <2>6, <3>1
    <3> QED
      BY <2>6, <3>2 DEF SaleLimit
  <2> QED
    BY <2>5, <2>6
<1> QED
  BY <1>1, <1>2 DEF SaleLimit

\* A step of the market alone.
LEMMA MarketSight ==
  ASSUME IInv, RInv, Core, HoldInv, KnowInv, OrdersLast, TypeOK', UNCHANGED <<rows, intents, pc, op>>,
         NEW i \in Ids, MarketStep(i)
  PROVE  SightInv'
<1>1. HandInv /\ TypeOK /\ op \in Op /\ rows \in [Trades -> Row]
      /\ PreparePart /\ ExitPart /\ (pc = "partialPlace" => FilledRow(op.t))
      /\ OpenPart /\ PostPart /\ SalePart
  BY SightParts DEF KnowInv, IInv, TypeOK
<1>2. \A e \in Ids : book[e].ph = "done" => book'[e].ph = "done"
  BY <1>1, MarketOrders
<1>3. PreparePart'
  <2>1. pc # "prepare"
    BY <1>1, BuyFillFacts, SellFillFacts DEF PreparePart, MarketStep, NoLive, Live, Lands
  <2> QED
    BY <2>1 DEF PreparePart
<1>4. ExitPart'
  <2>1. CASE pc = "exitRow"
    <3>1. op.t \in Trades /\ GuardOf(op.t) /\ BtcTotal <= 0
      BY <1>1, <2>1 DEF ExitPart, IInv, ControlInv, StepInv, TradeSteps
    <3>2. Ebb
      BY <1>1, <3>1, GuardedEbb, HandCurrent
    <3>3. BtcTotal' <= 0
      <4>1. BtcTotal' <= BtcTotal /\ BtcTotal \in Int /\ BtcTotal' \in Int
        BY <1>1, <3>2, EbbDown DEF TypeOK, ExchangeTypeOK, BtcTotal
      <4> QED
        BY <3>1, <4>1
    <3>4. GuardOf(op.t)'
      BY <3>1 DEF GuardOf, IsGuard
    <3> QED
      BY <3>3, <3>4 DEF ExitPart
  <2> QED
    BY <2>1 DEF ExitPart
<1>5. pc' = "partialPlace" => FilledRow(op.t)'
  <2>1. CASE pc = "partialPlace"
    <3> DEFINE e == rows[op.t].ent
    <3>1. op.t \in Trades /\ e # 0 /\ rows[op.t].filled = book[e].bought /\ BuyTerminal(e)
      BY <1>1, <2>1 DEF FilledRow, IInv, ControlInv, StepInv, TradeSteps
    <3>2. e \in Ids /\ Exists(e)
      BY <1>1, <3>1, RowFacts DEF Row, RInv
    <3> HIDE DEF e
    <3>3. book[e].ph # "working"
      <4>1. book[e].ph = "working" => book[e].bought < book[e].qty
        BY <3>2 DEF Core, StockInv
      <4>2. book[e].bought \in Nat /\ book[e].qty \in Nat
        BY <1>1, <3>2, OrderType
      <4> QED
        BY <3>1, <4>1, <4>2 DEF BuyTerminal
    <3>4. book'[e].bought = book[e].bought /\ book'[e].qty = book[e].qty
      BY <1>1, <3>2, <3>3, MarketOrders DEF OrdersLast
    <3>5. book'[e].ph = "done" \/ book'[e].bought = book'[e].qty
      BY <1>2, <3>1, <3>2, <3>4 DEF BuyTerminal
    <3> QED
      BY <3>1, <3>4, <3>5 DEF FilledRow, BuyTerminal, e
  <2> QED
    BY <2>1
<1>6. OpenPart'
  BY <1>1 DEF OpenPart
<1>7. PostPart'
  <2>1. ActiveRows' = ActiveRows
    BY DEF ActiveRows
  <2>2. op.t \in Trades => (OldOrderDone(op.t) => OldOrderDone(op.t)')
    BY <1>1, <1>2 DEF OldOrderDone, Row
  <2>3. op.t \in ActiveRows => op.t \in Trades
    BY DEF ActiveRows
  <2> QED
    BY <1>1, <2>1, <2>2, <2>3 DEF PostPart, OldOrderDone
<1>8. SalePart'
  <2>1. CASE op.h = "emergency"
    <3>1. SaleLimit'
      BY <1>1, <2>1, SaleEbb DEF SalePart
    <3>2. pc \in PlanSteps => op.x = rows[op.t].obj /\ op.c = "CANCEL_PROTECTION"
      BY <1>1, <2>1 DEF SalePart
    <3>3. pc = "canceled" => op.x # 0 /\ book'[op.x].ph = "done"
      BY <1>1, <1>2, <2>1 DEF SalePart, Op
    <3>4. pc \in PostSteps => rows[op.t].obj # 0 /\ book'[rows[op.t].obj].ph = "done"
      <4>1. pc \in PostSteps => op.t \in Trades
        BY DEF PostSteps, IInv, ControlInv, StepInv, TradeSteps
      <4> QED
        BY <1>1, <1>2, <2>1, <4>1 DEF SalePart, Row
    <3> QED
      BY <3>1, <3>2, <3>3, <3>4 DEF SalePart
  <2> QED
    BY <2>1 DEF SalePart
<1> QED
  BY <1>3, <1>4, <1>5, <1>6, <1>7, <1>8, SightPartsNext

\* A trade row changes in what is not known of it.
LEMMA StillSight ==
  ASSUME IInv, RInv, KnowInv, UNCHANGED <<book, btc, intents, pc, op>>,
         \A t \in Trades : /\ rows'[t].lc = rows[t].lc /\ rows'[t].ent = rows[t].ent
                           /\ rows'[t].obj = rows[t].obj /\ rows'[t].filled = rows[t].filled
                           /\ rows'[t].prot = rows[t].prot
  PROVE  SightInv'
<1>1. op \in Op /\ (op.t # 0 => op.t \in Trades) /\ (pc \in TradeSteps => op.t \in Trades)
      /\ PreparePart /\ ExitPart /\ (pc = "partialPlace" => FilledRow(op.t))
      /\ OpenPart /\ PostPart /\ SalePart
  BY SightParts DEF KnowInv, IInv, TypeOK, Op, ControlInv, StepInv
<1>2. BtcTotal' = BtcTotal /\ ActiveRows' = ActiveRows /\ Unresolved' = Unresolved /\ (NoLive' <=> NoLive)
      /\ (GuardOf(op.t)' <=> GuardOf(op.t))
      /\ \A i : (BuyTerminal(i)' <=> BuyTerminal(i))
  BY DEF BtcTotal, ActiveRows, Unresolved, NoLive, Live, GuardOf, IsGuard, BuyTerminal
<1>3. PreparePart' /\ ExitPart'
  BY <1>1, <1>2 DEF PreparePart, ExitPart
<1>4. pc' = "partialPlace" => FilledRow(op.t)'
  BY <1>1, <1>2 DEF FilledRow, TradeSteps
<1>5. OpenPart'
  BY <1>1 DEF OpenPart
<1>6. PostPart'
  BY <1>1, <1>2 DEF PostPart, OldOrderDone, PostSteps, TradeSteps
<1>7. SalePart'
  <2>1. op.t \in Trades => (Guarded(op.t, rows[op.t])' <=> Guarded(op.t, rows[op.t]))
    BY <1>2 DEF Guarded
  <2>2. SaleLimit => SaleLimit'
    BY <1>1, <1>2, <2>1 DEF SaleLimit
  <2>3. PlanSteps \cup PostSteps \subseteq TradeSteps
    BY DEF PlanSteps, PostSteps, TradeSteps
  <2> QED
    BY <1>1, <2>2, <2>3 DEF SalePart
<1> QED
  BY <1>3, <1>4, <1>5, <1>6, <1>7, SightPartsNext

LEMMA EnvSight ==
  ASSUME IInv, RInv, Core, HoldInv, KnowInv, Next, TypeOK', Env PROVE SightInv'
<1>1. UNCHANGED <<pc, op, rec, intents>> /\ OrdersLast /\ SubmitOp
  BY EnvKeeps, OrdersStep, OpOfSubmit DEF RInv, KnowInv
<1>2. CASE Exchange
  <2>1. rows' = rows
    BY <1>2 DEF Exchange, durableVars
  <2>2. UNCHANGED <<book, btc>> \/ \E i \in Ids : MarketStep(i)
    BY <1>1, MarketCauses DEF Core
  <2> QED
    BY <1>1, <2>1, <2>2, MarketSight, StillSight
<1>3. CASE Stream \/ Owner
  <2>1. pc \in {"idle", "submit", "arming"}
    BY <1>3 DEF Stream, StreamUpdate, StreamPartialFill, StreamResync, Owner, ClearRiskPause, OwnerPause, LockFree
  <2>2. op.h \notin {"partial", "stale", "emergency"}
    <3>1. NoOp.h = "none"
      BY DEF NoOp
    <3> QED
      BY <2>1, <3>1, HandParts DEF KnowInv, RInv, SubmitInv
  <2> QED
    BY <1>1, <2>1, <2>2, OtherSight DEF PostSteps
<1>4. ASSUME NEW t \in Trades, EntryWindowExpires(t) PROVE SightInv'
  <2>1. rows' = [rows EXCEPT ![t].stale = TRUE] /\ UNCHANGED <<book, btc>> /\ rows \in [Trades -> Row]
    BY <1>4 DEF EntryWindowExpires, exchangeVars, IInv, TypeOK
  <2>2. \A u \in Trades : /\ rows'[u].lc = rows[u].lc /\ rows'[u].ent = rows[u].ent
                          /\ rows'[u].obj = rows[u].obj /\ rows'[u].filled = rows[u].filled
                          /\ rows'[u].prot = rows[u].prot
    BY <2>1 DEF Row
  <2> QED
    BY <1>1, <2>1, <2>2, StillSight
<1> QED
  BY <1>2, <1>3, <1>4 DEF Env

\* The report of a BUY closes no row as exited.
LEMMA BuyRow ==
  ASSUME TypeOK, NEW r \in Row
  PROVE  /\ ApplyBuy(r) \in Row
         /\ ApplyBuy(r).ent = r.ent /\ ApplyBuy(r).obj = r.obj /\ ApplyBuy(r).prot = r.prot
         /\ r.ent # 0 => ApplyBuy(r).filled = book[r.ent].bought
         /\ ApplyBuy(r).lc = "EXIT_FILLED" => r.lc = "EXIT_FILLED"
<1>1. CASE r.ent = 0
  BY <1>1 DEF ApplyBuy
<1>2. CASE r.ent # 0
  <2> DEFINE o == book[r.ent]
             lc == IF o.bought = o.qty THEN "ENTRY_FILLED"
                   ELSE IF o.bought > 0 THEN "ENTRY_PARTIALLY_FILLED"
                   ELSE IF o.ph = "done" THEN "ENTRY_REJECTED"
                   ELSE r.lc
             v == Advance(r.lc, lc)
  <2>1. ApplyBuy(r) = [r EXCEPT !.filled = o.bought, !.lc = v]
    BY <1>2 DEF ApplyBuy, Row
  <2>2. v = "EXIT_FILLED" => r.lc = "EXIT_FILLED"
    BY DEF Advance
  <2>3. ApplyBuy(r) \in Row
    BY ApplyBuyType
  <2> HIDE DEF o, v
  <2>4. /\ ApplyBuy(r).ent = r.ent /\ ApplyBuy(r).obj = r.obj /\ ApplyBuy(r).prot = r.prot
        /\ ApplyBuy(r).filled = o.bought /\ ApplyBuy(r).lc = v
    BY <2>1 DEF Row
  <2> QED
    BY <2>2, <2>3, <2>4 DEF o
<1> QED
  BY <1>1, <1>2

\* The report of a SELL that is over tells no quantity.
LEMMA SoldRow ==
  ASSUME TypeOK, NEW r \in Row, r.obj = 0 \/ book[r.obj].ph = "done"
  PROVE  ApplySell(r).prot = r.prot
<1>1. CASE r.obj = 0
  BY <1>1 DEF ApplySell
<1>2. CASE r.obj # 0
  <2>1. book[r.obj].ph = "done"
    BY <1>2
  <2>2. ApplySell(r) = [r EXCEPT !.lc = Advance(@, "EXIT_FILLED")] \/ ApplySell(r) = r
    BY <1>2, <2>1 DEF ApplySell
  <2> QED
    BY <2>2 DEF Row
<1> QED
  BY <1>1, <1>2

LEMMA SaleSame ==
  ASSUME UNCHANGED <<book, btc>>,
         \A i \in Ids : intents'[i].opn = intents[i].opn /\ intents'[i].trade = intents[i].trade,
         op'.t = op.t, op'.i = op.i, op'.q = op.q, rows'[op.t].prot = rows[op.t].prot, SaleLimit
  PROVE  SaleLimit'
<1>1. (GuardOf(op.t)' <=> GuardOf(op.t)) /\ BtcTotal' = BtcTotal
  BY DEF GuardOf, IsGuard, BtcTotal
<1> QED
  BY <1>1 DEF SaleLimit, Guarded

LEMMA PostSight ==
  ASSUME IInv, RInv, Core, HoldInv, KnowInv, Next, TypeOK', PostProcedure PROVE SightInv'
<1> USE DEF Goto
<1>1. HandInv /\ TypeOK /\ op \in Op /\ rows \in [Trades -> Row] /\ OrdersLast /\ SubmitOp
      /\ OpenPart /\ PostPart /\ SalePart
  BY SightParts, OrdersStep, OpOfSubmit DEF KnowInv, IInv, TypeOK, RInv
<1>2. /\ pc \in SubmitSteps /\ pc \in PostSteps /\ pc' \in SubmitSteps
      /\ op'.i = op.i /\ op'.h = op.h /\ op'.t = op.t /\ op'.q = op.q
  BY <1>1 DEF PostProcedure, MarkSubmitting, PostAccepted, PostRejected, PostUnanswered, LookupFound,
     LookupMissing, ConfirmIntent, BindIntent, PostUnchanged, SubmitSteps, PostSteps, Op
<1>3. op.t \in Trades /\ op.i \in Ids
  BY <1>2, SubmitFacts
<1>4. pc' \notin {"prepare", "exitRow", "partialPlace"} \cup PlanSteps
  BY <1>2 DEF SubmitSteps, PlanSteps
<1>5. PreparePart' /\ ExitPart' /\ (pc' = "partialPlace" => FilledRow(op.t)')
  BY <1>4 DEF PreparePart, ExitPart
<1>6. \/ PostAccepted
      \/ UNCHANGED <<book, btc>>
         /\ \A i \in Ids : intents'[i].opn = intents[i].opn /\ intents'[i].trade = intents[i].trade
  <2>1. CASE MarkSubmitting \/ PostRejected \/ LookupMissing \/ ConfirmIntent
    <3>1. Settles
      BY <2>1 DEF Settles
    <3> QED
      BY <3>1, FieldsOfSettles, SettlesQuiet
  <2>2. CASE PostUnanswered \/ LookupFound \/ BindIntent
    BY <2>2 DEF PostUnanswered, LookupFound, BindIntent, exchangeVars
  <2> QED
    BY <2>1, <2>2 DEF PostProcedure
<1>7. CASE BindIntent
  <2>1. pc' = "posted"
    BY <1>7 DEF BindIntent
  <2>2. OpenPart' /\ PostPart'
    BY <2>1 DEF OpenPart, PostPart, PostSteps
  <2>3. ASSUME op.h = "emergency" PROVE SalePart'
    <3> DEFINE n == intents[op.i]
               r == rows[op.t]
    <3>1. n.opn = "EMERGENCY_EXIT" /\ n.trade = op.t /\ r \in Row /\ r.obj # 0 /\ book[r.obj].ph = "done"
      BY <1>1, <1>2, <1>3, <2>3, SubmitFacts DEF HandInv, SalePart
    <3>2. BoundRow(n, r, op.i) = r
      BY <3>1 DEF BoundRow
    <3>3. \E s \in Reported(n, r) : SetRow(op.t, s)
      <4> HIDE DEF r
      <4>1. \E s \in Reported(n, BoundRow(n, rows[n.trade], op.i)) : SetRow(n.trade, s)
        BY <1>7 DEF BindIntent
      <4>2. rows[n.trade] = r
        BY <3>1 DEF r
      <4> QED
        BY <3>1, <3>2, <4>1, <4>2
    <3>4. ASSUME NEW s \in Reported(n, r) PROVE s \in {r, ApplyAll(r)}
      <4> HIDE DEF r
      <4> QED
        BY <3>1, <3>4 DEF Reported
    <3>5. ApplyAll(r).prot = r.prot
      BY <1>1, <3>1, BuyRow, SoldRow DEF ApplyAll
    <3>6. rows'[op.t].prot = rows[op.t].prot
      BY <1>1, <1>3, <3>3, <3>4, <3>5 DEF SetRow
    <3>7. UNCHANGED <<book, btc, intents>>
      BY <1>7 DEF BindIntent, exchangeVars
    <3>8. SaleLimit'
      BY <1>1, <1>2, <2>3, <3>6, <3>7, SaleSame DEF SalePart
    <3> QED
      BY <1>4, <2>1, <3>8 DEF SalePart, PostSteps
  <2>4. op.h # "emergency" => SalePart'
    BY <1>2 DEF SalePart
  <2> QED
    BY <1>5, <2>2, <2>3, <2>4, SightPartsNext
<1>8. CASE PostProcedure /\ ~BindIntent
  <2>1. rows' = rows
    BY <1>8 DEF PostProcedure, MarkSubmitting, PostAccepted, PostRejected, PostUnanswered, LookupFound,
       LookupMissing, ConfirmIntent, PostUnchanged, KeepRows
  <2>2. rows[op.t].obj # 0 /\ book[rows[op.t].obj].ph = "done" => book'[rows[op.t].obj].ph = "done"
    BY <1>1, <1>3 DEF OrdersLast, Row
  <2>3. OpenPart'
    BY <1>1, <1>2, <2>1 DEF OpenPart, PostSteps
  <2>4. PostPart'
    <3>1. ActiveRows' = ActiveRows
      BY <2>1 DEF ActiveRows
    <3> QED
      BY <1>1, <1>2, <2>1, <2>2, <3>1 DEF PostPart, OldOrderDone
  <2>5. ASSUME op.h = "emergency" PROVE SalePart'
    <3>1. SaleLimit
      BY <1>1, <2>5 DEF SalePart
    <3>2. ASSUME PostAccepted PROVE SaleLimit'
      <4>1. UNCHANGED <<rows, intents, op>>
        BY <2>1, <3>2 DEF PostAccepted
      <4>2. intents[op.i].st = "SUBMITTING" /\ intents[op.i].opn \in PostOps
        BY <1>2, <3>2 DEF PostAccepted, IInv, ControlInv, StepInv, HandInv, KnowInv
      <4>3. MarketStep(op.i)
        BY <1>3, <3>2, <4>2 DEF PostAccepted, MarketStep, Lands, Unresolved
      <4> QED
        BY <1>1, <1>3, <3>1, <4>1, <4>3, SaleEbb
    <3>3. ASSUME UNCHANGED <<book, btc>>,
                 \A i \in Ids : intents'[i].opn = intents[i].opn /\ intents'[i].trade = intents[i].trade
          PROVE  SaleLimit'
      BY <1>2, <2>1, <3>1, <3>3, SaleSame
    <3>4. SaleLimit'
      BY <1>6, <3>2, <3>3
    <3>5. rows[op.t].obj # 0 /\ book[rows[op.t].obj].ph = "done"
      BY <1>1, <1>2, <2>5 DEF SalePart
    <3> QED
      BY <1>2, <1>4, <2>1, <2>2, <3>4, <3>5 DEF SalePart, PlanSteps
  <2>6. op.h # "emergency" => SalePart'
    BY <1>2 DEF SalePart
  <2> QED
    BY <1>5, <2>3, <2>4, <2>5, <2>6, SightPartsNext
<1> QED
  BY <1>7, <1>8

LEMMA SaleNew ==
  ASSUME IInv, RInv, Core, UNCHANGED <<book, btc, rows>>, NEW i \in Ids, NEW n, Prepare(i, n),
         n.opn \notin GuardOps, op'.t = op.t, op'.q = op.q, op'.i = i, SaleLimit
  PROVE  SaleLimit'
<1>1. /\ intents[i].opn = "NONE" /\ intents'[i] = n /\ book[i].sold = 0
      /\ \A j \in Ids \ {i} : intents'[j].opn = intents[j].opn /\ intents'[j].trade = intents[j].trade
  BY NewestFacts DEF Core
<1>2. GuardOf(op.t)' <=> GuardOf(op.t)
  BY <1>1, OpKinds DEF GuardOf, IsGuard, GuardOps
<1>3. BtcTotal' = BtcTotal /\ BtcTotal \in Int /\ op.q \in Int /\ (op.i # 0 => book[op.i].sold \in Nat) /\ i # 0
  <2>1. op \in Op /\ book \in [Ids -> Order] /\ btc \in [free : Int, locked : Int]
    BY DEF IInv, TypeOK, ExchangeTypeOK
  <2>2. op.q \in Int /\ (op.i # 0 => op.i \in Ids)
    BY <2>1 DEF Op
  <2>3. op.i # 0 => book[op.i].sold \in Nat
    BY <2>1, <2>2 DEF Order
  <2>4. BtcTotal \in Int /\ BtcTotal' = BtcTotal
    BY <2>1 DEF BtcTotal
  <2> QED
    BY <2>2, <2>3, <2>4, IdFacts
<1>4. ASSUME op.t # 0, Guarded(op.t, rows[op.t]) PROVE BtcTotal <= op.q
  BY <1>3, <1>4 DEF SaleLimit
<1> QED
  BY <1>1, <1>2, <1>3, <1>4 DEF SaleLimit, Guarded

LEMMA CancelProcedureSight ==
  ASSUME IInv, RInv, Core, HoldInv, KnowInv, Next, TypeOK', CancelProcedure PROVE SightInv'
<1> USE DEF Goto
<1>1. HandInv /\ TypeOK /\ op \in Op /\ OpenPart /\ SalePart
  BY SightParts DEF KnowInv, IInv, TypeOK
<1>2. /\ pc \in PlanSteps \ {"canceled"} /\ pc' \in PlanSteps \cup {"cancelFailed"} /\ rows' = rows
      /\ op'.h = op.h /\ op'.t = op.t /\ op'.q = op.q /\ op'.x = op.x /\ op'.c = op.c
  BY <1>1 DEF CancelProcedure, CancelWithoutTarget, CancelAlreadyPrepared, CancelOutOfRoom,
     CancelPrepare, CancelMark, DeleteAccepted, DeleteFails, CancelConfirm, PlanSteps, Op, CancelUnchanged, KeepRows
<1>3. pc' \notin {"prepare", "exitRow", "partialPlace", "posted"} \cup PostSteps /\ pc # "posted"
  BY <1>2 DEF PlanSteps, PostSteps
<1>4. PreparePart' /\ ExitPart' /\ (pc' = "partialPlace" => FilledRow(op.t)') /\ OpenPart' /\ PostPart'
  BY <1>1, <1>2, <1>3 DEF PreparePart, ExitPart, OpenPart, PostPart
<1>5. ASSUME op.h = "emergency" PROVE SalePart'
  <2>1. SaleLimit /\ op.x = rows[op.t].obj /\ op.c = "CANCEL_PROTECTION"
    BY <1>1, <1>2, <1>5 DEF SalePart
  <2>2. SaleLimit'
    <3>1. ASSUME DeleteAccepted PROVE SaleLimit'
      <4>1. UNCHANGED <<rows, intents, op>>
        BY <1>2, <3>1 DEF DeleteAccepted
      <4>2. op.x \in Ids /\ MarketStep(op.x)
        BY <3>1 DEF DeleteAccepted, MarketStep, IInv, ControlInv, StepInv
      <4> QED
        BY <1>1, <2>1, <4>1, <4>2, SaleEbb
    <3>2. ASSUME NEW i \in Ids, CancelPrepare(i) PROVE SaleLimit'
      <4> DEFINE n == [NoIntent EXCEPT !.opn = op.c, !.trade = op.t, !.obj = op.x, !.st = "PREPARED"]
      <4>1. Prepare(i, n) /\ UNCHANGED <<book, btc>> /\ op'.i = i
        BY <1>1, <3>2 DEF CancelPrepare, exchangeVars, Op
      <4>2. n.opn \notin GuardOps
        BY <2>1 DEF NoIntent, GuardOps
      <4> QED
        BY <1>2, <2>1, <4>1, <4>2, SaleNew
    <3>3. ASSUME CancelMark \/ DeleteFails \/ CancelConfirm PROVE SaleLimit'
      <4>1. Settles /\ op' = op
        BY <3>3 DEF Settles, CancelMark, DeleteFails, CancelConfirm
      <4> QED
        BY <1>2, <2>1, <4>1, FieldsOfSettles, SettlesQuiet, SaleSame
    <3>4. ASSUME CancelWithoutTarget \/ CancelAlreadyPrepared \/ CancelOutOfRoom PROVE SaleLimit'
      <4>1. UNCHANGED <<book, btc, intents, op>>
        BY <3>4 DEF CancelWithoutTarget, CancelAlreadyPrepared, CancelOutOfRoom, exchangeVars
      <4> QED
        BY <1>2, <2>1, <4>1, SaleSame
    <3> QED
      BY <3>1, <3>2, <3>3, <3>4 DEF CancelProcedure
  <2>3. ASSUME pc' = "canceled" PROVE op.x # 0 /\ book'[op.x].ph = "done"
    <3>1. CASE CancelAlreadyPrepared
      BY <2>1, <2>3, <3>1 DEF CancelAlreadyPrepared
    <3>2. CASE CancelConfirm
      BY <3>2, IdFacts DEF CancelConfirm, RInv, TargetInv, IInv, ControlInv, StepInv, exchangeVars
    <3> QED
      BY <1>2, <2>1, <2>3, <3>1, <3>2 DEF CancelProcedure, CancelWithoutTarget, CancelOutOfRoom,
         CancelPrepare, CancelMark, DeleteAccepted, DeleteFails
  <2> QED
    BY <1>2, <1>3, <2>1, <2>2, <2>3 DEF SalePart
<1>6. op.h # "emergency" => SalePart'
  BY <1>2 DEF SalePart
<1> QED
  BY <1>4, <1>5, <1>6, SightPartsNext

LEMMA EntrySight ==
  ASSUME IInv, RInv, Core, HoldInv, KnowInv, ArmInv, Next, TypeOK', Entry PROVE SightInv'
<1> USE DEF Goto
<1>1. HandInv /\ TypeOK /\ op \in Op /\ NoOp \in Op /\ rows \in [Trades -> Row] /\ PreparePart
  BY SightParts, NoOpType DEF KnowInv, IInv, TypeOK
<1>2. pc \in {"submit", "prepare"} => op.t \in Trades /\ op.h \in {"entry", "manual"}
  BY DEF IInv, ControlInv, StepInv, TradeSteps, RInv, SubmitInv
<1>3. ASSUME NEW t \in Trades, ProcessSignal(t) \/ ManualEntry(t) PROVE SightInv'
  <2>1. pc' = "submit" /\ op'.h \in {"entry", "manual"}
    BY <1>1, <1>3 DEF ProcessSignal, ManualEntry, Op
  <2> QED
    BY <2>1, OtherSight DEF PostSteps
<1>4. CASE SubmitRefused \/ SubmitRaises \/ EntryDone
  BY <1>4, ReturnSight DEF SubmitRefused, SubmitRaises, EntryDone, Finish
<1>5. CASE SubmitPersist
  <2>1. /\ pc = "submit" /\ pc' = "prepare" /\ op' = op /\ intents' = intents /\ UNCHANGED <<book, btc>>
        /\ armed /\ ActiveRows \subseteq {op.t} /\ Unresolved = {}
        /\ SetRow(op.t, [NoRow EXCEPT !.lc = "ENTRY_SUBMITTED"])
    BY <1>5 DEF SubmitPersist, MaySubmit, exchangeVars
  <2>2. op.t \in Trades /\ op.h \in {"entry", "manual"} /\ \A e \in Ids : intents[e].trade # op.t
    BY <1>2, <2>1 DEF RInv, SubmitInv
  <2>3. ~Covered
    BY <2>1, <2>2 DEF Covered, EntryOf
  <2>4. BtcTotal <= 0 /\ NoLive
    BY <2>1, <2>3 DEF ArmInv
  <2>5. BtcTotal' <= 0 /\ NoLive' /\ Unresolved' = {}
    BY <2>1, <2>4 DEF BtcTotal, NoLive, Live, Unresolved
  <2>6. ActiveRows' \subseteq {op.t}
    <3>1. \A u \in Trades \ {op.t} : rows'[u] = rows[u]
      BY <1>1, <2>1 DEF SetRow
    <3> QED
      BY <2>1, <3>1 DEF ActiveRows
  <2>7. PreparePart'
    BY <2>1, <2>5, <2>6 DEF PreparePart
  <2> QED
    BY <2>1, <2>2, <2>7, SightPartsNext DEF ExitPart, OpenPart, PostPart, SalePart, PostSteps
<1>6. ASSUME NEW i \in Ids, PrepareEntry(i) PROVE SightInv'
  <2>1. pc = "prepare" /\ pc' = "mark" /\ op'.t = op.t /\ op'.h = op.h /\ rows' = rows
    BY <1>1, <1>6 DEF PrepareEntry, Op, KeepRows
  <2>2. op.t \in Trades /\ op.h \in {"entry", "manual"} /\ rows[op.t].obj = 0 /\ rows[op.t].lc = "ENTRY_SUBMITTED"
    BY <1>2, <2>1 DEF RInv, SubmitInv
  <2>3. PostPart'
    BY <2>1, <2>2 DEF PostPart, ActiveRows, OldOrderDone, Terminal
  <2> QED
    BY <2>1, <2>2, <2>3, SightPartsNext DEF PreparePart, ExitPart, OpenPart, SalePart
<1> QED
  BY <1>3, <1>4, <1>5, <1>6 DEF Entry

LEMMA ConvertSight ==
  ASSUME IInv, RInv, Core, HoldInv, KnowInv, Next, TypeOK', Convert PROVE SightInv'
<1> USE DEF Goto
<1>1. HandInv /\ TypeOK /\ op \in Op /\ NoOp \in Op
  BY NoOpType DEF KnowInv, IInv, TypeOK
<1>2. ASSUME NEW h \in {"convert", "auto"}, NEW t \in Trades, NEW i \in Ids, NEW ep \in Endpoints,
             ConvertBegin(h, t, i, ep)
      PROVE  SightInv'
  <2>1. pc' = "cancel" /\ op'.h = h
    BY <1>1, <1>2 DEF ConvertBegin, Op
  <2> QED
    BY <2>1, OtherSight
<1>3. CASE ConvertStops
  BY <1>3, ReturnSight DEF ConvertStops, Finish
<1>4. CASE ConvertExited \/ ConvertDone
  BY <1>4, ReturnSight DEF ConvertExited, ConvertDone, ConvertReturns, BeginReconcile, Finish
<1>5. CASE ConvertCanceled
  BY <1>5, OtherSight DEF ConvertCanceled
<1>6. CASE ReplaceFoundFlat
  <2>1. /\ pc = "free" /\ pc' = "exitRow" /\ op' = op /\ BtcTotal <= 0 /\ UNCHANGED <<book, btc>>
        /\ op.h \in {"convert", "auto", "plan"} /\ op.plan \in Ids /\ PlanOf
    BY <1>1, <1>6, HandParts DEF ReplaceFoundFlat, IInv, ControlInv, PlanInv, exchangeVars
  <2>2. intents'[op.plan].opn = intents[op.plan].opn /\ intents'[op.plan].trade = intents[op.plan].trade
    BY <1>6, <2>1, FieldsOfSettles DEF Settles
  <2>3. IsGuard(op.plan)' /\ intents'[op.plan].trade = op.t
    BY <2>1, <2>2 DEF PlanOf, IsGuard, GuardOps
  <2>4. GuardOf(op.t)' /\ BtcTotal' <= 0
    BY <2>1, <2>3 DEF GuardOf, IsGuard, BtcTotal
  <2>5. ExitPart'
    BY <2>1, <2>4 DEF ExitPart
  <2> QED
    BY <2>1, <2>5, SightPartsNext DEF PreparePart, OpenPart, PostPart, SalePart
<1>7. ASSUME NEW i \in Ids, PrepareReplacement(i) PROVE SightInv'
  <2>1. pc' = "mark" /\ op'.h = op.h /\ op.h \in {"convert", "auto", "plan"}
    BY <1>1, <1>7 DEF PrepareReplacement, Op, IInv, ControlInv, PlanInv
  <2> QED
    BY <2>1, OtherSight
<1> QED
  BY <1>2, <1>3, <1>4, <1>5, <1>6, <1>7 DEF Convert

LEMMA EmergencySight ==
  ASSUME IInv, RInv, Core, HoldInv, KnowInv, Next, TypeOK', Emergency PROVE SightInv'
<1> USE DEF Goto
<1>1. HandInv /\ TypeOK /\ op \in Op /\ NoOp \in Op /\ rows \in [Trades -> Row] /\ SalePart
      /\ NoOp.c = "CANCEL_PROTECTION" /\ NoOp.i = 0
  BY SightParts, NoOpType DEF KnowInv, IInv, TypeOK, NoOp
<1>2. ASSUME NEW t \in Trades, EmergencyBegin(t) PROVE SightInv'
  <2> DEFINE l == LargerOf(rows[t].filled, rows[t].prot)
  <2>1. /\ pc' = "cancel" /\ UNCHANGED <<rows, intents, book, btc>> /\ t \in ActiveRows
        /\ op' = [NoOp EXCEPT !.h = "emergency", !.t = t, !.x = rows[t].obj, !.q = l]
    BY <1>2 DEF EmergencyBegin, ActiveTrade, exchangeVars, KeepRows
  <2>2. /\ op'.h = "emergency" /\ op'.t = t /\ op'.x = rows[t].obj /\ op'.q = l
        /\ op'.c = "CANCEL_PROTECTION" /\ op'.i = 0
    <3> HIDE DEF l
    <3> QED
      BY <1>1, <2>1 DEF Op
  <2>3. l \in Int /\ BtcTotal \in Int
    <3>1. rows[t].filled \in Int /\ rows[t].prot \in Int
      BY <1>1 DEF Row
    <3>2. btc \in [free : Int, locked : Int]
      BY <1>1 DEF TypeOK, ExchangeTypeOK
    <3> QED
      BY <3>1, <3>2, SmallerFacts DEF BtcTotal
  <2>4. ASSUME Guarded(t, rows[t]) PROVE BtcTotal <= l
    <3>1. NamesOf(t, rows[t]) /\ Sound(t, rows[t]) /\ IsOpen(rows[t])
      BY <2>1, RowHolds DEF ActiveRows, IsOpen
    <3>2. PICK e \in Ids : EntryOf(e, t)
      <4>1. CASE rows[t].prot > 0
        <5>1. rows[t].ent # 0 /\ rows[t].ent \in Ids
          BY <1>1, <3>1, <4>1 DEF NamesOf, Row
        <5> QED
          BY <3>1, <5>1 DEF NamesOf
      <4>2. CASE GuardOf(t)
        BY <4>2 DEF GuardOf, Core, CurrentInv
      <4> QED
        BY <2>4, <4>1, <4>2 DEF Guarded
    <3>3. HeldBy(t, rows[t], e)
      BY <3>1, <3>2, SoundParts
    <3> QED
      BY <2>4, <3>3 DEF HeldBy
  <2>5. SaleLimit'
    <3>1. Guarded(t, rows[t])' <=> Guarded(t, rows[t])
      BY <2>1 DEF Guarded, GuardOf, IsGuard
    <3>2. BtcTotal' = BtcTotal
      BY <2>1 DEF BtcTotal
    <3> HIDE DEF l
    <3>3. BtcTotal <= l => BtcTotal <= l - 0
      BY <2>3
    <3> QED
      BY <2>2, <2>4, <3>1, <3>2, <3>3 DEF SaleLimit, Guarded
  <2>6. SalePart'
    BY <2>1, <2>2, <2>5 DEF SalePart, PostSteps
  <2> QED
    BY <2>1, <2>2, <2>6, SightPartsNext DEF PreparePart, ExitPart, OpenPart, PostPart
<1>3. CASE EmergencyStops \/ EmergencyVerify
  BY <1>3, ReturnSight DEF EmergencyStops, EmergencyVerify, Finish
<1>4. ASSUME NEW i \in Ids, EmergencySell(i) PROVE SightInv'
  <2> DEFINE n == NewPost("EMERGENCY_EXIT", op.t, 0, "order", SmallerOf(btc.free, op.q))
  <2>1. /\ pc = "canceled" /\ op.h = "emergency" /\ pc' = "mark" /\ UNCHANGED <<rows, book, btc>>
        /\ Prepare(i, n)
        /\ op'.h = "emergency" /\ op'.t = op.t /\ op'.q = op.q /\ op'.i = i
    BY <1>1, <1>4 DEF EmergencySell, exchangeVars, Op, KeepRows
  <2>2. n.opn \notin GuardOps
    BY NewPostFacts DEF GuardOps
  <2>3. SaleLimit /\ rows[op.t].obj # 0 /\ book[rows[op.t].obj].ph = "done"
    BY <1>1, <2>1 DEF SalePart, PlanSteps
  <2>4. SaleLimit'
    BY <2>1, <2>2, <2>3, SaleNew
  <2>5. SalePart'
    BY <2>1, <2>3, <2>4 DEF SalePart, PlanSteps
  <2> QED
    BY <2>1, <2>5, SightPartsNext DEF PreparePart, ExitPart, OpenPart, PostPart
<1> QED
  BY <1>2, <1>3, <1>4 DEF Emergency

\* A partial-fill protection takes the place of an order that is over.
LEMMA PlaceSight ==
  ASSUME IInv, RInv, Core, HoldInv, KnowInv, Next, NEW i \in Ids, NEW ep, PartialPlace(i, ep)
  PROVE  SightInv'
<1> DEFINE r == rows[op.t]
<1>1. /\ TypeOK /\ op \in Op /\ pc = "partialPlace" /\ pc' = "mark" /\ UNCHANGED <<rows, book, btc>>
      /\ op'.h = op.h /\ op'.t = op.t
      /\ op.t \in Trades /\ r \in Row /\ op.h \in {"partial", "stale"} /\ r.obj # 0
  <2>1. op \in Op /\ TypeOK /\ rows \in [Trades -> Row]
    BY DEF IInv, TypeOK
  <2>2. pc = "partialPlace" /\ pc' = "mark" /\ UNCHANGED <<rows, book, btc>> /\ op' = [op EXCEPT !.i = i]
    BY DEF PartialPlace, exchangeVars, Goto, KeepRows
  <2>3. op.t \in Trades /\ op.h \in {"partial", "stale"} /\ r.obj # 0
    BY <2>2 DEF IInv, ControlInv, StepInv, TradeSteps, RInv, TargetInv, BoundSteps
  <2> QED
    BY <2>1, <2>2, <2>3 DEF Op
<1>2. r.ent # 0 /\ r.filled = book[r.ent].bought /\ BuyTerminal(r.ent) /\ r.lc # "EXIT_FILLED"
  BY <1>1, IdFacts DEF KnowInv, SightInv
<1>3. r.ent \in Ids /\ r.obj \in Ids /\ EntryOf(r.ent, op.t) /\ Exists(r.obj) /\ NamesOf(op.t, r)
  BY <1>1, <1>2, RowHolds DEF NamesOf, Row
<1>4. btc.free > 0 /\ r.filled > 0
  <2>1. SmallerOf(btc.free, r.filled) > 0
    BY DEF PartialPlace
  <2>2. btc.free \in Int /\ r.filled \in Int
    BY <1>1 DEF TypeOK, ExchangeTypeOK, Row
  <2> QED
    BY <2>1, <2>2 DEF SmallerOf
<1>5. r.lc # "NONE"
  BY <1>1, RowFacts DEF RInv
<1>6. r.lc # "ENTRY_REJECTED"
  <2>1. r.lc = "ENTRY_REJECTED" => Unfilled(r.ent)
    BY <1>1, <1>3, RowFacts DEF RInv
  <2>2. intents[r.ent].st = "CONFIRMED"
    BY <1>1, <1>3, RowFacts DEF RInv
  <2> QED
    BY <1>2, <1>4, <2>1, <2>2 DEF Unfilled
<1>7. book[r.obj].ph = "done"
  <2>1. book[r.obj].ph # "protecting"
    BY <1>3, <1>4, FreeIdle DEF RInv
  <2>2. ASSUME book[r.obj].ph = "working" PROVE FALSE
    <3>1. IsEntry(r.obj) /\ book[r.obj].bought < book[r.obj].qty
      BY <1>3, <2>2 DEF Core, StockInv
    <3>2. r.obj = r.ent
      BY <1>1, <1>3, <3>1, OpKinds DEF NamesOf, IsEntry, IsGuard
    <3>3. book[r.obj].bought \in Nat /\ book[r.obj].qty \in Nat
      BY <1>1, <1>3, OrderType
    <3> HIDE DEF r
    <3> QED
      BY <1>2, <2>2, <3>1, <3>2, <3>3 DEF BuyTerminal
  <2>3. book[r.obj].ph \in {"none", "working", "protecting", "done"}
    BY <1>1, <1>3 DEF TypeOK, ExchangeTypeOK, Order
  <2> QED
    BY <1>3, <2>1, <2>2, <2>3 DEF Exists
<1>8. PostPart'
  BY <1>1, <1>2, <1>5, <1>6, <1>7 DEF PostPart, ActiveRows, OldOrderDone, Terminal
<1>9. OpenPart'
  BY <1>1, <1>2 DEF OpenPart
<1> QED
  BY <1>1, <1>8, <1>9, SightPartsNext DEF PreparePart, ExitPart, SalePart

\* The report of its BUY moves the row that a recovery routine works on.
LEMMA BoughtSight ==
  ASSUME TypeOK, NEW t \in Trades, rows[t].ent # 0, rows[t].lc # "EXIT_FILLED",
         SetRow(t, ApplyBuy(rows[t])), UNCHANGED book, op'.t = t, op'.h \in {"partial", "stale"},
         \/ pc' \in {"cancel", "partial"}
         \/ pc' = "partialPlace" /\ BuyTerminal(rows[t].ent)
  PROVE  SightInv'
<1>1. rows[t] \in Row /\ rows'[t] = ApplyBuy(rows[t])
  BY DEF TypeOK, SetRow
<1>2. /\ rows'[t].ent = rows[t].ent /\ rows'[t].lc # "EXIT_FILLED"
      /\ rows'[t].filled = book[rows[t].ent].bought
  BY <1>1, BuyRow
<1>3. pc' = "partialPlace" => FilledRow(op.t)'
  BY <1>2 DEF FilledRow, BuyTerminal
<1>4. OpenPart'
  BY <1>2 DEF OpenPart
<1> QED
  BY <1>3, <1>4, SightPartsNext DEF PreparePart, ExitPart, PostPart, PostSteps, SalePart

LEMMA StaleBegins ==
  ASSUME IInv, NEW t \in StaleRows, op' = [NoOp EXCEPT !.h = "stale", !.t = t], pc' = "stale", UNCHANGED rows
  PROVE  SightInv'
<1>1. op'.h = "stale" /\ op'.t = t /\ rows'[t].lc = "ENTRY_SUBMITTED"
  BY NoOpType DEF Op, StaleRows, ActiveRows
<1> QED
  BY <1>1, RecoverySight DEF PostSteps

LEMMA PartialBegins ==
  ASSUME op' = [NoOp EXCEPT !.h = "partial"], pc' = "partial" PROVE SightInv'
<1>1. op'.h = "partial" /\ op'.t = 0
  BY DEF NoOp
<1> QED
  BY <1>1, RecoverySight DEF PostSteps

LEMMA TickSight ==
  ASSUME IInv, RInv, Core, HoldInv, KnowInv, Next, TypeOK', Tick PROVE SightInv'
<1> USE DEF Goto
<1>1. HandInv /\ TypeOK /\ op \in Op /\ NoOp \in Op /\ rows \in [Trades -> Row] /\ OpenPart
  BY SightParts, NoOpType DEF KnowInv, IInv, TypeOK
<1>2. ASSUME NEW ok, StaleReturns(ok) \/ PartialReturns(ok) \/ PartialReturn(ok) PROVE SightInv'
  <2>1. op' = NoOp
    BY <1>2, ReturnPicks
  <2>2. pc' \in {"recPartial", "tick", "verdict", "idle"}
    BY <1>2 DEF StaleReturns, PartialReturns, PartialReturn
  <2> QED
    BY <2>1, <2>2, ReturnSight
<1>3. ASSUME NEW t \in Trades, EntryWindowExpires(t) PROVE SightInv'
  BY <1>3, EnvSight DEF Env
<1>4. CASE TickBegin
  BY <1>4, StaleBegins, PartialBegins DEF TickBegin, KeepRows
<1>5. CASE TickPartial
  BY <1>5, PartialBegins, ReturnSight DEF TickPartial, Finish
<1>6. CASE StaleFails \/ PartialFails \/ PartialDone
  BY <1>2, <1>6 DEF StaleFails, PartialFails, PartialDone
<1>7. CASE StaleCancels
  <2>1. /\ op.h = "stale" /\ op.t \in Trades /\ op.t # 0 /\ pc = "stale" /\ pc' = "cancel"
        /\ rows[op.t].ent # 0 /\ SetRow(op.t, ApplyBuy(rows[op.t])) /\ book' = book
        /\ op'.t = op.t /\ op'.h = op.h
    BY <1>1, <1>7, IdFacts DEF StaleCancels, IInv, ControlInv, PlanInv, StepInv, TradeSteps, exchangeVars, Op
  <2> QED
    BY <1>1, <2>1, BoughtSight DEF OpenPart
<1>8. CASE StaleCanceled \/ PartialCanceled
  <2>1. pc = "canceled" /\ op' = op /\ pc' \in {"staleTerminal", "partialTerminal"} /\ rows' = rows
        /\ (op.h = "stale" \/ op.c = "CANCEL_PARTIAL_ENTRY")
    BY <1>8 DEF StaleCanceled, PartialCanceled, KeepRows
  <2>2. op.h \in {"stale", "partial"}
    BY <2>1 DEF RInv, TargetInv, PlanSteps
  <2> QED
    BY <1>1, <2>1, <2>2, RecoverySight DEF OpenPart, PostSteps
<1>9. CASE StaleTerminal
  <2>1. op.h = "stale" /\ op.t \in Trades /\ op.t # 0 /\ pc # "posted" /\ rows[op.t].ent # 0
    BY <1>9, IdFacts DEF StaleTerminal, IInv, ControlInv, PlanInv, StepInv, TradeSteps
  <2>2. \/ StaleReturns(TRUE)
        \/ pc' = "partial" /\ op' = op /\ SetRow(op.t, ApplyBuy(rows[op.t])) /\ book' = book
    BY <1>9 DEF StaleTerminal, exchangeVars
  <2> QED
    BY <1>1, <1>2, <2>1, <2>2, BoughtSight DEF OpenPart
<1>10. ASSUME NEW t \in Trades, PartialCompletes(t) \/ PartialRefuses(t) PROVE SightInv'
  BY <1>2, <1>10 DEF PartialCompletes, PartialRefuses
<1>11. ASSUME NEW t \in Trades, PartialCancels(t) \/ PartialProceeds(t) PROVE SightInv'
  <2>1. /\ t \in ActiveRows /\ rows[t].ent # 0 /\ SetRow(t, ApplyBuy(rows[t])) /\ book' = book
        /\ op'.t = t /\ op'.h = op.h /\ op.h \in {"stale", "partial"}
        /\ pc' = "cancel" \/ (pc' = "partialPlace" /\ BuyTerminal(rows[t].ent))
    BY <1>1, <1>11 DEF PartialCancels, PartialProceeds, PartialLookup, ActiveTrade, Op, IInv, ControlInv, PlanInv, exchangeVars
  <2>2. rows[t].lc # "EXIT_FILLED"
    BY <2>1 DEF ActiveRows, Terminal
  <2> QED
    BY <1>1, <2>1, <2>2, BoughtSight
<1>12. CASE PartialTerminal
  <2>1. op.h \in {"stale", "partial"} /\ op.t \in Trades /\ op.t # 0 /\ rows[op.t].obj # 0 /\ pc # "posted"
    BY <1>12, IdFacts DEF PartialTerminal, RInv, TargetInv, BoundSteps, IInv, ControlInv, StepInv, TradeSteps
  <2>2. rows[op.t].ent # 0
    BY <2>1, RowHolds DEF NamesOf
  <2>3. \/ PartialReturn(FALSE)
        \/ /\ pc' = "partialPlace" /\ op' = op /\ SetRow(op.t, ApplyBuy(rows[op.t])) /\ book' = book
           /\ BuyTerminal(rows[op.t].ent)
    BY <1>12 DEF PartialTerminal, exchangeVars
  <2> QED
    BY <1>1, <1>2, <2>1, <2>2, <2>3, BoughtSight DEF OpenPart
<1>13. ASSUME NEW i \in Ids, NEW ep, PartialPlace(i, ep) PROVE SightInv'
  BY <1>13, PlaceSight
<1> QED
  BY <1>3, <1>4, <1>5, <1>6, <1>7, <1>8, <1>9, <1>10, <1>11, <1>12, <1>13 DEF Tick

LEMMA ReconcileSight ==
  ASSUME IInv, RInv, Core, HoldInv, KnowInv, Next, TypeOK', Reconcile PROVE SightInv'
<1> USE DEF Goto
<1>1. HandInv /\ TypeOK /\ op \in Op /\ NoOp \in Op /\ NoOp.h = "none"
  BY NoOpType DEF KnowInv, IInv, TypeOK, NoOp
<1>2. CASE ReconcileCommand \/ ArmCommand \/ Start
  BY <1>2, ReturnSight DEF ReconcileCommand, ArmCommand, Start, BeginReconcile
<1>3. CASE ArmFinish \/ PlansEnd
  BY <1>3, ReturnSight DEF ArmFinish, PlansEnd, Finish
<1>4. CASE Verdict
  <2>1. op' = NoOp /\ pc' \in {"down", "arming", "idle"}
    BY <1>4 DEF Verdict
  <2> QED
    BY <2>1, ReturnSight
<1>5. ASSUME NEW i, Resolved(i) \/ PlanLeaves(i) PROVE SightInv'
  BY <1>5, ReturnSight DEF Resolved, PlanLeaves
<1>6. ASSUME NEW i \in Ids, ResolveSkips(i) \/ ResolveCancel(i) \/ PlanWithoutCancel(i) PROVE SightInv'
  BY <1>5, <1>6 DEF ResolveSkips, ResolveCancel, PlanWithoutCancel
<1>7. CASE ResolveAbortedEntry \/ ResolveDone \/ PlanStays \/ PlanDone
  BY <1>5, <1>7 DEF ResolveAbortedEntry, ResolveDone, PlanStays, PlanDone
<1>8. ASSUME NEW i \in Ids, ResolvePrepared(i) PROVE SightInv'
  <2>1. Resolved(i) \/ (pc' = "abortRow" /\ op'.h = "none")
    BY <1>1, <1>8 DEF ResolvePrepared, Op, NoOp
  <2> QED
    BY <1>5, <2>1, OtherSight DEF PostSteps
<1>9. ASSUME NEW i \in Ids, ResolveChild(i) \/ ResolveFound(i) \/ PlanResumes(i) PROVE SightInv'
  <2>1. pc' \in {"mark", "bind", "free"} /\ op'.h \in {"child", "found", "plan"}
    BY <1>1, <1>9 DEF ResolveChild, ResolveFound, PlanResumes, Op
  <2> QED
    BY <2>1, OtherSight
<1>10. CASE ResolveEnds
  BY <1>10, ReturnSight DEF ResolveEnds, IInv, ControlInv, TodoInv
<1>11. CASE Refresh \/ RecoverExits
  <2>1. pc' \in {"exits", "recStale"} /\ op' = op /\ pc \in {"refresh", "exits"}
    BY <1>11 DEF Refresh, RecoverExits
  <2> QED
    BY <1>1, <2>1, HandParts, ReturnSight
<1>12. CASE ReconcileRecovers
  BY <1>12, StaleBegins, PartialBegins, ReturnSight DEF ReconcileRecovers, KeepRows
<1> QED
  BY <1>2, <1>3, <1>4, <1>6, <1>7, <1>8, <1>9, <1>10, <1>11, <1>12 DEF Reconcile

LEMMA SightStep ==
  ASSUME IInv, RInv, Core, HoldInv, KnowInv, ArmInv, Next, TypeOK' PROVE SightInv'
<1>1. CASE Crash
  BY <1>1, ReturnSight DEF Crash
<1>2. CASE Exchange \/ Stream \/ Owner
  BY <1>2, EnvSight DEF Env
<1> QED
  BY <1>1, <1>2, EntrySight, PostSight, CancelProcedureSight, ConvertSight, EmergencySight, TickSight, ReconcileSight DEF Next

-----------------------------------------------------------------------------
(***************************************************************************)
(* TurnInv, step by step.                                                   *)
(***************************************************************************)
OwnSteps == {"down", "idle", "arming", "tick", "submit", "prepare"}
OwnHandlers == {"entry", "manual", "convert", "auto", "emergency"}

LEMMA TurnParts ==
  TurnInv <=> /\ pc \in OwnSteps \/ op.h \in OwnHandlers => rec.ret = "none"
              /\ pc \in SubmitSteps => op.h # "none"
BY DEF TurnInv, InReconcile, OwnSteps, OwnHandlers

LEMMA TurnNext ==
  ASSUME \/ rec'.ret = "none"
         \/ pc' \notin OwnSteps /\ op'.h \notin OwnHandlers,
         pc' \in SubmitSteps => op'.h # "none"
  PROVE  TurnInv'
BY DEF TurnInv, InReconcile, OwnSteps, OwnHandlers

LEMMA TurnSame ==
  ASSUME TurnInv, UNCHANGED rec, op'.h = op.h, pc' \notin OwnSteps,
         pc' \in SubmitSteps => pc \in SubmitSteps
  PROVE  TurnInv'
<1>1. pc' \in SubmitSteps => op.h # "none"
  BY TurnParts
<1>2. op.h \in OwnHandlers => rec.ret = "none"
  BY TurnParts
<1> QED
  BY <1>1, <1>2, TurnNext

LEMMA NoOpFields ==
  /\ NoOp.h = "none" /\ NoOp.t = 0 /\ NoOp.i = 0 /\ NoOp.x = 0 /\ NoRec.ret = "none"
  /\ "none" \notin OwnHandlers /\ OwnSteps \cap SubmitSteps = {}
BY DEF NoOp, NoRec, OwnHandlers, OwnSteps, SubmitSteps

LEMMA EnvTurn == ASSUME TurnInv, Env PROVE TurnInv'
BY EnvKeeps DEF TurnInv, InReconcile, SubmitSteps

LEMMA PostTurn == ASSUME IInv, TurnInv, PostProcedure PROVE TurnInv'
<1>1. rec' = rec /\ pc \in SubmitSteps /\ pc' \notin OwnSteps
  BY DEF PostProcedure, MarkSubmitting, PostAccepted, PostRejected, PostUnanswered, LookupFound, LookupMissing,
     ConfirmIntent, BindIntent, PostUnchanged, SubmitSteps, OwnSteps, Goto
<1>2. op' = op \/ op' = [op EXCEPT !.got = TRUE]
  BY DEF PostProcedure, MarkSubmitting, PostAccepted, PostRejected, PostUnanswered, LookupFound, LookupMissing,
     ConfirmIntent, BindIntent, PostUnchanged
<1>3. op'.h = op.h
  BY <1>2 DEF IInv, TypeOK, Op
<1> QED
  BY <1>1, <1>3, TurnSame

LEMMA CancelProcedureTurn == ASSUME IInv, TurnInv, CancelProcedure PROVE TurnInv'
<1>1. rec' = rec /\ pc' \notin OwnSteps \cup SubmitSteps
  BY DEF CancelProcedure, CancelWithoutTarget, CancelAlreadyPrepared, CancelOutOfRoom, CancelPrepare, CancelMark,
     DeleteAccepted, DeleteFails, CancelConfirm, CancelUnchanged, SubmitSteps, OwnSteps, Goto
<1>2. op' = op \/ \E i \in Ids : op' = [op EXCEPT !.i = i]
  BY DEF CancelProcedure, CancelWithoutTarget, CancelAlreadyPrepared, CancelOutOfRoom, CancelPrepare, CancelMark,
     DeleteAccepted, DeleteFails, CancelConfirm
<1>3. op'.h = op.h
  BY <1>2 DEF IInv, TypeOK, Op
<1> QED
  BY <1>1, <1>3, TurnSame

LEMMA EntryTurn == ASSUME IInv, RInv, TurnInv, Entry PROVE TurnInv'
<1>1. rec' = rec
  BY DEF Entry, ProcessSignal, ManualEntry, SubmitRefused, SubmitRaises, SubmitPersist, PrepareEntry, EntryDone
<1>2. pc \in {"idle", "submit", "prepare"} \/ op.h \in {"entry", "manual"}
  BY DEF Entry, ProcessSignal, ManualEntry, SubmitRefused, SubmitRaises, SubmitPersist, PrepareEntry, EntryDone
<1>3. rec.ret = "none"
  BY <1>2, TurnParts DEF OwnSteps, OwnHandlers
<1>4. pc' \in SubmitSteps => \E i \in Ids : PrepareEntry(i)
  BY DEF Entry, ProcessSignal, ManualEntry, SubmitRefused, SubmitRaises, SubmitPersist, PrepareEntry, EntryDone,
     SubmitSteps, Goto, Finish
<1>5. ASSUME NEW i \in Ids, PrepareEntry(i) PROVE op'.h # "none"
  <2>1. op' = [op EXCEPT !.i = i] /\ op.h \in {"entry", "manual"}
    BY <1>5 DEF PrepareEntry, RInv, SubmitInv
  <2> QED
    BY <2>1 DEF IInv, TypeOK, Op
<1> QED
  BY <1>1, <1>3, <1>4, <1>5, TurnNext

LEMMA ConvertTurn == ASSUME IInv, TurnInv, Convert PROVE TurnInv'
<1> USE DEF Goto
<1>1. ASSUME NEW h \in {"convert", "auto"}, NEW t \in Trades, NEW i \in Ids, NEW ep \in Endpoints,
             ConvertBegin(h, t, i, ep)
      PROVE  TurnInv'
  <2>1. rec'.ret = "none" /\ pc' \notin SubmitSteps
    BY <1>1 DEF ConvertBegin, NoRec, SubmitSteps
  <2> QED
    BY <2>1, TurnNext
<1>2. ASSUME NEW i \in Ids, PrepareReplacement(i) PROVE TurnInv'
  <2>1. rec' = rec /\ op' = [op EXCEPT !.i = i] /\ pc = "free" /\ pc' = "mark"
    BY <1>2 DEF PrepareReplacement
  <2>2. op'.h = op.h
    BY <2>1 DEF IInv, TypeOK, Op
  <2>3. op.h \in {"convert", "auto", "plan"}
    BY <2>1 DEF IInv, ControlInv, PlanInv
  <2>4. op.h \in OwnHandlers => rec.ret = "none"
    BY TurnParts
  <2>5. "mark" \notin OwnSteps
    BY DEF OwnSteps
  <2> QED
    BY <2>1, <2>2, <2>3, <2>4, <2>5, TurnNext
<1>3. CASE ConvertCanceled \/ ReplaceFoundFlat
  <2>1. rec' = rec /\ op' = op /\ pc' \notin SubmitSteps \cup OwnSteps
    BY <1>3 DEF ConvertCanceled, ReplaceFoundFlat, SubmitSteps, OwnSteps
  <2> QED
    BY <2>1, TurnSame
<1>4. CASE ConvertStops \/ ConvertExited \/ ConvertDone
  <2>1. op' = NoOp /\ ((rec' = NoRec /\ pc' = "idle") \/ pc' = "resolve")
    BY <1>4 DEF ConvertStops, ConvertExited, ConvertDone, ConvertReturns, Finish, BeginReconcile
  <2>2. pc' \notin SubmitSteps /\ (pc' = "resolve" => pc' \notin OwnSteps)
    BY <2>1 DEF SubmitSteps, OwnSteps
  <2> QED
    BY <2>1, <2>2, NoOpFields, TurnNext
<1> QED
  BY <1>1, <1>2, <1>3, <1>4 DEF Convert

LEMMA EmergencyTurn == ASSUME IInv, TurnInv, Emergency PROVE TurnInv'
<1>1. rec' = rec /\ (pc = "idle" \/ op.h = "emergency")
  BY DEF Emergency, EmergencyBegin, EmergencyStops, EmergencyVerify, EmergencySell, EmergencyUnchanged
<1>2. rec.ret = "none"
  BY <1>1, TurnParts DEF OwnSteps, OwnHandlers
<1>3. pc' \in SubmitSteps => \E i \in Ids : EmergencySell(i)
  BY DEF Emergency, EmergencyBegin, EmergencyStops, EmergencyVerify, EmergencySell, SubmitSteps, Goto, Finish
<1>4. ASSUME NEW i \in Ids, EmergencySell(i) PROVE op'.h # "none"
  <2>1. op' = [op EXCEPT !.i = i, !.free = btc.free] /\ op.h = "emergency"
    BY <1>4 DEF EmergencySell
  <2> QED
    BY <2>1 DEF IInv, TypeOK, Op
<1> QED
  BY <1>1, <1>2, <1>3, <1>4, TurnNext

\* A routine returns to the caller that started it.
LEMMA ReturnTurn ==
  ASSUME NEW ok, StaleReturns(ok) \/ PartialReturns(ok) PROVE TurnInv'
<1>1. op' = NoOp
  BY ReturnPicks
<1>2. \/ rec' = rec /\ rec.ret = "none" /\ pc' \in {"tick", "idle"}
      \/ pc' \in {"recPartial", "verdict"}
  BY DEF StaleReturns, PartialReturns, InReconcile, Goto
<1>3. pc' \notin SubmitSteps /\ (pc' \in {"recPartial", "verdict"} => pc' \notin OwnSteps)
  BY <1>2 DEF SubmitSteps, OwnSteps
<1> QED
  BY <1>1, <1>2, <1>3, NoOpFields, TurnNext

LEMMA TickTurn == ASSUME IInv, RInv, TurnInv, Tick PROVE TurnInv'
<1> USE DEF Goto
<1>1. CASE \E t \in Trades : EntryWindowExpires(t)
  BY <1>1, EnvTurn DEF Env
<1>2. CASE TickBegin \/ TickPartial
  <2>1. rec' = rec /\ pc \in OwnSteps /\ pc' \notin SubmitSteps
    BY <1>2 DEF TickBegin, TickPartial, SubmitSteps, OwnSteps, Finish
  <2> QED
    BY <2>1, TurnParts, TurnNext
<1>3. ASSUME NEW t \in Trades, PartialCancels(t) \/ PartialProceeds(t) PROVE TurnInv'
  <2>1. rec' = rec /\ pc' \notin SubmitSteps \cup OwnSteps
    BY <1>3 DEF PartialCancels, PartialProceeds, SubmitSteps, OwnSteps
  <2>2. op'.h = op.h
    BY <1>3 DEF PartialCancels, PartialProceeds, IInv, TypeOK, Op
  <2> QED
    BY <2>1, <2>2, TurnSame
<1>4. CASE StaleCancels
  <2>1. rec' = rec /\ pc' \notin SubmitSteps \cup OwnSteps
    BY <1>4 DEF StaleCancels, SubmitSteps, OwnSteps
  <2>2. op'.h = op.h
    BY <1>4 DEF StaleCancels, IInv, TypeOK, Op
  <2> QED
    BY <2>1, <2>2, TurnSame
<1>5. CASE StaleCanceled \/ PartialCanceled
  <2>1. rec' = rec /\ op' = op /\ pc' \notin SubmitSteps \cup OwnSteps
    BY <1>5 DEF StaleCanceled, PartialCanceled, SubmitSteps, OwnSteps
  <2> QED
    BY <2>1, TurnSame
<1>6. CASE StaleTerminal
  <2>1. StaleReturns(TRUE) \/ (rec' = rec /\ op' = op /\ pc' = "partial")
    BY <1>6 DEF StaleTerminal
  <2>2. "partial" \notin SubmitSteps \cup OwnSteps
    BY DEF SubmitSteps, OwnSteps
  <2> QED
    BY <2>1, <2>2, TurnSame, ReturnTurn
<1>7. CASE PartialTerminal
  <2>1. PartialReturns(FALSE) \/ (rec' = rec /\ op' = op /\ pc' = "partialPlace")
    BY <1>7 DEF PartialTerminal, PartialReturn
  <2>2. "partialPlace" \notin SubmitSteps \cup OwnSteps
    BY DEF SubmitSteps, OwnSteps
  <2> QED
    BY <2>1, <2>2, TurnSame, ReturnTurn
<1>8. CASE StaleFails \/ PartialFails \/ PartialDone \/ \E t \in Trades : PartialCompletes(t) \/ PartialRefuses(t)
  <2>1. \E ok \in BOOLEAN : StaleReturns(ok) \/ PartialReturns(ok)
    BY <1>8 DEF StaleFails, PartialFails, PartialDone, PartialCompletes, PartialRefuses, PartialReturn
  <2> QED
    BY <2>1, ReturnTurn
<1>9. ASSUME NEW i \in Ids, NEW ep \in Endpoints, PartialPlace(i, ep) PROVE TurnInv'
  <2>1. rec' = rec /\ op' = [op EXCEPT !.i = i] /\ pc = "partialPlace" /\ pc' = "mark"
    BY <1>9 DEF PartialPlace
  <2>2. op'.h = op.h
    BY <2>1 DEF IInv, TypeOK, Op
  <2>3. op.h \in {"partial", "stale"}
    BY <2>1 DEF RInv, TargetInv
  <2>4. "mark" \notin OwnSteps /\ op.h \notin OwnHandlers
    BY <2>3 DEF OwnSteps, OwnHandlers
  <2> QED
    BY <2>1, <2>2, <2>3, <2>4, TurnNext
<1> QED
  BY <1>1, <1>2, <1>3, <1>4, <1>5, <1>6, <1>7, <1>8, <1>9 DEF Tick

LEMMA ReconcileTurn == ASSUME IInv, HandInv, TurnInv, Reconcile PROVE TurnInv'
<1> USE DEF Goto
<1>1. CASE ArmFinish \/ Verdict
  <2>1. rec'.ret = "none"
    <3>1. pc = "arming" => rec.ret = "none"
      BY TurnParts DEF OwnSteps
    <3>2. ArmFinish => pc = "arming" /\ rec' = rec
      BY DEF ArmFinish
    <3>3. Verdict => rec' = NoRec
      BY DEF Verdict
    <3> QED
      BY <1>1, <3>1, <3>2, <3>3, NoOpFields
  <2>2. pc' \notin SubmitSteps
    BY <1>1 DEF ArmFinish, Verdict, Finish, SubmitSteps
  <2> QED
    BY <2>1, <2>2, TurnNext
<1>2. ASSUME NEW i \in Ids, ResolveChild(i) \/ ResolveFound(i) \/ PlanResumes(i) PROVE TurnInv'
  <2>1. op'.h \in {"child", "found", "plan"} /\ pc' \notin OwnSteps
    BY <1>2 DEF ResolveChild, ResolveFound, PlanResumes, NoOp, OwnSteps
  <2>2. op'.h \notin OwnHandlers /\ op'.h # "none"
    BY <2>1 DEF OwnHandlers
  <2> QED
    BY <2>1, <2>2, TurnNext
<1>3. CASE \/ ReconcileCommand \/ ArmCommand \/ Start
           \/ \E i \in Ids : ResolveSkips(i) \/ ResolveCancel(i) \/ PlanWithoutCancel(i) \/ ResolvePrepared(i)
           \/ ResolveAbortedEntry \/ ResolveDone \/ PlanStays \/ PlanDone \/ PlansEnd
  <2>1. pc' \in {"resolve", "plans", "refresh", "abortRow"}
    BY <1>3 DEF ReconcileCommand, ArmCommand, Start, ResolveSkips, ResolveCancel, PlanWithoutCancel, ResolvePrepared,
       ResolveAbortedEntry, ResolveDone, PlanStays, PlanDone, PlansEnd, BeginReconcile, Resolved, PlanLeaves
  <2>2. op' = NoOp \/ \E i \in Ids : op' = [NoOp EXCEPT !.i = i, !.t = intents[i].trade]
    BY <1>3 DEF ReconcileCommand, ArmCommand, Start, ResolveSkips, ResolveCancel, PlanWithoutCancel, ResolvePrepared,
       ResolveAbortedEntry, ResolveDone, PlanStays, PlanDone, PlansEnd, BeginReconcile, Resolved, PlanLeaves
  <2>3. op'.h = "none"
    <3>1. ASSUME NEW i \in Ids, op' = [NoOp EXCEPT !.i = i, !.t = intents[i].trade] PROVE op'.h = NoOp.h
      BY <3>1, NoOpType DEF Op
    <3> QED
      BY <2>2, <3>1, NoOpFields
  <2>4. pc' \notin OwnSteps \cup SubmitSteps
    BY <2>1 DEF OwnSteps, SubmitSteps
  <2> QED
    BY <2>3, <2>4, NoOpFields, TurnNext
<1>4. CASE ResolveEnds \/ Refresh \/ RecoverExits
  <2>1. pc \in {"resolve", "refresh", "exits"} /\ op' = op /\ pc' \in {"plans", "exits", "recStale"}
    BY <1>4 DEF ResolveEnds, Refresh, RecoverExits
  <2>2. op = NoOp
    BY <2>1 DEF IInv, ControlInv, TodoInv, HandInv
  <2>3. pc' \notin OwnSteps \cup SubmitSteps
    BY <2>1 DEF OwnSteps, SubmitSteps
  <2> QED
    BY <2>1, <2>2, <2>3, NoOpFields, TurnNext
<1>5. CASE ReconcileRecovers
  <2>1. pc' \in {"stale", "partial", "recPartial", "verdict"}
    BY <1>5 DEF ReconcileRecovers
  <2>2. op'.h \in {"stale", "partial", "none"}
    <3>1. \/ op' = NoOp \/ op' = [NoOp EXCEPT !.h = "partial"]
          \/ \E t \in StaleRows : op' = [NoOp EXCEPT !.h = "stale", !.t = t]
      BY <1>5 DEF ReconcileRecovers
    <3>2. ASSUME NEW t, op' = [NoOp EXCEPT !.h = "stale", !.t = t] PROVE op'.h = "stale"
      BY <3>2, NoOpType DEF Op
    <3>3. op' = [NoOp EXCEPT !.h = "partial"] => op'.h = "partial"
      BY NoOpType DEF Op
    <3> QED
      BY <3>1, <3>2, <3>3, NoOpFields
  <2>3. pc' \notin OwnSteps \cup SubmitSteps /\ op'.h \notin OwnHandlers
    BY <2>1, <2>2 DEF OwnSteps, SubmitSteps, OwnHandlers
  <2> QED
    BY <2>3, TurnNext
<1> QED
  BY <1>1, <1>2, <1>3, <1>4, <1>5 DEF Reconcile

LEMMA TurnStep == ASSUME IInv, RInv, HandInv, TurnInv, Next PROVE TurnInv'
<1>1. CASE Crash
  <2>1. rec'.ret = "none" /\ pc' \notin SubmitSteps
    BY <1>1, NoOpFields DEF Crash, SubmitSteps
  <2> QED
    BY <2>1, TurnNext
<1> QED
  BY <1>1, EnvTurn, PostTurn, CancelProcedureTurn, EntryTurn, ConvertTurn, EmergencyTurn, TickTurn, ReconcileTurn
  DEF Next, Env

-----------------------------------------------------------------------------
(***************************************************************************)
(* ArmInv: what a step may do to the rows, beside binding an order.         *)
(***************************************************************************)
Reopens == \/ pc = "submit"
           \/ pc = "ambiguous" /\ op.h \in {"entry", "manual"}
           \/ op.h \in {"convert", "auto", "child", "plan"}

MildRow(u) == /\ SameNames(u)
              /\ IsOpen(rows'[u]) => IsOpen(rows[u]) \/ rows[u].lc = "NONE" \/ (u = op.t /\ Reopens)

Mild == \A u \in Trades : MildRow(u)

LEMMA KeepMild == ASSUME UNCHANGED rows PROVE Mild
BY DEF Mild, MildRow, SameNames

LEMMA SetRowMild ==
  ASSUME TypeOK, NEW t \in Trades, NEW s, SetRow(t, s), s.ent = rows[t].ent, s.obj = rows[t].obj,
         IsOpen(s) => IsOpen(rows[t]) \/ rows[t].lc = "NONE" \/ (t = op.t /\ Reopens)
  PROVE  Mild
<1>1. rows'[t] = s /\ \A u \in Trades \ {t} : rows'[u] = rows[u]
  BY DEF SetRow, TypeOK
<1> QED
  BY <1>1 DEF Mild, MildRow, SameNames

LEMMA LifecycleMild ==
  ASSUME TypeOK, NEW t \in Trades, NEW lc, SetLifecycle(t, lc),
         \/ lc \in Terminal \/ IsOpen(rows[t]) \/ rows[t].lc = "NONE" \/ (t = op.t /\ Reopens)
  PROVE  Mild
<1>1. rows[t] \in Row
  BY DEF TypeOK
<1>2. /\ [rows[t] EXCEPT !.lc = lc].ent = rows[t].ent /\ [rows[t] EXCEPT !.lc = lc].obj = rows[t].obj
      /\ [rows[t] EXCEPT !.lc = lc].lc = lc
  BY <1>1 DEF Row
<1>3. IsOpen([rows[t] EXCEPT !.lc = lc]) => lc \notin Terminal
  BY <1>2 DEF IsOpen
<1> QED
  BY <1>2, <1>3, SetRowMild DEF SetLifecycle

LEMMA ReportMild ==
  ASSUME IInv, RInv, Core, HoldInv, NEW t \in Trades,
         NEW s \in {rows[t], ApplyBuy(rows[t]), ApplySell(rows[t]), ApplyAll(rows[t])}
  PROVE  /\ s.ent = rows[t].ent /\ s.obj = rows[t].obj
         /\ IsOpen(s) => IsOpen(rows[t]) \/ rows[t].lc = "NONE"
<1>1. s.ent = rows[t].ent /\ s.obj = rows[t].obj
  BY ReportMoves DEF Moves
<1>2. rows[t] \in Row /\ Sound(t, rows[t])
  BY RowHolds DEF IInv, TypeOK
<1>3. rows[t].lc # "NONE" => Follows(t, rows[t], s)
  BY <1>2, ReportsFollow
<1> QED
  BY <1>1, <1>3 DEF Follows

LEMMA SetReportMild ==
  ASSUME IInv, RInv, Core, HoldInv, NEW t \in Trades,
         NEW s \in {rows[t], ApplyBuy(rows[t]), ApplySell(rows[t]), ApplyAll(rows[t])}, SetRow(t, s)
  PROVE  Mild
BY ReportMild, SetRowMild DEF IInv

LEMMA EntryMild == ASSUME IInv, RInv, Entry PROVE Mild
<1>1. TypeOK /\ (pc \in TradeSteps => op.t \in Trades)
  BY DEF IInv, ControlInv, StepInv
<1>2. ASSUME NEW t \in Trades, ProcessSignal(t) PROVE Mild
  BY <1>1, <1>2, LifecycleMild DEF ProcessSignal, NewTrade
<1>3. CASE SubmitRefused
  BY <1>1, <1>3, LifecycleMild, KeepMild DEF SubmitRefused, TradeSteps, KeepRows, Terminal
<1>4. CASE SubmitPersist
  <2>1. op.t \in Trades /\ rows[op.t].obj = 0 /\ Reopens
    BY <1>1, <1>4 DEF SubmitPersist, TradeSteps, RInv, SubmitInv, Reopens
  <2>2. rows[op.t].ent = 0
    BY <2>1, RowFacts DEF RInv
  <2>3. /\ [NoRow EXCEPT !.lc = "ENTRY_SUBMITTED"].ent = 0
        /\ [NoRow EXCEPT !.lc = "ENTRY_SUBMITTED"].obj = 0
    BY DEF NoRow
  <2> QED
    BY <1>1, <1>4, <2>1, <2>2, <2>3, SetRowMild DEF SubmitPersist
<1>5. CASE EntryDone
  <2>1. op.t \in Trades
    BY <1>1, <1>5 DEF EntryDone, TradeSteps
  <2> QED
    BY <1>1, <1>5, <2>1, LifecycleMild, KeepMild DEF EntryDone, KeepRows, Reopens, Terminal
<1>6. CASE (\E t \in Trades : ManualEntry(t)) \/ SubmitRaises \/ \E i \in Ids : PrepareEntry(i)
  BY <1>6, KeepMild DEF ManualEntry, SubmitRaises, PrepareEntry, KeepRows
<1> QED
  BY <1>2, <1>3, <1>4, <1>5, <1>6 DEF Entry

LEMMA HandlerMild == ASSUME IInv, Convert \/ Emergency PROVE Mild
<1>1. TypeOK /\ (pc \in TradeSteps => op.t \in Trades)
  BY DEF IInv, ControlInv, StepInv
<1>2. CASE ConvertExited
  BY <1>1, <1>2, LifecycleMild DEF ConvertExited, TradeSteps, Terminal
<1>3. CASE ConvertDone
  <2>1. op.t \in Trades /\ Reopens
    BY <1>1, <1>3 DEF ConvertDone, TradeSteps, Reopens
  <2> QED
    BY <1>1, <1>3, <2>1, LifecycleMild DEF ConvertDone
<1>4. CASE EmergencyVerify
  BY <1>1, <1>4, LifecycleMild, KeepMild DEF EmergencyVerify, TradeSteps, Terminal, KeepRows
<1>5. CASE (Convert \/ Emergency) /\ UNCHANGED rows
  BY <1>5, KeepMild
<1>6. ASSUME NEW h \in {"convert", "auto"}, NEW t \in Trades, NEW i \in Ids, NEW ep \in Endpoints,
             ConvertBegin(h, t, i, ep)
      PROVE  UNCHANGED rows
  BY <1>6 DEF ConvertBegin, KeepRows
<1>7. CASE Convert /\ ~ConvertExited /\ ~ConvertDone
  BY <1>5, <1>6, <1>7 DEF Convert, ConvertStops, ConvertCanceled, ReplaceFoundFlat, PrepareReplacement, KeepRows
<1>8. CASE Emergency /\ ~EmergencyVerify
  BY <1>5, <1>8 DEF Emergency, EmergencyBegin, EmergencyStops, EmergencySell, KeepRows
<1> QED
  BY <1>2, <1>3, <1>4, <1>7, <1>8

LEMMA TickMild == ASSUME IInv, RInv, Core, HoldInv, Tick PROVE Mild
<1>1. TypeOK /\ (pc \in TradeSteps => op.t \in Trades)
  BY DEF IInv, ControlInv, StepInv
<1>2. ASSUME NEW t \in Trades, EntryWindowExpires(t) PROVE Mild
  <2>1. rows[t] \in Row /\ rows' = [rows EXCEPT ![t] = [rows[t] EXCEPT !.stale = TRUE]]
    BY <1>1, <1>2 DEF EntryWindowExpires, TypeOK
  <2>2. \A u \in Trades : rows'[u].lc = rows[u].lc /\ rows'[u].ent = rows[u].ent /\ rows'[u].obj = rows[u].obj
    BY <1>1, <2>1 DEF TypeOK, Row
  <2> QED
    BY <2>2 DEF Mild, MildRow, SameNames, IsOpen
<1>3. CASE StaleCancels
  BY <1>1, <1>3, SetReportMild DEF StaleCancels, TradeSteps
<1>4. ASSUME NEW t \in Trades, PartialRefuses(t) \/ PartialCancels(t) \/ PartialProceeds(t) PROVE Mild
  BY <1>4, SetReportMild DEF PartialRefuses, PartialCancels, PartialProceeds
<1>5. ASSUME NEW t \in Trades, NEW lc \in Lifecycles, SetRow(t, [ApplyBuy(rows[t]) EXCEPT !.lc = lc]),
             lc \in Terminal \/ IsOpen(rows[t])
      PROVE  Mild
  <2>1. ApplyBuy(rows[t]).ent = rows[t].ent /\ ApplyBuy(rows[t]).obj = rows[t].obj
    BY ReportMild
  <2>2. ApplyBuy(rows[t]) \in Row
    BY <1>1, ApplyBuyType DEF TypeOK
  <2>3. /\ [ApplyBuy(rows[t]) EXCEPT !.lc = lc].ent = rows[t].ent
        /\ [ApplyBuy(rows[t]) EXCEPT !.lc = lc].obj = rows[t].obj
        /\ [ApplyBuy(rows[t]) EXCEPT !.lc = lc].lc = lc
    BY <2>1, <2>2 DEF Row
  <2>4. IsOpen([ApplyBuy(rows[t]) EXCEPT !.lc = lc]) => lc \notin Terminal
    BY <2>3 DEF IsOpen
  <2> QED
    BY <1>1, <1>5, <2>3, <2>4, SetRowMild
<1>6. CASE StaleTerminal
  <2>1. op.t \in Trades /\ "ENTRY_REJECTED" \in Lifecycles /\ "ENTRY_REJECTED" \in Terminal
    BY <1>1, <1>6 DEF StaleTerminal, TradeSteps, Lifecycles, Terminal
  <2> QED
    BY <1>5, <1>6, <2>1, SetReportMild DEF StaleTerminal
<1>7. ASSUME NEW t \in Trades, PartialCompletes(t) PROVE Mild
  <2>1. IsOpen(rows[t]) /\ "PROTECTION_ACTIVE" \in Lifecycles
    BY <1>7 DEF PartialCompletes, PartialLookup, ActiveTrade, ActiveRows, IsOpen, Lifecycles
  <2> QED
    BY <1>5, <1>7, <2>1 DEF PartialCompletes
<1>8. CASE PartialTerminal
  BY <1>1, <1>8, SetReportMild, KeepMild DEF PartialTerminal, TradeSteps, KeepRows
<1>9. CASE \/ TickBegin \/ TickPartial \/ StaleFails \/ StaleCanceled \/ PartialFails \/ PartialCanceled
           \/ PartialDone \/ \E i \in Ids, ep \in Endpoints : PartialPlace(i, ep)
  BY <1>9, KeepMild DEF TickBegin, TickPartial, StaleFails, StaleCanceled, PartialFails, PartialCanceled,
     PartialDone, PartialPlace, KeepRows
<1> QED
  BY <1>2, <1>3, <1>4, <1>6, <1>7, <1>8, <1>9 DEF Tick

LEMMA ReconcileMild == ASSUME IInv, RInv, Core, HoldInv, Reconcile PROVE Mild
<1>1. TypeOK /\ (pc \in TradeSteps => op.t \in Trades)
  BY DEF IInv, ControlInv, StepInv
<1>2. CASE ResolveAbortedEntry
  BY <1>1, <1>2, LifecycleMild DEF ResolveAbortedEntry, TradeSteps, Terminal
<1>3. CASE ResolveDone \/ PlanDone
  <2>1. op.t \in Trades
    BY <1>1, <1>3 DEF ResolveDone, PlanDone, TradeSteps
  <2> QED
    BY <1>1, <1>3, <2>1, LifecycleMild, KeepMild DEF ResolveDone, PlanDone, KeepRows, Reopens
<1>4. CASE Refresh
  <2>1. \A u \in Trades : rows'[u] \in {rows[u], ApplyAll(rows[u])}
    BY <1>1, <1>4 DEF Refresh, KeepRows, TypeOK
  <2> QED
    BY <2>1, ReportMild DEF Mild, MildRow, SameNames
<1>5. CASE RecoverExits
  <2>1. ASSUME NEW u \in Trades PROVE rows'[u] = rows[u] \/ rows'[u] = [rows[u] EXCEPT !.lc = "EXIT_FILLED"]
    BY <1>5 DEF RecoverExits, KeepRows
  <2>2. ASSUME NEW u \in Trades PROVE /\ [rows[u] EXCEPT !.lc = "EXIT_FILLED"].ent = rows[u].ent
                                      /\ [rows[u] EXCEPT !.lc = "EXIT_FILLED"].obj = rows[u].obj
                                      /\ ~IsOpen([rows[u] EXCEPT !.lc = "EXIT_FILLED"])
    BY <1>1 DEF TypeOK, Row, IsOpen, Terminal
  <2> QED
    BY <2>1, <2>2 DEF Mild, MildRow, SameNames
<1>6. CASE UNCHANGED rows
  BY <1>6, KeepMild
<1> QED
  BY <1>2, <1>3, <1>4, <1>5, <1>6 DEF Reconcile, ReconcileCommand, ArmCommand, ArmFinish, Start, ResolveSkips,
     ResolveChild, ResolvePrepared, ResolveCancel, ResolveFound, PlanWithoutCancel, PlanResumes, ResolveEnds,
     PlanStays, PlansEnd, ReconcileRecovers, Verdict, KeepRows

LEMMA MildStep ==
  ASSUME IInv, RInv, Core, HoldInv, Next, ~BindIntent PROVE Mild
<1>1. CASE Stream
  <2>1. ASSUME NEW t \in Trades, SetRow(t, ApplySell(rows[t])) \/ SetRow(t, ApplyBuy(rows[t])) PROVE Mild
    BY <2>1, SetReportMild
  <2> QED
    BY <1>1, <2>1, KeepMild DEF Stream, StreamUpdate, StreamPartialFill, StreamResync, KeepRows
<1>2. CASE Exchange \/ Owner \/ Crash \/ PostProcedure \/ CancelProcedure
  <2>1. UNCHANGED rows
    BY <1>2 DEF Exchange, durableVars, Owner, ClearRiskPause, OwnerPause, Crash, PostProcedure, MarkSubmitting,
       PostAccepted, PostRejected, PostUnanswered, LookupFound, LookupMissing, ConfirmIntent, PostUnchanged,
       CancelProcedure, CancelWithoutTarget, CancelAlreadyPrepared, CancelOutOfRoom, CancelPrepare, CancelMark,
       DeleteAccepted, DeleteFails, CancelConfirm, CancelUnchanged, KeepRows
  <2> QED
    BY <2>1, KeepMild
<1> QED
  BY <1>1, <1>2, EntryMild, HandlerMild, TickMild, ReconcileMild DEF Next

-----------------------------------------------------------------------------
(***************************************************************************)
(* ArmInv: what arms entries, and what entries are armed over.              *)
(***************************************************************************)
Ready == armed \/ pc = "arming"

ArmedOn == op.h \in {"none", "entry", "manual", "partial", "stale"} /\ pc # "ambiguous"

Settled == \A i \in Unresolved : IsCancel(i) \/ OwnWork(i)

HeldPart == (BtcTotal <= 0 /\ NoLive) \/ Covered

InHand(i) == i = op.i /\ pc \in {"lookup", "confirm", "bind"}

NamedPart == \A i \in Ids : Live(i) => BoundOpen(i) \/ InHand(i)

ExitsClosed ==
  \A j \in Ids : intents[j].opn = "EMERGENCY_EXIT" /\ intents[j].st = "CONFIRMED" =>
    intents[j].trade \notin ActiveRows

LEMMA ArmParts ==
  ArmInv <=> /\ armed => ArmedOn /\ Settled
             /\ pc = "arming" => Unresolved = {}
             /\ Ready => HeldPart /\ NamedPart
             /\ Ready \/ (PastExits /\ rec.ok) => ExitsClosed
BY DEF ArmInv, Ready, ArmedOn, Settled, HeldPart, InHand, NamedPart, ExitsClosed

LEMMA ArmPartsNext ==
  ASSUME armed' => ArmedOn' /\ Settled', pc' = "arming" => (Unresolved = {})',
         Ready' => HeldPart' /\ NamedPart', Ready' \/ (PastExits /\ rec.ok)' => ExitsClosed'
  PROVE  ArmInv'
BY DEF ArmInv, Ready, ArmedOn, Settled, HeldPart, InHand, NamedPart, ExitsClosed

\* Entries are armed by a reconciliation that found everything in order.
Proven == pc = "verdict" /\ rec.ok /\ Unresolved = {} /\ Owned

LEMMA VerdictProven == ASSUME Verdict, Ready' PROVE Proven
<1> DEFINE ok == rec.ok /\ Unresolved = {} /\ Owned
<1>1. PICK result \in BOOLEAN :
        /\ IF result = ok THEN NoFault ELSE ok /\ Fault
        /\ pc' = CASE rec.ret = "start" /\ ~result -> "down"
                   [] rec.ret = "arm" /\ result    -> "arming"
                   [] OTHER                        -> "idle"
        /\ armed' = (result /\ (armed \/ (rec.ret = "auto" /\ rec.was /\ ~paused)))
  BY DEF Verdict
<1>2. ok \in BOOLEAN
  OBVIOUS
<1> HIDE DEF ok
<1>3. result
  BY <1>1 DEF Ready
<1>4. ok
  BY <1>1, <1>2, <1>3
<1> QED
  BY <1>4 DEF ok, Proven, Verdict

LEMMA ArmingCauses ==
  ASSUME Next, pc' = "arming" PROVE Verdict \/ (pc = "arming" /\ Env)
<1> USE DEF Goto, Finish
<1>1. CASE Env
  BY <1>1, EnvKeeps
<1>2. ~Crash /\ ~Entry
  BY DEF Crash, Entry, ProcessSignal, ManualEntry, SubmitRefused, SubmitRaises, SubmitPersist, EntryDone, PrepareEntry
<1>3. ~PostProcedure
  BY DEF PostProcedure, MarkSubmitting, PostAccepted, PostRejected, PostUnanswered, LookupFound,
     LookupMissing, ConfirmIntent, BindIntent
<1>4. ~CancelProcedure
  BY DEF CancelProcedure, CancelWithoutTarget, CancelAlreadyPrepared, CancelOutOfRoom,
     CancelPrepare, CancelMark, DeleteAccepted, DeleteFails, CancelConfirm, CancelUnchanged
<1>5. ~Convert
  <2>1. ASSUME NEW h \in {"convert", "auto"}, NEW t \in Trades, NEW i \in Ids, NEW ep \in Endpoints,
               ConvertBegin(h, t, i, ep)
        PROVE  FALSE
    BY <2>1 DEF ConvertBegin
  <2> QED
    BY <2>1 DEF Convert, ConvertStops, ConvertCanceled, ReplaceFoundFlat, ConvertExited, ConvertDone, PrepareReplacement,
       ReplaceUnchanged, ConvertReturns, BeginReconcile
<1>6. ~Emergency
  BY DEF Emergency, EmergencyBegin, EmergencyStops, EmergencyVerify, EmergencySell, EmergencyUnchanged
<1>7. Tick => Env
  <2>1. ASSUME NEW ok, StaleReturns(ok) \/ PartialReturns(ok) PROVE FALSE
    BY <2>1 DEF StaleReturns, PartialReturns
  <2> QED
    BY <2>1 DEF Tick, Env, TickBegin, TickPartial, StaleFails, StaleCancels,
     StaleCanceled, StaleTerminal, PartialCompletes, PartialRefuses, PartialCancels,
     PartialProceeds, PartialFails, PartialCanceled, PartialTerminal, PartialDone, PartialPlace, PartialReturn
<1>8. Reconcile => Verdict
  BY DEF Reconcile, ReconcileCommand, ArmCommand, ArmFinish, Start, ResolveSkips, ResolvePrepared, ResolveCancel,
     ResolveFound, PlanWithoutCancel, ResolveChild, PlanResumes, ResolveAbortedEntry, ResolveDone, ResolveEnds,
     PlanStays, PlanDone, PlansEnd, Refresh, RecoverExits, ReconcileRecovers, ResolveUnchanged, BeginReconcile,
     Resolved, PlanLeaves
<1> QED
  BY <1>1, <1>2, <1>3, <1>4, <1>5, <1>6, <1>7, <1>8 DEF Next, Env

LEMMA ArmedCauses ==
  ASSUME Next, armed', ~Verdict, ~ArmFinish PROVE armed
<1> USE DEF KeepArming, Pause, Disarm
<1>1. CASE Exchange \/ Stream \/ Owner \/ Crash
  BY <1>1 DEF Exchange, durableVars, Stream, StreamUpdate, StreamPartialFill, StreamResync, Owner,
     ClearRiskPause, OwnerPause, Crash
<1>2. CASE Entry
  BY <1>2 DEF Entry, ProcessSignal, ManualEntry, SubmitRefused, SubmitRaises, SubmitPersist, EntryDone, PrepareEntry
<1>3. CASE PostProcedure
  BY <1>3 DEF PostProcedure, MarkSubmitting, PostAccepted, PostRejected, PostUnanswered, LookupFound,
     LookupMissing, ConfirmIntent, BindIntent
<1>4. CASE CancelProcedure
  BY <1>4 DEF CancelProcedure, CancelWithoutTarget, CancelAlreadyPrepared, CancelOutOfRoom,
     CancelPrepare, CancelMark, DeleteAccepted, DeleteFails, CancelConfirm, CancelUnchanged
<1>5. CASE Convert
  <2>1. ASSUME NEW h \in {"convert", "auto"}, NEW t \in Trades, NEW i \in Ids, NEW ep \in Endpoints,
               ConvertBegin(h, t, i, ep)
        PROVE  FALSE
    BY <2>1 DEF ConvertBegin
  <2> QED
    BY <1>5, <2>1 DEF Convert, ConvertStops, ConvertCanceled, ReplaceFoundFlat, ConvertExited, ConvertDone,
       PrepareReplacement, ReplaceUnchanged
<1>6. CASE Emergency
  BY <1>6 DEF Emergency, EmergencyBegin, EmergencyStops, EmergencyVerify, EmergencySell, EmergencyUnchanged
<1>7. CASE Tick
  BY <1>7 DEF Tick, EntryWindowExpires, TickBegin, TickPartial, StaleFails, StaleCancels,
     StaleCanceled, StaleTerminal, PartialCompletes, PartialRefuses, PartialCancels,
     PartialProceeds, PartialFails, PartialCanceled, PartialTerminal, PartialDone, PartialPlace,
     PartialReturn, ReturnArming
<1>8. CASE Reconcile
  BY <1>8 DEF Reconcile, ReconcileCommand, ArmCommand, Start, ResolveSkips, ResolvePrepared, ResolveCancel,
     ResolveFound, PlanWithoutCancel, ResolveChild, PlanResumes, ResolveAbortedEntry, ResolveDone, ResolveEnds,
     PlanStays, PlanDone, PlansEnd, Refresh, RecoverExits, ReconcileRecovers, ResolveUnchanged
<1> QED
  BY <1>1, <1>2, <1>3, <1>4, <1>5, <1>6, <1>7, <1>8 DEF Next

LEMMA ReadyCauses ==
  ASSUME Next, Ready' PROVE Verdict \/ ArmFinish \/ (Ready /\ ((armed /\ armed') \/ Env))
BY ArmedCauses, ArmingCauses DEF Ready

\* Between the steps of a POST nothing else runs.
LEMMA WorkSteps ==
  ASSUME IInv, Next, pc \in {"mark", "post", "lookup", "confirm", "bind"}
  PROVE  PostProcedure \/ Env \/ Crash
<1>1. ~Entry
  BY DEF Entry, ProcessSignal, ManualEntry, SubmitRefused, SubmitRaises, SubmitPersist, EntryDone, PrepareEntry
<1>2. ~CancelProcedure
  BY DEF CancelProcedure, CancelWithoutTarget, CancelAlreadyPrepared, CancelOutOfRoom,
     CancelPrepare, CancelMark, DeleteAccepted, DeleteFails, CancelConfirm
<1>3. ~Convert
  <2>1. ASSUME NEW h \in {"convert", "auto"}, NEW t \in Trades, NEW i \in Ids, NEW ep \in Endpoints,
               ConvertBegin(h, t, i, ep)
        PROVE  FALSE
    BY <2>1 DEF ConvertBegin
  <2> QED
    BY <2>1 DEF Convert, ConvertStops, ConvertCanceled, ReplaceFoundFlat, ConvertExited, ConvertDone, PrepareReplacement
<1>4. ~Emergency
  BY DEF Emergency, EmergencyBegin, EmergencyStops, EmergencyVerify, EmergencySell
<1>5. Tick => Env
  BY DEF Tick, Env, TickBegin, TickPartial, StaleFails, StaleCancels,
     StaleCanceled, StaleTerminal, PartialCompletes, PartialRefuses, PartialCancels, PartialLookup,
     PartialProceeds, PartialFails, PartialCanceled, PartialTerminal, PartialDone, PartialPlace
<1>6. ~Reconcile
  BY DEF Reconcile, ReconcileCommand, ArmCommand, ArmFinish, Start, ResolveSkips, ResolvePrepared, ResolveCancel,
     ResolveFound, PlanWithoutCancel, ResolveChild, PlanResumes, ResolveAbortedEntry, ResolveDone, ResolveEnds,
     PlanStays, PlanDone, PlansEnd, Refresh, RecoverExits, ReconcileRecovers, Verdict, Resolving, Resuming
<1> QED
  BY <1>1, <1>2, <1>3, <1>4, <1>5, <1>6 DEF Next, Env

\* Nor between the refresh and the emergency exits.
LEMMA ExitSteps ==
  ASSUME HandInv, Next, pc = "exits" PROVE RecoverExits \/ (Env /\ ~Stream) \/ Crash
<1>0. op.h = "none"
  BY NoOpFields DEF HandInv
<1>1. ~Entry
  BY <1>0 DEF Entry, ProcessSignal, ManualEntry, SubmitRefused, SubmitRaises, SubmitPersist, EntryDone, PrepareEntry
<1>2. ~CancelProcedure
  BY DEF CancelProcedure, CancelWithoutTarget, CancelAlreadyPrepared, CancelOutOfRoom,
     CancelPrepare, CancelMark, DeleteAccepted, DeleteFails, CancelConfirm
<1>3. ~Convert
  <2>1. ASSUME NEW h \in {"convert", "auto"}, NEW t \in Trades, NEW i \in Ids, NEW ep \in Endpoints,
               ConvertBegin(h, t, i, ep)
        PROVE  FALSE
    BY <2>1 DEF ConvertBegin
  <2> QED
    BY <1>0, <2>1 DEF Convert, ConvertStops, ConvertCanceled, ReplaceFoundFlat, ConvertExited, ConvertDone,
       PrepareReplacement
<1>4. ~Emergency
  BY <1>0 DEF Emergency, EmergencyBegin, EmergencyStops, EmergencyVerify, EmergencySell
<1>5. Tick => \E t \in Trades : EntryWindowExpires(t)
  BY <1>0 DEF Tick, TickBegin, TickPartial, StaleFails, StaleCancels,
     StaleCanceled, StaleTerminal, PartialCompletes, PartialRefuses, PartialCancels, PartialLookup,
     PartialProceeds, PartialFails, PartialCanceled, PartialTerminal, PartialDone, PartialPlace
<1>6. Reconcile => RecoverExits
  BY <1>0 DEF Reconcile, ReconcileCommand, ArmCommand, ArmFinish, Start, ResolveSkips, ResolvePrepared, ResolveCancel,
     ResolveFound, PlanWithoutCancel, ResolveChild, PlanResumes, ResolveAbortedEntry, ResolveDone, ResolveEnds,
     PlanStays, PlanDone, PlansEnd, Refresh, ReconcileRecovers, Verdict, Resolving, Resuming
<1>7. ~PostProcedure
  BY DEF PostProcedure, MarkSubmitting, PostAccepted, PostRejected, PostUnanswered, LookupFound,
     LookupMissing, ConfirmIntent, BindIntent
<1>8. ~Stream
  BY DEF Stream, StreamUpdate, StreamPartialFill, StreamResync, LockFree
<1> QED
  BY <1>1, <1>2, <1>3, <1>4, <1>5, <1>6, <1>7, <1>8 DEF Next, Env

\* What is unresolved after a step was so before, or is the intent that it prepared.
LEMMA UnresolvedCauses ==
  ASSUME IInv, RInv, Next
  PROVE  \/ \E i \in Ids : PreparedBy(i)
         \/ Unresolved' \subseteq Unresolved /\ \A i \in Ids : IsCancel(i)' <=> IsCancel(i)
<1>1. CASE UNCHANGED intents
  BY <1>1 DEF Unresolved, IsCancel
<1>2. CASE Settles
  <2>1. PICK i \in Ids, st \in {"SUBMITTING", "ABORTED", "AMBIGUOUS", "CONFIRMED", "DEFINITE_REJECT"} :
          SetState(i, st) /\ intents[i].st \in {"PREPARED", "SUBMITTING", "AMBIGUOUS"}
    BY <1>2, SettledFacts
  <2>2. \A j \in Ids : intents'[j].opn = intents[j].opn /\ intents'[j].st = IF j = i THEN st ELSE intents[j].st
    BY <2>1, SetStateFields DEF IInv
  <2> QED
    BY <2>1, <2>2 DEF Unresolved, IsCancel
<1> QED
  BY <1>1, <1>2, Causes

-----------------------------------------------------------------------------
(***************************************************************************)
(* ArmInv: armed entries and the handlers that run meanwhile.               *)
(***************************************************************************)
ArmedHandlers == {"none", "entry", "manual", "partial", "stale"}

\* No handler that an unresolved POST or an owner's command starts runs armed.
LEMMA ArmedIdle ==
  ASSUME IInv, HandInv, ArmInv, armed
  PROVE  /\ op.h \in ArmedHandlers /\ pc # "ambiguous"
         /\ \A i : ~ResolveChild(i) /\ ~ResolveFound(i) /\ ~PlanResumes(i)
<1>1. ArmedOn /\ Settled
  BY ArmParts
<1>2. ASSUME NEW i, i \in Unresolved, i \in Ids, op = NoOp, ~IsCancel(i) PROVE FALSE
  <2>1. i # op.i
    BY <1>2, NoOpFields, IdFacts
  <2> QED
    BY <1>1, <1>2, <2>1 DEF Settled, OwnWork
<1>3. ASSUME NEW i, ResolveChild(i) \/ ResolveFound(i) PROVE FALSE
  <2>1. Resolving(i) /\ ~IsCancel(i)
    BY <1>3 DEF ResolveChild, ResolveFound, IsChild, IsCancel, CancelOps
  <2> QED
    BY <1>2, <2>1, ResolvingFacts
<1>4. ASSUME NEW i, PlanResumes(i) PROVE FALSE
  <2>1. i \in Unresolved /\ i \in Ids /\ op = NoOp /\ intents[i].opn = "REPLACE_PROTECTION"
    BY <1>4, ResumingFacts DEF PlanResumes
  <2> QED
    BY <1>2, <2>1 DEF IsCancel, CancelOps
<1> QED
  BY <1>1, <1>3, <1>4 DEF ArmedOn, ArmedHandlers

LEMMA ArmedQuiet ==
  ASSUME IInv, HandInv, ArmInv, armed, armed' PROVE ~Convert /\ ~Emergency
<1>1. op.h \in ArmedHandlers
  BY ArmedIdle
<1>2. op.h \notin {"convert", "auto", "emergency", "plan"}
  BY <1>1 DEF ArmedHandlers
<1>3. pc # "free"
  BY <1>2 DEF IInv, ControlInv, PlanInv
<1>4. ASSUME NEW h \in {"convert", "auto"}, NEW t \in Trades, NEW i \in Ids, NEW ep \in Endpoints,
             ConvertBegin(h, t, i, ep)
      PROVE  FALSE
  BY <1>4 DEF ConvertBegin, Disarm
<1>5. ~Convert
  BY <1>2, <1>3, <1>4 DEF Convert, ConvertStops, ConvertCanceled, ReplaceFoundFlat, ConvertExited, ConvertDone,
     PrepareReplacement
<1>6. ~Emergency
  BY <1>2 DEF Emergency, EmergencyBegin, EmergencyStops, EmergencyVerify, EmergencySell, Pause
<1> QED
  BY <1>5, <1>6

LEMMA ArmedOnStep ==
  ASSUME IInv, HandInv, ArmInv, Next, armed, armed', ~Env PROVE op'.h \in ArmedHandlers /\ pc' # "ambiguous"
<1> USE DEF Goto, Finish
<1>0. op.h \in ArmedHandlers /\ op \in Op /\ NoOp.h \in ArmedHandlers
  BY ArmedIdle, NoOpFields DEF IInv, TypeOK, ArmedHandlers
<1>1. CASE Entry
  <2>1. pc' # "ambiguous"
    BY <1>1 DEF Entry, ProcessSignal, ManualEntry, SubmitRefused, SubmitRaises, SubmitPersist, EntryDone, PrepareEntry
  <2>2. \/ op' \in {op, NoOp} \/ \E i \in Ids : op' = [op EXCEPT !.i = i]
        \/ \E h \in {"entry", "manual"}, t \in Trades : op' = [NoOp EXCEPT !.h = h, !.t = t]
    BY <1>1 DEF Entry, ProcessSignal, ManualEntry, SubmitRefused, SubmitRaises, SubmitPersist, EntryDone, PrepareEntry
  <2>3. ASSUME NEW i \in Ids, op' = [op EXCEPT !.i = i] PROVE op'.h = op.h
    BY <1>0, <2>3 DEF Op
  <2>4. ASSUME NEW h \in {"entry", "manual"}, NEW t \in Trades, op' = [NoOp EXCEPT !.h = h, !.t = t]
        PROVE  op'.h = h
    BY <2>4, NoOpType DEF Op
  <2> QED
    BY <1>0, <2>1, <2>2, <2>3, <2>4 DEF ArmedHandlers
<1>2. CASE PostProcedure
  <2>1. op' = op \/ op' = [op EXCEPT !.got = TRUE]
    BY <1>2 DEF PostProcedure, MarkSubmitting, PostAccepted, PostRejected, PostUnanswered, LookupFound, LookupMissing,
       ConfirmIntent, BindIntent
  <2>2. op'.h = op.h
    BY <1>0, <2>1 DEF Op
  <2>3. op.h # "child"
    BY <1>0 DEF ArmedHandlers
  <2>4. pc' # "ambiguous"
    BY <1>2, <2>3 DEF PostProcedure, MarkSubmitting, PostAccepted, PostRejected, PostUnanswered, LookupFound,
       LookupMissing, ConfirmIntent, BindIntent, Pause
  <2> QED
    BY <1>0, <2>2, <2>4
<1>3. CASE CancelProcedure
  <2>1. pc' # "ambiguous"
    BY <1>3 DEF CancelProcedure, CancelWithoutTarget, CancelAlreadyPrepared, CancelOutOfRoom, CancelPrepare, CancelMark,
       DeleteAccepted, DeleteFails, CancelConfirm
  <2>2. op' = op \/ \E i \in Ids : op' = [op EXCEPT !.i = i]
    BY <1>3 DEF CancelProcedure, CancelWithoutTarget, CancelAlreadyPrepared, CancelOutOfRoom, CancelPrepare, CancelMark,
       DeleteAccepted, DeleteFails, CancelConfirm
  <2>3. op'.h = op.h
    BY <1>0, <2>2 DEF Op
  <2> QED
    BY <1>0, <2>1, <2>3
<1>4. ASSUME NEW ok, StaleReturns(ok) \/ PartialReturns(ok) PROVE op'.h \in ArmedHandlers /\ pc' # "ambiguous"
  <2>1. op' = NoOp
    BY <1>4, ReturnPicks
  <2> QED
    BY <1>0, <1>4, <2>1 DEF StaleReturns, PartialReturns
<1>5. CASE Tick
  <2>1. CASE \E ok \in BOOLEAN : StaleReturns(ok) \/ PartialReturns(ok)
    BY <1>4, <2>1
  <2>2. CASE ~\E ok \in BOOLEAN : StaleReturns(ok) \/ PartialReturns(ok)
    <3>1. pc' # "ambiguous"
      BY <1>5, <2>2 DEF Tick, Env, TickBegin, TickPartial, StaleFails, StaleCancels,
         StaleCanceled, StaleTerminal, PartialCompletes, PartialRefuses, PartialCancels,
         PartialProceeds, PartialFails, PartialCanceled, PartialTerminal, PartialDone, PartialPlace, PartialReturn
    <3>2. \/ op' \in {op, NoOp} \/ \E i \in Ids : op' = [op EXCEPT !.i = i]
          \/ op' = [NoOp EXCEPT !.h = "partial"]
          \/ \E t \in StaleRows : op' = [NoOp EXCEPT !.h = "stale", !.t = t]
          \/ op' = [op EXCEPT !.x = rows[op.t].obj, !.c = "CANCEL_STALE_ENTRY"]
          \/ \E t \in Trades : op' = [op EXCEPT !.t = t, !.x = rows[t].obj, !.c = "CANCEL_PARTIAL_ENTRY"]
          \/ \E t \in Trades : op' = [op EXCEPT !.t = t]
      BY <1>5, <2>2 DEF Tick, Env, TickBegin, TickPartial, StaleFails, StaleCancels,
         StaleCanceled, StaleTerminal, PartialCompletes, PartialRefuses, PartialCancels,
         PartialProceeds, PartialFails, PartialCanceled, PartialTerminal, PartialDone, PartialPlace, PartialReturn
    <3>3. op' = [NoOp EXCEPT !.h = "partial"] => op'.h = "partial"
      BY NoOpType DEF Op
    <3>4. ASSUME NEW t, op' = [NoOp EXCEPT !.h = "stale", !.t = t] PROVE op'.h = "stale"
      BY <3>4, NoOpType DEF Op
    <3>5. ASSUME NEW t, NEW x, NEW c, \/ op' = [op EXCEPT !.t = t, !.x = x, !.c = c] \/ op' = [op EXCEPT !.x = x, !.c = c]
                                      \/ op' = [op EXCEPT !.t = t] \/ op' = [op EXCEPT !.i = t]
          PROVE  op'.h = op.h
      BY <1>0, <3>5 DEF Op
    <3>6. op'.h \in {op.h, NoOp.h, "partial", "stale"}
      BY <3>2, <3>3, <3>4, <3>5
    <3> QED
      BY <1>0, <3>1, <3>6 DEF ArmedHandlers
  <2> QED
    BY <2>1, <2>2
<1>6. CASE Reconcile
  <2>1. \A i \in Ids : ~ResolveChild(i) /\ ~ResolveFound(i) /\ ~PlanResumes(i)
    BY ArmedIdle
  <2>2. pc' # "ambiguous"
    BY <1>6, <2>1 DEF Reconcile, ReconcileCommand, ArmCommand, ArmFinish, Start, ResolveSkips, ResolvePrepared,
       ResolveCancel, PlanWithoutCancel, ResolveAbortedEntry, ResolveDone, ResolveEnds,
       PlanStays, PlanDone, PlansEnd, Refresh, RecoverExits, ReconcileRecovers, BeginReconcile,
       Resolved, PlanLeaves, Verdict
  <2>3. \/ op' \in {op, NoOp}
        \/ \E i \in Ids : op' = [NoOp EXCEPT !.i = i, !.t = intents[i].trade]
        \/ op' = [NoOp EXCEPT !.h = "partial"]
        \/ \E t \in StaleRows : op' = [NoOp EXCEPT !.h = "stale", !.t = t]
    BY <1>6, <2>1 DEF Reconcile, ReconcileCommand, ArmCommand, ArmFinish, Start, ResolveSkips, ResolvePrepared,
       ResolveCancel, PlanWithoutCancel, ResolveAbortedEntry, ResolveDone, ResolveEnds,
       PlanStays, PlanDone, PlansEnd, Refresh, RecoverExits, ReconcileRecovers, BeginReconcile,
       Resolved, PlanLeaves, Verdict
  <2>4. op' = [NoOp EXCEPT !.h = "partial"] => op'.h = "partial"
    BY NoOpType DEF Op
  <2>5. ASSUME NEW t, op' = [NoOp EXCEPT !.h = "stale", !.t = t] PROVE op'.h = "stale"
    BY <2>5, NoOpType DEF Op
  <2>6. ASSUME NEW i, NEW t, op' = [NoOp EXCEPT !.i = i, !.t = t] PROVE op'.h = NoOp.h
    BY <2>6, NoOpType DEF Op
  <2>7. op'.h \in {op.h, NoOp.h, "partial", "stale"}
    BY <2>3, <2>4, <2>5, <2>6
  <2> QED
    BY <1>0, <2>2, <2>7 DEF ArmedHandlers
<1>7. CASE Crash
  BY <1>7 DEF Crash
<1> QED
  BY <1>1, <1>2, <1>3, <1>5, <1>6, <1>7, ArmedQuiet DEF Next, Env

LEMMA SettledStep ==
  ASSUME IInv, RInv, HandInv, ArmInv, Next, armed, armed' PROVE Settled'
<1> USE DEF Goto
<1>1. Settled /\ op.h \in ArmedHandlers /\ op \in Op
  BY ArmParts, ArmedIdle DEF IInv, TypeOK
<1>2. CASE \E k \in Ids : PreparedBy(k)
  <2>1. PICK k \in Ids : PreparedBy(k)
    BY <1>2
  <2>2. PICK n : Prepare(k, n) /\ Asked(n)
    BY <2>1, PreparedFacts
  <2>3. /\ intents'[k] = n
        /\ \A j \in Ids \ {k} : /\ intents'[j].opn = intents[j].opn
                                /\ intents'[j].st = intents[j].st \/ intents'[j].st = "ABORTED"
    BY <2>2, PrepareFields DEF IInv
  <2>4. ~Convert /\ ~Emergency
    BY ArmedQuiet
  <2>5. PrepareEntry(k) \/ CancelPrepare(k) \/ \E ep \in Endpoints : PartialPlace(k, ep)
    BY <2>1, <2>4 DEF PreparedBy, Convert, Emergency
  <2>6. pc \notin {"mark", "post", "lookup", "confirm"}
    BY <2>5 DEF PrepareEntry, CancelPrepare, PartialPlace
  <2>7. ASSUME NEW j \in Ids, j # k, j \in Unresolved' PROVE IsCancel(j)'
    <3>1. j \in Unresolved
      BY <2>3, <2>7 DEF Unresolved
    <3> QED
      BY <1>1, <2>3, <2>6, <2>7, <3>1 DEF Settled, OwnWork, IsCancel
  <2>8. IsCancel(k)' \/ OwnWork(k)'
    <3>1. CASE CancelPrepare(k)
      <4>1. /\ Prepare(k, [NoIntent EXCEPT !.opn = op.c, !.trade = op.t, !.obj = op.x, !.st = "PREPARED"])
            /\ op.c \in CancelOps
        BY <1>1, <3>1 DEF CancelPrepare, Op
      <4>2. intents'[k] = [NoIntent EXCEPT !.opn = op.c, !.trade = op.t, !.obj = op.x, !.st = "PREPARED"]
        BY <4>1, PrepareFields DEF IInv
      <4>3. intents'[k].opn = op.c
        BY <4>2 DEF NoIntent
      <4> QED
        BY <4>1, <4>3 DEF IsCancel
    <3>2. CASE PrepareEntry(k) \/ \E ep \in Endpoints : PartialPlace(k, ep)
      <4>1. op' = [op EXCEPT !.i = k] /\ pc' = "mark"
        BY <3>2 DEF PrepareEntry, PartialPlace
      <4>2. op'.i = k
        BY <1>1, <4>1 DEF Op
      <4> QED
        BY <4>1, <4>2 DEF OwnWork
    <3> QED
      BY <2>5, <3>1, <3>2
  <2> QED
    BY <2>7, <2>8 DEF Settled, Unresolved
<1>3. CASE Unresolved' \subseteq Unresolved /\ \A i \in Ids : IsCancel(i)' <=> IsCancel(i)
  <2>1. ASSUME NEW i \in Ids, i \in Unresolved', ~IsCancel(i)' PROVE OwnWork(i)'
    <3>1. OwnWork(i)
      BY <1>1, <1>3, <2>1 DEF Settled
    <3>2. CASE Env
      BY <3>1, <3>2, EnvKeeps DEF OwnWork
    <3>3. CASE PostProcedure
      <4>1. op' = op \/ op' = [op EXCEPT !.got = TRUE]
        BY <3>3 DEF PostProcedure, MarkSubmitting, PostAccepted, PostRejected, PostUnanswered, LookupFound,
           LookupMissing, ConfirmIntent, BindIntent
      <4>2. op'.i = i
        BY <1>1, <3>1, <4>1 DEF Op, OwnWork
      <4>3. ASSUME NEW st, SetState(i, st), st \in {"DEFINITE_REJECT", "CONFIRMED"} PROVE FALSE
        BY <2>1, <4>3, SetStateFields DEF IInv, Unresolved
      <4>4. i = op.i /\ pc \in {"mark", "post", "lookup", "confirm"}
        BY <3>1 DEF OwnWork
      <4>5. op.h # "child"
        BY <1>1 DEF ArmedHandlers
      <4>6. ~PostRejected /\ ~ConfirmIntent
        BY <4>3, <4>4 DEF PostRejected, ConfirmIntent
      <4>7. ~LookupMissing
        BY <4>5 DEF LookupMissing, Pause
      <4>8. pc' \in {"post", "lookup", "confirm"}
        BY <3>3, <4>4, <4>6, <4>7 DEF PostProcedure, MarkSubmitting, PostAccepted, PostUnanswered, LookupFound,
           BindIntent
      <4> QED
        BY <4>2, <4>8 DEF OwnWork
    <3>4. ~Crash
      BY DEF Crash
    <3> QED
      BY <3>1, <3>2, <3>3, <3>4, WorkSteps DEF OwnWork
  <2> QED
    BY <2>1 DEF Settled, Unresolved
<1> QED
  BY <1>2, <1>3, UnresolvedCauses

-----------------------------------------------------------------------------
(***************************************************************************)
(* ArmInv: the BTC and the orders that entries are armed beside.            *)
(***************************************************************************)
\* With entries armed, only the intent that the thread works on can land.
LEMMA LandsInHand ==
  ASSUME IInv, RInv, Core, KnowInv, ArmInv, TurnInv, Ready, NEW i \in Ids, Lands(i)
  PROVE  /\ armed /\ OwnWork(i) /\ op.h \in {"entry", "manual", "partial", "stale"}
         /\ op.t \in ActiveRows /\ \E e \in Ids : EntryOf(e, op.t)
<1>1. i \in Unresolved /\ intents[i].opn \in PostOps
  BY DEF Lands
<1>2. ~IsCancel(i)
  BY <1>1 DEF IsCancel, PostOps, CancelOps
<1>3. pc # "arming"
  BY <1>1, ArmParts
<1>4. armed /\ OwnWork(i) /\ op.h \in ArmedHandlers
  BY <1>1, <1>2, <1>3, ArmParts, ArmedIdle DEF Ready, Settled, KnowInv
<1>5. pc \in SubmitSteps /\ pc \in PostSteps /\ i = op.i
  BY <1>4 DEF OwnWork, SubmitSteps, PostSteps
<1>6. op.h \in {"entry", "manual", "partial", "stale"}
  BY <1>4, <1>5, TurnParts DEF ArmedHandlers
<1>7. op.t \in ActiveRows /\ intents[i].trade = op.t
  BY <1>5, <1>6, SightParts DEF KnowInv, PostPart, RInv, SubmitInv
<1>8. \E e \in Ids : EntryOf(e, op.t)
  <2>1. IsEntry(i) \/ IsSale(i)
    BY <1>1, OpKinds DEF IsEntry, IsSale
  <2>2. IsSale(i) => \E e \in Ids : EntryOf(e, op.t)
    BY <1>7 DEF Core, CurrentInv
  <2> QED
    BY <1>7, <2>1, <2>2 DEF IsEntry, EntryOf
<1> QED
  BY <1>4, <1>6, <1>7, <1>8

\* An active row stays active, unless the account is flat.
LEMMA ActiveStays ==
  ASSUME IInv, RInv, Core, HoldInv, KnowInv, ArmInv, Ready, Next, NEW t \in ActiveRows,
         NEW e \in Ids, EntryOf(e, t)
  PROVE  t \in ActiveRows' \/ (BtcTotal <= 0 /\ NoLive)
<1>1. t \in Trades /\ IsOpen(rows[t]) /\ (t \in ActiveRows' <=> IsOpen(rows'[t]))
  BY DEF ActiveRows, IsOpen
<1>2. rows'[t].lc # "NONE"
  <2>1. intents'[e].trade = t
    BY IntentsStep DEF IntentsLast, EntryOf, RInv, ShapeInv
  <2>2. RowOf(t)'
    BY <1>1, RowStep DEF RowInv
  <2> QED
    BY <2>1, <2>2 DEF RowOf
<1>3. CASE rows'[t].lc \in Terminal
  <2>1. Ends(t)
    BY <1>1, <1>3 DEF Ends
  <2>2. Closed(t) \/ op.h = "emergency" \/ pc = "exits"
    BY <1>1, <2>1, RowsGoodStep DEF RowsGood, RowGood
  <2>3. op.h # "emergency"
    <3>1. armed => op.h \in ArmedHandlers
      BY ArmedIdle DEF KnowInv
    <3>2. pc = "arming" => op.h = "none"
      BY NoOpFields DEF KnowInv, HandInv
    <3> QED
      BY <3>1, <3>2 DEF Ready, ArmedHandlers
  <2>4. ASSUME pc = "exits" PROVE FALSE
    <3>1. RecoverExits \/ (Env /\ ~Stream) \/ Crash
      BY <2>4, ExitSteps DEF KnowInv
    <3>2. CASE RecoverExits
      <4>1. ConfirmedExits(t) # {} \/ rows'[t] = rows[t]
        BY <1>1, <3>2 DEF RecoverExits, KeepRows
      <4>2. ExitsClosed
        BY ArmParts
      <4>3. ConfirmedExits(t) = {}
        BY <4>2 DEF ExitsClosed, ConfirmedExits
      <4> QED
        BY <1>1, <1>3, <4>1, <4>3 DEF IsOpen
    <3>3. CASE (Env /\ ~Stream) \/ Crash
      <4>1. UNCHANGED rows \/ \E u \in Trades : EntryWindowExpires(u)
        BY <3>3 DEF Env, Exchange, durableVars, Owner, ClearRiskPause, OwnerPause, Crash, KeepRows
      <4>2. ASSUME NEW u \in Trades, EntryWindowExpires(u) PROVE rows'[t].lc = rows[t].lc
        <5>1. rows' = [rows EXCEPT ![u] = [rows[u] EXCEPT !.stale = TRUE]] /\ rows \in [Trades -> Row]
          BY <4>2 DEF EntryWindowExpires, IInv, TypeOK
        <5> QED
          BY <1>1, <5>1 DEF Row
      <4> QED
        BY <1>1, <1>3, <4>1, <4>2 DEF IsOpen
    <3> QED
      BY <3>1, <3>2, <3>3
  <2> QED
    BY <2>2, <2>3, <2>4 DEF Closed
<1> QED
  BY <1>1, <1>2, <1>3 DEF IsOpen

LEMMA HeldStep ==
  ASSUME IInv, RInv, Core, HoldInv, KnowInv, ArmInv, TurnInv, Ready, Next PROVE HeldPart'
<1>1. HeldPart
  BY ArmParts
<1>2. CASE UNCHANGED <<book, btc>>
  <2>1. BtcTotal' = BtcTotal /\ (NoLive' <=> NoLive)
    BY <1>2 DEF BtcTotal, NoLive, Live
  <2>2. ASSUME NEW t \in ActiveRows, NEW e \in Ids, EntryOf(e, t) PROVE HeldPart'
    <3>1. EntryOf(e, t)'
      BY <2>2, IntentsStep DEF IntentsLast, EntryOf, RInv, ShapeInv
    <3>2. t \in ActiveRows' => Covered'
      BY <3>1 DEF Covered
    <3> QED
      BY <2>1, <2>2, <3>2, ActiveStays DEF HeldPart
  <2> QED
    BY <1>1, <2>1, <2>2 DEF HeldPart, Covered
<1>3. CASE UNCHANGED <<intents, rows>> /\ \E i \in Ids : MarketStep(i)
  <2>1. Covered' <=> Covered
    BY <1>3 DEF Covered, ActiveRows, EntryOf
  <2>2. PICK i \in Ids : MarketStep(i)
    BY <1>3
  <2>3. CASE Lands(i)
    <3>1. Covered
      BY <2>3, LandsInHand DEF Covered
    <3> QED
      BY <2>1, <3>1 DEF HeldPart
  <2>4. CASE ~Lands(i)
    <3>1. Live(i)
      BY <2>2, <2>4 DEF MarketStep, BuyFill, SellFill, Live
    <3> QED
      BY <1>1, <2>1, <3>1 DEF HeldPart, NoLive
  <2> QED
    BY <2>3, <2>4
<1>4. KindInv /\ SubmitOp
  BY OpOfSubmit DEF Core, KnowInv
<1> QED
  BY <1>2, <1>3, <1>4, MarketCauses

\* A row that names a live order names its entry.
LEMMA BoundEntry ==
  ASSUME IInv, HoldInv, NEW t \in Trades, NEW i \in Ids, i \in Bound(t)
  PROVE  rows[t].ent \in Ids /\ EntryOf(rows[t].ent, t)
<1>1. NamesOf(t, rows[t]) /\ rows[t] \in Row
  BY RowHolds DEF IInv, TypeOK
<1>2. rows[t].ent # 0
  BY <1>1, IdFacts DEF Bound, NamesOf
<1> QED
  BY <1>1, <1>2 DEF NamesOf, Row

\* What binding an order leaves bound.
LEMMA BindNames ==
  ASSUME IInv, RInv, Core, HoldInv, KnowInv, BindIntent, op.h \in {"entry", "manual", "partial", "stale"}
  PROVE  /\ op.t \in ActiveRows /\ op.i \in Ids
         /\ rows'[op.t].obj = op.i
         /\ \A u \in Trades \ {op.t} : rows'[u] = rows[u]
         /\ \A i \in Ids : i \in Bound(op.t) /\ Live(i) => i = rows'[op.t].ent
         /\ \E e \in Ids : EntryOf(e, op.t)
<1>1. /\ op.i \in Ids /\ intents[op.i].trade = op.t /\ op.t \in Trades
      /\ op.h \in {"entry", "manual"} => intents[op.i].opn = "ENTRY"
      /\ pc = "bind" /\ pc \in SubmitSteps /\ pc \in PostSteps
  BY SubmitFacts DEF BindIntent, RInv, SubmitInv, SubmitSteps, PostSteps
<1>2. op.t \in ActiveRows /\ OldOrderDone(op.t)
  BY <1>1, SightParts DEF KnowInv, PostPart
<1>3. op.h \in {"partial", "stale"} => intents[op.i].opn = "PARTIAL_FILL_PROTECTION"
  BY <1>1 DEF KnowInv, HandInv
<1>4. TypeOK /\ rows[op.t] \in Row /\ intents[op.i] \in Intent
  BY <1>1 DEF IInv, TypeOK
<1> DEFINE n == intents[op.i]
           b == BoundRow(n, rows[op.t], op.i)
<1>5. PICK r \in Reported(n, b) : SetRow(op.t, r)
  BY <1>1 DEF BindIntent
<1>6. /\ b \in Row /\ b.obj = op.i
      /\ n.opn = "ENTRY" => b.ent = op.i
      /\ n.opn = "PARTIAL_FILL_PROTECTION" => b.ent = rows[op.t].ent
  <2>1. CASE n.opn = "ENTRY"
    <3>1. b = [rows[op.t] EXCEPT !.lc = "ENTRY_SUBMITTED", !.ent = op.i, !.obj = op.i]
      BY <2>1 DEF BoundRow
    <3> QED
      BY <1>1, <1>4, <2>1, <3>1 DEF Row, Lifecycles
  <2>2. CASE n.opn = "PARTIAL_FILL_PROTECTION"
    <3>1. b = [rows[op.t] EXCEPT !.lc = "PROTECTION_ACTIVE", !.obj = op.i, !.prot = n.qty]
      BY <2>2 DEF BoundRow
    <3>2. n.qty \in Nat
      BY <1>4 DEF Intent
    <3> HIDE DEF n
    <3> QED
      BY <1>1, <1>4, <2>2, <3>1, <3>2 DEF Row, Lifecycles
  <2> QED
    BY <1>1, <1>3, <2>1, <2>2
<1>7. r.ent = b.ent /\ r.obj = b.obj
  <2>1. r \in {b, ApplyAll(b), ApplyBuy(b)}
    BY <1>5 DEF Reported
  <2>2. b.ent # 0 => b.obj # 0
    BY <1>1, <1>6, IdFacts
  <2> HIDE DEF b
  <2> QED
    BY <1>4, <1>6, <2>1, <2>2, AppliedMoves DEF Moves
<1>8. rows'[op.t] = r /\ \A u \in Trades \ {op.t} : rows'[u] = rows[u]
  BY <1>1, <1>4, <1>5 DEF SetRow, TypeOK
<1>9. ASSUME NEW i \in Ids, i \in Bound(op.t), Live(i) PROVE i = rows'[op.t].ent
  <2>1. i # rows[op.t].obj
    BY <1>2, <1>9, IdFacts DEF OldOrderDone, Live
  <2>2. i = rows[op.t].ent /\ EntryOf(i, op.t)
    BY <1>1, <1>9, <2>1, BoundEntry DEF Bound
  <2>3. n.opn = "ENTRY" => i = op.i
    BY <1>1, <2>2, EntryUnique DEF EntryOf
  <2> QED
    BY <1>1, <1>3, <1>6, <1>7, <1>8, <2>2, <2>3
<1>10. \E e \in Ids : EntryOf(e, op.t)
  <2>1. IsEntry(op.i) \/ IsSale(op.i)
    BY <1>1, <1>3 DEF IsEntry, IsSale, SellOps, PostOps
  <2> QED
    BY <1>1, <2>1 DEF Core, CurrentInv, IsEntry, EntryOf
<1> QED
  BY <1>1, <1>2, <1>6, <1>7, <1>8, <1>9, <1>10

LEMMA NamedStep ==
  ASSUME IInv, RInv, Core, HoldInv, KnowInv, ArmInv, TurnInv, Ready, Next,
         (armed /\ armed') \/ Env
  PROVE  NamedPart'
<1>1. NamedPart /\ KindInv /\ SubmitOp /\ op \in Op
  BY ArmParts, OpOfSubmit DEF Core, KnowInv, IInv, TypeOK
<1>2. CASE UNCHANGED <<book, btc>>
  <2>1. ASSUME NEW i \in Ids, Live(i)' PROVE BoundOpen(i)' \/ InHand(i)'
    <3>1. Live(i)
      BY <1>2, <2>1 DEF Live
    <3>2. ~NoLive
      BY <3>1 DEF NoLive
    <3>3. CASE ~BindIntent
      <4>1. CASE BoundOpen(i)
        <5>1. PICK t \in ActiveRows : i \in Bound(t)
          BY <4>1 DEF BoundOpen
        <5>2. t \in Trades
          BY <5>1 DEF ActiveRows
        <5>3. \E e \in Ids : EntryOf(e, t)
          BY <5>1, <5>2, BoundEntry
        <5>4. t \in ActiveRows'
          BY <3>2, <5>1, <5>3, ActiveStays
        <5>5. rows'[t].ent = rows[t].ent /\ rows'[t].obj = rows[t].obj
          BY <3>3, <5>2, MildStep DEF Mild, MildRow, SameNames
        <5>6. i \in Bound(t)'
          BY <5>1, <5>5 DEF Bound
        <5> QED
          BY <5>4, <5>6 DEF BoundOpen
      <4>2. CASE InHand(i)
        <5>1. CASE Env
          BY <4>2, <5>1, EnvKeeps DEF InHand
        <5>2. CASE PostProcedure /\ ~Env
          <6>1. pc' # "ambiguous"
            BY <5>2, ArmedOnStep DEF KnowInv
          <6>2. pc' \in {"confirm", "bind"}
            BY <3>3, <4>2, <5>2, <6>1 DEF InHand, PostProcedure, MarkSubmitting, PostAccepted, PostRejected, PostUnanswered,
               LookupFound, LookupMissing, ConfirmIntent, Goto
          <6>3. op' = op \/ op' = [op EXCEPT !.got = TRUE]
            BY <3>3, <5>2 DEF PostProcedure, MarkSubmitting, PostAccepted, PostRejected, PostUnanswered, LookupFound,
               LookupMissing, ConfirmIntent
          <6>4. op'.i = op.i
            BY <1>1, <6>3 DEF Op
          <6> QED
            BY <4>2, <6>2, <6>4 DEF InHand
        <5>3. Crash => Env
          BY DEF Crash
        <5>4. pc \in {"mark", "post", "lookup", "confirm", "bind"}
          BY <4>2 DEF InHand
        <5> QED
          BY <5>1, <5>2, <5>3, <5>4, WorkSteps
      <4> QED
        BY <1>1, <3>1, <4>1, <4>2 DEF NamedPart
    <3>4. CASE BindIntent
      <4>1. pc = "bind" /\ pc \in SubmitSteps
        BY <3>4 DEF BindIntent, SubmitSteps
      <4>2. armed
        BY <4>1 DEF Ready
      <4>3. op.h \in {"entry", "manual", "partial", "stale"}
        BY <4>1, <4>2, ArmedIdle, TurnParts DEF KnowInv, ArmedHandlers
      <4>4. /\ op.t \in ActiveRows /\ op.i \in Ids
            /\ rows'[op.t].obj = op.i
            /\ \A u \in Trades \ {op.t} : rows'[u] = rows[u]
            /\ \A j \in Ids : j \in Bound(op.t) /\ Live(j) => j = rows'[op.t].ent
            /\ \E e \in Ids : EntryOf(e, op.t)
        BY <3>4, <4>3, BindNames
      <4>5. op.t \in ActiveRows'
        BY <3>2, <4>4, ActiveStays
      <4>6. CASE i = op.i
        <5>1. i \in {rows'[op.t].ent, rows'[op.t].obj}
          BY <4>4, <4>6
        <5> DEFINE u == op.t
        <5>2. u \in ActiveRows' /\ i \in {rows'[u].ent, rows'[u].obj}
          BY <4>5, <5>1
        <5> HIDE DEF u
        <5>3. \E v \in ActiveRows' : i \in {rows'[v].ent, rows'[v].obj}
          BY <5>2
        <5> QED
          BY <5>3 DEF BoundOpen, Bound
      <4>7. CASE i # op.i
        <5>1. BoundOpen(i)
          BY <1>1, <3>1, <4>7 DEF NamedPart, InHand
        <5>2. PICK t \in ActiveRows : i \in Bound(t)
          BY <5>1 DEF BoundOpen
        <5>3. t \in Trades /\ \E e \in Ids : EntryOf(e, t)
          BY <5>2, BoundEntry DEF ActiveRows
        <5>4. t \in ActiveRows'
          BY <3>2, <5>2, <5>3, ActiveStays
        <5>5. i \in {rows'[t].ent, rows'[t].obj}
          <6>1. CASE t = op.t
            BY <3>1, <4>4, <5>2, <6>1
          <6>2. CASE t # op.t
            <7>1. rows'[t] = rows[t]
              BY <4>4, <5>3, <6>2
            <7> QED
              BY <5>2, <7>1 DEF Bound
          <6> QED
            BY <6>1, <6>2
        <5>6. i \in Bound(t)'
          BY <5>5 DEF Bound
        <5> QED
          BY <5>4, <5>6 DEF BoundOpen
      <4> QED
        BY <4>6, <4>7
    <3> QED
      BY <3>3, <3>4
  <2> QED
    BY <2>1 DEF NamedPart
<1>3. ASSUME UNCHANGED <<intents, rows>>, NEW k \in Ids, MarketStep(k),
             \/ UNCHANGED <<pc, op>> /\ (Lands(k) => posts[k] # 0)
             \/ PostAccepted /\ k = op.i
             \/ DeleteAccepted
      PROVE  NamedPart'
  <2>1. ASSUME NEW i \in Ids, Live(i)' PROVE BoundOpen(i)' \/ InHand(i)'
    <3>1. BoundOpen(i) => BoundOpen(i)'
      BY <1>3 DEF BoundOpen, Bound, ActiveRows
    <3>2. Live(i) \/ (i = k /\ Lands(k))
      BY <1>3, <2>1, MarketOrders DEF IInv
    <3>3. CASE Live(i)
      <4>1. InHand(i) => InHand(i)'
        BY <1>3 DEF InHand, PostAccepted, DeleteAccepted
      <4> QED
        BY <1>1, <3>1, <3>3, <4>1 DEF NamedPart
    <3>4. CASE i = k /\ Lands(k)
      <4>1. OwnWork(k)
        BY <3>4, LandsInHand
      <4>2. CASE UNCHANGED <<pc, op>> /\ posts[k] # 0
        <5>1. pc \notin {"mark", "post"}
          <6>1. k = op.i
            BY <4>1 DEF OwnWork
          <6> QED
            BY <4>2, <6>1 DEF IInv, ControlInv, StepInv, LedgerInv
        <5> QED
          BY <3>4, <4>1, <4>2, <5>1 DEF OwnWork, InHand
      <4>3. CASE PostAccepted
        <5>1. pc' = "confirm" /\ op' = op
          BY <4>3 DEF PostAccepted, Goto
        <5> QED
          BY <3>4, <4>1, <5>1 DEF OwnWork, InHand
      <4>4. ~DeleteAccepted
        BY <4>1 DEF OwnWork, DeleteAccepted
      <4> QED
        BY <1>3, <3>4, <4>2, <4>3, <4>4
    <3> QED
      BY <3>2, <3>3, <3>4
  <2> QED
    BY <2>1 DEF NamedPart
<1> QED
  BY <1>1, <1>2, <1>3, MarketCauses

-----------------------------------------------------------------------------
(***************************************************************************)
(* ArmInv: confirmed emergency sales.                                       *)
(***************************************************************************)
PastOrReady == Ready \/ (PastExits /\ rec.ok)

\* Past the emergency exits, a reconciliation is in one of the recovery routines.
LEMMA PastCauses ==
  ASSUME IInv, RInv, HandInv, TurnInv, Next, (PastExits /\ rec.ok)' PROVE (PastExits /\ rec.ok) \/ RecoverExits
<1> USE DEF Goto, Finish
<1>1. /\ pc' \in {"recStale", "recPartial", "verdict"} \/ (rec'.ret # "none" /\ op'.h \in {"stale", "partial"})
      /\ rec'.ok /\ op \in Op /\ rec \in Rec
  BY DEF PastExits, InReconcile, IInv, TypeOK
<1>2. CASE Env
  BY <1>1, <1>2, EnvKeeps DEF PastExits, InReconcile
<1>3. CASE Entry
  <2>1. op'.h \in {"none", "entry", "manual"} /\ pc' \notin {"recStale", "recPartial", "verdict"}
    <3>1. pc' \notin {"recStale", "recPartial", "verdict"}
      BY <1>3 DEF Entry, ProcessSignal, ManualEntry, SubmitRefused, SubmitRaises, SubmitPersist, EntryDone, PrepareEntry
    <3>2. /\ \/ op' \in {op, NoOp} \/ \E i \in Ids : op' = [op EXCEPT !.i = i]
             \/ \E h \in {"entry", "manual"}, t \in Trades : op' = [NoOp EXCEPT !.h = h, !.t = t]
          /\ rec' = rec
      BY <1>3 DEF Entry, ProcessSignal, ManualEntry, SubmitRefused, SubmitRaises, SubmitPersist, EntryDone, PrepareEntry
    <3>3. pc \in {"idle", "submit", "prepare"} \/ op.h \in {"entry", "manual"}
      BY <1>3 DEF Entry, ProcessSignal, ManualEntry, SubmitRefused, SubmitRaises, SubmitPersist, EntryDone, PrepareEntry
    <3>4. rec.ret = "none"
      BY <3>3, TurnParts DEF OwnSteps, OwnHandlers
    <3> QED
      BY <1>1, <3>1, <3>2, <3>4
  <2> QED
    BY <1>1, <2>1
<1>4. CASE PostProcedure
  <2>1. op' = op \/ op' = [op EXCEPT !.got = TRUE]
    BY <1>4 DEF PostProcedure, MarkSubmitting, PostAccepted, PostRejected, PostUnanswered, LookupFound, LookupMissing,
       ConfirmIntent, BindIntent
  <2>2. op'.h = op.h
    BY <1>1, <2>1 DEF Op
  <2>3. rec' = rec /\ pc' \notin {"recStale", "recPartial", "verdict"}
    BY <1>4 DEF PostProcedure, MarkSubmitting, PostAccepted, PostRejected, PostUnanswered, LookupFound, LookupMissing,
       ConfirmIntent, BindIntent, PostUnchanged
  <2> QED
    BY <1>1, <2>2, <2>3 DEF PastExits, InReconcile
<1>5. CASE CancelProcedure
  <2>1. op' = op \/ \E i \in Ids : op' = [op EXCEPT !.i = i]
    BY <1>5 DEF CancelProcedure, CancelWithoutTarget, CancelAlreadyPrepared, CancelOutOfRoom, CancelPrepare, CancelMark,
       DeleteAccepted, DeleteFails, CancelConfirm
  <2>2. op'.h = op.h
    BY <1>1, <2>1 DEF Op
  <2>3. rec' = rec /\ pc' \notin {"recStale", "recPartial", "verdict"}
    BY <1>5 DEF CancelProcedure, CancelWithoutTarget, CancelAlreadyPrepared, CancelOutOfRoom, CancelPrepare, CancelMark,
       DeleteAccepted, DeleteFails, CancelConfirm, CancelUnchanged
  <2> QED
    BY <1>1, <2>2, <2>3 DEF PastExits, InReconcile
<1>6. ~Convert
  <2>1. ASSUME NEW h \in {"convert", "auto"}, NEW t \in Trades, NEW i \in Ids, NEW ep \in Endpoints,
               ConvertBegin(h, t, i, ep)
        PROVE  FALSE
    <3>1. rec'.ret = "none" /\ pc' = "cancel"
      BY <2>1 DEF ConvertBegin, NoRec
    <3> QED
      BY <1>1, <3>1
  <2>2. ASSUME ConvertStops \/ ConvertExited \/ ConvertDone PROVE FALSE
    <3>1. op' = NoOp /\ pc' \in {"idle", "resolve"}
      BY <2>2 DEF ConvertStops, ConvertExited, ConvertDone, ConvertReturns, BeginReconcile
    <3> QED
      BY <1>1, <3>1, NoOpFields
  <2>3. ASSUME ConvertCanceled \/ ReplaceFoundFlat \/ \E i \in Ids : PrepareReplacement(i) PROVE FALSE
    <3>1. op.h \in {"convert", "auto", "plan"} /\ pc' \in {"free", "exitRow", "mark"}
      BY <2>3 DEF ConvertCanceled, ReplaceFoundFlat, PrepareReplacement, IInv, ControlInv, PlanInv
    <3>2. op' = op \/ \E i \in Ids : op' = [op EXCEPT !.i = i]
      BY <2>3 DEF ConvertCanceled, ReplaceFoundFlat, PrepareReplacement
    <3>3. op'.h = op.h
      BY <1>1, <3>2 DEF Op
    <3> QED
      BY <1>1, <3>1, <3>3
  <2> QED
    BY <2>1, <2>2, <2>3 DEF Convert
<1>7. ~Emergency
  <2>1. ASSUME Emergency PROVE FALSE
    <3>1. rec' = rec /\ (pc = "idle" \/ op.h = "emergency")
      BY <2>1 DEF Emergency, EmergencyBegin, EmergencyStops, EmergencyVerify, EmergencySell, EmergencyUnchanged
    <3>2. rec.ret = "none"
      BY <3>1, TurnParts DEF OwnSteps, OwnHandlers
    <3>3. pc' \notin {"recStale", "recPartial", "verdict"}
      BY <2>1 DEF Emergency, EmergencyBegin, EmergencyStops, EmergencyVerify, EmergencySell
    <3> QED
      BY <1>1, <3>1, <3>2, <3>3
  <2> QED
    BY <2>1
\* The routines run within a reconciliation only where it started them.
<1>8. CASE Tick /\ ~Env
  <2>1. CASE rec.ret = "none"
    <3>1. pc' \notin {"recStale", "recPartial", "verdict"} /\ rec' = rec
      BY <1>8, <2>1 DEF Tick, Env, TickBegin, TickPartial, StaleFails, StaleCancels,
         StaleCanceled, StaleTerminal, PartialCompletes, PartialRefuses, PartialCancels,
         PartialProceeds, PartialFails, PartialCanceled, PartialTerminal, PartialDone, PartialPlace,
         StaleReturns, PartialReturns, PartialReturn, InReconcile
    <3> QED
      BY <1>1, <2>1, <3>1
  <2>2. CASE rec.ret # "none"
    <3>1. ~TickBegin /\ ~TickPartial
      BY <2>2, TurnParts DEF TickBegin, TickPartial, OwnSteps
    <3>2. op.h \in {"stale", "partial"}
      <4>1. /\ pc \in {"stale", "staleTerminal", "partial", "partialTerminal", "partialPlace"} => op.h \in {"stale", "partial"}
            /\ op.c = "CANCEL_PARTIAL_ENTRY" /\ pc \in {"canceled", "cancelFailed"} => op.h \in {"stale", "partial"}
        BY DEF IInv, ControlInv, PlanInv, RInv, TargetInv, HandInv, PlanSteps
      <4> QED
        BY <1>8, <3>1, <4>1 DEF Tick, Env, StaleFails, StaleCancels,
           StaleCanceled, StaleTerminal, PartialCompletes, PartialRefuses, PartialCancels,
           PartialProceeds, PartialFails, PartialCanceled, PartialTerminal, PartialDone, PartialPlace, PartialLookup
    <3>3. rec' = rec \/ \E ok : rec' = [rec EXCEPT !.ok = rec.ok /\ ok]
      BY <1>8, <3>1 DEF Tick, Env, StaleFails, StaleCancels,
         StaleCanceled, StaleTerminal, PartialCompletes, PartialRefuses, PartialCancels,
         PartialProceeds, PartialFails, PartialCanceled, PartialTerminal, PartialDone, PartialPlace,
         StaleReturns, PartialReturns, PartialReturn
    <3>4. rec.ok
      BY <1>1, <3>3 DEF Rec
    <3> QED
      BY <2>2, <3>2, <3>4 DEF PastExits, InReconcile
  <2> QED
    BY <2>1, <2>2
<1>9. CASE Reconcile /\ ~RecoverExits
  <2>1. ASSUME pc' \notin {"recStale", "recPartial", "verdict"}, op'.h \notin {"stale", "partial"} PROVE FALSE
    BY <1>1, <2>1
  <2>2. CASE ReconcileRecovers
    BY <1>1, <2>2 DEF ReconcileRecovers, PastExits
  <2>3. CASE ~ReconcileRecovers
    <3>1. pc' \notin {"recStale", "recPartial", "verdict"}
      BY <1>9, <2>3 DEF Reconcile, ReconcileCommand, ArmCommand, ArmFinish, Start, ResolveSkips, ResolvePrepared,
         ResolveCancel, ResolveFound, PlanWithoutCancel, ResolveChild, PlanResumes, ResolveAbortedEntry, ResolveDone,
         ResolveEnds, PlanStays, PlanDone, PlansEnd, Refresh, Verdict, BeginReconcile, Resolved, PlanLeaves
    <3>2. \/ op' = NoOp
          \/ op' = op /\ pc \in {"resolve", "refresh"}
          \/ \E i \in Ids : \E t : op' = [NoOp EXCEPT !.i = i, !.t = t]
          \/ \E i \in Ids : ResolveChild(i) \/ ResolveFound(i) \/ PlanResumes(i)
      BY <1>9, <2>3 DEF Reconcile, ReconcileCommand, ArmCommand, ArmFinish, Start, ResolveSkips, ResolvePrepared,
         ResolveCancel, PlanWithoutCancel, ResolveAbortedEntry, ResolveDone,
         ResolveEnds, PlanStays, PlanDone, PlansEnd, Refresh, Verdict, BeginReconcile, Resolved, PlanLeaves
    <3>3. pc \in {"resolve", "refresh"} => op = NoOp
      BY DEF IInv, ControlInv, TodoInv, HandInv
    <3>4. ASSUME NEW i, NEW t, op' = [NoOp EXCEPT !.i = i, !.t = t] PROVE op'.h = NoOp.h
      BY <3>4, NoOpType DEF Op
    <3>5. ASSUME NEW i \in Ids, ResolveChild(i) \/ ResolveFound(i) \/ PlanResumes(i)
          PROVE  op'.h \in {"child", "found", "plan"}
      BY <3>5 DEF ResolveChild, ResolveFound, PlanResumes, NoOp
    <3> QED
      BY <2>1, <3>1, <3>2, <3>3, <3>4, <3>5, NoOpFields
  <2> QED
    BY <2>2, <2>3
<1>10. ~Crash
  <2>1. ASSUME Crash PROVE FALSE
    <3>1. op' = NoOp /\ pc' = "down"
      BY <2>1 DEF Crash
    <3> QED
      BY <1>1, <3>1, NoOpFields
  <2> QED
    BY <2>1
<1> QED
  BY <1>2, <1>3, <1>4, <1>5, <1>6, <1>7, <1>8, <1>9, <1>10 DEF Next, Env

LEMMA PastOrReadyCauses ==
  ASSUME IInv, RInv, HandInv, TurnInv, Next, PastOrReady', ~RecoverExits, ~ArmFinish PROVE PastOrReady
<1>1. CASE Ready'
  BY <1>1, ReadyCauses, VerdictProven DEF PastOrReady, Proven, PastExits
<1>2. CASE (PastExits /\ rec.ok)'
  BY <1>2, PastCauses DEF PastOrReady
<1> QED
  BY <1>1, <1>2 DEF PastOrReady

\* No emergency sale is confirmed while entries are armed or past its reconciliation.
LEMMA NoNewExit ==
  ASSUME IInv, RInv, KnowInv, ArmInv, TurnInv, PastOrReady, Next, NEW j \in Ids,
         intents'[j].opn = "EMERGENCY_EXIT", intents'[j].st = "CONFIRMED"
  PROVE  intents[j].opn = "EMERGENCY_EXIT" /\ intents[j].st = "CONFIRMED" /\ intents'[j].trade = intents[j].trade
<1>1. CASE UNCHANGED intents
  BY <1>1
<1>2. CASE \E i \in Ids : PreparedBy(i)
  <2>1. PICK i \in Ids : PreparedBy(i)
    BY <1>2
  <2>2. PICK n : Prepare(i, n) /\ Asked(n)
    BY <2>1, PreparedFacts
  <2> QED
    BY <2>2, PrepareFields DEF IInv, Asked
<1>3. CASE Settles
  <2>1. intents[j].opn = "EMERGENCY_EXIT" /\ intents'[j].trade = intents[j].trade
    BY <1>3, FieldsOfSettles
  <2>2. ASSUME intents[j].st # "CONFIRMED" PROVE FALSE
    <3>1. ASSUME NEW i \in Ids, NEW st, SetState(i, st) PROVE i = j /\ st = "CONFIRMED"
      BY <2>2, <3>1, SetStateFields DEF IInv
    <3>2. armed => op.h \in ArmedHandlers
      BY ArmedIdle DEF KnowInv
    <3>3. ~MarkSubmitting /\ ~PostRejected /\ ~LookupMissing
      BY <3>1 DEF MarkSubmitting, PostRejected, LookupMissing, IInv, ControlInv, StepInv
    <3>4. ~ConfirmIntent
      <4>1. ASSUME ConfirmIntent PROVE FALSE
        <5>1. pc = "confirm" /\ op.i = j /\ pc \in SubmitSteps
          BY <3>1, <4>1 DEF ConfirmIntent, IInv, ControlInv, StepInv, SubmitSteps
        <5>2. op.h # "none" /\ (op.h \in {"entry", "manual"} => intents[j].opn = "ENTRY")
              /\ (op.h \in {"partial", "stale"} => intents[j].opn = "PARTIAL_FILL_PROTECTION")
          BY <5>1, TurnParts DEF RInv, SubmitInv, KnowInv, HandInv
        <5>3. op.h \in ArmedHandlers
          BY <3>2, <5>1 DEF PastOrReady, Ready, PastExits, ArmedHandlers
        <5> QED
          BY <2>1, <5>2, <5>3 DEF ArmedHandlers
      <4> QED
        BY <4>1
    <3>5. ~CancelMark /\ ~DeleteFails /\ ~CancelConfirm
      <4>1. intents[j].opn \notin CancelOps
        BY <2>1 DEF CancelOps
      <4>2. pc \in {"cmark", "delete", "cconfirm"} => op.i \in Ids /\ intents[op.i].opn \in CancelOps
        BY DEF IInv, ControlInv, StepInv, RInv, TargetInv
      <4> QED
        BY <3>1, <4>1, <4>2 DEF CancelMark, DeleteFails, CancelConfirm
    <3>6. ~ReplaceFoundFlat
      BY <3>1 DEF ReplaceFoundFlat, IInv, ControlInv, PlanInv
    <3>7. ASSUME NEW i \in Ids, SettledBy(i) PROVE FALSE
      <4>1. ~ResolvePrepared(i) /\ ~PlanWithoutCancel(i)
        BY <3>1 DEF ResolvePrepared, PlanWithoutCancel
      <4>2. ~ResolveCancel(i)
        BY <2>1, <3>1 DEF ResolveCancel, IsCancel, CancelOps
      <4>3. ASSUME ResolveFound(i) PROVE FALSE
        <5>1. pc = "resolve" /\ op = NoOp
          BY <4>3, ResolvingFacts DEF ResolveFound, Resolving
        <5>2. ~armed
          BY <4>3, ArmedIdle DEF KnowInv
        <5> QED
          BY <5>1, <5>2, NoOpFields DEF PastOrReady, Ready, PastExits
      <4> QED
        BY <3>7, <4>1, <4>2, <4>3 DEF SettledBy
    <3> QED
      BY <1>3, <3>3, <3>4, <3>5, <3>6, <3>7 DEF Settles
  <2> QED
    BY <2>1, <2>2
<1> QED
  BY <1>1, <1>2, <1>3, Causes

\* While a reconciliation is between its routines, the lifecycles stay.
LEMMA RoutineSteps ==
  ASSUME IInv, Next, pc \in {"recStale", "recPartial", "verdict"}, NEW t \in Trades
  PROVE  rows'[t].lc = rows[t].lc
<1>1. ~Entry
  BY DEF Entry, ProcessSignal, ManualEntry, SubmitRefused, SubmitRaises, SubmitPersist, EntryDone, PrepareEntry
<1>2. ~CancelProcedure
  BY DEF CancelProcedure, CancelWithoutTarget, CancelAlreadyPrepared, CancelOutOfRoom,
     CancelPrepare, CancelMark, DeleteAccepted, DeleteFails, CancelConfirm
<1>3. ~Convert
  <2>1. ASSUME NEW h \in {"convert", "auto"}, NEW u \in Trades, NEW i \in Ids, NEW ep \in Endpoints,
               ConvertBegin(h, u, i, ep)
        PROVE  FALSE
    BY <2>1 DEF ConvertBegin
  <2> QED
    BY <2>1 DEF Convert, ConvertStops, ConvertCanceled, ReplaceFoundFlat, ConvertExited, ConvertDone, PrepareReplacement
<1>4. ~Emergency
  BY DEF Emergency, EmergencyBegin, EmergencyStops, EmergencyVerify, EmergencySell
<1>5. Tick => \E u \in Trades : EntryWindowExpires(u)
  BY DEF Tick, TickBegin, TickPartial, StaleFails, StaleCancels,
     StaleCanceled, StaleTerminal, PartialCompletes, PartialRefuses, PartialCancels, PartialLookup,
     PartialProceeds, PartialFails, PartialCanceled, PartialTerminal, PartialDone, PartialPlace
<1>6. Reconcile => UNCHANGED rows
  BY DEF Reconcile, ReconcileCommand, ArmCommand, ArmFinish, Start, ResolveSkips, ResolvePrepared, ResolveCancel,
     ResolveFound, PlanWithoutCancel, ResolveChild, PlanResumes, ResolveAbortedEntry, ResolveDone, ResolveEnds,
     PlanStays, PlanDone, PlansEnd, Refresh, RecoverExits, ReconcileRecovers, Verdict, Resolving, Resuming, KeepRows
<1>7. ~PostProcedure
  BY DEF PostProcedure, MarkSubmitting, PostAccepted, PostRejected, PostUnanswered, LookupFound,
     LookupMissing, ConfirmIntent, BindIntent
<1>8. ~Stream
  BY DEF Stream, StreamUpdate, StreamPartialFill, StreamResync, LockFree
<1>9. Exchange \/ Owner \/ Crash => UNCHANGED rows
  BY DEF Exchange, durableVars, Owner, ClearRiskPause, OwnerPause, Crash, KeepRows
<1>10. ASSUME NEW u \in Trades, EntryWindowExpires(u) PROVE rows'[t].lc = rows[t].lc
  <2>1. rows' = [rows EXCEPT ![u] = [rows[u] EXCEPT !.stale = TRUE]] /\ rows \in [Trades -> Row]
    BY <1>10 DEF EntryWindowExpires, IInv, TypeOK
  <2> QED
    BY <2>1 DEF Row
<1> QED
  BY <1>1, <1>2, <1>3, <1>4, <1>5, <1>6, <1>7, <1>8, <1>9, <1>10 DEF Next

\* A closed trade with a confirmed sale is not reopened over armed entries, nor past the
\* emergency exits.
LEMMA StaysClosed ==
  ASSUME IInv, RInv, Core, HoldInv, KnowInv, ArmInv, TurnInv, Next, PastOrReady, NEW t \in Trades,
         NEW j \in Ids, intents[j].trade = t, t \notin ActiveRows
  PROVE  t \notin ActiveRows'
<1>1. ~IsOpen(rows[t]) /\ rows[t].lc # "NONE" /\ (t \in ActiveRows' <=> IsOpen(rows'[t]))
  <2>1. RowOf(t)
    BY DEF RInv, RowInv
  <2> QED
    BY <2>1 DEF RowOf, ActiveRows, IsOpen
<1>2. CASE pc \in {"recStale", "recPartial", "verdict"}
  BY <1>1, <1>2, RoutineSteps DEF IsOpen
<1>3. CASE pc \notin {"recStale", "recPartial", "verdict"}
  <2>1. armed \/ pc = "arming" \/ op.h \in {"stale", "partial"}
    BY <1>3 DEF PastOrReady, Ready, PastExits
  <2>2. armed => op.h \in ArmedHandlers /\ pc # "ambiguous"
    BY ArmedIdle DEF KnowInv
  <2>3. pc = "arming" => op.h = "none"
    BY NoOpFields DEF KnowInv, HandInv
  <2>4. op.h \in ArmedHandlers
    BY <2>1, <2>2, <2>3 DEF ArmedHandlers
  <2>5. CASE ~BindIntent
    <3>1. t = op.t => ~Reopens
      <4>1. t = op.t => pc # "submit"
        BY DEF RInv, SubmitInv
      <4>2. ~(pc = "ambiguous" /\ op.h \in {"entry", "manual"})
        BY <2>1, <2>2
      <4> QED
        BY <2>4, <4>1, <4>2 DEF Reopens, ArmedHandlers
    <3> QED
      BY <1>1, <2>5, <3>1, MildStep DEF Mild, MildRow
  <2>6. CASE BindIntent
    <3>1. op.h # "none"
      BY <2>6, TurnParts DEF BindIntent, SubmitSteps
    <3>2. op.h \in {"entry", "manual", "partial", "stale"}
      BY <2>4, <3>1 DEF ArmedHandlers
    <3>3. op.t \in ActiveRows /\ \A u \in Trades \ {op.t} : rows'[u] = rows[u]
      BY <2>6, <3>2, BindNames
    <3> QED
      BY <1>1, <3>3
  <2> QED
    BY <2>5, <2>6
<1> QED
  BY <1>2, <1>3

LEMMA ExitsStep ==
  ASSUME IInv, RInv, Core, HoldInv, KnowInv, ArmInv, TurnInv, Next, PastOrReady'
  PROVE  ExitsClosed'
<1>1. PastOrReady => ExitsClosed
  BY ArmParts DEF PastOrReady
<1>2. CASE RecoverExits
  <2>1. pc' = "recStale" /\ armed' = armed /\ UNCHANGED intents
    BY <1>2 DEF RecoverExits, Goto, KeepArming
  <2>2. armed \/ rec'.ok
    BY <2>1 DEF PastOrReady, Ready
  <2>3. armed => ExitsClosed
    BY <1>1 DEF PastOrReady, Ready
  <2>4. ASSUME NEW j \in Ids, intents[j].opn = "EMERGENCY_EXIT", intents[j].st = "CONFIRMED"
        PROVE  intents[j].trade \notin ActiveRows'
    <3> DEFINE t == intents[j].trade
               candidates == {u \in ActiveRows : ConfirmedExits(u) # {}}
    <3>1. t \in Trades
      BY <2>4 DEF IInv, LedgerInv
    <3>2. t \in ActiveRows => t \in candidates
      BY <2>4 DEF ConfirmedExits
    <3>3. rec \in Rec /\ rows \in [Trades -> Row]
      BY DEF IInv, TypeOK
    <3>4. CASE t \in ActiveRows
      <4>1. ~armed
        BY <2>3, <2>4, <3>4 DEF ExitsClosed
      <4>2. rec'.ok
        BY <2>2, <4>1
      <4>3. /\ rows' = [u \in Trades |-> IF u \in candidates /\ Exited(u)
                                         THEN [rows[u] EXCEPT !.lc = "EXIT_FILLED"] ELSE rows[u]]
            /\ rec' = [rec EXCEPT !.ok = rec.ok /\ \A u \in candidates : Exited(u)]
        <5>1. rec' # [rec EXCEPT !.ok = FALSE]
          BY <3>3, <4>2 DEF Rec
        <5> QED
          BY <1>2, <5>1 DEF RecoverExits
      <4>4. \A u \in candidates : Exited(u)
        <5> HIDE DEF candidates
        <5>1. rec'.ok = (rec.ok /\ \A u \in candidates : Exited(u))
          BY <3>3, <4>3 DEF Rec
        <5> QED
          BY <4>2, <5>1
      <4>5. rows'[t] = [rows[t] EXCEPT !.lc = "EXIT_FILLED"]
        BY <3>1, <3>2, <3>4, <4>3, <4>4
      <4>6. rows'[t].lc = "EXIT_FILLED"
        BY <3>1, <3>3, <4>5 DEF Row
      <4> QED
        BY <4>6 DEF ActiveRows, Terminal
    <3>5. CASE t \notin ActiveRows
      <4>1. rows'[t] = rows[t]
        BY <1>2, <3>1, <3>5 DEF RecoverExits, KeepRows
      <4> QED
        BY <3>5, <4>1 DEF ActiveRows
    <3> QED
      BY <3>4, <3>5
  <2> QED
    BY <2>1, <2>4 DEF ExitsClosed
<1>3. CASE ArmFinish
  <2>1. UNCHANGED <<intents, rows>> /\ pc = "arming"
    BY <1>3 DEF ArmFinish, KeepRows
  <2> QED
    BY <1>1, <2>1 DEF PastOrReady, Ready, ExitsClosed, ActiveRows
<1>4. CASE ~RecoverExits /\ ~ArmFinish
  <2>1. PastOrReady
    BY <1>4, PastOrReadyCauses DEF KnowInv
  <2>2. ASSUME NEW j \in Ids, intents'[j].opn = "EMERGENCY_EXIT", intents'[j].st = "CONFIRMED"
        PROVE  intents'[j].trade \notin ActiveRows'
    <3>1. intents[j].opn = "EMERGENCY_EXIT" /\ intents[j].st = "CONFIRMED" /\ intents'[j].trade = intents[j].trade
      BY <2>1, <2>2, NoNewExit
    <3>2. intents[j].trade \in Trades /\ intents[j].trade \notin ActiveRows
      BY <1>1, <2>1, <3>1 DEF ExitsClosed, IInv, LedgerInv
    <3> QED
      BY <2>1, <3>1, <3>2, StaysClosed
  <2> QED
    BY <2>2 DEF ExitsClosed
<1> QED
  BY <1>2, <1>3, <1>4

\* What a reconciliation that found everything in order has shown.
LEMMA OwnedShows ==
  ASSUME IInv, HoldInv, Owned
  PROVE  HeldPart /\ \A i \in Ids : Live(i) => BoundOpen(i)
<1>1. \A i \in Ids : Live(i) => BoundOpen(i)
  BY DEF Owned, BoundOpen
<1>2. ASSUME NEW t \in ActiveRows, rows[t].ent # 0 PROVE Covered
  <2>1. NamesOf(t, rows[t]) /\ rows[t] \in Row
    BY <1>2, RowHolds DEF ActiveRows, IInv, TypeOK
  <2>2. rows[t].ent \in Ids /\ EntryOf(rows[t].ent, t)
    BY <1>2, <2>1 DEF NamesOf, Row
  <2> QED
    BY <1>2, <2>2 DEF Covered
<1>3. CASE NoLive
  <2>1. ASSUME NEW t \in ActiveRows, rows[t].ent = 0 PROVE BtcTotal <= 0
    <3>1. NamesOf(t, rows[t])
      BY <2>1, RowHolds DEF ActiveRows
    <3>2. LargerOf(rows[t].filled, rows[t].prot) = 0
      BY <2>1, <3>1 DEF NamesOf, LargerOf
    <3> QED
      BY <2>1, <3>2 DEF Owned, OwnedTrade
  <2>2. ActiveRows = {} => BtcTotal <= 0
    BY DEF Owned
  <2> QED
    BY <1>1, <1>2, <1>3, <2>1, <2>2 DEF HeldPart
<1>4. CASE ~NoLive
  <2>1. PICK i \in Ids : Live(i)
    BY <1>4 DEF NoLive
  <2>2. PICK t \in ActiveRows : i \in Bound(t)
    BY <1>1, <2>1 DEF BoundOpen
  <2>3. rows[t].ent \in Ids /\ EntryOf(rows[t].ent, t)
    BY <2>2, BoundEntry DEF ActiveRows
  <2> QED
    BY <1>1, <2>2, <2>3 DEF HeldPart, Covered
<1> QED
  BY <1>1, <1>3, <1>4

LEMMA ArmStep ==
  ASSUME IInv, RInv, Core, HoldInv, KnowInv, ArmInv, TurnInv, Next PROVE ArmInv'
<1>1. ASSUME Verdict, Ready' PROVE ArmedOn' /\ (Unresolved = {})' /\ HeldPart' /\ NamedPart'
  <2>1. Proven
    BY <1>1, VerdictProven
  <2>2. UNCHANGED <<book, btc, intents, rows>> /\ op' = NoOp /\ pc' # "ambiguous"
    BY <1>1 DEF Verdict, KeepRows
  <2>3. HeldPart /\ \A i \in Ids : Live(i) => BoundOpen(i)
    BY <2>1, OwnedShows DEF Proven
  <2>4. Unresolved' = {}
    BY <2>1, <2>2 DEF Proven, Unresolved
  <2>5. HeldPart'
    BY <2>2, <2>3 DEF HeldPart, BtcTotal, NoLive, Live, Covered, ActiveRows, EntryOf
  <2>6. NamedPart'
    BY <2>2, <2>3 DEF NamedPart, Live, BoundOpen, Bound, ActiveRows
  <2>7. op'.h = "none"
    BY <2>2, NoOpFields
  <2>8. ArmedOn'
    BY <2>2, <2>7 DEF ArmedOn
  <2> QED
    BY <2>4, <2>5, <2>6, <2>8
<1>2. ASSUME ArmFinish PROVE (armed' => ArmedOn' /\ Settled') /\ HeldPart' /\ NamedPart'
  <2>1. /\ UNCHANGED <<book, btc, intents, rows>> /\ op' = NoOp /\ pc' = "idle" /\ pc = "arming"
        /\ armed' = (Unresolved = {})
    BY <1>2 DEF ArmFinish, KeepRows, Finish, exchangeVars
  <2>2. HeldPart /\ NamedPart /\ \A i \in Ids : ~InHand(i)
    BY <2>1, ArmParts DEF Ready, InHand
  <2>3. HeldPart'
    BY <2>1, <2>2 DEF HeldPart, BtcTotal, NoLive, Live, Covered, ActiveRows, EntryOf
  <2>4. \A i \in Ids : Live(i) => BoundOpen(i)
    BY <2>2 DEF NamedPart
  <2>5. NamedPart'
    BY <2>1, <2>4 DEF NamedPart, Live, BoundOpen, Bound, ActiveRows
  <2>6. Unresolved' = Unresolved
    BY <2>1 DEF Unresolved
  <2>7. op'.h = "none"
    BY <2>1, NoOpFields
  <2> QED
    BY <2>1, <2>3, <2>5, <2>6, <2>7 DEF ArmedOn, Settled
<1>3. ASSUME armed, armed' PROVE ArmedOn' /\ Settled'
  <2>1. CASE Env
    <3>1. pc' = pc /\ op' = op /\ ArmedOn
      BY <1>3, <2>1, EnvKeeps, ArmParts
    <3> QED
      BY <1>3, <3>1, SettledStep DEF ArmedOn, KnowInv
  <2>2. CASE ~Env
    <3>1. op'.h \in ArmedHandlers /\ pc' # "ambiguous"
      BY <1>3, <2>2, ArmedOnStep DEF KnowInv
    <3> QED
      BY <1>3, <3>1, SettledStep DEF ArmedOn, ArmedHandlers, KnowInv
  <2> QED
    BY <2>1, <2>2
<1>4. armed' => ArmedOn' /\ Settled'
  <2>1. ASSUME Verdict, armed' PROVE ArmedOn' /\ Settled'
    <3>1. Ready'
      BY <2>1 DEF Ready
    <3> QED
      BY <1>1, <2>1, <3>1 DEF Settled
  <2> QED
    BY <1>2, <1>3, <2>1, ArmedCauses
<1>5. pc' = "arming" => (Unresolved = {})'
  <2>1. CASE Verdict
    BY <1>1, <2>1 DEF Ready
  <2>2. ASSUME pc = "arming", Env PROVE Unresolved' = {}
    <3>1. intents' = intents /\ Unresolved = {}
      BY <2>2, EnvKeeps, ArmParts
    <3> QED
      BY <3>1 DEF Unresolved
  <2> QED
    BY <2>1, <2>2, ArmingCauses
<1>6. Ready' => HeldPart' /\ NamedPart'
  BY <1>1, <1>2, ReadyCauses, HeldStep, NamedStep
<1>7. Ready' \/ (PastExits /\ rec.ok)' => ExitsClosed'
  <2>1. Ready' \/ (PastExits /\ rec.ok)' <=> PastOrReady'
    BY DEF PastOrReady
  <2> QED
    BY <2>1, ExitsStep
<1> QED
  BY <1>4, <1>5, <1>6, <1>7, ArmPartsNext

-----------------------------------------------------------------------------
(***************************************************************************)
(* The third invariant.                                                     *)
(***************************************************************************)
LEMMA EInvInit == ASSUME Init PROVE EInv
<1>1. /\ \A i \in Ids : ~Exists(i) /\ ~Live(i) /\ book[i] = NoOrder
      /\ \A i \in Ids : intents[i] = NoIntent /\ posts[i] = 0
      /\ \A t \in Trades : rows[t] = NoRow
      /\ btc.free = 0 /\ btc.locked = 0
      /\ pc = "down" /\ op = NoOp /\ rec = NoRec /\ armed = FALSE
  BY DEF Init, ExchangeInit, Exists, Live, NoOrder
<1>2. \A i \in Ids : intents[i].opn = "NONE" /\ intents[i].st = "NONE" /\ intents[i].trade = 0
  BY <1>1 DEF NoIntent
<1>3. \A i \in Ids : book[i].ph = "none" /\ book[i].bought = 0 /\ book[i].sold = 0 /\ book[i].qty = 0
  BY <1>1 DEF NoOrder
<1>4. \A t \in Trades : /\ rows[t].lc = "NONE" /\ rows[t].ent = 0 /\ rows[t].obj = 0
                        /\ rows[t].filled = 0 /\ rows[t].prot = 0
  BY <1>1 DEF NoRow
<1>5. Unresolved = {} /\ NoLive /\ ActiveRows = {} /\ BtcTotal = 0
  BY <1>1, <1>2, <1>4 DEF Unresolved, NoLive, ActiveRows, BtcTotal
<1>6. \A i \in Ids : ~IsEntry(i) /\ ~IsSale(i) /\ ~IsGuard(i)
  BY <1>2, OpKinds DEF IsEntry, IsSale, IsGuard, GuardOps
<1>7. Core
  <2>1. KindInv
    BY <1>1, <1>2, <1>3 DEF KindInv, PostOps
  <2>2. CurrentInv
    BY <1>1, <1>5, <1>6 DEF CurrentInv
  <2>3. StockInv
    BY <1>1, <1>3 DEF StockInv
  <2>4. LimitInv
    BY <1>6 DEF LimitInv
  <2> QED
    BY <1>1, <2>1, <2>2, <2>3, <2>4 DEF Core, OneLiveOrder
<1>8. HoldInv
  <2>1. \A t \in Trades, e \in Ids : ~EntryOf(e, t)
    BY <1>2 DEF EntryOf
  <2> QED
    BY <1>3, <1>4, <2>1 DEF HoldInv, Sound, NamesOf, Terminal
<1>9. KnowInv
  <2>1. HandInv
    BY <1>1, NoOpFields DEF HandInv, SubmitSteps, PlanSteps
  <2>2. SightInv
    BY <1>1, NoOpFields DEF SightInv, PostSteps
  <2> QED
    BY <2>1, <2>2 DEF KnowInv
<1>10. ArmInv
  BY <1>1, <1>2, NoOpFields DEF ArmInv, PastExits, InReconcile
<1>11. TurnInv
  BY <1>1, NoOpFields DEF TurnInv, InReconcile, SubmitSteps
<1> QED
  BY <1>7, <1>8, <1>9, <1>10, <1>11 DEF EInv

LEMMA EInvStep ==
  ASSUME IInv, RInv, EInv, Next, TypeOK' PROVE EInv'
<1>1. Core /\ HoldInv /\ KnowInv /\ HandInv /\ ArmInv /\ TurnInv
  BY DEF EInv, KnowInv
<1>2. Core' /\ HoldInv' /\ HandInv' /\ SightInv' /\ ArmInv' /\ TurnInv'
  BY <1>1, CoreStep, HoldStep, HandStep, SightStep, ArmStep, TurnStep
<1> QED
  BY <1>2 DEF EInv, KnowInv

LEMMA StutterEInv == ASSUME EInv, UNCHANGED vars PROVE EInv'
<1> USE DEF vars, exchangeVars, durableVars
<1>1. Unresolved' = Unresolved /\ ActiveRows' = ActiveRows /\ BtcTotal' = BtcTotal /\ (NoLive' <=> NoLive)
  BY DEF Unresolved, ActiveRows, BtcTotal, NoLive, Live
<1>2. Core'
  <2>1. KindInv'
    BY DEF EInv, Core, KindInv, Exists
  <2>2. CurrentInv'
    BY DEF EInv, Core, CurrentInv, Live, Unresolved, IsSale, IsGuard, Current, IsEntry, EntryOf, Exists
  <2>3. StockInv'
    BY DEF EInv, Core, StockInv, IsEntry, IsGuard
  <2>4. LimitInv'
    BY DEF EInv, Core, LimitInv, BtcTotal, IsEntry, IsGuard, Current
  <2> QED
    BY <2>1, <2>2, <2>3, <2>4 DEF EInv, Core, OneLiveOrder, Live
<1>3. HoldInv'
  <2>1. ASSUME NEW t \in Trades, Sound(t, rows[t]) PROVE Sound(t, rows[t])'
    <3>1. NamesOf(t, rows[t])'
      BY <2>1 DEF Sound, NamesOf, Exists, EntryOf, IsGuard, IsSale
    <3>2. ASSUME NEW e \in Ids, HeldBy(t, rows[t], e) PROVE HeldBy(t, rows[t], e)'
      BY <3>2 DEF HeldBy, BtcTotal, Exists, Guarded, GuardOf, IsGuard
    <3>3. Dead(t) => Dead(t)'
      BY DEF Dead, Live
    <3> QED
      BY <2>1, <3>1, <3>2, <3>3 DEF Sound, EntryOf, IsOpen, Current, IsEntry
  <2> QED
    BY <2>1 DEF EInv, HoldInv
<1>4. HandInv'
  BY DEF EInv, KnowInv, HandInv, EntryOf, Current, IsEntry
<1>5. SightInv'
  BY <1>1 DEF EInv, KnowInv, SightInv, BuyTerminal, GuardOf, Guarded, IsGuard
<1>6. ArmInv'
  <2>1. Covered' <=> Covered
    BY <1>1 DEF Covered, EntryOf
  <2>2. \A i \in Ids : /\ BoundOpen(i)' <=> BoundOpen(i)
                       /\ OwnWork(i)' <=> OwnWork(i)
                       /\ IsCancel(i)' <=> IsCancel(i)
                       /\ Live(i)' <=> Live(i)
    BY <1>1 DEF BoundOpen, Bound, OwnWork, IsCancel, Live
  <2>3. PastExits' <=> PastExits
    BY DEF PastExits, InReconcile
  <2>4. Unresolved \subseteq Ids
    BY DEF Unresolved
  <2> QED
    BY <1>1, <2>1, <2>2, <2>3, <2>4 DEF EInv, ArmInv
<1>7. TurnInv'
  BY DEF EInv, TurnInv, InReconcile
<1> QED
  BY <1>2, <1>3, <1>4, <1>5, <1>6, <1>7 DEF EInv, KnowInv

\* The three invariants hold in every state of the adapter, whatever the bounds are.
THEOREM ExposureInvariance == Spec => [](IInv /\ RInv /\ EInv)
<1>1. ASSUME IInv, RInv, EInv, [Next]_vars PROVE EInv'
  <2>1. CASE Next
    <3>1. TypeOK'
      BY <1>1, <2>1, TypeStep DEF IInv
    <3> QED
      BY <1>1, <2>1, <3>1, EInvStep
  <2> QED
    BY <1>1, <2>1, StutterEInv
<1>2. IInv /\ RInv /\ EInv /\ [Next]_vars => EInv'
  BY <1>1
<1> QED
  BY <1>2, EInvInit, RowInvariance, PTL DEF Spec

\* The account never has two live orders: an entry is refused while anything is live or
\* unresolved, and each sale waits until what it replaces is proven terminal.
THEOREM NeverTwoOrders == Spec => []OneLiveOrder
<1>1. EInv => OneLiveOrder
  BY DEF EInv, Core
<1> QED
  BY <1>1, ExposureInvariance, PTL

\* A row that active_trade_rows no longer lists has no live order behind it.
THEOREM ClosedIsDead == Spec => []ClosedTradeIsDead
<1>1. EInv => ClosedTradeIsDead
  BY DEF EInv, HoldInv, Sound, Dead, ClosedTradeIsDead
<1> QED
  BY <1>1, ExposureInvariance, PTL

\* While the main loop is idle with entries armed, every live order is named by an active row:
\* what verified_reconcile found when it armed them stays so until something disarms.
THEOREM ArmedMeansOwned == Spec => []ArmedOwned
<1>1. ASSUME EInv PROVE ArmedOwned
  <2>1. ASSUME pc = "idle", armed, NEW i \in Ids, Live(i) PROVE \E t \in ActiveRows : i \in Bound(t)
    <3>1. NamedPart /\ ~InHand(i)
      BY <1>1, <2>1, ArmParts DEF EInv, Ready, InHand
    <3> QED
      BY <2>1, <3>1 DEF NamedPart, BoundOpen
  <2> QED
    BY <2>1 DEF ArmedOwned
<1> QED
  BY <1>1, ExposureInvariance, PTL

\* An intent becomes PREPARED by the step that inserts it.
LEMMA PreparedCauses ==
  ASSUME IInv, RInv, Next, NEW i \in Ids, Prepared(i) PROVE PreparedBy(i)
<1>1. intents[i].st = "NONE" /\ intents'[i].st = "PREPARED"
  BY DEF Prepared
<1>2. CASE \E k \in Ids : PreparedBy(k)
  <2>1. PICK k \in Ids : PreparedBy(k)
    BY <1>2
  <2>2. PICK n : Prepare(k, n)
    BY <2>1, PreparedFacts
  <2>3. i = k
    BY <1>1, <2>2, PrepareFields DEF IInv
  <2> QED
    BY <2>1, <2>3
<1>3. ~Settles
  <2>1. ASSUME Settles PROVE FALSE
    <3>1. PICK j \in Ids, st \in {"SUBMITTING", "ABORTED", "AMBIGUOUS", "CONFIRMED", "DEFINITE_REJECT"} : SetState(j, st)
      BY <2>1, SettledFacts
    <3>2. intents'[i].st = IF i = j THEN st ELSE intents[i].st
      BY <3>1, SetStateFields DEF IInv
    <3> QED
      BY <1>1, <3>1, <3>2
  <2> QED
    BY <2>1
<1> QED
  BY <1>1, <1>2, <1>3, Causes

LEMMA SaleAlone ==
  ASSUME IInv, RInv, EInv, NEW i \in Ids, PreparedBy(i), intents'[i].opn \in SellOps PROVE NoLive
<1>1. Core /\ HoldInv /\ KnowInv /\ BookInv /\ btc.free \in Int /\ op \in Op /\ rows \in [Trades -> Row]
  BY DEF EInv, RInv, IInv, TypeOK, ExchangeTypeOK
<1>2. PICK n : Prepare(i, n) /\ Fitting(n)
  BY <1>1, PreparedFits
<1>3. intents'[i] = n /\ n.opn \in SellOps
  BY <1>2, PrepareFields DEF IInv
<1>4. PICK e \in Ids : EntryOf(e, n.trade) /\ Current(e) /\ book[e].ph = "done"
  BY <1>2, <1>3 DEF Fitting
<1>5. ASSUME NEW o, NEW t, NEW p, NEW ep, NEW q, Prepare(i, NewPost(o, t, p, ep, q)) PROVE intents'[i].opn = o
  BY <1>5, PrepareFields, NewPostFacts DEF IInv
<1>6. btc.free > 0
  <2>1. ~PrepareEntry(i)
    BY <1>3, <1>5 DEF PrepareEntry, SellOps
  <2>2. ~CancelPrepare(i)
    <3>1. ASSUME CancelPrepare(i) PROVE intents'[i].opn = op.c /\ op.c \in CancelOps
      <4>1. Prepare(i, [NoIntent EXCEPT !.opn = op.c, !.trade = op.t, !.obj = op.x, !.st = "PREPARED"])
        BY <3>1 DEF CancelPrepare
      <4>2. intents'[i] = [NoIntent EXCEPT !.opn = op.c, !.trade = op.t, !.obj = op.x, !.st = "PREPARED"]
        BY <4>1, PrepareFields DEF IInv
      <4> QED
        BY <1>1, <4>2 DEF NoIntent, Op
    <3> QED
      BY <1>3, <3>1, OpKinds
  <2>3. ASSUME NEW h \in {"convert", "auto"}, NEW t \in Trades, NEW ep \in Endpoints, ConvertBegin(h, t, i, ep)
        PROVE  FALSE
    <3>1. Prepare(i, [NoIntent EXCEPT !.opn = "REPLACE_PROTECTION", !.trade = t, !.ep = ep,
                                      !.qty = rows[t].prot, !.st = "PREPARED"])
      BY <2>3 DEF ConvertBegin
    <3>2. intents'[i] = [NoIntent EXCEPT !.opn = "REPLACE_PROTECTION", !.trade = t, !.ep = ep,
                                         !.qty = rows[t].prot, !.st = "PREPARED"]
      BY <3>1, PrepareFields DEF IInv
    <3>3. intents'[i].opn = "REPLACE_PROTECTION"
      BY <3>2 DEF NoIntent
    <3> QED
      BY <1>3, <3>3 DEF SellOps, PostOps
  <2>4. CASE PrepareReplacement(i)
    BY <2>4 DEF PrepareReplacement
  <2>5. CASE EmergencySell(i)
    <3>1. SmallerOf(btc.free, op.q) > 0 /\ op.q \in Nat
      BY <1>1, <2>5 DEF EmergencySell, Op
    <3> QED
      BY <1>1, <3>1 DEF SmallerOf
  <2>6. ASSUME NEW ep \in Endpoints, PartialPlace(i, ep) PROVE btc.free > 0
    <3>1. SmallerOf(btc.free, rows[op.t].filled) > 0 /\ op.t \in Trades
      BY <2>6 DEF PartialPlace, IInv, ControlInv, StepInv, TradeSteps
    <3>2. rows[op.t].filled \in Nat
      BY <1>1, <3>1 DEF Row
    <3> QED
      BY <1>1, <3>1, <3>2 DEF SmallerOf
  <2> QED
    BY <2>1, <2>2, <2>3, <2>4, <2>5, <2>6 DEF PreparedBy
<1>7. \A j \in Ids : book[j].ph # "protecting"
  BY <1>1, <1>6, FreeIdle
<1>8. ASSUME NEW j \in Ids, book[j].ph = "working" PROVE FALSE
  <2>1. IsEntry(j) /\ Current(j)
    BY <1>1, <1>8 DEF Core, StockInv, CurrentInv, Live
  <2>2. j = e
    BY <1>4, <2>1, OneEntry DEF EntryOf, IsEntry
  <2> QED
    BY <1>4, <1>8, <2>2
<1> QED
  BY <1>7, <1>8 DEF NoLive, Live

\* A sale is prepared only when no order is live: not beside a BUY that may still fill, and
\* not beside the protection of the same BTC.
THEOREM SellAlone == Spec => SellReplaces
<1>1. ASSUME IInv, RInv, EInv, [Next]_vars
      PROVE  \A i \in Ids : Prepared(i) /\ intents'[i].opn \in SellOps => \A j \in Ids : ~Live(j)
  <2>1. ASSUME NEW i \in Ids, Prepared(i), intents'[i].opn \in SellOps PROVE NoLive
    <3>1. Next
      BY <1>1, <2>1 DEF Prepared, vars, durableVars
    <3> QED
      BY <1>1, <2>1, <3>1, PreparedCauses, SaleAlone
  <2> QED
    BY <2>1 DEF NoLive
<1> QED
  BY <1>1, ExposureInvariance, PTL DEF Spec, SellReplaces

\* An entry is prepared only in certainty: nothing is unresolved, nothing is live, and no
\* request that timed out can still land.
THEOREM EntryIsCertain == Spec => EntryNeedsCertainty
<1>1. ASSUME IInv, RInv, EInv, [Next]_vars
      PROVE  \A i \in Ids : Prepared(i) /\ intents'[i].opn = "ENTRY"
               => Unresolved = {} /\ \A j \in Ids : ~Live(j) /\ ~OnWire(j)
  <2>1. ASSUME NEW i \in Ids, Prepared(i), intents'[i].opn = "ENTRY"
        PROVE  Unresolved = {} /\ \A j \in Ids : ~Live(j) /\ ~OnWire(j)
    <3>1. Next
      BY <1>1, <2>1 DEF Prepared, vars, durableVars
    <3>2. Core /\ HoldInv /\ KnowInv /\ TypeOK /\ LedgerInv /\ BookInv
      BY <1>1 DEF EInv, IInv, RInv
    <3>3. PICK n : Prepare(i, n) /\ Fitting(n)
      BY <1>1, <2>1, <3>1, <3>2, PreparedCauses, PreparedFits
    <3>4. n.opn = "ENTRY"
      BY <2>1, <3>2, <3>3, PrepareFields
    <3>5. Unresolved = {} /\ NoLive
      BY <3>3, <3>4 DEF Fitting
    <3>6. ASSUME NEW j \in Ids, OnWire(j) PROVE FALSE
      <4>1. ~Exists(j) /\ Present(j)
        BY <3>2, <3>6 DEF BookInv, OnWire, Present
      <4>2. posts[j] = 1 /\ intents[j].st \in Landed
        BY <3>2, <4>1, PresentFacts
      <4>3. intents[j].st = "CONFIRMED"
        BY <3>5, <4>2 DEF Unresolved, Landed
      <4> QED
        BY <3>2, <4>1, <4>2, <4>3 DEF Core, KindInv
    <3> QED
      BY <3>5, <3>6 DEF NoLive
  <2> QED
    BY <2>1
<1> QED
  BY <1>1, ExposureInvariance, PTL DEF Spec, EntryNeedsCertainty

===============================================================================
