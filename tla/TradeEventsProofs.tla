-------------------------- MODULE TradeEventsProofs --------------------------
(***************************************************************************)
(* Proofs about TradeEvents: its types, the monotonicity of the lifecycle,  *)
(* that no journaled report is forgotten, and that a record agrees with the *)
(* exchange once everything is told.                                        *)
(***************************************************************************)
EXTENDS TradeEvents, TLAPS

-----------------------------------------------------------------------------
(***************************************************************************)
(* The inductive invariant.  A report is truthful about the past of its     *)
(* order, so a closed record is closed at the exchange too (Sound), and     *)
(* what a replay works on never falls behind the record it will replace.    *)
(***************************************************************************)

\* The SELL of the list works only once the BUY is filled, a protection only on bought BTC.
ExchangeInv ==
  /\ orders["entry"].st = "NONE" => orders["entry"].n = 0
  /\ orders["entry"].st = "FILLED" => orders["entry"].n > 0
  /\ orders["exit"].st # "NONE" => orders["entry"].st = "FILLED"
  /\ orders["protection"].st # "NONE" => orders["entry"].n > 0
  /\ \A o \in unresolved : Exists(o)

\* A report tells of an order that exists, and a final status stays final.
Truthful(b, e) ==
  /\ b[e.ord].st # "NONE"
  /\ e.st \in Closed => b[e.ord].st = e.st /\ b[e.ord].n = e.n

TruthInv ==
  /\ \A k \in 1 .. Len(stream) : Truthful(orders, stream[k])
  /\ \A k \in 1 .. Len(journal) : Truthful(orders, journal[k])

\* What a record claims of its orders.
Sound(b, r) ==
  /\ r.bound \in {{}, {"entry", "exit"}, {"entry", "protection"}}
  /\ r.bound # {} => b["entry"].st # "NONE"
  /\ r.lc = "AMBIGUOUS" => r.bound = {} /\ b["entry"].st # "NONE"
  /\ r.lc = "EXIT_FILLED" => \E o \in Sells \cap r.bound : b[o].st = "FILLED"
  /\ r.lc = "ENTRY_REJECTED" => b["entry"].st = "CANCELED" /\ b["entry"].n = 0

StaleSteps == {"stale", "staleCancel", "staleAgain"}

\* What the steps of the main thread rely on.
StepInv ==
  /\ pc \notin {"idle", "start", "down"} => Exists("entry")
  /\ pc \in {"finish", "bind", "answer"} => Exists(work.ord)
  /\ pc \in {"finish", "bind"} => row.lc \notin Terminal
  /\ pc \in StaleSteps => "entry" \in row.bound
  /\ work.got \in Closed => orders["entry"].st = work.got

Forward(old, new) ==
  /\ Rank(new) >= Rank(old)
  /\ old \in Terminal => new = old

ReplayInv ==
  pc = "replay" => /\ Sound(orders, work.r) /\ work.r.bound = row.bound
                   /\ Forward(row.lc, work.r.lc)

\* The first m entries of the journal have had their effect on r.
Heard(j, r, m) ==
  \A k \in 1 .. m :
    Names(r, j[k]) /\ Implied(j[k]) # "none"
      => r.lc \in Terminal \/ Rank(r.lc) >= Rank(Implied(j[k]))

\* Steps between which the record is up to date with the journal; after a crash it need
\* not be, until the replay of the reconciliation.
CurrentSteps == {"idle", "refreshed", "stale", "staleCancel", "staleAgain", "protGet",
                 "protCheck", "protCancel", "protAgain", "protPlace", "protDone"}

HeardInv ==
  /\ pc \in CurrentSteps => Heard(journal, row, Len(journal))
  /\ pc = "replay" => work.k <= Len(journal) + 1 /\ Heard(journal, work.r, work.k - 1)

IInv ==
  /\ TypeOK /\ ExchangeInv /\ TruthInv /\ Sound(orders, row) /\ StepInv /\ ReplayInv /\ HeardInv

-----------------------------------------------------------------------------
(***************************************************************************)
(* Reports and their effect on a record.                                    *)
(***************************************************************************)

\* Ranks are numbers, so that lifecycles compare (_state_rank).
LEMMA RankNat == \A lc \in Lifecycles : Rank(lc) \in Nat
BY DEF Rank, Lifecycles, Terminal

\* A report asks for a lifecycle of the table or for none (_event_updates).
LEMMA ImpliedType ==
  ASSUME NEW e \in Report
  PROVE  Implied(e) \in Lifecycles \cup {"none"}
BY DEF Report, Implied, Lifecycles, Orders, Sells, Open, Closed

\* Moving forward is reflexive and transitive.
LEMMA ForwardRefl == \A lc \in Lifecycles : Forward(lc, lc)
BY RankNat DEF Forward

LEMMA ForwardTrans ==
  ASSUME NEW a \in Lifecycles, NEW b \in Lifecycles, NEW c \in Lifecycles,
         Forward(a, b), Forward(b, c)
  PROVE  Forward(a, c)
<1>1. Rank(a) \in Nat /\ Rank(b) \in Nat /\ Rank(c) \in Nat
  BY RankNat
<1> QED BY <1>1 DEF Forward

\* A report moves a record forward and reaches at least the lifecycle it asks for, unless
\* the record is closed (_event_updates).
LEMMA AppliedForward ==
  ASSUME NEW r \in Row, NEW e \in Report
  PROVE  /\ Applied(r, e) \in Row
         /\ Applied(r, e).bound = r.bound
         /\ Forward(r.lc, Applied(r, e).lc)
         /\ Implied(e) # "none" => \/ Applied(r, e).lc \in Terminal
                                   \/ Rank(Applied(r, e).lc) >= Rank(Implied(e))
<1> DEFINE a == Applied(r, e)
<1>1. r.lc \in Lifecycles /\ r.filled \in Nat /\ r.prot \in Nat /\ r.bound \subseteq Orders
  BY DEF Row
<1>2. e.ord \in Orders /\ e.n \in Nat
  BY DEF Report
<1>3. Implied(e) \in Lifecycles \cup {"none"}
  BY ImpliedType
<1>4. a.lc = IF Implied(e) # "none" /\ Advances(r.lc, Implied(e)) THEN Implied(e) ELSE r.lc
  BY DEF Applied, Row
<1>5. a.bound = r.bound
  BY DEF Applied, Row
<1>6. a \in Row
  BY <1>1, <1>2, <1>3 DEF Applied, Row
<1>7. Rank(r.lc) \in Nat /\ (Implied(e) # "none" => Rank(Implied(e)) \in Nat)
  BY <1>1, <1>3, RankNat
<1>8. CASE Implied(e) # "none" /\ Advances(r.lc, Implied(e))
  BY <1>4, <1>5, <1>6, <1>7, <1>8 DEF Advances, Forward
<1>9. CASE ~(Implied(e) # "none" /\ Advances(r.lc, Implied(e)))
  BY <1>4, <1>5, <1>6, <1>7, <1>9 DEF Advances, Forward
<1> QED BY <1>8, <1>9

\* A truthful report about one of its orders leaves the claims of a record true.
LEMMA AppliedSound ==
  ASSUME TypeOK, ExchangeInv, NEW r \in Row, NEW e \in Report,
         Sound(orders, r), Truthful(orders, e), Names(r, e)
  PROVE  Sound(orders, Applied(r, e))
<1> DEFINE a == Applied(r, e)
<1>1. a.bound = r.bound
  BY AppliedForward
<1>2. a.lc = IF Implied(e) # "none" /\ Advances(r.lc, Implied(e)) THEN Implied(e) ELSE r.lc
  BY DEF Applied, Row
<1>3. CASE a.lc = r.lc
  BY <1>1, <1>3 DEF Sound
<1>4. CASE a.lc = Implied(e) /\ a.lc # r.lc /\ Implied(e) # "none"
  <2>1. a.lc # "AMBIGUOUS"
    BY <1>4 DEF Implied
  <2>2. a.lc = "EXIT_FILLED" => e.ord \in Sells \cap r.bound /\ orders[e.ord].st = "FILLED"
    BY <1>4 DEF Implied, Names, Truthful, Closed
  <2>3. a.lc = "ENTRY_REJECTED" => orders["entry"].st = "CANCELED" /\ orders["entry"].n = 0
    BY <1>4 DEF Implied, Truthful, Closed
  <2> QED BY <1>1, <2>1, <2>2, <2>3 DEF Sound
<1> QED BY <1>2, <1>3, <1>4

\* What had its effect on a record has it on every later form of the record.
LEMMA HeardForward ==
  ASSUME TypeOK, NEW r \in Row, NEW s \in Row, NEW m \in Nat, m <= Len(journal),
         s.bound = r.bound, Forward(r.lc, s.lc), Heard(journal, r, m)
  PROVE  Heard(journal, s, m)
<1> SUFFICES ASSUME NEW k \in 1 .. m, Names(s, journal[k]), Implied(journal[k]) # "none"
             PROVE  s.lc \in Terminal \/ Rank(s.lc) >= Rank(Implied(journal[k]))
  BY DEF Heard
<1>1. journal[k] \in Report
  BY DEF TypeOK
<1>2. Rank(r.lc) \in Nat /\ Rank(s.lc) \in Nat /\ Rank(Implied(journal[k])) \in Nat
  BY <1>1, ImpliedType, RankNat DEF Row
<1>3. r.lc \in Terminal \/ Rank(r.lc) >= Rank(Implied(journal[k]))
  BY DEF Heard, Names
<1> QED BY <1>2, <1>3 DEF Forward

\* Recording a truthful report: the record moves forward and stays sound, the journal
\* stays truthful and heard (record_exchange_event).
LEMMA RecordKeeps ==
  ASSUME TypeOK, ExchangeInv, TruthInv, Sound(orders, row), NEW e \in Report, Truthful(orders, e), Record(e)
  PROVE  /\ row' \in Row /\ row'.bound = row.bound /\ Forward(row.lc, row'.lc)
         /\ Sound(orders, row')
         /\ journal' \in Seq(Report)
         /\ \A k \in 1 .. Len(journal') : Truthful(orders, journal'[k])
         /\ Heard(journal, row, Len(journal)) =>
              \A k \in 1 .. Len(journal') :
                Names(row', journal'[k]) /\ Implied(journal'[k]) # "none"
                  => row'.lc \in Terminal \/ Rank(row'.lc) >= Rank(Implied(journal'[k]))
<1>1. row \in Row /\ journal \in Seq(Report)
  BY DEF TypeOK
<1>2. CASE Seen(e)
  <2>1. row' = row /\ journal' = journal
    BY <1>2 DEF Record
  <2> QED BY <1>1, <2>1, ForwardRefl DEF TruthInv, Heard, Row
<1>3. CASE ~Seen(e)
  <2>1. journal' = Append(journal, e)
    BY <1>3 DEF Record
  <2>2. row' = IF Names(row, e) THEN Applied(row, e) ELSE row
    BY <1>3 DEF Record
  <2>3. row' \in Row /\ row'.bound = row.bound /\ Forward(row.lc, row'.lc)
    BY <1>1, <2>2, AppliedForward, ForwardRefl DEF Row
  <2>4. Sound(orders, row')
    BY <1>1, <2>2, AppliedSound
  <2>5. /\ journal' \in Seq(Report) /\ Len(journal') = Len(journal) + 1
        /\ \A k \in 1 .. Len(journal) : journal'[k] = journal[k]
        /\ journal'[Len(journal) + 1] = e
    BY <1>1, <2>1
  <2>6. \A k \in 1 .. Len(journal') : Truthful(orders, journal'[k])
    BY <1>1, <2>5 DEF TruthInv
  <2>7. ASSUME Heard(journal, row, Len(journal)), NEW k \in 1 .. Len(journal'),
               Names(row', journal'[k]), Implied(journal'[k]) # "none"
        PROVE  row'.lc \in Terminal \/ Rank(row'.lc) >= Rank(Implied(journal'[k]))
    <3>1. CASE k = Len(journal) + 1
      <4>1. journal'[k] = e /\ Names(row, e)
        BY <2>3, <2>5, <2>7, <3>1 DEF Names
      <4> QED BY <1>1, <2>2, <2>7, <4>1, AppliedForward
    <3>2. CASE k \in 1 .. Len(journal)
      <4>1. Heard(journal, row', Len(journal))
        BY <1>1, <2>3, <2>7, HeardForward
      <4> QED BY <2>5, <2>7, <3>2, <4>1 DEF Heard
    <3> QED BY <1>1, <2>5, <3>1, <3>2
  <2> QED BY <2>3, <2>4, <2>5, <2>6, <2>7
<1> QED BY <1>2, <1>3

-----------------------------------------------------------------------------
(***************************************************************************)
(* What the exchange does to its orders: it never forgets one, and a closed *)
(* one stays as it is.                                                      *)
(***************************************************************************)
OrdersMove ==
  \A o \in Orders :
    /\ orders[o].st # "NONE" => orders'[o].st # "NONE"
    /\ orders[o].st \in Closed => orders'[o] = orders[o]

OrderType == [Orders -> [st : {"NONE"} \cup Open \cup Closed, n : Nat]]


\* A fill adds one lot; the last one starts the pending SELL.
LEMMA BuyFillsOrders ==
  ASSUME TypeOK, BuyFills
  PROVE  /\ orders["entry"].st \in Open
         /\ orders["entry"].n \in Nat
         /\ \/ orders' = [orders EXCEPT !["entry"] = [st |-> "PARTIALLY_FILLED", n |-> orders["entry"].n + 1]]
            \/ orders' = [orders EXCEPT !["entry"] = [st |-> "FILLED", n |-> orders["entry"].n + 1],
                                        !["exit"]  = [st |-> "NEW", n |-> Qty]]
BY DEF TypeOK, BuyFills, Orders

\* A cancellation closes one open order, or none.
LEMMA CancelListOrders ==
  ASSUME NEW step, CancelList(step)
  PROVE  \/ UNCHANGED orders
         \/ \E o \in Orders : /\ orders[o].st \in Open
                              /\ orders' = [orders EXCEPT ![o].st = "CANCELED"]
BY DEF CancelList, ListOrders, Orders

\* Every step moves the orders that way (the matching engine; cancel_order_list; place).
LEMMA OrdersStep ==
  ASSUME TypeOK, ExchangeInv, [Next]_vars
  PROVE  orders' \in OrderType /\ OrdersMove
<1> USE EventsAssumption
<1>1. orders \in OrderType
  BY DEF TypeOK, OrderType
<1>2. CASE UNCHANGED orders
  BY <1>1, <1>2 DEF OrdersMove
<1>3. CASE BuyFills
  <2> QED BY <1>1, <1>3, BuyFillsOrders DEF ExchangeInv, OrderType, OrdersMove, Orders, Open, Closed
<1>4. CASE EntryExpires
  BY <1>1, <1>4 DEF EntryExpires, OrderType, OrdersMove, Orders, Open, Closed
<1>5. ASSUME NEW o \in Sells, SellFills(o) PROVE orders' \in OrderType /\ OrdersMove
  BY <1>1, <1>5 DEF SellFills, OrderType, OrdersMove, Orders, Sells, Open, Closed
<1>6. CASE PostEntry
  BY <1>1, <1>6 DEF PostEntry, Post, Exists, OrderType, OrdersMove, Orders, Open, Closed
<1>7. ASSUME NEW step, CancelList(step) PROVE orders' \in OrderType /\ OrdersMove
  <2>1. CASE UNCHANGED orders
    BY <1>2, <2>1
  <2>2. ASSUME NEW o \in Orders, orders[o].st \in Open,
               orders' = [orders EXCEPT ![o].st = "CANCELED"]
        PROVE  orders' \in OrderType /\ OrdersMove
    BY <1>1, <2>2 DEF OrderType, OrdersMove, Open, Closed
  <2> QED BY <1>7, <2>1, <2>2, CancelListOrders
<1>8. CASE ProtectPlace
  <2>1. SellableQty \in Nat
    BY <1>1 DEF TypeOK, SellableQty, Held, OrderType, Orders, Row
  <2>2. CASE UNCHANGED orders
    BY <1>2, <2>2
  <2>3. CASE SellableQty > 0 /\ Post("protection", SellableQty)
    <3>1. ~Exists("protection")
      BY <1>8, <2>1, <2>3 DEF ProtectPlace
    <3> QED BY <1>1, <2>1, <2>3, <3>1 DEF Post, Exists, OrderType, OrdersMove, Orders, Open, Closed
  <2> QED BY <1>8, <2>2, <2>3 DEF ProtectPlace
<1>9. CASE UNCHANGED vars
  BY <1>2, <1>9 DEF vars
<1>10. CASE Exchange
  BY <1>3, <1>4, <1>5, <1>10 DEF Exchange
<1>11. CASE Stream \/ Process \/ Refresh
  <2>1. UNCHANGED orders
    BY <1>11 DEF Stream, Process, Refresh, Deliver, Reconnect, Crash, Restart, Reconcile,
       RefreshEntry, RefreshSell, Refreshed
  <2> QED BY <1>2, <2>1
<1>12. CASE Binding
  <2>1. PostEntry \/ UNCHANGED orders
    BY <1>12 DEF Binding, Finish, Bind, Answer, ReplayEvent, ReplayCommit
  <2> QED BY <1>2, <1>6, <2>1
<1>13. CASE Stale
  <2>1. StaleCancel \/ UNCHANGED orders
    BY <1>13 DEF Stale, StaleBegin, StaleGet
  <2> QED BY <1>2, <1>7, <2>1 DEF StaleCancel
<1>14. CASE Protect
  <2>1. ProtectCancel \/ ProtectPlace \/ UNCHANGED orders
    BY <1>14 DEF Protect, ProtectBegin, ProtectGet, ProtectCheck, ProtectAgain, ProtectDone
  <2> QED BY <1>2, <1>7, <1>8, <2>1 DEF ProtectCancel
<1> QED BY <1>9, <1>10, <1>11, <1>12, <1>13, <1>14 DEF Next

\* Under such a step a report stays truthful and a record sound.
LEMMA MoveKeeps ==
  ASSUME TypeOK, OrdersMove
  PROVE  /\ \A e \in Report : Truthful(orders, e) => Truthful(orders', e)
         /\ \A r \in Row : Sound(orders, r) => Sound(orders', r)
<1>1. orders \in OrderType
  BY DEF TypeOK, OrderType
<1>2. ASSUME NEW e \in Report, Truthful(orders, e) PROVE Truthful(orders', e)
  <2>1. e.ord \in Orders
    BY DEF Report
  <2> QED BY <1>1, <1>2, <2>1 DEF Truthful, OrdersMove, Exists, Closed
<1>3. ASSUME NEW r \in Row, Sound(orders, r) PROVE Sound(orders', r)
  BY <1>1, <1>3 DEF Sound, OrdersMove, Exists, Orders, Sells, Closed
<1> QED BY <1>2, <1>3

\* What a GET returns is truthful (_rest_event).
LEMMA GotTruthful ==
  ASSUME TypeOK, NEW o \in Orders, Exists(o)
  PROVE  Got(o) \in Report /\ Truthful(orders, Got(o))
BY DEF TypeOK, Got, Exists, Report, Truthful

\* ... and so is what the stream tells of a new status.
LEMMA ToldTruthful ==
  ASSUME NEW o \in Orders, NEW s \in Open \cup Closed, NEW q \in Nat,
         orders'[o].st = s, orders'[o].n = q
  PROVE  Told(o, s, q) \in Report /\ Truthful(orders', Told(o, s, q))
BY DEF Told, Report, Truthful, Exists, Open, Closed

\* Every step keeps what the exchange promises, and a POST names an order that exists (prepare_intent).
LEMMA ExchangeStep ==
  ASSUME IInv, [Next]_vars
  PROVE  ExchangeInv'
<1> USE EventsAssumption DEF IInv
<1>1. orders \in OrderType /\ orders' \in OrderType /\ OrdersMove
  BY OrdersStep DEF TypeOK, OrderType
<1>2. CASE UNCHANGED orders /\ unresolved' \subseteq unresolved
  BY <1>2 DEF ExchangeInv, Exists
<1>3. CASE BuyFills
  <2>1. UNCHANGED unresolved
    BY <1>3 DEF BuyFills, Quiet
  <2> QED BY <1>1, <1>3, <2>1, BuyFillsOrders DEF ExchangeInv, Exists, OrderType, OrdersMove, Orders, Open, Closed, TypeOK
<1>4. CASE EntryExpires
  BY <1>1, <1>4 DEF EntryExpires, Quiet, ExchangeInv, Exists, OrderType, Orders, Open, Closed
<1>5. ASSUME NEW o \in Sells, SellFills(o) PROVE ExchangeInv'
  BY <1>1, <1>5 DEF SellFills, Quiet, ExchangeInv, Exists, OrderType, Orders, Sells, Open, Closed
<1>6. CASE PostEntry
  <2>1. orders' = [orders EXCEPT !["entry"] = [st |-> "NEW", n |-> 0]] /\ ~Exists("entry")
        /\ unresolved' = unresolved \cup {"entry"}
    BY <1>6 DEF PostEntry, Post
  <2>2. orders["exit"].st = "NONE" /\ orders["protection"].st = "NONE"
    BY <2>1 DEF ExchangeInv, Exists
  <2> QED BY <1>1, <2>1, <2>2 DEF TypeOK, ExchangeInv, Exists, OrderType, Orders, Open, Closed
<1>7. ASSUME NEW step, CancelList(step), UNCHANGED unresolved PROVE ExchangeInv'
  <2>1. CASE UNCHANGED orders
    BY <1>2, <1>7, <2>1
  <2>2. ASSUME NEW o \in Orders, orders[o].st \in Open,
               orders' = [orders EXCEPT ![o].st = "CANCELED"]
        PROVE  ExchangeInv'
    BY <1>1, <1>7, <2>2 DEF TypeOK, ExchangeInv, Exists, OrderType, Orders, Open, Closed
  <2> QED BY <1>7, <2>1, <2>2, CancelListOrders
<1>8. CASE ProtectPlace
  <2>1. CASE UNCHANGED <<orders, unresolved>>
    BY <1>2, <2>1
  <2>2. CASE SellableQty > 0 /\ Post("protection", SellableQty)
    <3>1. orders["entry"].n > 0
      BY <1>1, <2>2 DEF SellableQty, Held, TypeOK, Row, OrderType, Orders
    <3> QED BY <1>1, <2>2, <3>1 DEF Post, TypeOK, ExchangeInv, Exists, OrderType, Orders
  <2> QED BY <1>8, <2>1, <2>2 DEF ProtectPlace
<1>9. CASE UNCHANGED vars
  BY <1>2, <1>9 DEF vars
<1>10. CASE Exchange
  BY <1>3, <1>4, <1>5, <1>10 DEF Exchange
<1>11. CASE Stream \/ Process \/ Refresh
  BY <1>2, <1>11 DEF Stream, Process, Refresh, Deliver, Reconnect, Crash, Restart, Reconcile,
     RefreshEntry, RefreshSell, Refreshed
<1>12. CASE Binding
  BY <1>2, <1>6, <1>12 DEF Binding, Finish, Bind, Answer, ReplayEvent, ReplayCommit
<1>13. CASE Stale
  BY <1>2, <1>7, <1>13 DEF Stale, StaleBegin, StaleGet, StaleCancel
<1>14. CASE Protect
  BY <1>2, <1>7, <1>8, <1>14 DEF Protect, ProtectBegin, ProtectGet, ProtectCheck,
     ProtectCancel, ProtectAgain, ProtectDone
<1> QED BY <1>9, <1>10, <1>11, <1>12, <1>13, <1>14 DEF Next

-----------------------------------------------------------------------------
(***************************************************************************)
(* Every step treats the record and the journal in one of seven ways.       *)
(***************************************************************************)
RowKept      == UNCHANGED <<row, journal>>
RowRecords   == \E e \in Report : Truthful(orders, e) /\ Record(e) /\ UNCHANGED orders
RowCommitted == pc = "replay" /\ work.k > Len(journal) /\ row' = work.r /\ UNCHANGED <<journal, orders>>
RowBinds     == pc = "bind" /\ row' = BoundRow(work.ord) /\ UNCHANGED <<journal, orders>>
RowAmbiguous == /\ ~Exists("entry") /\ Exists("entry")'
                /\ row' = [row EXCEPT !.lc = "AMBIGUOUS"] /\ UNCHANGED journal
RowRejected  == /\ pc \in {"stale", "staleAgain"} /\ UNCHANGED orders
                /\ orders["entry"].st \in Closed /\ orders["entry"].n = 0
                /\ row' = [row EXCEPT !.lc = "ENTRY_REJECTED"]
                /\ journal' = IF Seen(Got("entry")) THEN journal ELSE Append(journal, Got("entry"))
RowProtected == /\ pc = "protCheck" /\ work.got = "FILLED"
                /\ \E o \in Sells \cap row.bound : orders[o].st \in Open
                /\ row' = [row EXCEPT !.lc = "PROTECTION_ACTIVE"] /\ UNCHANGED <<journal, orders>>

LEMMA RowStep ==
  ASSUME IInv, [Next]_vars
  PROVE  RowKept \/ RowRecords \/ RowCommitted \/ RowBinds \/ RowAmbiguous \/ RowRejected
         \/ RowProtected
<1>1. TypeOK /\ StepInv
  BY DEF IInv
<1>2. "entry" \in Orders
  BY DEF Orders
<1>3. CASE UNCHANGED vars \/ Exchange
  BY <1>3 DEF vars, Exchange, BuyFills, EntryExpires, SellFills, Quiet, RowKept
<1>4. CASE Stream
  <2>1. CASE Deliver
    <3>1. stream \in Seq(Report) /\ stream # <<>> /\ Record(Head(stream)) /\ UNCHANGED orders
      BY <1>1, <2>1 DEF Deliver, TypeOK
    <3>2. Head(stream) \in Report /\ Truthful(orders, Head(stream))
      BY <3>1 DEF IInv, TruthInv
    <3> QED BY <3>1, <3>2 DEF RowRecords
  <2>2. CASE Reconnect
    BY <2>2 DEF Reconnect, RowKept
  <2> QED BY <1>4, <2>1, <2>2 DEF Stream
<1>5. CASE Process
  BY <1>5 DEF Process, Crash, Restart, RowKept
<1>6. CASE Binding
  <2>1. CASE PostEntry
    <3>1. RowKept \/ RowAmbiguous
      BY <1>1, <2>1 DEF PostEntry, Post, Exists, TypeOK, Orders, RowKept, RowAmbiguous
    <3> QED BY <3>1
  <2>2. CASE Bind
    BY <2>2 DEF Bind, RowBinds
  <2>3. CASE Answer
    <3>1. work.ord \in Orders /\ Exists(work.ord)
      BY <1>1, <2>3 DEF Answer, TypeOK, Work, StepInv
    <3>2. Record(Got(work.ord)) /\ UNCHANGED orders
      BY <2>3 DEF Answer
    <3> QED BY <1>1, <3>1, <3>2, GotTruthful DEF RowRecords
  <2>4. CASE ReplayCommit
    BY <2>4 DEF ReplayCommit, RowCommitted
  <2>5. CASE Finish \/ ReplayEvent
    BY <2>5 DEF Finish, ReplayEvent, RowKept
  <2> QED BY <1>6, <2>1, <2>2, <2>3, <2>4, <2>5 DEF Binding
<1>7. ASSUME NEW o \in Orders, Exists(o), Record(Got(o)), UNCHANGED orders PROVE RowRecords
  BY <1>1, <1>7, GotTruthful DEF RowRecords
<1>8. CASE Refresh
  <2>1. CASE RefreshEntry
    <3>1. Exists("entry")
      BY <1>1, <2>1 DEF RefreshEntry, StepInv
    <3> QED BY <1>2, <1>7, <2>1, <3>1 DEF RefreshEntry, RowKept
  <2>2. CASE RefreshSell
    <3>1. \A o \in BoundSell : o \in Orders /\ Exists(o)
      BY DEF BoundSell, Sells
    <3> QED BY <1>7, <2>2, <3>1 DEF RefreshSell, RowKept
  <2>3. CASE Reconcile \/ Refreshed
    BY <2>3 DEF Reconcile, Refreshed, RowKept
  <2> QED BY <1>8, <2>1, <2>2, <2>3 DEF Refresh
<1>9. CASE Stale
  <2>1. CASE StaleGet
    <3>1. Exists("entry")
      BY <1>1, <2>1 DEF StaleGet, StepInv
    <3> QED BY <1>2, <1>7, <2>1, <3>1 DEF StaleGet, GiveUp, RowKept, RowRejected
  <2>2. CASE StaleBegin \/ StaleCancel
    BY <2>2 DEF StaleBegin, StaleCancel, RowKept
  <2> QED BY <1>9, <2>1, <2>2 DEF Stale
<1>10. CASE Protect
  <2>1. CASE ProtectGet
    <3>1. Exists("entry")
      BY <1>1, <2>1 DEF ProtectGet, StepInv
    <3> QED BY <1>2, <1>7, <2>1, <3>1 DEF ProtectGet, GiveUp, RowKept
  <2>2. CASE ProtectAgain
    <3>1. Exists("entry")
      BY <1>1, <2>2 DEF ProtectAgain, StepInv
    <3> QED BY <1>2, <1>7, <2>2, <3>1 DEF ProtectAgain, GiveUp, RowKept
  <2>3. CASE ProtectCheck
    BY <2>3 DEF ProtectCheck, RowKept, RowProtected
  <2>4. CASE ProtectBegin \/ ProtectCancel \/ ProtectPlace \/ ProtectDone
    BY <2>4 DEF ProtectBegin, ProtectCancel, ProtectPlace, ProtectDone, RowKept
  <2> QED BY <1>10, <2>1, <2>2, <2>3, <2>4 DEF Protect
<1> QED BY <1>3, <1>4, <1>5, <1>6, <1>8, <1>9, <1>10 DEF Next

\* The record keeps its type and stays sound, the journal its type and its truth.
LEMMA SoundStep ==
  ASSUME IInv, [Next]_vars
  PROVE  /\ row' \in Row /\ journal' \in Seq(Report)
         /\ Sound(orders', row')
         /\ \A k \in 1 .. Len(journal') : Truthful(orders', journal'[k])
<1> USE EventsAssumption
<1>1. TypeOK /\ ExchangeInv /\ TruthInv /\ Sound(orders, row) /\ StepInv /\ ReplayInv
      /\ row \in Row /\ journal \in Seq(Report) /\ work \in Work
  BY DEF IInv, TypeOK
<1>2. OrdersMove
  BY <1>1, OrdersStep
<1>3. \A r \in Row : Sound(orders, r) => Sound(orders', r)
  BY <1>1, <1>2, MoveKeeps
<1>4. \A e \in Report : Truthful(orders, e) => Truthful(orders', e)
  BY <1>1, <1>2, MoveKeeps
<1>5. \A k \in 1 .. Len(journal) : journal[k] \in Report /\ Truthful(orders, journal[k])
  BY <1>1 DEF TruthInv
<1>6. CASE UNCHANGED journal /\ row' \in Row /\ Sound(orders, row')
  BY <1>1, <1>3, <1>4, <1>5, <1>6 DEF Sound, Exists
<1>7. CASE RowKept
  BY <1>1, <1>6, <1>7 DEF RowKept
<1>8. CASE RowRecords
  <2>1. PICK e \in Report : Truthful(orders, e) /\ Record(e) /\ UNCHANGED orders
    BY <1>8 DEF RowRecords
  <2>2. /\ row' \in Row /\ Sound(orders, row') /\ journal' \in Seq(Report)
        /\ \A k \in 1 .. Len(journal') : Truthful(orders, journal'[k])
    BY <1>1, <2>1, RecordKeeps
  <2> QED BY <2>1, <2>2 DEF Sound, Truthful, Exists
<1>9. CASE RowCommitted
  <2>1. work.r \in Row
    BY <1>1 DEF Work
  <2> QED BY <1>1, <1>6, <1>9, <2>1 DEF RowCommitted, ReplayInv
<1>10. CASE RowBinds
  <2>1. work.ord \in Orders /\ Exists(work.ord) /\ Exists("entry") /\ orders[work.ord].n \in Nat
    BY <1>1, <1>10 DEF RowBinds, StepInv, Work, TypeOK
  <2>2. BoundRow(work.ord) \in Row
    BY <1>1, <2>1 DEF BoundRow, Row, Lifecycles, Orders
  <2>3. Sound(orders, BoundRow(work.ord))
    BY <1>1, <2>1 DEF BoundRow, Row, Sound, Exists
  <2> QED BY <1>6, <1>10, <2>2, <2>3 DEF RowBinds
<1>11. CASE RowAmbiguous
  <2>1. row' \in Row /\ row'.bound = row.bound /\ row'.lc = "AMBIGUOUS" /\ UNCHANGED journal
    BY <1>1, <1>11 DEF RowAmbiguous, Row, Lifecycles
  <2>2. row.bound = {}
    BY <1>1, <1>11 DEF RowAmbiguous, Sound, Exists
  <2>3. Sound(orders', row')
    BY <1>11, <2>1, <2>2 DEF RowAmbiguous, Sound, Exists
  <2> QED BY <1>1, <1>4, <1>5, <2>1, <2>3
<1>12. CASE RowRejected
  <2>1. row' \in Row /\ row'.bound = row.bound /\ row'.lc = "ENTRY_REJECTED" /\ UNCHANGED orders
    BY <1>1, <1>12 DEF RowRejected, Row, Lifecycles
  <2>2. orders["entry"].st = "CANCELED" /\ orders["entry"].n = 0
    BY <1>1, <1>12 DEF RowRejected, Closed, ExchangeInv
  <2>3. Sound(orders', row')
    BY <1>1, <2>1, <2>2 DEF Sound, Exists
  <2>4. Got("entry") \in Report /\ Truthful(orders, Got("entry"))
    BY <1>1, <2>2, GotTruthful DEF Exists, Orders
  <2>5. journal' = journal \/ journal' = Append(journal, Got("entry"))
    BY <1>12 DEF RowRejected
  <2>6. journal' \in Seq(Report) /\ \A k \in 1 .. Len(journal') : journal'[k] \in Report /\ Truthful(orders, journal'[k])
    BY <1>1, <1>5, <2>4, <2>5
  <2> QED BY <1>4, <2>1, <2>3, <2>6
<1>13. CASE RowProtected
  <2>1. row' \in Row /\ row'.bound = row.bound /\ row'.lc = "PROTECTION_ACTIVE" /\ UNCHANGED journal
    BY <1>1, <1>13 DEF RowProtected, Row, Lifecycles
  <2>2. Sound(orders, row')
    BY <1>1, <2>1 DEF Sound
  <2> QED BY <1>6, <2>1, <2>2
<1> QED BY <1>7, <1>8, <1>9, <1>10, <1>11, <1>12, <1>13, RowStep

\* What Emit adds to the stream, which is nothing while the process is down.
Tells(reports) == stream' = stream \/ stream' = stream \o reports

\* The stream tells the truth too.
LEMMA StreamStep ==
  ASSUME IInv, [Next]_vars
  PROVE  stream' \in Seq(Report) /\ \A k \in 1 .. Len(stream') : Truthful(orders', stream'[k])
<1> USE EventsAssumption
<1>1. TypeOK /\ ExchangeInv /\ TruthInv /\ stream \in Seq(Report) /\ orders \in OrderType
  BY DEF IInv, TypeOK, OrderType
<1>2. \A e \in Report : Truthful(orders, e) => Truthful(orders', e)
  BY <1>1, OrdersStep, MoveKeeps
<1>3. \A k \in 1 .. Len(stream) : stream[k] \in Report /\ Truthful(orders, stream[k])
  BY <1>1 DEF TruthInv
<1>4. CASE UNCHANGED stream
  BY <1>1, <1>2, <1>3, <1>4
<1>5. CASE stream' = <<>>
  BY <1>5
<1>6. CASE stream # <<>> /\ stream' = Tail(stream)
  BY <1>1, <1>2, <1>3, <1>6
<1>7. ASSUME NEW e \in Report, Truthful(orders', e), Tells(<<e>>)
      PROVE  stream' \in Seq(Report) /\ \A k \in 1 .. Len(stream') : Truthful(orders', stream'[k])
  BY <1>1, <1>2, <1>3, <1>7 DEF Tells
<1>8. ASSUME NEW e \in Report, NEW f \in Report, Truthful(orders', e), Truthful(orders', f), Tells(<<e, f>>)
      PROVE  stream' \in Seq(Report) /\ \A k \in 1 .. Len(stream') : Truthful(orders', stream'[k])
  <2>1. CASE stream' = stream
    BY <1>4, <2>1
  <2>2. CASE stream' = stream \o <<e, f>>
    <3>1. stream' \in Seq(Report) /\ Len(stream') = Len(stream) + 2
      BY <1>1, <1>8, <2>2
    <3>2. \A k \in 1 .. Len(stream) : stream'[k] = stream[k]
      BY <1>1, <2>2
    <3>3. stream'[Len(stream) + 1] = e /\ stream'[Len(stream) + 2] = f
      BY <1>1, <2>2
    <3> QED BY <1>1, <1>2, <1>3, <1>8, <3>1, <3>2, <3>3
  <2> QED BY <1>8, <2>1, <2>2 DEF Tells
<1> DEFINE Goal == stream' \in Seq(Report) /\ \A k \in 1 .. Len(stream') : Truthful(orders', stream'[k])
<1> SUFFICES Goal
  OBVIOUS
<1> HIDE DEF Goal
<1>9. ASSUME NEW o \in Orders, NEW s \in Open \cup Closed, NEW q \in Nat,
             orders'[o].st = s, orders'[o].n = q, Tells(<<Told(o, s, q)>>)
      PROVE  Goal
  BY <1>7, <1>9, ToldTruthful DEF Goal
<1>10. /\ \A o \in Orders : orders[o].n \in Nat
       /\ "entry" \in Orders /\ "protection" \in Orders
       /\ {"NEW", "PARTIALLY_FILLED", "CANCELED"} \subseteq Open \cup Closed
  BY <1>1 DEF OrderType, Orders, Open, Closed
<1>11. CASE BuyFills
  <2> DEFINE n == orders["entry"].n + 1
  <2>1. n \in Nat
    BY <1>1 DEF OrderType, Orders
  <2>2. CASE n < Qty
    <3>1. /\ orders' = [orders EXCEPT !["entry"] = [st |-> "PARTIALLY_FILLED", n |-> n]]
          /\ Tells(<<Told("entry", "PARTIALLY_FILLED", n)>>)
      BY <1>11, <2>2 DEF BuyFills, Emit, Tells
    <3>2. orders'["entry"].st = "PARTIALLY_FILLED" /\ orders'["entry"].n = n
      BY <1>1, <3>1 DEF OrderType, Orders
    <3> QED BY <1>9, <1>10, <2>1, <3>1, <3>2 DEF Tells
  <2>3. CASE ~(n < Qty)
    <3>1. /\ orders' = [orders EXCEPT !["entry"] = [st |-> "FILLED", n |-> n],
                                      !["exit"]  = [st |-> "NEW", n |-> Qty]]
          /\ Tells(<<Told("entry", "FILLED", n), Told("exit", "NEW", Qty)>>)
      BY <1>11, <2>3 DEF BuyFills, Emit, Tells
    <3>2. /\ orders'["entry"] = [st |-> "FILLED", n |-> n]
          /\ orders'["exit"] = [st |-> "NEW", n |-> Qty]
      BY <1>1, <3>1 DEF OrderType, Orders
    <3>3. /\ Told("entry", "FILLED", n) \in Report /\ Truthful(orders', Told("entry", "FILLED", n))
          /\ Told("exit", "NEW", Qty) \in Report /\ Truthful(orders', Told("exit", "NEW", Qty))
      BY <2>1, <3>2, ToldTruthful DEF Orders, Open, Closed
    <3> QED BY <1>8, <3>1, <3>3 DEF Goal
  <2> QED BY <2>2, <2>3
<1>12. CASE EntryExpires
  <2>1. orders'["entry"].st = "CANCELED" /\ orders'["entry"].n = orders["entry"].n
    BY <1>1, <1>12 DEF EntryExpires, OrderType, Orders
  <2>2. Tells(<<Told("entry", "CANCELED", orders["entry"].n)>>)
    BY <1>12 DEF EntryExpires, Emit, Tells
  <2> QED BY <1>9, <1>10, <2>1, <2>2 DEF Tells
<1>13. ASSUME NEW o \in Sells, SellFills(o) PROVE Goal
  <2>1. o \in Orders /\ orders'[o].st = "FILLED" /\ orders'[o].n = orders[o].n
    BY <1>1, <1>13 DEF SellFills, OrderType, Sells
  <2>2. Tells(<<Told(o, "FILLED", orders[o].n)>>)
    BY <1>13 DEF SellFills, Emit, Tells
  <2> QED BY <1>9, <1>10, <2>1, <2>2 DEF Tells, Closed
<1>14. ASSUME NEW o \in Orders, NEW q \in Nat, Post(o, q) PROVE Goal
  <2>1. orders'[o].st = "NEW" /\ orders'[o].n = q
    BY <1>1, <1>14 DEF Post, OrderType
  <2>2. Tells(<<Told(o, "NEW", q)>>)
    BY <1>14 DEF Post, Emit, Tells
  <2> QED BY <1>9, <2>1, <2>2 DEF Open
<1>15. ASSUME NEW step, CancelList(step) PROVE Goal
  <2>1. CASE UNCHANGED stream
    BY <1>4, <2>1 DEF Goal
  <2>2. ASSUME NEW o \in ListOrders, orders' = [orders EXCEPT ![o].st = "CANCELED"],
               Tells(<<Told(o, "CANCELED", orders[o].n)>>)
        PROVE  Goal
    <3>1. o \in Orders
      BY DEF ListOrders, Orders
    <3>2. orders'[o].st = "CANCELED" /\ orders'[o].n = orders[o].n
      BY <1>1, <2>2, <3>1 DEF OrderType
    <3> QED BY <1>9, <1>10, <2>2, <3>1, <3>2 DEF Closed
  <2> QED BY <1>15, <2>1, <2>2 DEF CancelList, Emit, Tells
<1>16. CASE ProtectPlace
  <2>1. SellableQty \in Nat
    BY <1>1 DEF TypeOK, SellableQty, Held, OrderType, Orders, Row
  <2>2. CASE UNCHANGED stream
    BY <1>4, <2>2 DEF Goal
  <2>3. CASE Post("protection", SellableQty)
    BY <1>10, <1>14, <2>1, <2>3 DEF Post
  <2> QED BY <1>16, <2>2, <2>3 DEF ProtectPlace
<1>17. CASE UNCHANGED vars \/ Process \/ Refresh
  BY <1>4, <1>5, <1>17 DEF vars, Process, Crash, Restart, Refresh, Reconcile, RefreshEntry,
     RefreshSell, Refreshed, Goal
<1>18. CASE Exchange
  BY <1>11, <1>12, <1>13, <1>18 DEF Exchange
<1>19. CASE Stream
  BY <1>5, <1>6, <1>19 DEF Stream, Deliver, Reconnect, Goal
<1>20. CASE Binding
  BY <1>4, <1>14, <1>20 DEF Orders, Binding, PostEntry, Finish, Bind, Answer, ReplayEvent, ReplayCommit, Goal
<1>21. CASE Stale
  BY <1>4, <1>15, <1>21 DEF Stale, StaleBegin, StaleGet, StaleCancel, Goal
<1>22. CASE Protect
  BY <1>4, <1>15, <1>16, <1>22 DEF Protect, ProtectBegin, ProtectGet, ProtectCheck,
     ProtectCancel, ProtectAgain, ProtectDone, Goal
<1> QED BY <1>17, <1>18, <1>19, <1>20, <1>21, <1>22 DEF Next

-----------------------------------------------------------------------------
(***************************************************************************)
(* Types.                                                                   *)
(***************************************************************************)
\* The step of the main thread and its locals; the rest of the types.
ThreadType == pc \in Steps /\ work \in Work

CountType ==
  /\ unresolved \subseteq Orders
  /\ fails \in 0 .. MaxFails /\ crashes \in 0 .. MaxCrashes

FlagType == recovery \in BOOLEAN /\ lost \in BOOLEAN

Died == crashes < MaxCrashes /\ crashes' = crashes + 1

\* Every failure is counted, and only a crash is a crash.
LEMMA FailStep ==
  ASSUME Next
  PROVE  (UNCHANGED fails \/ Fail) /\ (UNCHANGED crashes \/ Died)
<1>1. CASE Exchange \/ Stream \/ Process \/ Binding
  BY <1>1, Zenon DEF Exchange, BuyFills, EntryExpires, SellFills, Quiet, Stream, Deliver, Reconnect,
     Process, Crash, Died, Restart, Binding, PostEntry, Finish, Bind, Answer, ReplayEvent, ReplayCommit
<1>2. CASE Refresh
  <2>1. CASE Reconcile
    BY <2>1, Zenon DEF Reconcile
  <2>2. CASE RefreshEntry \/ RefreshSell
    BY <2>2 DEF RefreshEntry, RefreshSell
  <2>3. CASE Refreshed
    BY <2>3 DEF Refreshed
  <2> QED BY <1>2, <2>1, <2>2, <2>3 DEF Refresh
<1>3. CASE Stale
  BY <1>3 DEF Stale, StaleBegin, StaleGet, StaleCancel, CancelList, GiveUp
<1>4. CASE Protect
  BY <1>4, Zenon DEF Protect, ProtectBegin, ProtectGet, ProtectCheck, CancelList, GiveUp,
     ProtectCancel, ProtectAgain, ProtectPlace, ProtectDone
<1> QED BY <1>1, <1>2, <1>3, <1>4 DEF Next

\* An order becomes unresolved by a POST and ceases to be by finish_intent.
LEMMA UnresolvedStep ==
  ASSUME unresolved \subseteq Orders, Next
  PROVE  unresolved' \subseteq Orders
<1>1. CASE Exchange \/ Stream \/ Process \/ Binding
  BY <1>1 DEF Exchange, BuyFills, EntryExpires, SellFills, Quiet, Stream, Deliver, Reconnect, Post,
     Orders, Process, Crash, Restart, Binding, PostEntry, Finish, Bind, Answer, ReplayEvent, ReplayCommit
<1>2. CASE Refresh \/ Stale
  BY <1>2 DEF Refresh, Reconcile, RefreshEntry, RefreshSell, Refreshed, Stale, StaleBegin,
     StaleGet, StaleCancel
<1>3. CASE Protect
  BY <1>3 DEF Protect, ProtectBegin, ProtectGet, ProtectCheck, ProtectCancel, ProtectAgain,
     ProtectPlace, Post, ProtectDone, Orders
<1> QED BY <1>1, <1>2, <1>3 DEF Next

\* The loss of reports stays known.
LEMMA LostStep ==
  ASSUME Next
  PROVE  lost' = lost \/ lost' = TRUE \/ lost' = (lost \/ stream # <<>>)
BY Zenon DEF Next, Exchange, BuyFills, EntryExpires, SellFills, Stream, Deliver, Reconnect,
   Process, Crash, Restart, Binding, PostEntry, Post, Emit, Finish, Bind, Answer, ReplayEvent,
   ReplayCommit, Refresh, Reconcile, RefreshEntry, RefreshSell, Refreshed, Stale, StaleBegin,
   StaleGet, StaleCancel, CancelList, Protect, ProtectBegin, ProtectGet, ProtectCheck,
   ProtectCancel, ProtectAgain, ProtectPlace, ProtectDone

\* A handler sets partial_recovery, clears it, leaves it or adds a condition.
LEMMA RecoveryStep ==
  ASSUME recovery \in BOOLEAN, Next
  PROVE  recovery' \in BOOLEAN
<1>1. CASE Exchange \/ Stream \/ Process \/ Binding
  BY <1>1, Zenon DEF Exchange, BuyFills, EntryExpires, SellFills, Quiet, Stream, Deliver, Reconnect,
     Process, Crash, Restart, Binding, PostEntry, Finish, Bind, Answer, ReplayEvent, ReplayCommit
<1>2. CASE Refresh
  BY <1>2, Zenon DEF Refresh, Reconcile, RefreshEntry, RefreshSell, Refreshed
<1>3. CASE Stale
  BY <1>3, Zenon DEF Stale, StaleBegin, StaleGet, StaleCancel, GiveUp
<1>4. CASE Protect
  BY <1>4, Zenon DEF Protect, ProtectBegin, ProtectGet, ProtectCheck, ProtectCancel,
     ProtectAgain, ProtectPlace, ProtectDone, GiveUp
<1> QED BY <1>1, <1>2, <1>3, <1>4 DEF Next

\* Bounds and flags.
LEMMA CountStep ==
  ASSUME CountType, FlagType, [Next]_vars
  PROVE  CountType' /\ FlagType'
<1>1. CASE UNCHANGED vars
  BY <1>1 DEF vars, CountType, FlagType
<1>2. CASE Next
  <2>1. fails' \in 0 .. MaxFails /\ crashes' \in 0 .. MaxCrashes
    BY <1>2, FailStep, EventsAssumption DEF CountType, Fail, Died
  <2>2. unresolved' \subseteq Orders
    BY <1>2, UnresolvedStep DEF CountType
  <2>3. lost' \in BOOLEAN
    BY <1>2, LostStep DEF FlagType
  <2>4. recovery' \in BOOLEAN
    BY <1>2, RecoveryStep DEF FlagType
  <2> QED BY <2>1, <2>2, <2>3, <2>4 DEF CountType, FlagType
<1> QED BY <1>1, <1>2

\* The locals keep their types whatever field a step sets.
LEMMA WorkUpdate ==
  ASSUME NEW w \in Work
  PROVE  /\ [w EXCEPT !.k = 1] \in Work
         /\ \A next \in Resume : [w EXCEPT !.k = 1, !.next = next] \in Work
         /\ \A o \in Orders, next \in Resume : [w EXCEPT !.ord = o, !.next = next] \in Work
         /\ \A r \in Row, next \in Resume : [w EXCEPT !.k = 1, !.r = r, !.next = next] \in Work
         /\ \A r \in Row, next \in Resume, g \in Open \cup Closed :
              [w EXCEPT !.k = 1, !.r = r, !.next = next, !.got = g] \in Work
         /\ \A r \in Row : [w EXCEPT !.k = @ + 1, !.r = r] \in Work
<1>1. 1 \in Nat \ {0} /\ w.k + 1 \in Nat \ {0}
  BY DEF Work
<1>2. ASSUME NEW o \in Orders, NEW next \in Resume
      PROVE  [w EXCEPT !.ord = o, !.next = next] \in Work
  BY DEF Work
<1>3. ASSUME NEW next \in Resume PROVE [w EXCEPT !.k = 1, !.next = next] \in Work
  BY <1>1 DEF Work
<1>4. ASSUME NEW r \in Row, NEW next \in Resume
      PROVE  [w EXCEPT !.k = 1, !.r = r, !.next = next] \in Work
  BY <1>1 DEF Work
<1>5. ASSUME NEW r \in Row, NEW next \in Resume, NEW g \in Open \cup Closed
      PROVE  [w EXCEPT !.k = 1, !.r = r, !.next = next, !.got = g] \in Work
  BY <1>1 DEF Work
<1>6. ASSUME NEW r \in Row PROVE [w EXCEPT !.k = @ + 1, !.r = r] \in Work
  BY <1>1 DEF Work
<1>7. [w EXCEPT !.k = 1] \in Work
  BY <1>1 DEF Work
<1> QED BY <1>2, <1>3, <1>4, <1>5, <1>6, <1>7

\* After a cancellation, answered or not, the thread is at a step (cancel_order_list).
LEMMA CancelListStep ==
  ASSUME NEW step \in Steps, CancelList(step)
  PROVE  pc' \in {step, "idle"} /\ pc' \in Steps
BY DEF CancelList, Steps

\* Every step leaves the thread at a step, with locals of their types.
LEMMA ThreadStep ==
  ASSUME IInv, [Next]_vars
  PROVE  ThreadType'
<1> USE DEF ThreadType
<1>1. ThreadType /\ TypeOK /\ StepInv /\ row \in Row /\ row' \in Row
  BY SoundStep DEF IInv, TypeOK
<1>2. work.ord \in Orders /\ work.k \in Nat \ {0} /\ work.r \in Row /\ work.next \in Resume
  BY <1>1 DEF Work
<1>3. /\ Resume \subseteq Steps /\ "idle" \in Resume
      /\ "entry" \in Orders /\ "protection" \in Orders
  BY DEF Resume, Steps, Orders
<1>4. CASE UNCHANGED vars \/ Exchange \/ Stream
  BY <1>1, <1>4 DEF vars, Exchange, BuyFills, EntryExpires, SellFills, Quiet, Stream, Deliver, Reconnect
<1>5. CASE Process
  <2>1. CASE Crash
    <3>1. [work EXCEPT !.k = 1, !.next = "idle"] \in Work
      BY <1>1, <1>3, WorkUpdate
    <3>2. pc' = "down" /\ work' = [work EXCEPT !.k = 1, !.next = "idle"]
      BY <2>1 DEF Crash
    <3> QED BY <3>1, <3>2 DEF Steps
  <2>2. CASE Restart
    <3>1. pc' = "start" /\ work' = work
      BY <2>2 DEF Restart
    <3> QED BY <1>1, <3>1 DEF Steps
  <2> QED BY <1>5, <2>1, <2>2 DEF Process
<1>6. ASSUME NEW r \in Row, NEW next \in Resume, pc' = "replay",
             work' = [work EXCEPT !.k = 1, !.r = r, !.next = next]
      PROVE  ThreadType'
  BY <1>1, <1>6, WorkUpdate DEF Steps
<1>7. CASE Binding
  <2>1. CASE PostEntry
    <3>1. CASE pc' = "finish" /\ work' = [work EXCEPT !.ord = "entry", !.next = "idle"]
      BY <1>1, <1>3, <3>1, WorkUpdate DEF Steps
    <3> QED BY <1>1, <2>1, <3>1 DEF PostEntry
  <2>2. CASE Finish
    BY <1>1, <2>2 DEF Finish, Steps
  <2>3. CASE Bind
    BY <1>1, <1>6, <2>3 DEF Bind, Replay, Steps, Resume
  <2>4. CASE Answer
    BY <1>1, <1>2, <1>6, <2>4 DEF Answer, Replay
  <2>5. CASE ReplayEvent
    <3>1. journal[work.k] \in Report
      BY <1>1, <1>2, <2>5 DEF ReplayEvent, TypeOK
    <3>2. Applied(work.r, journal[work.k]) \in Row
      BY <1>2, <3>1, AppliedForward
    <3>3. PICK r \in Row : work' = [work EXCEPT !.k = @ + 1, !.r = r]
      BY <1>2, <2>5, <3>2 DEF ReplayEvent
    <3>4. pc' = pc
      BY <2>5 DEF ReplayEvent
    <3>5. [work EXCEPT !.k = @ + 1, !.r = r] \in Work
      BY <1>1, WorkUpdate
    <3> QED BY <1>1, <3>3, <3>4, <3>5
  <2>6. CASE ReplayCommit
    BY <1>1, <1>2, <1>3, <2>6, WorkUpdate DEF ReplayCommit
  <2> QED BY <1>7, <2>1, <2>2, <2>3, <2>4, <2>5, <2>6 DEF Binding
<1>8. CASE Refresh
  <2>1. CASE Reconcile
    <3>1. CASE UNCHANGED work /\ pc' \in {"idle", "refresh"}
      BY <1>1, <3>1 DEF Steps
    <3>2. ASSUME NEW o \in unresolved, pc' = "finish",
                 work' = [work EXCEPT !.ord = o, !.next = "refresh"]
          PROVE  ThreadType'
      BY <1>1, <3>2, WorkUpdate DEF TypeOK, Steps, Resume
    <3> QED BY <2>1, <3>1, <3>2 DEF Reconcile
  <2>2. CASE RefreshEntry
    BY <1>1, <2>2 DEF RefreshEntry, Steps
  <2>3. CASE RefreshSell
    BY <1>1, <1>6, <2>3 DEF RefreshSell, Replay, Resume
  <2>4. CASE Refreshed
    BY <1>1, <2>4 DEF Refreshed, Steps
  <2> QED BY <1>8, <2>1, <2>2, <2>3, <2>4 DEF Refresh
<1>9. CASE Stale
  <2>1. CASE StaleBegin
    BY <1>1, <2>1 DEF StaleBegin, Steps
  <2>2. CASE StaleGet
    BY <1>1, <2>2 DEF StaleGet, GiveUp, Steps
  <2>3. CASE StaleCancel
    BY <1>1, <2>3, CancelListStep DEF StaleCancel, Steps
  <2> QED BY <1>9, <2>1, <2>2, <2>3 DEF Stale
<1>10. CASE Protect
  <2>1. CASE ProtectBegin
    BY <1>1, <2>1 DEF ProtectBegin, Steps
  <2>2. CASE ProtectGet
    <3>1. orders["entry"].st \in Open \cup Closed
      BY <1>1, <2>2 DEF ProtectGet, StepInv, Exists, TypeOK, Orders
    <3>2. CASE GiveUp
      BY <1>1, <3>2 DEF GiveUp, Steps
    <3>3. CASE pc' = "replay" /\ work' = [work EXCEPT !.k = 1, !.r = row', !.next = "protCheck",
                                                      !.got = orders["entry"].st]
      BY <1>1, <3>1, <3>3, WorkUpdate DEF Steps, Resume
    <3> QED BY <2>2, <3>2, <3>3 DEF ProtectGet
  <2>3. CASE ProtectCheck
    BY <1>1, <2>3 DEF ProtectCheck, Steps
  <2>4. CASE ProtectCancel
    BY <1>1, <2>4, CancelListStep DEF ProtectCancel, Steps
  <2>5. CASE ProtectAgain
    BY <1>1, <1>6, <2>5 DEF ProtectAgain, Replay, GiveUp, Steps, Resume
  <2>6. CASE ProtectPlace
    <3>1. CASE pc' = "idle" /\ UNCHANGED work
      BY <1>1, <3>1 DEF Steps
    <3>2. CASE pc' = "finish" /\ work' = [work EXCEPT !.ord = "protection", !.next = "protDone"]
      BY <1>1, <1>3, <3>2, WorkUpdate DEF Steps, Resume
    <3> QED BY <2>6, <3>1, <3>2 DEF ProtectPlace
  <2>7. CASE ProtectDone
    BY <1>1, <2>7 DEF ProtectDone, Steps
  <2> QED BY <1>10, <2>1, <2>2, <2>3, <2>4, <2>5, <2>6, <2>7 DEF Protect
<1> QED BY <1>4, <1>5, <1>7, <1>8, <1>9, <1>10 DEF Next

\* Every step keeps the types.
LEMMA TypeStep ==
  ASSUME IInv, [Next]_vars
  PROVE  TypeOK'
<1>1. TypeOK /\ ExchangeInv /\ CountType /\ FlagType
  BY DEF IInv, TypeOK, CountType, FlagType
<1>2. orders' \in OrderType
  BY <1>1, OrdersStep
<1>3. CountType' /\ FlagType'
  BY <1>1, CountStep
<1> QED BY <1>2, <1>3, SoundStep, StreamStep, ThreadStep
        DEF OrderType, ThreadType, CountType, FlagType, TypeOK

-----------------------------------------------------------------------------
(***************************************************************************)
(* The steps of the main thread.                                            *)
(***************************************************************************)
\* A record that posts or binds is open: what is posted is bought and not sold.
LEMMA PostOpen ==
  ASSUME IInv
  PROVE  /\ ~Exists("entry") => row.lc \notin Terminal /\ row.bound = {}
         /\ SellableQty > 0 => row.lc \notin Terminal
<1>1. TypeOK /\ ExchangeInv /\ Sound(orders, row) /\ row \in Row
  BY DEF IInv, TypeOK
<1>2. ASSUME ~Exists("entry") PROVE row.lc \notin Terminal /\ row.bound = {}
  BY <1>1, <1>2 DEF Sound, Exists, Terminal
<1>3. ASSUME SellableQty > 0 PROVE row.lc \notin Terminal
  <2>1. \A o \in Sells : orders[o].st # "FILLED"
    BY <1>1, <1>3 DEF SellableQty, Held, Row
  <2>2. orders["entry"].n > 0
    BY <1>1, <1>3 DEF SellableQty, Held, Row, TypeOK, Orders
  <2> QED BY <1>1, <2>1, <2>2 DEF Sound, Terminal
<1> QED BY <1>2, <1>3

\* The facts of StepInv about the step and its order, one by one.
StepFacts ==
  /\ pc \notin {"idle", "start", "down"} => Exists("entry")
  /\ pc \in {"finish", "bind", "answer"} => Exists(work.ord)
  /\ pc \in {"finish", "bind"} => row.lc \notin Terminal

\* Every step keeps them: what is bound exists, and its record is open (bind_exit_intent).
LEMMA StepFactsStep ==
  ASSUME IInv, [Next]_vars
  PROVE  StepFacts'
<1>1. /\ TypeOK /\ ExchangeInv /\ Sound(orders, row) /\ StepFacts /\ work \in Work
      /\ row \in Row /\ orders \in OrderType /\ orders' \in OrderType /\ OrdersMove
  BY OrdersStep DEF IInv, TypeOK, StepInv, StepFacts, OrderType
<1>2. /\ \A o \in Orders : Exists(o) => Exists(o)'
      /\ "entry" \in Orders /\ "protection" \in Orders /\ work.ord \in Orders
  BY <1>1 DEF OrdersMove, Exists, Orders, Work
<1>3. "entry" \in row.bound => Exists("entry")
  BY <1>1 DEF Sound, Exists
<1>4. CASE UNCHANGED <<pc, work, row>>
  BY <1>1, <1>2, <1>4 DEF StepFacts
<1>5. CASE pc' \notin {"finish", "bind", "answer"} /\ (pc' \in {"idle", "start", "down"} \/ Exists("entry"))
  BY <1>2, <1>5 DEF StepFacts
<1>6. CASE UNCHANGED vars \/ Exchange
  BY <1>4, <1>6 DEF vars, Exchange, BuyFills, EntryExpires, SellFills, Quiet
<1>7. CASE Stream \/ Process
  BY <1>5, <1>7 DEF Stream, Deliver, Reconnect, LockFree, Process, Crash, Restart
<1>8. CASE Binding
  <2>1. CASE PostEntry
    <3>1. Exists("entry")'
      BY <1>1, <1>2, <2>1 DEF PostEntry, Post, Exists, OrderType
    <3>2. CASE pc' = "finish" /\ work' = [work EXCEPT !.ord = "entry", !.next = "idle"] /\ UNCHANGED row
      <4>1. work'.ord = "entry" /\ row'.lc \notin Terminal
        BY <1>1, <2>1, <3>2, PostOpen DEF PostEntry, Work
      <4> QED BY <3>1, <3>2, <4>1 DEF StepFacts
    <3>3. CASE pc' = "idle"
      BY <1>5, <3>3
    <3> QED BY <2>1, <3>2, <3>3 DEF PostEntry
  <2>2. CASE Finish
    BY <1>1, <1>2, <2>2 DEF Finish, StepFacts
  <2>3. CASE Bind
    BY <1>1, <1>2, <2>3 DEF Bind, Replay, StepFacts
  <2>4. CASE Answer \/ ReplayEvent
    BY <1>1, <1>5, <2>4 DEF Answer, Replay, ReplayEvent, StepFacts
  <2>5. CASE ReplayCommit
    BY <1>1, <1>5, <2>5 DEF ReplayCommit, Work, Resume, StepFacts
  <2> QED BY <1>8, <2>1, <2>2, <2>3, <2>4, <2>5 DEF Binding
<1>9. CASE Refresh
  <2>1. CASE Reconcile
    <3>1. CASE pc' = "idle"
      BY <1>5, <3>1
    <3>2. CASE Active /\ pc' = "refresh"
      BY <1>5, <3>2 DEF Active
    <3>3. ASSUME NEW o \in unresolved, Active, pc' = "finish", UNCHANGED <<row, orders>>,
                 work' = [work EXCEPT !.ord = o, !.next = "refresh"]
          PROVE  StepFacts'
      <4>1. work'.ord = o /\ Exists(o) /\ Exists("entry") /\ row'.lc \notin Terminal
        BY <1>1, <3>3 DEF Work, ExchangeInv, Active
      <4> QED BY <3>3, <4>1 DEF StepFacts, Exists
    <3> QED BY <2>1, <3>1, <3>2, <3>3 DEF Reconcile
  <2>2. CASE RefreshEntry \/ RefreshSell
    BY <1>1, <1>5, <2>2 DEF RefreshEntry, RefreshSell, Replay, StepFacts
  <2>3. CASE Refreshed
    BY <1>1, <1>5, <2>3 DEF Refreshed, StepFacts
  <2> QED BY <1>9, <2>1, <2>2, <2>3 DEF Refresh
<1>10. CASE Stale
  BY <1>1, <1>3, <1>5, <1>10 DEF Stale, StaleBegin, StaleGet, StaleCancel, CancelList, GiveUp, StepFacts
<1>11. CASE Protect
  <2>1. CASE ProtectBegin
    BY <1>3, <1>5, <2>1 DEF ProtectBegin
  <2>2. CASE ProtectGet \/ ProtectAgain
    BY <1>1, <1>5, <2>2 DEF ProtectGet, ProtectAgain, Replay, GiveUp, StepFacts
  <2>3. CASE ProtectCheck
    BY <1>1, <1>5, <2>3 DEF ProtectCheck, StepFacts
  <2>4. CASE ProtectCancel \/ ProtectDone
    BY <1>1, <1>5, <2>4 DEF ProtectCancel, CancelList, ProtectDone, StepFacts
  <2>5. CASE ProtectPlace
    <3>1. CASE pc' = "idle"
      BY <1>5, <3>1
    <3>2. CASE /\ SellableQty > 0 /\ Post("protection", SellableQty) /\ pc' = "finish"
               /\ work' = [work EXCEPT !.ord = "protection", !.next = "protDone"]
      <4>1. work'.ord = "protection" /\ row'.lc \notin Terminal /\ Exists("entry")
        BY <1>1, <2>5, <3>2, PostOpen DEF ProtectPlace, Work, StepFacts
      <4>2. Exists("protection")'
        BY <1>1, <1>2, <3>2 DEF Post, Exists, OrderType
      <4> QED BY <1>2, <3>2, <4>1, <4>2 DEF StepFacts
    <3> QED BY <2>5, <3>1, <3>2 DEF ProtectPlace
  <2> QED BY <1>11, <2>1, <2>2, <2>3, <2>4, <2>5 DEF Protect
<1> QED BY <1>6, <1>7, <1>8, <1>9, <1>10, <1>11 DEF Next

\* What a GET returned stays true of an order that was final.
LEMMA GotStep ==
  ASSUME IInv, [Next]_vars
  PROVE  work'.got \in Closed => orders'["entry"].st = work'.got
<1>1. /\ TypeOK /\ StepInv /\ work \in Work /\ OrdersMove /\ "entry" \in Orders
      /\ Open \cap Closed = {}
  BY OrdersStep DEF IInv, TypeOK, Orders, Open, Closed
<1>2. CASE work'.got = work.got
  BY <1>1, <1>2 DEF StepInv, OrdersMove
<1>3. CASE work'.got = orders["entry"].st /\ UNCHANGED orders
  BY <1>3
<1>4. CASE UNCHANGED work
  BY <1>2, <1>4
<1>5. CASE UNCHANGED vars \/ Exchange \/ Stream \/ Process
  BY <1>1, <1>2, <1>4, <1>5 DEF vars, Exchange, BuyFills, EntryExpires, SellFills, Quiet, Stream,
     Deliver, Reconnect, Process, Crash, Restart, Work
<1>6. CASE Binding
  BY <1>1, <1>2, <1>6 DEF Binding, PostEntry, Finish, Bind, Answer, Replay, ReplayEvent,
     ReplayCommit, Work
<1>7. CASE Refresh
  BY <1>1, <1>2, <1>7 DEF Refresh, Reconcile, RefreshEntry, RefreshSell, Replay, Refreshed, Work
<1>8. CASE Stale
  BY <1>4, <1>8 DEF Stale, StaleBegin, StaleGet, StaleCancel, GiveUp
<1>9. CASE Protect
  <2>1. CASE ProtectGet
    BY <1>1, <1>3, <1>4, <2>1 DEF ProtectGet, GiveUp, Work
  <2>2. CASE ProtectAgain \/ ProtectPlace
    BY <1>1, <1>2, <2>2 DEF ProtectAgain, Replay, GiveUp, ProtectPlace, Work
  <2>3. CASE ProtectBegin \/ ProtectCheck \/ ProtectCancel \/ ProtectDone
    BY <1>4, <2>3 DEF ProtectBegin, ProtectCheck, ProtectCancel, ProtectDone
  <2> QED BY <1>9, <2>1, <2>2, <2>3 DEF Protect
<1> QED BY <1>5, <1>6, <1>7, <1>8, <1>9 DEF Next

\* Only a binding changes which orders a record names (bind_exit_intent, set_trade_identifiers).
LEMMA BoundKept ==
  ASSUME IInv, [Next]_vars, pc # "bind"
  PROVE  row'.bound = row.bound
<1>1. /\ TypeOK /\ ExchangeInv /\ TruthInv /\ Sound(orders, row) /\ ReplayInv /\ row \in Row
  BY DEF IInv, TypeOK
<1>2. CASE RowRecords
  <2>1. PICK e \in Report : Truthful(orders, e) /\ Record(e)
    BY <1>2 DEF RowRecords
  <2> QED BY <1>1, <2>1, RecordKeeps
<1>3. CASE RowCommitted
  BY <1>1, <1>3 DEF RowCommitted, ReplayInv
<1>4. CASE RowAmbiguous \/ RowRejected \/ RowProtected
  BY <1>1, <1>4 DEF RowAmbiguous, RowRejected, RowProtected, Row
<1> QED BY <1>2, <1>3, <1>4, RowStep DEF RowKept, RowBinds

\* An entry that is expired is bound (_expire_stale_entry).
LEMMA StaleStep ==
  ASSUME IInv, [Next]_vars, pc' \in StaleSteps
  PROVE  "entry" \in row'.bound
<1> USE DEF StaleSteps
<1>1. /\ work \in Work /\ (pc \in StaleSteps => "entry" \in row.bound)
  BY DEF IInv, StepInv, TypeOK
<1>2. SUFFICES pc # "bind" /\ "entry" \in row.bound
  BY BoundKept
<1>3. CASE UNCHANGED vars \/ Exchange
  BY <1>1, <1>3 DEF vars, Exchange, BuyFills, EntryExpires, SellFills, Quiet
<1>4. CASE Stream \/ Process
  BY <1>4 DEF Stream, Deliver, Reconnect, LockFree, Process, Crash, Restart
<1>5. CASE Binding
  BY <1>1, <1>5 DEF Binding, PostEntry, Finish, Bind, Answer, Replay, ReplayEvent, ReplayCommit,
     Work, Resume
<1>6. CASE Refresh
  BY <1>1, <1>6 DEF Refresh, Reconcile, RefreshEntry, RefreshSell, Replay, Refreshed, LockFree
<1>7. CASE Stale
  BY <1>1, <1>7 DEF Stale, StaleBegin, StaleGet, StaleCancel, CancelList, GiveUp
<1>8. CASE Protect
  BY <1>8 DEF Protect, ProtectBegin, ProtectGet, ProtectCheck, ProtectCancel, ProtectAgain,
     ProtectPlace, ProtectDone, CancelList, GiveUp, Replay
<1> QED BY <1>3, <1>4, <1>5, <1>6, <1>7, <1>8 DEF Next

-----------------------------------------------------------------------------
(***************************************************************************)
(* The replay.                                                              *)
(***************************************************************************)
ReplayStarts == work'.k = 1 /\ work'.r = row'
ReplayStays  == pc = "replay" /\ UNCHANGED <<work, row, journal>>

\* A replay begins with the record, goes on, or waits for the exchange.
LEMMA ReplayCases ==
  ASSUME IInv, [Next]_vars, pc' = "replay"
  PROVE  ReplayStarts \/ ReplayStays \/ ReplayEvent
<1>1. work \in Work
  BY DEF IInv, TypeOK
<1>2. CASE UNCHANGED vars \/ Exchange
  BY <1>2 DEF vars, Exchange, BuyFills, EntryExpires, SellFills, Quiet, ReplayStays
<1>3. CASE Stream \/ Process
  BY <1>3 DEF Stream, Deliver, Reconnect, LockFree, Process, Crash, Restart
<1>4. CASE Binding
  BY <1>1, <1>4 DEF Binding, PostEntry, Finish, Bind, Answer, Replay, ReplayCommit, ReplayStarts,
     Work, Resume
<1>5. CASE Refresh
  BY <1>1, <1>5 DEF Refresh, Reconcile, RefreshEntry, RefreshSell, Refreshed, Replay,
     ReplayStarts, LockFree, Work
<1>6. CASE Stale
  BY <1>6 DEF Stale, StaleBegin, StaleGet, StaleCancel, CancelList, GiveUp
<1>7. CASE Protect
  BY <1>1, <1>7 DEF Protect, ProtectBegin, ProtectGet, ProtectCheck, ProtectCancel, ProtectAgain,
     ProtectPlace, ProtectDone, CancelList, GiveUp, Replay, ReplayStarts, Work
<1> QED BY <1>2, <1>3, <1>4, <1>5, <1>6, <1>7 DEF Next

\* The copy a replay works on stays sound and never falls behind the record; one more
\* entry of the journal has had its effect on it (replay_exchange_events_for_trade).
LEMMA ReplayStep ==
  ASSUME IInv, [Next]_vars
  PROVE  /\ ReplayInv'
         /\ pc' = "replay" => /\ work'.k <= Len(journal') + 1
                              /\ Heard(journal', work'.r, work'.k - 1)
<1> SUFFICES ASSUME pc' = "replay"
             PROVE  /\ Sound(orders', work'.r) /\ work'.r.bound = row'.bound
                    /\ Forward(row'.lc, work'.r.lc)
                    /\ work'.k <= Len(journal') + 1
                    /\ Heard(journal', work'.r, work'.k - 1)
  BY DEF ReplayInv
<1>1. /\ TypeOK /\ ExchangeInv /\ TruthInv /\ ReplayInv /\ HeardInv
      /\ work \in Work /\ row \in Row /\ work.r \in Row /\ work.k \in Nat \ {0}
      /\ journal \in Seq(Report)
  BY DEF IInv, TypeOK, Work
<1>2. /\ row' \in Row /\ journal' \in Seq(Report) /\ Sound(orders', row')
  BY SoundStep
<1>3. \A r \in Row : Sound(orders, r) => Sound(orders', r)
  BY <1>1, OrdersStep, MoveKeeps
<1>4. CASE ReplayStarts
  <2>1. work'.r = row' /\ work'.k = 1 /\ Forward(row'.lc, row'.lc)
    BY <1>2, <1>4, ForwardRefl DEF ReplayStarts, Row
  <2> QED BY <1>2, <2>1 DEF Heard
<1>5. CASE ReplayStays
  BY <1>1, <1>3, <1>5 DEF ReplayStays, ReplayInv, HeardInv
<1>6. CASE ReplayEvent
  <2> DEFINE e == journal[work.k]
  <2>1. work.k \in 1 .. Len(journal) /\ UNCHANGED <<row, journal, orders>>
    BY <1>1, <1>6 DEF ReplayEvent
  <2>2. e \in Report /\ Truthful(orders, e)
    BY <1>1, <2>1 DEF TruthInv
  <2>3. /\ work'.k = work.k + 1
        /\ work'.r = IF Names(work.r, e) THEN Applied(work.r, e) ELSE work.r
    BY <1>1, <1>6 DEF ReplayEvent, Work
  <2>4. /\ Sound(orders, work.r) /\ work.r.bound = row.bound /\ Forward(row.lc, work.r.lc)
        /\ Heard(journal, work.r, work.k - 1)
    BY <1>1, <1>6 DEF ReplayEvent, ReplayInv, HeardInv
  <2>5. work'.r \in Row /\ work'.r.bound = work.r.bound /\ Forward(work.r.lc, work'.r.lc)
    BY <1>1, <2>2, <2>3, AppliedForward, ForwardRefl DEF Row
  <2>6. Sound(orders, work'.r)
    BY <1>1, <2>2, <2>3, <2>4, AppliedSound
  <2>7. Forward(row.lc, work'.r.lc)
    BY <1>1, <2>4, <2>5, ForwardTrans DEF Row
  <2>8. Heard(journal, work'.r, work.k - 1)
    BY <1>1, <2>1, <2>4, <2>5, HeardForward
  <2>9. Names(work'.r, e) /\ Implied(e) # "none"
          => work'.r.lc \in Terminal \/ Rank(work'.r.lc) >= Rank(Implied(e))
    BY <1>1, <2>2, <2>3, <2>5, AppliedForward DEF Names
  <2>10. Heard(journal, work'.r, work.k)
    <3> SUFFICES ASSUME NEW k \in 1 .. work.k, Names(work'.r, journal[k]), Implied(journal[k]) # "none"
                 PROVE  work'.r.lc \in Terminal \/ Rank(work'.r.lc) >= Rank(Implied(journal[k]))
      BY DEF Heard
    <3>1. CASE k = work.k
      BY <2>9, <3>1
    <3>2. CASE k \in 1 .. (work.k - 1)
      BY <2>8, <3>2 DEF Heard
    <3> QED BY <1>1, <3>1, <3>2
  <2>11. work'.k - 1 = work.k /\ work'.k <= Len(journal) + 1
    BY <1>1, <2>1, <2>3
  <2> QED BY <2>1, <2>4, <2>5, <2>6, <2>7, <2>10, <2>11
<1> QED BY <1>4, <1>5, <1>6, ReplayCases

-----------------------------------------------------------------------------
(***************************************************************************)
(* Nothing is forgotten.                                                    *)
(***************************************************************************)
\* A step that relies on the journal follows one that does, ends a replay, or finds
\* nothing to reconcile (verified_reconcile).
LEMMA CurrentCases ==
  ASSUME IInv, [Next]_vars, pc' \in CurrentSteps
  PROVE  pc \in CurrentSteps \/ RowCommitted \/ (RowKept /\ ~Active)
<1> USE DEF CurrentSteps
<1>1. CASE UNCHANGED vars \/ Exchange
  BY <1>1 DEF vars, Exchange, BuyFills, EntryExpires, SellFills, Quiet
<1>2. CASE Stream \/ Process
  BY <1>2 DEF Stream, Deliver, Reconnect, LockFree, Process, Crash, Restart
<1>3. CASE Binding
  BY <1>3 DEF Binding, PostEntry, Finish, Bind, Answer, Replay, ReplayEvent, ReplayCommit, RowCommitted
<1>4. CASE Refresh
  <2>1. CASE Reconcile
    BY <2>1 DEF Reconcile, LockFree, RowKept
  <2>2. CASE RefreshEntry \/ RefreshSell \/ Refreshed
    BY <2>2 DEF RefreshEntry, RefreshSell, Replay, Refreshed
  <2> QED BY <1>4, <2>1, <2>2 DEF Refresh
<1>5. CASE Stale
  BY <1>5 DEF Stale, StaleBegin, StaleGet, StaleCancel
<1>6. CASE Protect
  BY <1>6 DEF Protect, ProtectBegin, ProtectGet, ProtectCheck, ProtectCancel, ProtectAgain,
     ProtectPlace, ProtectDone
<1> QED BY <1>1, <1>2, <1>3, <1>4, <1>5, <1>6 DEF Next

\* A SELL that is open, with the BUY filled, is protection of an open record (_place_partial_protection).
LEMMA ProtectedForward ==
  ASSUME IInv, RowProtected
  PROVE  Forward(row.lc, "PROTECTION_ACTIVE")
<1>1. /\ Sound(orders, row) /\ StepInv /\ row \in Row /\ work.got = "FILLED"
  BY DEF IInv, TypeOK, RowProtected
<1>2. PICK o \in Sells \cap row.bound : orders[o].st \in Open
  BY DEF RowProtected
<1>3. orders["entry"].st = "FILLED"
  BY <1>1 DEF StepInv, Closed
<1>4. \A x \in Sells \cap row.bound : x = o
  BY <1>1, <1>2 DEF Sound, Sells, Orders
<1>5. row.lc \notin {"AMBIGUOUS", "EXIT_FILLED", "ENTRY_REJECTED"}
  BY <1>1, <1>2, <1>3, <1>4 DEF Sound, Open
<1>6. row.lc \in Lifecycles
  BY <1>1 DEF Row
<1> QED BY <1>5, <1>6 DEF Forward, Rank, Lifecycles, Terminal

\* Whenever the thread relies on it, the record has heard the whole journal.
LEMMA HeardStep ==
  ASSUME IInv, [Next]_vars, pc' \in CurrentSteps
  PROVE  Heard(journal', row', Len(journal'))
<1>1. /\ TypeOK /\ ExchangeInv /\ TruthInv /\ Sound(orders, row) /\ HeardInv
      /\ row \in Row /\ journal \in Seq(Report) /\ work.k \in Nat /\ Len(journal) \in Nat
  BY DEF IInv, TypeOK, Work
<1>2. row' \in Row
  BY SoundStep
<1>3. CASE RowCommitted
  <2>1. work.k - 1 = Len(journal) /\ Heard(journal, work.r, work.k - 1)
    BY <1>1, <1>3 DEF RowCommitted, HeardInv
  <2> QED BY <1>3, <2>1 DEF RowCommitted
<1>4. CASE RowKept /\ ~Active
  <2>1. row.lc \in Terminal \/ row.bound = {}
    BY <1>1, <1>4 DEF Active, Sound, Exists
  <2> QED BY <1>4, <2>1 DEF RowKept, Heard, Names
<1>5. CASE pc \in CurrentSteps
  <2>1. Heard(journal, row, Len(journal))
    BY <1>1, <1>5 DEF HeardInv
  <2>2. CASE RowKept
    BY <2>1, <2>2 DEF RowKept
  <2>3. CASE RowRecords
    <3>1. PICK e \in Report : Truthful(orders, e) /\ Record(e)
      BY <2>3 DEF RowRecords
    <3> QED BY <1>1, <2>1, <3>1, RecordKeeps DEF Heard
  <2>4. CASE RowBinds
    BY <1>5, <2>4 DEF RowBinds, CurrentSteps
  <2>5. CASE RowAmbiguous
    <3>1. row.bound = {}
      BY <2>5, PostOpen DEF RowAmbiguous
    <3>2. row'.bound = {}
      BY <1>1, <2>5, <3>1 DEF RowAmbiguous, Row
    <3> QED BY <3>2 DEF Heard, Names
  <2>6. CASE RowRejected
    <3>1. row'.lc \in Terminal
      BY <1>1, <2>6 DEF RowRejected, Row, Terminal
    <3> QED BY <3>1 DEF Heard
  <2>7. CASE RowProtected
    <3>1. row'.bound = row.bound /\ row'.lc = "PROTECTION_ACTIVE" /\ UNCHANGED journal
      BY <1>1, <2>7 DEF RowProtected, Row
    <3>2. Forward(row.lc, row'.lc)
      BY <2>7, <3>1, ProtectedForward
    <3> QED BY <1>1, <1>2, <2>1, <3>1, <3>2, HeardForward
  <2> QED BY <1>3, <2>2, <2>3, <2>4, <2>5, <2>6, <2>7, RowStep
<1> QED BY <1>3, <1>4, <1>5, CurrentCases

-----------------------------------------------------------------------------
(***************************************************************************)
(* The theorems.                                                            *)
(***************************************************************************)
\* Before the first POST nothing is claimed.
LEMMA InitIInv == Init => IInv
<1> SUFFICES ASSUME Init PROVE IInv
  OBVIOUS
<1> USE EventsAssumption
<1>1. /\ row = [lc |-> "ENTRY_SUBMITTED", filled |-> 0, prot |-> 0, bound |-> {}]
      /\ row \in Row
  BY DEF Init, Row, Lifecycles
<1>2. work = [ord |-> "entry", k |-> 1, r |-> row, got |-> "NEW", next |-> "idle"]
      /\ 1 \in Nat \ {0}
  BY DEF Init
<1>3. work \in Work
  BY <1>1, <1>2 DEF Work, Orders, Open, Resume
<1>4. stream \in Seq(Report) /\ journal \in Seq(Report) /\ Len(stream) = 0 /\ Len(journal) = 0
  BY DEF Init
<1>5. TypeOK
  <2>1. orders \in [Orders -> [st : {"NONE"} \cup Open \cup Closed, n : Nat]]
    BY DEF Init
  <2>2. recovery \in BOOLEAN /\ lost \in BOOLEAN
    BY DEF Init
  <2>3. unresolved \subseteq Orders /\ fails \in 0 .. MaxFails /\ crashes \in 0 .. MaxCrashes
    BY DEF Init
  <2>4. pc \in Steps
    BY DEF Init, Steps
  <2> QED BY <1>1, <1>3, <1>4, <2>1, <2>2, <2>3, <2>4 DEF TypeOK
<1>6. ExchangeInv /\ TruthInv
  BY <1>4 DEF Init, ExchangeInv, TruthInv, Orders
<1>7. Sound(orders, row)
  BY <1>1 DEF Sound
<1>8. StepInv /\ ReplayInv /\ HeardInv
  BY <1>1, <1>2, <1>4 DEF Init, StepInv, ReplayInv, HeardInv, CurrentSteps, StaleSteps, Heard, Closed
<1> QED BY <1>5, <1>6, <1>7, <1>8 DEF IInv

\* Every handler, report and exchange event keeps the invariant.
LEMMA NextIInv == IInv /\ [Next]_vars => IInv'
<1> SUFFICES ASSUME IInv, [Next]_vars PROVE IInv'
  OBVIOUS
<1>1. TypeOK' /\ ExchangeInv'
  BY TypeStep, ExchangeStep
<1>2. TruthInv'
  BY SoundStep, StreamStep DEF TruthInv
<1>3. Sound(orders', row')
  BY SoundStep
<1>4. StepInv'
  BY StepFactsStep, GotStep, StaleStep DEF StepInv, StepFacts
<1>5. ReplayInv' /\ HeardInv'
  BY ReplayStep, HeardStep DEF HeardInv
<1> QED BY <1>1, <1>2, <1>3, <1>4, <1>5 DEF IInv

\* The inductive invariant holds: reports are truthful, records sound, and what the main
\* thread relies on has heard the journal (record_exchange_event, verified_reconcile).
THEOREM EventsInvariant == Spec => []IInv
BY InitIInv, NextIInv, PTL DEF Spec

\* The variables keep their types, the counters their bounds (TypeOK).
THEOREM EventsTypeCorrect == Spec => []TypeOK
<1>1. IInv => TypeOK
  BY DEF IInv
<1> QED BY <1>1, EventsInvariant, PTL

\* Once the lock is free, no journaled report about an order of the record is without effect
\* (NoReportForgotten; replay_exchange_events_for_trade).
THEOREM ReportsNotForgotten == Spec => []NoReportForgotten
<1>1. IInv => NoReportForgotten
  BY DEF IInv, HeardInv, Heard, CurrentSteps, NoReportForgotten
<1> QED BY <1>1, EventsInvariant, PTL

\* Each of the seven ways moves the record forward, or is a binding of an open record.
LEMMA StepMonotone ==
  ASSUME IInv, [Next]_vars
  PROVE  /\ Rank(row'.lc) >= Rank(row.lc) \/ pc = "bind"
         /\ row.lc \in Terminal => row'.lc = row.lc
<1>1. /\ TypeOK /\ ExchangeInv /\ TruthInv /\ Sound(orders, row) /\ StepInv /\ ReplayInv
      /\ row \in Row /\ row.lc \in Lifecycles
  BY DEF IInv, TypeOK, Row
<1>2. CASE Forward(row.lc, row'.lc)
  BY <1>2 DEF Forward
<1>3. CASE RowKept
  BY <1>1, <1>2, <1>3, ForwardRefl DEF RowKept
<1>4. CASE RowRecords
  <2>1. PICK e \in Report : Truthful(orders, e) /\ Record(e)
    BY <1>4 DEF RowRecords
  <2> QED BY <1>1, <1>2, <2>1, RecordKeeps
<1>5. CASE RowCommitted
  BY <1>1, <1>2, <1>5 DEF RowCommitted, ReplayInv
<1>6. CASE RowBinds
  BY <1>1, <1>6 DEF RowBinds, StepInv
<1>7. CASE RowAmbiguous
  <2>1. row.lc \notin Terminal /\ row'.lc = "AMBIGUOUS"
    BY <1>1, <1>7, PostOpen DEF RowAmbiguous, Row
  <2> QED BY <1>1, <1>2, <2>1 DEF Forward, Rank, Lifecycles, Terminal
<1>8. CASE RowRejected
  <2>1. row'.lc = "ENTRY_REJECTED"
    BY <1>1, <1>8 DEF RowRejected, Row
  <2>2. row.lc # "AMBIGUOUS"
    BY <1>1, <1>8 DEF RowRejected, StepInv, StaleSteps, Sound
  <2>3. \A o \in Sells : orders[o].st = "NONE"
    BY <1>1, <1>8 DEF RowRejected, ExchangeInv, Sells, Orders
  <2>4. row.lc # "EXIT_FILLED"
    BY <1>1, <2>3 DEF Sound
  <2> QED BY <1>1, <1>2, <2>1, <2>2, <2>4 DEF Forward, Rank, Lifecycles, Terminal
<1>9. CASE RowProtected
  <2>1. row'.lc = "PROTECTION_ACTIVE"
    BY <1>1, <1>9 DEF RowProtected, Row
  <2> QED BY <1>2, <1>9, <2>1, ProtectedForward
<1> QED BY <1>3, <1>4, <1>5, <1>6, <1>7, <1>8, <1>9, RowStep

\* A record never falls back and never leaves a final lifecycle, whatever order stream
\* reports, GETs, replays and crashes come in (LifecycleMonotone; _event_updates).
THEOREM LifecycleMovesForward == Spec => LifecycleMonotone
<1>1. IInv /\ [Next]_vars =>
        [/\ Rank(row'.lc) >= Rank(row.lc) \/ pc = "bind"
         /\ row.lc \in Terminal => row'.lc = row.lc]_vars
  BY StepMonotone
<1> QED BY <1>1, EventsInvariant, PTL DEF Spec, LifecycleMonotone

-----------------------------------------------------------------------------
(***************************************************************************)
(* The second invariant: the record agrees with the exchange.  The quantity *)
(* of an open record is the one of the last entry report of the journal;    *)
(* while nothing is lost the last news of the exchange is the last report   *)
(* of the stream or, once that is delivered, of the journal; and no delivery *)
(* of an entry report is dropped as a repetition, for each has a key of its *)
(* own.                                                                     *)
(***************************************************************************)
\* The last entry report among the first m of s.
LastEntry(s, k, m) ==
  k \in 1 .. m /\ s[k].ord = "entry" /\ \A l \in (k + 1) .. m : s[l].ord # "entry"

NoEntry(s) == \A k \in 1 .. Len(s) : s[k].ord # "entry"

\* It is the one whose quantity the record has.
FilledBy(s, r, m) ==
  \A k \in 1 .. m : LastEntry(s, k, m) /\ Names(r, s[k]) => r.filled = s[k].n

FilledInv ==
  /\ pc \in CurrentSteps /\ row.lc \notin Terminal => FilledBy(journal, row, Len(journal))
  /\ pc = "replay" => FilledBy(journal, work.r, work.k - 1)

\* The last entry report of s has the quantity n.
Newest(n, s) == \E k \in 1 .. Len(s) : LastEntry(s, k, Len(s)) /\ s[k].n = n

Holds(s, o) == \E k \in 1 .. Len(s) : s[k].ord = o /\ s[k].st = "FILLED"

\* Nothing lost: what the exchange did last is in the stream, or was journaled last.
NewsInv ==
  ~lost => /\ Exists("entry") => \/ Newest(orders["entry"].n, stream)
                                 \/ NoEntry(stream) /\ Newest(orders["entry"].n, journal)
           /\ \A o \in Sells : orders[o].st = "FILLED" => Holds(stream, o) \/ Holds(journal, o)

\* No entry report of the stream s repeats another one or an entry of the journal j.
Once(n, s, j) ==
  /\ \A k \in 1 .. Len(s) : s[k].src = "stream"
  /\ \A i, k \in 1 .. Len(s) : i < k /\ s[k].ord = "entry" => EventKey(s[i]) # EventKey(s[k])
  /\ \A i \in 1 .. Len(j), k \in 1 .. Len(s) : s[k].ord = "entry" => EventKey(j[i]) # EventKey(s[k])
  /\ \A k \in 1 .. Len(s) : s[k].ord = "entry" => s[k].n <= n
  /\ \A k \in 1 .. Len(j) : j[k].ord = "entry" => j[k].n <= n

OnceInv == Once(orders["entry"].n, stream, journal)

SettledInv == IInv /\ FilledInv /\ NewsInv /\ OnceInv

-----------------------------------------------------------------------------
(***************************************************************************)
(* The quantity of the record.                                              *)
(***************************************************************************)
\* One more report: it is the last, or the last stays the last.
LEMMA FilledAppend ==
  ASSUME NEW s \in Seq(Report), NEW r \in Row, NEW e \in Report, FilledBy(s, r, Len(s))
  PROVE  FilledBy(Append(s, e), IF Names(r, e) THEN Applied(r, e) ELSE r, Len(s) + 1)
<1> DEFINE t == Append(s, e)
           q == IF Names(r, e) THEN Applied(r, e) ELSE r
<1>1. /\ t \in Seq(Report) /\ Len(t) = Len(s) + 1 /\ Len(s) \in Nat
      /\ \A k \in 1 .. Len(s) : t[k] = s[k]
      /\ t[Len(s) + 1] = e
  OBVIOUS
<1>2. q.bound = r.bound /\ (q.filled = IF Names(r, e) /\ e.ord = "entry" THEN e.n ELSE r.filled)
  BY DEF Applied, Row
<1> HIDE DEF t, q
<1> SUFFICES ASSUME NEW k \in 1 .. Len(s) + 1, LastEntry(t, k, Len(s) + 1), Names(q, t[k])
             PROVE  q.filled = t[k].n
  BY DEF FilledBy, t, q
<1>3. CASE k = Len(s) + 1
  BY <1>1, <1>2, <1>3 DEF LastEntry, Names
<1>4. CASE k \in 1 .. Len(s)
  <2>1. e.ord # "entry"
    BY <1>1, <1>4 DEF LastEntry
  <2>2. LastEntry(s, k, Len(s)) /\ Names(r, s[k])
    BY <1>1, <1>2, <1>4 DEF LastEntry, Names
  <2> QED BY <1>1, <1>2, <1>4, <2>1, <2>2 DEF FilledBy
<1> QED BY <1>1, <1>3, <1>4

\* A replay that has applied m entries applies the next one.
LEMMA FilledNext ==
  ASSUME NEW s \in Seq(Report), NEW r \in Row, NEW m \in 1 .. Len(s), FilledBy(s, r, m - 1)
  PROVE  FilledBy(s, IF Names(r, s[m]) THEN Applied(r, s[m]) ELSE r, m)
<1> DEFINE q == IF Names(r, s[m]) THEN Applied(r, s[m]) ELSE r
<1>1. q.bound = r.bound /\ (q.filled = IF Names(r, s[m]) /\ s[m].ord = "entry" THEN s[m].n ELSE r.filled)
  BY DEF Applied, Row
<1> HIDE DEF q
<1> SUFFICES ASSUME NEW k \in 1 .. m, LastEntry(s, k, m), Names(q, s[k])
             PROVE  q.filled = s[k].n
  BY DEF FilledBy, q
<1>3. CASE k = m
  BY <1>1, <1>3 DEF LastEntry, Names
<1>4. CASE k \in 1 .. (m - 1)
  <2>1. s[m].ord # "entry"
    BY <1>4 DEF LastEntry
  <2>2. LastEntry(s, k, m - 1) /\ Names(r, s[k])
    BY <1>1, <1>4 DEF LastEntry, Names
  <2> QED BY <1>1, <1>4, <2>1, <2>2 DEF FilledBy
<1> QED BY <1>3, <1>4

\* Recording keeps the record at the last entry report.
LEMMA FilledRecord ==
  ASSUME TypeOK, NEW e \in Report, Record(e), FilledBy(journal, row, Len(journal))
  PROVE  FilledBy(journal', row', Len(journal'))
<1>1. row \in Row /\ journal \in Seq(Report)
  BY DEF TypeOK
<1>2. CASE Seen(e)
  BY <1>2 DEF Record
<1>3. CASE ~Seen(e)
  <2>1. journal' = Append(journal, e) /\ Len(Append(journal, e)) = Len(journal) + 1
        /\ row' = IF Names(row, e) THEN Applied(row, e) ELSE row
    BY <1>1, <1>3 DEF Record
  <2>2. FilledBy(Append(journal, e), IF Names(row, e) THEN Applied(row, e) ELSE row, Len(journal) + 1)
    BY <1>1, FilledAppend
  <2> QED BY <2>1, <2>2
<1> QED BY <1>2, <1>3

\* ... and so does the copy a replay works on (replay_exchange_events_for_trade).
LEMMA FilledReplayStep ==
  ASSUME IInv, FilledInv, [Next]_vars, pc' = "replay"
  PROVE  FilledBy(journal', work'.r, work'.k - 1)
<1>1. /\ work \in Work /\ row \in Row /\ work.r \in Row /\ work.k \in Nat \ {0}
      /\ journal \in Seq(Report)
  BY DEF IInv, TypeOK, Work
<1>2. CASE ReplayStarts
  BY <1>2 DEF ReplayStarts, FilledBy
<1>3. CASE ReplayStays
  BY <1>3 DEF ReplayStays, FilledInv
<1>4. CASE ReplayEvent
  <2> DEFINE e == journal[work.k]
  <2>1. work.k \in 1 .. Len(journal) /\ UNCHANGED journal /\ FilledBy(journal, work.r, work.k - 1)
    BY <1>1, <1>4 DEF ReplayEvent, FilledInv
  <2>2. /\ work'.k = work.k + 1
        /\ work'.r = IF Names(work.r, e) THEN Applied(work.r, e) ELSE work.r
    BY <1>1, <1>4 DEF ReplayEvent, Work
  <2>3. FilledBy(journal, work'.r, work.k)
    BY <1>1, <2>1, <2>2, FilledNext
  <2>4. work'.k - 1 = work.k
    BY <1>1, <2>2
  <2> QED BY <2>1, <2>3, <2>4
<1> QED BY <1>2, <1>3, <1>4, ReplayCases

\* The record of an open trade, wherever the thread relies on it.
LEMMA FilledStep ==
  ASSUME IInv, FilledInv, [Next]_vars, pc' \in CurrentSteps, row'.lc \notin Terminal
  PROVE  FilledBy(journal', row', Len(journal'))
<1>1. /\ TypeOK /\ TruthInv /\ Sound(orders, row)
      /\ row \in Row /\ journal \in Seq(Report) /\ work.k \in Nat \ {0} /\ Len(journal) \in Nat
      /\ (pc = "replay" => work.k <= Len(journal) + 1)
  BY DEF IInv, HeardInv, TypeOK, Work
<1>2. CASE RowCommitted
  <2>1. work.k - 1 = Len(journal) /\ FilledBy(journal, work.r, work.k - 1)
    BY <1>1, <1>2 DEF RowCommitted, FilledInv
  <2> QED BY <1>2, <2>1 DEF RowCommitted
<1>3. CASE RowKept /\ ~Active
  <2>1. row.bound = {}
    BY <1>1, <1>3 DEF RowKept, Active, Sound, Exists
  <2> QED BY <1>3, <2>1 DEF RowKept, FilledBy, Names
<1>4. CASE pc \in CurrentSteps
  <2>1. row.lc \notin Terminal
    <3>1. row.lc \in Terminal => row'.lc = row.lc
      BY StepMonotone
    <3> QED BY <3>1
  <2>2. FilledBy(journal, row, Len(journal))
    BY <1>4, <2>1 DEF FilledInv
  <2>3. CASE RowKept
    BY <2>2, <2>3 DEF RowKept
  <2>4. CASE RowRecords
    <3>1. PICK e \in Report : Record(e)
      BY <2>4 DEF RowRecords
    <3> QED BY <1>1, <2>2, <3>1, FilledRecord
  <2>5. CASE RowBinds
    BY <1>4, <2>5 DEF RowBinds, CurrentSteps
  <2>6. CASE RowAmbiguous \/ RowProtected
    <3>1. row'.bound = row.bound /\ row'.filled = row.filled /\ UNCHANGED journal
      BY <1>1, <2>6 DEF RowAmbiguous, RowProtected, Row
    <3> QED BY <2>2, <3>1 DEF FilledBy, Names
  <2>7. CASE RowRejected
    <3>1. row'.lc \in Terminal
      BY <1>1, <2>7 DEF RowRejected, Row, Terminal
    <3> QED BY <3>1
  <2> QED BY <1>2, <2>3, <2>4, <2>5, <2>6, <2>7, RowStep
<1> QED BY <1>2, <1>3, <1>4, CurrentCases

-----------------------------------------------------------------------------
(***************************************************************************)
(* Every step treats the stream in one of five ways.                        *)
(***************************************************************************)
\* The stream waits while a GET may be journaled; is dropped; is delivered from; or an order
\* of the exchange moves and the new status is told.
NewsKept ==
  /\ UNCHANGED <<orders, stream, lost>>
  /\ \/ UNCHANGED journal
     \/ \E o \in Orders : /\ Exists(o)
                          /\ journal' = IF Seen(Got(o)) THEN journal ELSE Append(journal, Got(o))

NewsGone == stream' = <<>> /\ lost' = (lost \/ stream # <<>>) /\ UNCHANGED <<orders, journal>>

NewsTaken ==
  stream # <<>> /\ Record(Head(stream)) /\ stream' = Tail(stream) /\ UNCHANGED <<orders, lost>>

SellTold ==
  /\ UNCHANGED journal /\ orders'["entry"] = orders["entry"]
  /\ \E o \in Sells : /\ \A x \in Sells \ {o} : orders'[x] = orders[x]
                      /\ orders'[o].st # "NONE"
                      /\ Emit(<<Told(o, orders'[o].st, orders'[o].n)>>)

EntryTold ==
  /\ UNCHANGED journal /\ \A x \in Sells : orders'[x].st = "FILLED" => orders[x].st = "FILLED"
  /\ orders'["entry"].st # "NONE" /\ orders'["entry"].n >= orders["entry"].n
  /\ \/ orders["entry"].st = "NONE"
     \/ orders["entry"].st \in Open /\ orders'["entry"].st \in Closed
     \/ orders'["entry"].n > orders["entry"].n
  /\ \/ Emit(<<Told("entry", orders'["entry"].st, orders'["entry"].n)>>)
     \/ Emit(<<Told("entry", orders'["entry"].st, orders'["entry"].n), Told("exit", "NEW", Qty)>>)

\* There is no other (_enqueue, record_exchange_event, the matching engine).
LEMMA NewsCases ==
  ASSUME IInv, [Next]_vars
  PROVE  NewsKept \/ NewsGone \/ NewsTaken \/ SellTold \/ EntryTold
<1>1. TypeOK /\ ExchangeInv /\ StepInv /\ orders \in OrderType /\ work.ord \in Orders
      /\ orders["entry"].n \in Nat
  BY DEF IInv, TypeOK, OrderType, Work, Orders
<1>2. "entry" \in Orders
  BY DEF Orders
<1>3. ASSUME UNCHANGED <<orders, stream, journal, lost>> PROVE NewsKept
  BY <1>3 DEF NewsKept
<1>4. ASSUME NEW o \in Orders, Exists(o), Record(Got(o)), UNCHANGED <<orders, stream, lost>>
      PROVE  NewsKept
  BY <1>4 DEF NewsKept, Record
<1>5. CASE UNCHANGED vars
  BY <1>3, <1>5 DEF vars
<1>6. CASE BuyFills
  <2> DEFINE n == orders["entry"].n + 1
  <2>1. UNCHANGED journal
    BY <1>6 DEF BuyFills, Quiet
  <2>2. CASE n < Qty
    <3>1. /\ orders' = [orders EXCEPT !["entry"] = [st |-> "PARTIALLY_FILLED", n |-> n]]
          /\ Emit(<<Told("entry", "PARTIALLY_FILLED", n)>>)
      BY <1>6, <2>2 DEF BuyFills
    <3>2. orders'["entry"] = [st |-> "PARTIALLY_FILLED", n |-> n] /\ \A x \in Sells : orders'[x] = orders[x]
      BY <1>1, <3>1 DEF OrderType, Orders, Sells
    <3>3. Emit(<<Told("entry", orders'["entry"].st, orders'["entry"].n)>>)
      BY <3>1, <3>2
    <3>4. orders'["entry"].n > orders["entry"].n
      BY <1>1, <3>2
    <3> QED BY <1>1, <2>1, <3>2, <3>3, <3>4 DEF EntryTold
  <2>3. CASE ~(n < Qty)
    <3>1. /\ orders' = [orders EXCEPT !["entry"] = [st |-> "FILLED", n |-> n],
                                      !["exit"]  = [st |-> "NEW", n |-> Qty]]
          /\ Emit(<<Told("entry", "FILLED", n), Told("exit", "NEW", Qty)>>)
      BY <1>6, <2>3 DEF BuyFills
    <3>2. /\ orders'["entry"] = [st |-> "FILLED", n |-> n]
          /\ \A x \in Sells : orders'[x].st = "FILLED" => orders[x].st = "FILLED"
      BY <1>1, <3>1 DEF OrderType, Orders, Sells
    <3>3. Emit(<<Told("entry", orders'["entry"].st, orders'["entry"].n), Told("exit", "NEW", Qty)>>)
      BY <3>1, <3>2
    <3>4. orders'["entry"].n > orders["entry"].n
      BY <1>1, <3>2
    <3> QED BY <1>1, <2>1, <3>2, <3>3, <3>4 DEF EntryTold
  <2> QED BY <2>2, <2>3
<1>7. ASSUME orders["entry"].st \in Open, orders' = [orders EXCEPT !["entry"].st = "CANCELED"],
             Emit(<<Told("entry", "CANCELED", orders["entry"].n)>>), UNCHANGED journal
      PROVE  EntryTold
  <2>1. orders'["entry"].st = "CANCELED" /\ orders'["entry"].n = orders["entry"].n
        /\ \A x \in Sells : orders'[x] = orders[x]
    BY <1>1, <1>7 DEF OrderType, Orders, Sells
  <2> QED BY <1>1, <1>7, <2>1 DEF EntryTold, Closed
<1>8. ASSUME NEW o \in Sells, NEW s, NEW q, s # "NONE", orders' = [orders EXCEPT ![o] = [st |-> s, n |-> q]],
             Emit(<<Told(o, s, q)>>), UNCHANGED journal
      PROVE  SellTold
  <2>1. orders'[o].st = s /\ orders'[o].n = q /\ orders'["entry"] = orders["entry"]
        /\ \A x \in Sells \ {o} : orders'[x] = orders[x]
    BY <1>1, <1>8 DEF OrderType, Orders, Sells
  <2> QED BY <1>8, <2>1 DEF SellTold
<1>9. ASSUME NEW o \in Sells, NEW s, s # "NONE", orders' = [orders EXCEPT ![o].st = s],
             Emit(<<Told(o, s, orders[o].n)>>), UNCHANGED journal
      PROVE  SellTold
  <2>1. orders'[o].st = s /\ orders'[o].n = orders[o].n /\ orders'["entry"] = orders["entry"]
        /\ \A x \in Sells \ {o} : orders'[x] = orders[x]
    BY <1>1, <1>9 DEF OrderType, Orders, Sells
  <2> QED BY <1>9, <2>1 DEF SellTold
<1>10. CASE Exchange
  <2>1. CASE EntryExpires
    BY <1>7, <2>1 DEF EntryExpires, Quiet
  <2>2. ASSUME NEW o \in Sells, SellFills(o) PROVE SellTold
    BY <1>9, <2>2 DEF SellFills, Quiet
  <2> QED BY <1>6, <1>10, <2>1, <2>2 DEF Exchange
<1>11. CASE Stream
  <2>1. CASE Deliver
    BY <2>1 DEF Deliver, NewsTaken
  <2>2. CASE Reconnect
    BY <1>1, <2>2 DEF Reconnect, NewsGone, TypeOK
  <2> QED BY <1>11, <2>1, <2>2 DEF Stream
<1>12. CASE Process
  BY <1>3, <1>12 DEF Process, Crash, Restart, NewsGone
<1>13. CASE Binding
  <2>1. CASE PostEntry
    <3>1. /\ orders' = [orders EXCEPT !["entry"] = [st |-> "NEW", n |-> 0]]
          /\ Emit(<<Told("entry", "NEW", 0)>>) /\ UNCHANGED journal /\ orders["entry"].st = "NONE"
      BY <2>1 DEF PostEntry, Post, Exists
    <3>2. orders'["entry"].st = "NEW" /\ orders'["entry"].n = 0 /\ orders["entry"].n = 0
          /\ \A x \in Sells : orders'[x] = orders[x]
      BY <1>1, <3>1 DEF OrderType, Orders, Sells, ExchangeInv
    <3> QED BY <3>1, <3>2 DEF EntryTold
  <2>2. CASE Answer
    BY <1>1, <1>4, <2>2 DEF Answer, StepInv
  <2>3. CASE Finish \/ Bind \/ ReplayEvent \/ ReplayCommit
    BY <1>3, <2>3 DEF Finish, Bind, ReplayEvent, ReplayCommit
  <2> QED BY <1>13, <2>1, <2>2, <2>3 DEF Binding
<1>14. CASE Refresh
  <2>1. CASE RefreshEntry
    BY <1>1, <1>2, <1>3, <1>4, <2>1 DEF RefreshEntry, StepInv
  <2>2. CASE RefreshSell
    BY <1>3, <1>4, <2>2 DEF RefreshSell, BoundSell, Sells
  <2>3. CASE Reconcile \/ Refreshed
    BY <1>3, <2>3 DEF Reconcile, Refreshed
  <2> QED BY <1>14, <2>1, <2>2, <2>3 DEF Refresh
<1>15. ASSUME NEW step, CancelList(step), UNCHANGED journal
       PROVE  NewsKept \/ SellTold \/ EntryTold
  <2>1. ASSUME NEW o \in ListOrders, orders[o].st \in Open, orders' = [orders EXCEPT ![o].st = "CANCELED"],
               Emit(<<Told(o, "CANCELED", orders[o].n)>>)
        PROVE  SellTold \/ EntryTold
    <3>1. o = "entry" \/ o \in Sells
      BY DEF ListOrders, Orders, Sells
    <3> QED BY <1>7, <1>9, <1>15, <2>1, <3>1
  <2> QED BY <1>3, <1>15, <2>1 DEF CancelList
<1>16. CASE Stale
  <2>1. CASE StaleGet
    <3>1. Exists("entry") /\ UNCHANGED <<orders, stream, lost>>
      BY <1>1, <2>1 DEF StaleGet, StepInv
    <3>2. CASE Record(Got("entry"))
      BY <1>2, <1>4, <3>1, <3>2
    <3>3. CASE journal' = IF Seen(Got("entry")) THEN journal ELSE Append(journal, Got("entry"))
      BY <1>2, <3>1, <3>3 DEF NewsKept
    <3>4. CASE UNCHANGED journal
      BY <1>3, <3>1, <3>4
    <3> QED BY <2>1, <3>2, <3>3, <3>4 DEF StaleGet, GiveUp
  <2>2. CASE StaleBegin
    BY <1>3, <2>2 DEF StaleBegin
  <2>3. CASE StaleCancel
    BY <1>15, <2>3 DEF StaleCancel
  <2> QED BY <1>16, <2>1, <2>2, <2>3 DEF Stale
<1>17. CASE Protect
  <2>1. CASE ProtectGet
    BY <1>1, <1>2, <1>3, <1>4, <2>1 DEF ProtectGet, StepInv, GiveUp
  <2>2. CASE ProtectAgain
    BY <1>1, <1>2, <1>3, <1>4, <2>2 DEF ProtectAgain, StepInv, GiveUp
  <2>3. CASE ProtectCancel
    BY <1>15, <2>3 DEF ProtectCancel
  <2>4. CASE ProtectPlace
    <3>1. CASE UNCHANGED <<orders, stream, lost>>
      BY <1>3, <2>4, <3>1 DEF ProtectPlace
    <3>2. CASE Post("protection", SellableQty)
      BY <1>8, <2>4, <3>2 DEF ProtectPlace, Post, Sells, Orders
    <3> QED BY <2>4, <3>1, <3>2 DEF ProtectPlace
  <2>5. CASE ProtectBegin \/ ProtectCheck \/ ProtectDone
    BY <1>3, <2>5 DEF ProtectBegin, ProtectCheck, ProtectDone
  <2> QED BY <1>17, <2>1, <2>2, <2>3, <2>4, <2>5 DEF Protect
<1> QED BY <1>5, <1>10, <1>11, <1>12, <1>13, <1>14, <1>16, <1>17 DEF Next

-----------------------------------------------------------------------------
(***************************************************************************)
(* Lemmas about sequences of reports.                                       *)
(***************************************************************************)
\* One more report in a sequence (_enqueue, the journal's INSERT).
LEMMA AppendFacts ==
  ASSUME NEW s \in Seq(Report), NEW e \in Report
  PROVE  /\ Append(s, e) \in Seq(Report) /\ Len(Append(s, e)) = Len(s) + 1 /\ Len(s) \in Nat
         /\ \A k \in 1 .. Len(s) : Append(s, e)[k] = s[k]
         /\ Append(s, e)[Len(s) + 1] = e
OBVIOUS

\* ... and one less.
LEMMA TailFacts ==
  ASSUME NEW s \in Seq(Report), s # <<>>
  PROVE  /\ Tail(s) \in Seq(Report) /\ Len(s) = Len(Tail(s)) + 1 /\ Len(Tail(s)) \in Nat
         /\ \A k \in 1 .. Len(Tail(s)) : Tail(s)[k] = s[k + 1]
         /\ Head(s) = s[1] /\ Head(s) \in Report
OBVIOUS

\* An entry report that is appended is the last; another one leaves the last in its place.
LEMMA NewestAppend ==
  ASSUME NEW s \in Seq(Report), NEW e \in Report, NEW n
  PROVE  /\ e.ord = "entry" /\ e.n = n => Newest(n, Append(s, e))
         /\ e.ord # "entry" => /\ Newest(n, s) => Newest(n, Append(s, e))
                               /\ NoEntry(s) => NoEntry(Append(s, e))
<1> DEFINE t == Append(s, e)
<1>1. /\ Len(t) = Len(s) + 1 /\ Len(s) \in Nat /\ t[Len(s) + 1] = e
      /\ \A k \in 1 .. Len(s) : t[k] = s[k]
  BY AppendFacts
<1> HIDE DEF t
<1>2. ASSUME e.ord = "entry", e.n = n PROVE Newest(n, t)
  <2>1. LastEntry(t, Len(s) + 1, Len(t)) /\ t[Len(s) + 1].n = n
    BY <1>1, <1>2 DEF LastEntry
  <2> QED BY <1>1, <2>1 DEF Newest
<1>3. ASSUME e.ord # "entry", Newest(n, s) PROVE Newest(n, t)
  <2>1. PICK k \in 1 .. Len(s) : LastEntry(s, k, Len(s)) /\ s[k].n = n
    BY <1>3 DEF Newest
  <2>2. LastEntry(t, k, Len(t)) /\ t[k].n = n
    BY <1>1, <1>3, <2>1 DEF LastEntry
  <2>3. k \in 1 .. Len(t)
    BY <1>1
  <2> QED BY <2>2, <2>3 DEF Newest
<1>4. ASSUME e.ord # "entry", NoEntry(s) PROVE NoEntry(t)
  BY <1>1, <1>4 DEF NoEntry
<1> QED BY <1>2, <1>3, <1>4 DEF t

\* Without its head a sequence still ends with its last entry report, unless that was the head.
LEMMA NewestTail ==
  ASSUME NEW s \in Seq(Report), s # <<>>, NEW n, Newest(n, s)
  PROVE  \/ Newest(n, Tail(s))
         \/ NoEntry(Tail(s)) /\ Head(s).ord = "entry" /\ Head(s).n = n
<1> DEFINE t == Tail(s)
<1>1. /\ Len(s) = Len(t) + 1 /\ Len(t) \in Nat /\ Head(s) = s[1]
      /\ \A k \in 1 .. Len(t) : t[k] = s[k + 1]
  BY TailFacts
<1> HIDE DEF t
<1>2. PICK k \in 1 .. Len(s) : LastEntry(s, k, Len(s)) /\ s[k].n = n
  BY DEF Newest
<1>3. CASE k = 1
  <2>1. \A l \in 1 .. Len(t) : t[l].ord # "entry"
    BY <1>1, <1>2, <1>3 DEF LastEntry
  <2> QED BY <1>1, <1>2, <1>3, <2>1 DEF LastEntry, NoEntry, t
<1>4. CASE k > 1
  <2>1. k - 1 \in 1 .. Len(t) /\ t[k - 1] = s[k]
    BY <1>1, <1>4
  <2>2. \A l \in k .. Len(t) : t[l].ord # "entry"
    BY <1>1, <1>2, <1>4 DEF LastEntry
  <2>3. LastEntry(t, k - 1, Len(t)) /\ t[k - 1].n = n
    BY <1>1, <1>2, <2>1, <2>2 DEF LastEntry
  <2> QED BY <2>1, <2>3 DEF Newest, t
<1> QED BY <1>3, <1>4

\* A final report of a SELL is not lost by appending, only by taking it.
LEMMA HoldsAppend ==
  ASSUME NEW s \in Seq(Report), NEW e \in Report, NEW o
  PROVE  /\ Holds(s, o) => Holds(Append(s, e), o)
         /\ e.ord = o /\ e.st = "FILLED" => Holds(Append(s, e), o)
BY AppendFacts DEF Holds

LEMMA HoldsTail ==
  ASSUME NEW s \in Seq(Report), s # <<>>, NEW o, Holds(s, o)
  PROVE  Holds(Tail(s), o) \/ (Head(s).ord = o /\ Head(s).st = "FILLED")
<1>1. PICK k \in 1 .. Len(s) : s[k].ord = o /\ s[k].st = "FILLED"
  BY DEF Holds
<1>2. CASE k = 1
  BY <1>1, <1>2, TailFacts
<1>3. CASE k > 1
  <2>1. k - 1 \in 1 .. Len(Tail(s)) /\ Tail(s)[k - 1] = s[k]
    BY <1>3, TailFacts
  <2> QED BY <1>1, <2>1 DEF Holds
<1> QED BY <1>2, <1>3

\* A report told with a key of its own (the event key of record_exchange_event).
LEMMA OnceAppend ==
  ASSUME NEW s \in Seq(Report), NEW j \in Seq(Report), NEW e \in Report, NEW n \in Nat, NEW m \in Nat,
         Once(n, s, j), n <= m, e.src = "stream",
         e.ord = "entry" => /\ e.n <= m
                            /\ \A k \in 1 .. Len(s) : EventKey(s[k]) # EventKey(e)
                            /\ \A k \in 1 .. Len(j) : EventKey(j[k]) # EventKey(e)
  PROVE  Once(m, Append(s, e), j)
<1> DEFINE t == Append(s, e)
<1>1. /\ Len(t) = Len(s) + 1 /\ Len(s) \in Nat /\ t[Len(s) + 1] = e
      /\ \A k \in 1 .. Len(s) : t[k] = s[k]
  BY AppendFacts
<1>8. \A x \in Report : x.n \in Nat
  BY DEF Report
<1>9. /\ \A k \in 1 .. Len(s) : s[k].n \in Nat
      /\ \A k \in 1 .. Len(j) : j[k].n \in Nat
  BY <1>8
<1> HIDE DEF t
<1>2. \A k \in 1 .. Len(t) : k \in 1 .. Len(s) \/ k = Len(s) + 1
  BY <1>1
<1>3. \A k \in 1 .. Len(t) : t[k].src = "stream"
  BY <1>1, <1>2 DEF Once
<1>4. \A i, k \in 1 .. Len(t) : i < k /\ t[k].ord = "entry" => EventKey(t[i]) # EventKey(t[k])
  <2> SUFFICES ASSUME NEW i \in 1 .. Len(t), NEW k \in 1 .. Len(t), i < k, t[k].ord = "entry"
               PROVE  EventKey(t[i]) # EventKey(t[k])
    OBVIOUS
  <2>1. i \in 1 .. Len(s)
    BY <1>1
  <2>2. CASE k \in 1 .. Len(s)
    BY <1>1, <2>1, <2>2 DEF Once
  <2>3. CASE k = Len(s) + 1
    BY <1>1, <2>1, <2>3
  <2> QED BY <1>2, <2>2, <2>3
<1>5. \A i \in 1 .. Len(j), k \in 1 .. Len(t) : t[k].ord = "entry" => EventKey(j[i]) # EventKey(t[k])
  BY <1>1, <1>2 DEF Once
<1>6. \A k \in 1 .. Len(t) : t[k].ord = "entry" => t[k].n <= m
  <2> SUFFICES ASSUME NEW k \in 1 .. Len(t), t[k].ord = "entry" PROVE t[k].n <= m
    OBVIOUS
  <2>1. CASE k \in 1 .. Len(s)
    <3>1. s[k].n <= n /\ s[k].n \in Nat /\ t[k] = s[k]
      BY <1>1, <1>9, <2>1 DEF Once
    <3> QED BY <3>1
  <2>2. CASE k = Len(s) + 1
    BY <1>1, <2>2
  <2> QED BY <1>2, <2>1, <2>2
<1>7. \A k \in 1 .. Len(j) : j[k].ord = "entry" => j[k].n <= m
  <2> SUFFICES ASSUME NEW k \in 1 .. Len(j), j[k].ord = "entry" PROVE j[k].n <= m
    OBVIOUS
  <2>1. j[k].n <= n /\ j[k].n \in Nat
    BY <1>9 DEF Once
  <2> QED BY <2>1
<1> QED BY <1>3, <1>4, <1>5, <1>6, <1>7 DEF Once, t

\* A journaled report that no waiting one repeats.
LEMMA OnceJournal ==
  ASSUME NEW s \in Seq(Report), NEW j \in Seq(Report), NEW e \in Report, NEW n \in Nat,
         Once(n, s, j), e.ord = "entry" => e.n <= n,
         \A k \in 1 .. Len(s) : s[k].ord = "entry" => EventKey(e) # EventKey(s[k])
  PROVE  Once(n, s, Append(j, e))
<1>1. /\ Len(Append(j, e)) = Len(j) + 1 /\ Len(j) \in Nat /\ Append(j, e)[Len(j) + 1] = e
      /\ \A k \in 1 .. Len(j) : Append(j, e)[k] = j[k]
  BY AppendFacts
<1>2. \A k \in 1 .. Len(Append(j, e)) : k \in 1 .. Len(j) \/ k = Len(j) + 1
  BY <1>1
<1> QED BY <1>1, <1>2 DEF Once

\* What is delivered is new, and stays different from what waits.
LEMMA OnceTail ==
  ASSUME NEW s \in Seq(Report), NEW j \in Seq(Report), NEW n \in Nat, s # <<>>, Once(n, s, j)
  PROVE  /\ Once(n, Tail(s), j)
         /\ Head(s).ord = "entry" => /\ Head(s).n <= n
                                     /\ \A k \in 1 .. Len(j) : EventKey(j[k]) # EventKey(Head(s))
         /\ \A k \in 1 .. Len(Tail(s)) : Tail(s)[k].ord = "entry" => EventKey(Head(s)) # EventKey(Tail(s)[k])
<1> DEFINE t == Tail(s)
<1>1. /\ Len(s) = Len(t) + 1 /\ Len(t) \in Nat /\ Head(s) = s[1]
      /\ \A k \in 1 .. Len(t) : t[k] = s[k + 1] /\ k + 1 \in 1 .. Len(s)
  BY TailFacts
<1> HIDE DEF t
<1>2. 1 \in 1 .. Len(s)
  BY <1>1
<1>3. \A i, k \in 1 .. Len(t) : i < k => i + 1 < k + 1
  OBVIOUS
<1>4. \A k \in 1 .. Len(t) : 1 < k + 1
  OBVIOUS
<1>5. \A i, k \in 1 .. Len(t) : i < k /\ t[k].ord = "entry" => EventKey(t[i]) # EventKey(t[k])
  <2> SUFFICES ASSUME NEW i \in 1 .. Len(t), NEW k \in 1 .. Len(t), i < k, t[k].ord = "entry"
               PROVE  EventKey(t[i]) # EventKey(t[k])
    OBVIOUS
  <2>1. i + 1 \in 1 .. Len(s) /\ k + 1 \in 1 .. Len(s) /\ i + 1 < k + 1
    BY <1>1, <1>3
  <2>2. t[i] = s[i + 1] /\ t[k] = s[k + 1]
    BY <1>1
  <2>3. \A a, b \in 1 .. Len(s) : a < b /\ s[b].ord = "entry" => EventKey(s[a]) # EventKey(s[b])
    BY DEF Once
  <2>4. s[k + 1].ord = "entry"
    BY <2>2
  <2>5. EventKey(s[i + 1]) # EventKey(s[k + 1])
    BY <2>1, <2>3, <2>4
  <2> QED BY <2>2, <2>5
<1>6. /\ \A k \in 1 .. Len(t) : t[k].src = "stream"
      /\ \A k \in 1 .. Len(t) : t[k].ord = "entry" => t[k].n <= n
      /\ \A i \in 1 .. Len(j), k \in 1 .. Len(t) : t[k].ord = "entry" => EventKey(j[i]) # EventKey(t[k])
      /\ \A k \in 1 .. Len(j) : j[k].ord = "entry" => j[k].n <= n
  BY <1>1 DEF Once
<1>7. Once(n, t, j)
  BY <1>5, <1>6 DEF Once
<1> QED BY <1>1, <1>2, <1>4, <1>7 DEF Once, t

-----------------------------------------------------------------------------
(***************************************************************************)
(* No report of the entry is taken for a repetition, and the news is kept.  *)
(***************************************************************************)
\* Types and truth of what the steps below compare.
LEMMA NewsFacts ==
  ASSUME IInv, [Next]_vars
  PROVE  /\ stream \in Seq(Report) /\ journal \in Seq(Report) /\ stream' \in Seq(Report)
         /\ orders \in OrderType /\ orders' \in OrderType
         /\ orders["entry"].n \in Nat /\ orders'["entry"].n \in Nat
         /\ \A k \in 1 .. Len(stream) : stream[k] \in Report /\ Truthful(orders, stream[k])
         /\ \A k \in 1 .. Len(journal) : journal[k] \in Report /\ Truthful(orders, journal[k])
         /\ \A o \in Orders : Exists(o) => Got(o) \in Report
<1>1. TypeOK /\ ExchangeInv /\ TruthInv /\ stream \in Seq(Report) /\ journal \in Seq(Report)
      /\ orders \in OrderType
  BY DEF IInv, TypeOK, OrderType
<1>2. orders' \in OrderType /\ stream' \in Seq(Report)
  BY <1>1, OrdersStep, StreamStep
<1>3. orders["entry"].n \in Nat /\ orders'["entry"].n \in Nat
  BY <1>1, <1>2 DEF OrderType, Orders
<1>4. /\ \A k \in 1 .. Len(stream) : stream[k] \in Report /\ Truthful(orders, stream[k])
      /\ \A k \in 1 .. Len(journal) : journal[k] \in Report /\ Truthful(orders, journal[k])
  BY <1>1 DEF TruthInv
<1> QED BY <1>1, <1>2, <1>3, <1>4, GotTruthful

\* A new status of the entry has a key that no earlier report has.
LEMMA EntryFresh ==
  ASSUME IInv, [Next]_vars, EntryTold, NEW e \in Report, e.ord = "entry", Truthful(orders, e),
         e.n <= orders["entry"].n
  PROVE  EventKey(e) # EventKey(Told("entry", orders'["entry"].st, orders'["entry"].n))
<1>1. orders["entry"].n \in Nat /\ orders'["entry"].n \in Nat /\ e.n \in Nat /\ Open \cap Closed = {}
  BY NewsFacts DEF Report, Open, Closed
<1>2. CASE orders["entry"].st = "NONE"
  BY <1>2 DEF Truthful
<1>3. CASE orders["entry"].st \in Open /\ orders'["entry"].st \in Closed
  <2>1. e.st # orders'["entry"].st
    BY <1>1, <1>3 DEF Truthful
  <2> QED BY <2>1 DEF EventKey, Told
<1>4. CASE orders'["entry"].n > orders["entry"].n
  <2>1. e.n # orders'["entry"].n
    BY <1>1, <1>4
  <2> QED BY <2>1 DEF EventKey, Told
<1> QED BY <1>2, <1>3, <1>4 DEF EntryTold

\* The reports that EntryTold adds to the stream, unless they are lost.
LEMMA EntryReports ==
  ASSUME IInv, [Next]_vars, EntryTold
  PROVE  \/ stream' = stream /\ lost'
         \/ /\ lost' = lost
            /\ Told("entry", orders'["entry"].st, orders'["entry"].n) \in Report
            /\ \/ stream' = Append(stream, Told("entry", orders'["entry"].st, orders'["entry"].n))
               \/ /\ Told("exit", "NEW", Qty) \in Report
                  /\ stream' = Append(Append(stream, Told("entry", orders'["entry"].st, orders'["entry"].n)),
                                      Told("exit", "NEW", Qty))
<1> DEFINE e == Told("entry", orders'["entry"].st, orders'["entry"].n)
           f == Told("exit", "NEW", Qty)
<1>1. stream \in Seq(Report) /\ orders' \in OrderType /\ orders'["entry"].n \in Nat /\ Qty \in Nat
  BY NewsFacts, EventsAssumption
<1>2. orders'["entry"].st \in Open \cup Closed
  BY <1>1 DEF EntryTold, OrderType, Orders
<1>3. e \in Report /\ f \in Report
  BY <1>1, <1>2 DEF Told, Report, Orders, Open
<1>4. Emit(<<e>>) \/ Emit(<<e, f>>)
  BY DEF EntryTold
<1> HIDE DEF e, f
<1>5. CASE Emit(<<e>>)
  BY <1>1, <1>3, <1>5 DEF Emit, e, f
<1>6. CASE Emit(<<e, f>>)
  <2>1. stream \o <<e, f>> = Append(Append(stream, e), f)
    BY <1>1, <1>3
  <2> QED BY <1>3, <1>6, <2>1 DEF Emit, e, f
<1> QED BY <1>4, <1>5, <1>6

\* The same for a SELL.
LEMMA SellReports ==
  ASSUME IInv, [Next]_vars, SellTold
  PROVE  \E o \in Sells :
           /\ \A x \in Sells \ {o} : orders'[x] = orders[x]
           /\ \/ stream' = stream /\ lost'
              \/ /\ lost' = lost /\ Told(o, orders'[o].st, orders'[o].n) \in Report
                 /\ stream' = Append(stream, Told(o, orders'[o].st, orders'[o].n))
<1>1. stream \in Seq(Report) /\ orders' \in OrderType
  BY NewsFacts
<1>2. PICK o \in Sells : /\ \A x \in Sells \ {o} : orders'[x] = orders[x]
                         /\ orders'[o].st # "NONE"
                         /\ Emit(<<Told(o, orders'[o].st, orders'[o].n)>>)
  BY DEF SellTold
<1>3. Told(o, orders'[o].st, orders'[o].n) \in Report
  BY <1>1, <1>2 DEF Told, Report, OrderType, Sells
<1> QED BY <1>1, <1>2, <1>3 DEF Emit

\* A delivered report, or a GET, is journaled once.
LEMMA OnceStep ==
  ASSUME IInv, OnceInv, [Next]_vars
  PROVE  Once(orders'["entry"].n, stream', journal')
<1> DEFINE n == orders["entry"].n
           m == orders'["entry"].n
<1>1. /\ stream \in Seq(Report) /\ journal \in Seq(Report) /\ n \in Nat /\ m \in Nat
      /\ \A k \in 1 .. Len(stream) : stream[k] \in Report /\ Truthful(orders, stream[k])
      /\ \A k \in 1 .. Len(journal) : journal[k] \in Report /\ Truthful(orders, journal[k])
      /\ \A o \in Orders : Exists(o) => Got(o) \in Report
      /\ Once(n, stream, journal)
  BY NewsFacts DEF OnceInv
<1>2. CASE NewsKept
  <2>1. UNCHANGED stream /\ m = n
    BY <1>2 DEF NewsKept
  <2>2. CASE UNCHANGED journal
    BY <1>1, <2>1, <2>2
  <2>3. ASSUME NEW o \in Orders, Exists(o), journal' = Append(journal, Got(o))
        PROVE  Once(m, stream', journal')
    <3>1. o = "entry" => Got(o).n <= n
      BY <1>1 DEF Got
    <3>2. \A k \in 1 .. Len(stream) : EventKey(Got(o)) # EventKey(stream[k])
      BY <1>1 DEF Got, EventKey, Once
    <3>3. Got(o) \in Report /\ Got(o).ord = o
      BY <1>1, <2>3 DEF Got
    <3> QED BY <1>1, <2>1, <2>3, <3>1, <3>2, <3>3, OnceJournal
  <2> QED BY <1>2, <2>2, <2>3 DEF NewsKept
<1>3. CASE NewsGone
  <2>1. stream' = <<>> /\ journal' = journal /\ m = n
    BY <1>3 DEF NewsGone
  <2> QED BY <1>1, <2>1 DEF Once
<1>4. CASE NewsTaken
  <2> DEFINE e == Head(stream)
  <2>1. stream # <<>> /\ stream' = Tail(stream) /\ m = n /\ Record(e)
    BY <1>4 DEF NewsTaken
  <2>2. e \in Report /\ Tail(stream) \in Seq(Report)
    BY <1>1, <2>1, TailFacts
  <2>3. /\ Once(n, Tail(stream), journal) /\ (e.ord = "entry" => e.n <= n)
        /\ \A k \in 1 .. Len(Tail(stream)) :
             Tail(stream)[k].ord = "entry" => EventKey(e) # EventKey(Tail(stream)[k])
    BY <1>1, <2>1, OnceTail
  <2>4. Once(n, Tail(stream), Append(journal, e))
    BY <1>1, <2>2, <2>3, OnceJournal
  <2> QED BY <2>1, <2>3, <2>4 DEF Record
<1>5. CASE SellTold
  <2>1. UNCHANGED journal /\ m = n
    BY <1>5 DEF SellTold
  <2>2. CASE stream' = stream
    BY <1>1, <2>1, <2>2
  <2>3. ASSUME NEW o \in Sells, Told(o, orders'[o].st, orders'[o].n) \in Report,
               stream' = Append(stream, Told(o, orders'[o].st, orders'[o].n))
        PROVE  Once(m, stream', journal')
    <3>1. Told(o, orders'[o].st, orders'[o].n).ord # "entry"
          /\ Told(o, orders'[o].st, orders'[o].n).src = "stream" /\ n <= n
      BY <1>1 DEF Told, Sells
    <3> QED BY <1>1, <2>1, <2>3, <3>1, OnceAppend
  <2> QED BY <1>5, <2>2, <2>3, SellReports
<1>6. CASE EntryTold
  <2> DEFINE e == Told("entry", orders'["entry"].st, orders'["entry"].n)
             f == Told("exit", "NEW", Qty)
  <2>1. UNCHANGED journal /\ n <= m
    BY <1>1, <1>6 DEF EntryTold
  <2>2. CASE stream' = stream
    <3>1. \A x \in Report : x.n <= n => x.n <= m
      BY <1>1, <2>1 DEF Report
    <3>2. /\ \A k \in 1 .. Len(stream) : stream[k].ord = "entry" => stream[k].n <= m
          /\ \A k \in 1 .. Len(journal) : journal[k].ord = "entry" => journal[k].n <= m
      BY <1>1, <3>1 DEF Once
    <3> QED BY <1>1, <2>1, <2>2, <3>2 DEF Once
  <2>3. ASSUME e \in Report PROVE Once(m, Append(stream, e), journal)
    <3>1. e.ord = "entry" /\ e.n = m /\ e.src = "stream" /\ m <= m
      BY <1>1 DEF Told
    <3>2. \A k \in 1 .. Len(stream) : EventKey(stream[k]) # EventKey(e)
      <4> SUFFICES ASSUME NEW k \in 1 .. Len(stream) PROVE EventKey(stream[k]) # EventKey(e)
        OBVIOUS
      <4>1. CASE stream[k].ord = "entry"
        <5>1. stream[k].n <= orders["entry"].n
          BY <1>1, <4>1 DEF Once
        <5> QED BY <1>1, <1>6, <4>1, <5>1, EntryFresh
      <4>2. CASE stream[k].ord # "entry"
        BY <4>2 DEF EventKey, Told
      <4> QED BY <4>1, <4>2
    <3>3. \A k \in 1 .. Len(journal) : EventKey(journal[k]) # EventKey(e)
      <4> SUFFICES ASSUME NEW k \in 1 .. Len(journal) PROVE EventKey(journal[k]) # EventKey(e)
        OBVIOUS
      <4>1. CASE journal[k].ord = "entry"
        <5>1. journal[k].n <= orders["entry"].n
          BY <1>1, <4>1 DEF Once
        <5> QED BY <1>1, <1>6, <4>1, <5>1, EntryFresh
      <4>2. CASE journal[k].ord # "entry"
        BY <4>2 DEF EventKey, Told
      <4> QED BY <4>1, <4>2
    <3> QED BY <1>1, <2>1, <2>3, <3>1, <3>2, <3>3, OnceAppend
  <2>4. ASSUME e \in Report, f \in Report
        PROVE  Once(m, Append(Append(stream, e), f), journal)
    <3>1. f.ord # "entry" /\ f.src = "stream" /\ m <= m
      BY <1>1 DEF Told
    <3>2. Append(stream, e) \in Seq(Report)
      BY <1>1, <2>4
    <3> QED BY <1>1, <2>3, <2>4, <3>1, <3>2, OnceAppend
  <2> QED BY <1>6, <2>1, <2>2, <2>3, <2>4, EntryReports
<1> QED BY <1>2, <1>3, <1>4, <1>5, <1>6, NewsCases

\* What the exchange did last stays the last news.
LEMMA NewsStep ==
  ASSUME IInv, NewsInv, OnceInv, [Next]_vars, ~lost'
  PROVE  /\ Exists("entry")' => \/ Newest(orders'["entry"].n, stream')
                                \/ NoEntry(stream') /\ Newest(orders'["entry"].n, journal')
         /\ \A o \in Sells : orders'[o].st = "FILLED" => Holds(stream', o) \/ Holds(journal', o)
<1> DEFINE n == orders["entry"].n
           m == orders'["entry"].n
           Last(k, s, j) == Newest(k, s) \/ (NoEntry(s) /\ Newest(k, j))
           Reported(o, s, j) == Holds(s, o) \/ Holds(j, o)
<1>1. /\ stream \in Seq(Report) /\ journal \in Seq(Report) /\ n \in Nat /\ m \in Nat
      /\ \A k \in 1 .. Len(stream) : stream[k] \in Report
      /\ \A o \in Orders : Exists(o) => Got(o) \in Report
      /\ Once(n, stream, journal)
  BY NewsFacts DEF OnceInv
<1>2. ~lost => /\ Exists("entry") => Last(n, stream, journal)
               /\ \A o \in Sells : orders[o].st = "FILLED" => Reported(o, stream, journal)
  BY DEF NewsInv
<1> SUFFICES /\ orders'["entry"].st # "NONE" => Last(m, stream', journal')
             /\ \A o \in Sells : orders'[o].st = "FILLED" => Reported(o, stream', journal')
  BY DEF Exists
<1> HIDE DEF Last, Reported
<1>3. CASE NewsKept
  <2>1. UNCHANGED <<orders, stream, lost>>
    BY <1>3 DEF NewsKept
  <2>2. CASE UNCHANGED journal
    BY <1>2, <2>1, <2>2 DEF Exists
  <2>3. ASSUME NEW o \in Orders, Exists(o), journal' = Append(journal, Got(o))
        PROVE  /\ orders'["entry"].st # "NONE" => Last(m, stream', journal')
               /\ \A x \in Sells : orders'[x].st = "FILLED" => Reported(x, stream', journal')
    <3>1. Got(o) \in Report /\ Got(o).ord = o /\ (o = "entry" => Got(o).n = n)
      BY <1>1, <2>3 DEF Got
    <3>2. orders["entry"].st # "NONE" => Last(n, stream, Append(journal, Got(o)))
      BY <1>1, <1>2, <2>1, <3>1, NewestAppend DEF Exists, Last
    <3>3. \A x \in Sells : orders[x].st = "FILLED" => Reported(x, stream, Append(journal, Got(o)))
      BY <1>1, <1>2, <2>1, <3>1, HoldsAppend DEF Reported
    <3> QED BY <2>1, <2>3, <3>2, <3>3
  <2> QED BY <1>3, <2>2, <2>3 DEF NewsKept
<1>4. CASE NewsGone
  <2>1. stream' = stream /\ UNCHANGED <<orders, journal>> /\ ~lost
    BY <1>4 DEF NewsGone
  <2> QED BY <1>2, <2>1 DEF Exists
<1>5. CASE NewsTaken
  <2> DEFINE e == Head(stream)
             t == Tail(stream)
  <2>1. stream # <<>> /\ stream' = t /\ UNCHANGED <<orders, lost>> /\ Record(e)
    BY <1>5 DEF NewsTaken
  <2>2. e \in Report /\ t \in Seq(Report)
    BY <1>1, <2>1, TailFacts
  <2>3. journal' = journal \/ journal' = Append(journal, e)
    BY <2>1 DEF Record
  <2>4. e.ord = "entry" => journal' = Append(journal, e)
    <3>1. e.ord = "entry" => \A k \in 1 .. Len(journal) : EventKey(journal[k]) # EventKey(e)
      BY <1>1, <2>1, OnceTail
    <3> QED BY <2>1, <3>1 DEF Record, Seen
  <2>5. ASSUME orders["entry"].st # "NONE" PROVE Last(n, t, journal')
    <3>1. CASE Newest(n, stream)
      <4>1. CASE Newest(n, t)
        BY <4>1 DEF Last
      <4>2. CASE NoEntry(t) /\ e.ord = "entry" /\ e.n = n
        <5>1. Newest(n, Append(journal, e))
          BY <1>1, <2>2, <4>2, NewestAppend
        <5> QED BY <2>4, <4>2, <5>1 DEF Last
      <4> QED BY <1>1, <2>1, <3>1, <4>1, <4>2, NewestTail
    <3>2. CASE NoEntry(stream) /\ Newest(n, journal)
      <4>1. e.ord # "entry" /\ NoEntry(t)
        BY <1>1, <2>1, <3>2, TailFacts DEF NoEntry
      <4>2. Newest(n, Append(journal, e))
        BY <1>1, <2>2, <3>2, <4>1, NewestAppend
      <4> QED BY <2>3, <3>2, <4>1, <4>2 DEF Last
    <3> QED BY <1>2, <2>1, <2>5, <3>1, <3>2 DEF Last, Exists
  <2>6. ASSUME NEW o \in Sells, orders[o].st = "FILLED" PROVE Reported(o, t, journal')
    <3>1. Holds(journal, o) => Holds(journal', o)
      <4>1. Holds(journal, o) => Holds(Append(journal, e), o)
        BY <1>1, <2>2, HoldsAppend
      <4>2. CASE journal' = journal
        BY <4>2 DEF Holds
      <4>3. CASE journal' = Append(journal, e)
        BY <4>1, <4>3
      <4> QED BY <2>3, <4>2, <4>3
    <3>2. ASSUME e.ord = o, e.st = "FILLED" PROVE Holds(journal', o)
      <4>1. CASE Seen(e)
        <5>1. PICK k \in 1 .. Len(journal) : EventKey(journal[k]) = EventKey(e)
          BY <4>1 DEF Seen
        <5>2. journal[k].ord = o /\ journal[k].st = "FILLED" /\ journal' = journal
          BY <2>1, <3>2, <4>1, <5>1 DEF EventKey, Record
        <5> QED BY <5>2 DEF Holds
      <4>2. CASE ~Seen(e)
        <5>1. journal' = Append(journal, e)
          BY <2>1, <4>2 DEF Record
        <5> QED BY <1>1, <2>2, <3>2, <5>1, HoldsAppend
      <4> QED BY <4>1, <4>2
    <3>3. Holds(stream, o) => Holds(t, o) \/ (e.ord = o /\ e.st = "FILLED")
      BY <1>1, <2>1, HoldsTail
    <3> QED BY <1>2, <2>1, <2>6, <3>1, <3>2, <3>3 DEF Reported
  <2> QED BY <2>1, <2>5, <2>6
<1>6. CASE SellTold
  <2>1. UNCHANGED journal /\ orders'["entry"] = orders["entry"]
    BY <1>6 DEF SellTold
  <2>2. PICK o \in Sells :
           /\ \A x \in Sells \ {o} : orders'[x] = orders[x]
           /\ lost' = lost /\ Told(o, orders'[o].st, orders'[o].n) \in Report
           /\ stream' = Append(stream, Told(o, orders'[o].st, orders'[o].n))
    BY <1>6, SellReports
  <2> DEFINE e == Told(o, orders'[o].st, orders'[o].n)
  <2>3. e \in Report /\ e.ord = o /\ e.st = orders'[o].st /\ e.ord # "entry"
    BY <2>2 DEF Told, Sells
  <2> HIDE DEF e
  <2>4. stream' = Append(stream, e)
    BY <2>2 DEF e
  <2>5. orders["entry"].st # "NONE" => Last(n, Append(stream, e), journal)
    BY <1>1, <1>2, <2>2, <2>3, NewestAppend DEF Exists, Last
  <2>6. ASSUME NEW x \in Sells, orders'[x].st = "FILLED" PROVE Reported(x, Append(stream, e), journal)
    BY <1>1, <1>2, <2>2, <2>3, <2>6, HoldsAppend DEF Reported
  <2> QED BY <2>1, <2>4, <2>5, <2>6
<1>7. CASE EntryTold
  <2> DEFINE e == Told("entry", orders'["entry"].st, orders'["entry"].n)
             f == Told("exit", "NEW", Qty)
  <2>1. UNCHANGED journal /\ \A x \in Sells : orders'[x].st = "FILLED" => orders[x].st = "FILLED"
    BY <1>7 DEF EntryTold
  <2>2. /\ lost' = lost /\ e \in Report
        /\ \/ stream' = Append(stream, e)
           \/ f \in Report /\ stream' = Append(Append(stream, e), f)
    BY <1>7, EntryReports
  <2>3. e.ord = "entry" /\ e.n = m /\ f.ord # "entry"
    BY DEF Told
  <2> HIDE DEF e, f
  <2>4. Append(stream, e) \in Seq(Report) /\ Newest(m, Append(stream, e))
    BY <1>1, <2>2, <2>3, NewestAppend
  <2>5. Newest(m, stream')
    BY <2>2, <2>3, <2>4, NewestAppend
  <2>6. ASSUME NEW x \in Sells, orders'[x].st = "FILLED" PROVE Reported(x, stream', journal)
    <3>1. Holds(stream, x) => Holds(Append(stream, e), x)
      BY <1>1, <2>2, HoldsAppend
    <3>2. Holds(stream, x) => Holds(stream', x)
      <4>1. CASE stream' = Append(stream, e)
        BY <3>1, <4>1
      <4>2. CASE f \in Report /\ stream' = Append(Append(stream, e), f)
        <5>1. Holds(Append(stream, e), x) => Holds(Append(Append(stream, e), f), x)
          BY <2>4, <4>2, HoldsAppend
        <5> QED BY <3>1, <4>2, <5>1
      <4> QED BY <2>2, <4>1, <4>2
    <3> QED BY <1>2, <2>1, <2>2, <2>6, <3>2 DEF Reported
  <2> QED BY <2>1, <2>5, <2>6 DEF Last
<1> QED BY <1>3, <1>4, <1>5, <1>6, <1>7, NewsCases

-----------------------------------------------------------------------------
(***************************************************************************)
(* The second theorem about the record.                                     *)
(***************************************************************************)
\* Before the first POST there is nothing to tell.
LEMMA InitSettledInv == Init => SettledInv
<1> SUFFICES ASSUME Init PROVE SettledInv
  OBVIOUS
<1>1. IInv
  BY InitIInv
<1>2. Len(stream) = 0 /\ Len(journal) = 0 /\ pc = "idle" /\ \A o \in Orders : orders[o].st = "NONE"
  BY DEF Init
<1>3. FilledInv
  BY <1>2 DEF FilledInv, FilledBy
<1>4. NewsInv
  BY <1>2 DEF NewsInv, Exists, Sells, Orders
<1>5. OnceInv
  BY <1>2 DEF OnceInv, Once
<1> QED BY <1>1, <1>3, <1>4, <1>5 DEF SettledInv

\* Every step keeps it.
LEMMA NextSettledInv == SettledInv /\ [Next]_vars => SettledInv'
<1> SUFFICES ASSUME SettledInv, [Next]_vars PROVE SettledInv'
  OBVIOUS
<1>1. IInv /\ FilledInv /\ NewsInv /\ OnceInv
  BY DEF SettledInv
<1>2. IInv'
  BY <1>1, NextIInv
<1>3. FilledInv'
  BY <1>1, FilledStep, FilledReplayStep DEF FilledInv
<1>4. NewsInv'
  BY <1>1, NewsStep DEF NewsInv
<1>5. OnceInv'
  BY <1>1, OnceStep DEF OnceInv
<1> QED BY <1>2, <1>3, <1>4, <1>5 DEF SettledInv

\* The invariant gives what SettledRow says.
LEMMA SettledFromSettledInv == SettledInv => SettledRow
<1> SUFFICES ASSUME SettledInv, pc = "idle", stream = <<>>, ~lost, "entry" \in row.bound
             PROVE  /\ row.lc \notin Terminal => row.filled = orders["entry"].n
                    /\ \A o \in Sells \cap row.bound : orders[o].st = "FILLED" => row.lc = "EXIT_FILLED"
  BY DEF SettledRow
<1>1. /\ IInv /\ TypeOK /\ ExchangeInv /\ Sound(orders, row) /\ row \in Row /\ journal \in Seq(Report)
      /\ Heard(journal, row, Len(journal)) /\ Len(stream) = 0
      /\ (row.lc \notin Terminal => FilledBy(journal, row, Len(journal)))
  BY DEF SettledInv, IInv, TypeOK, HeardInv, FilledInv, CurrentSteps
<1>2. ASSUME row.lc \notin Terminal PROVE row.filled = orders["entry"].n
  <2>1. Exists("entry")
    BY <1>1 DEF Sound, Exists
  <2>2. Newest(orders["entry"].n, journal)
    BY <1>1, <2>1 DEF SettledInv, NewsInv, Newest
  <2>3. PICK k \in 1 .. Len(journal) : LastEntry(journal, k, Len(journal)) /\ journal[k].n = orders["entry"].n
    BY <2>2 DEF Newest
  <2>4. Names(row, journal[k])
    BY <2>3 DEF Names, LastEntry
  <2> QED BY <1>1, <1>2, <2>3, <2>4 DEF FilledBy
<1>3. ASSUME NEW o \in Sells \cap row.bound, orders[o].st = "FILLED" PROVE row.lc = "EXIT_FILLED"
  <2>1. Holds(journal, o)
    BY <1>1, <1>3 DEF SettledInv, NewsInv, Holds
  <2>2. PICK k \in 1 .. Len(journal) : journal[k].ord = o /\ journal[k].st = "FILLED"
    BY <2>1 DEF Holds
  <2>3. Names(row, journal[k]) /\ Implied(journal[k]) = "EXIT_FILLED"
    BY <2>2 DEF Names, Implied, Sells, Open
  <2>4. row.lc \in Terminal \/ Rank(row.lc) >= 9
    BY <1>1, <2>3 DEF Heard, Rank, Terminal
  <2>5. row.lc # "AMBIGUOUS"
    BY <1>1 DEF Sound
  <2>6. row.lc \in Terminal
    BY <1>1, <2>4, <2>5 DEF Row, Rank, Lifecycles, Terminal
  <2>7. row.lc # "ENTRY_REJECTED"
    BY <1>1, <1>3 DEF Sound, ExchangeInv, Sells, Orders
  <2> QED BY <2>6, <2>7 DEF Terminal
<1> QED BY <1>2, <1>3

\* When the stream is drained, nothing was lost and the lock is free, an open record has the
\* quantity the exchange executed, and no exit is missed (SettledRow; record_exchange_event,
\* replay_exchange_events_for_trade).
THEOREM RecordSettles == Spec => []SettledRow
<1>1. Spec => []SettledInv
  BY InitSettledInv, NextSettledInv, PTL DEF Spec
<1> QED BY <1>1, SettledFromSettledInv, PTL

=============================================================================
