------------------------- MODULE SpotExecutionProofs -------------------------
(***************************************************************************)
(* Proofs about SpotExecution: its types, the inductive invariant that ties *)
(* the durable intents to what the exchange may hold and to the step the    *)
(* adapter is at, the refinement of OperationLedger, and a second invariant *)
(* that ties the trade rows and the targets of cancels to both.             *)
(***************************************************************************)
EXTENDS SpotExecution, TLAPS

-----------------------------------------------------------------------------
(***************************************************************************)
(* The inductive invariant.  LedgerInv relates an intent to its request:    *)
(* PREPARED means that nothing was transmitted.  ControlInv says in which   *)
(* state a step finds the intent it works on, and that what a               *)
(* reconciliation has still to do is still to be done.                      *)
(***************************************************************************)
Landed == {"SUBMITTING", "AMBIGUOUS", "CONFIRMED"}

LedgerInv ==
  \A i \in Ids :
    /\ posts[i] <= 1
    /\ intents[i].st \in {"NONE", "PREPARED"} => posts[i] = 0
    /\ Exists(i) \/ OnWire(i) => posts[i] = 1 /\ intents[i].st \in Landed
    /\ intents[i].st # "NONE" => intents[i].trade \in Trades
    /\ intents[i].parent # 0 => intents[intents[i].parent].st = "ABORTED"

\* The steps that work on the trade op.t.
TradeSteps == {"submit", "prepare", "mark", "post", "lookup", "confirm", "bind",
               "posted", "rejected", "ambiguous",
               "cancel", "cmark", "delete", "cconfirm", "canceled", "cancelFailed",
               "free", "exitRow", "abortRow", "stale", "staleTerminal",
               "partialTerminal", "partialPlace"}

\* The steps at which a plan is open, if the handler has one.
PlanSteps == {"cancel", "cmark", "delete", "cconfirm", "canceled"}

\* The intent op.i is in the state in which the step leaves it.
StepInv ==
  /\ pc \in TradeSteps => op.t \in Trades
  /\ pc \in {"mark", "cmark"} => op.i \in Ids /\ intents[op.i].st = "PREPARED"
  /\ pc = "post" => op.i \in Ids /\ intents[op.i].st = "SUBMITTING" /\ posts[op.i] = 0
  /\ pc \in {"lookup", "confirm", "delete", "cconfirm"} =>
       op.i \in Ids /\ intents[op.i].st = "SUBMITTING"
  /\ pc = "bind" => op.i \in Ids /\ intents[op.i].st = "CONFIRMED"
  /\ pc \in {"cmark", "delete", "cconfirm"} => op.x \in Ids

\* A plan stays PREPARED until its child is prepared or its position is gone.
PlanInv ==
  /\ pc \in {"stale", "staleTerminal"} => op.h = "stale"
  /\ pc = "partial" => op.h \in {"stale", "partial"}
  /\ pc = "free" => op.h \in {"convert", "auto", "plan"}
  /\ pc = "free" \/ (op.h \in {"convert", "auto"} /\ pc \in PlanSteps) =>
       op.plan \in Ids /\ op.plan # op.i /\ intents[op.plan].st = "PREPARED"

\* The steps of the handlers that verified_reconcile starts for one intent.
HandlerSteps == {"mark", "post", "lookup", "confirm", "bind", "posted", "rejected",
                 "ambiguous", "free", "exitRow"}

\* What verified_reconcile has not come to yet is as it found it.
TodoInv ==
  /\ op.h \in {"child", "found", "plan"} => pc \in HandlerSteps
  /\ pc \in {"resolve", "plans"} => op = NoOp
  /\ pc \in {"resolve", "abortRow"} \/ op.h \in {"child", "found"} =>
       \A j \in rec.todo \ {op.i} : intents[j].st \in {"PREPARED", "SUBMITTING", "AMBIGUOUS"}
  /\ pc = "plans" \/ op.h = "plan" =>
       /\ op.i \notin rec.todo
       /\ \A p \in rec.todo \ {op.plan} : intents[p].st = "PREPARED"

ControlInv == StepInv /\ PlanInv /\ TodoInv

IInv == TypeOK /\ LedgerInv /\ ControlInv

-----------------------------------------------------------------------------
(***************************************************************************)
(* Types of the helpers.                                                    *)
(***************************************************************************)

\* Zero, the "none" of an identifier, is neither an intent nor a trade.
LEMMA IdFacts == 0 \notin Ids /\ Ids \subseteq Nat /\ 0 \notin Trades /\ Trades \subseteq Nat
BY ExchangeAssumption, ExecutionAssumption DEF Ids, Trades

LEMMA NoOpType == NoOp \in Op
BY DEF Op, NoOp, Handlers, CancelOps

LEMMA SetRowType ==
  ASSUME TypeOK, NEW t \in Trades \cup {0}, NEW r \in Row, SetRow(t, r)
  PROVE  rows' \in [Trades -> Row] /\ latest' \in Trades \cup {0}
BY DEF TypeOK, SetRow

LEMMA LifecycleType ==
  ASSUME TypeOK, NEW t \in Trades, NEW lc \in Lifecycles, SetLifecycle(t, lc)
  PROVE  rows' \in [Trades -> Row] /\ latest' \in Trades \cup {0}
<1>1. [rows[t] EXCEPT !.lc = lc] \in Row
  BY DEF TypeOK, Row
<1> QED
  BY <1>1, SetRowType DEF SetLifecycle

LEMMA AdvanceType ==
  ASSUME NEW a \in Lifecycles, NEW b \in Lifecycles PROVE Advance(a, b) \in Lifecycles
BY DEF Advance

\* A report of the bound BUY leaves a row.
LEMMA ApplyBuyType ==
  ASSUME TypeOK, NEW r \in Row PROVE ApplyBuy(r) \in Row
<1>1. CASE r.ent = 0
  BY <1>1 DEF ApplyBuy
<1>2. CASE r.ent # 0
  <2> DEFINE o == book[r.ent]
             lc == IF o.bought = o.qty THEN "ENTRY_FILLED"
                   ELSE IF o.bought > 0 THEN "ENTRY_PARTIALLY_FILLED"
                   ELSE IF o.ph = "done" THEN "ENTRY_REJECTED"
                   ELSE r.lc
  <2>1. r.ent \in Ids /\ o.bought \in Nat
    BY <1>2 DEF TypeOK, ExchangeTypeOK, Row, Order
  <2>2. lc \in Lifecycles /\ r.lc \in Lifecycles
    BY DEF Lifecycles, Row
  <2>3. ApplyBuy(r) = [r EXCEPT !.filled = o.bought, !.lc = Advance(r.lc, lc)]
    BY <1>2 DEF ApplyBuy
  <2> HIDE DEF o, lc
  <2> QED
    BY <2>1, <2>2, <2>3, AdvanceType DEF Row
<1> QED
  BY <1>1, <1>2

\* A report of the bound SELL leaves a row.
LEMMA ApplySellType ==
  ASSUME TypeOK, NEW r \in Row PROVE ApplySell(r) \in Row
<1>1. CASE r.obj = 0
  BY <1>1 DEF ApplySell
<1>2. CASE r.obj # 0
  <2> DEFINE o == book[r.obj]
  <2>1. r.obj \in Ids /\ o.qty \in Nat /\ r.lc \in Lifecycles
    BY <1>2 DEF TypeOK, ExchangeTypeOK, Row, Order
  <2>2. Advance(r.lc, "PROTECTION_ACTIVE") \in Lifecycles /\ Advance(r.lc, "EXIT_FILLED") \in Lifecycles
    BY <2>1, AdvanceType DEF Lifecycles
  <2>3. \/ ApplySell(r) = [r EXCEPT !.prot = o.qty, !.lc = Advance(r.lc, "PROTECTION_ACTIVE")]
        \/ ApplySell(r) = [r EXCEPT !.lc = Advance(r.lc, "EXIT_FILLED")]
        \/ ApplySell(r) = r
    BY <1>2 DEF ApplySell
  <2> HIDE DEF o
  <2> QED
    BY <2>1, <2>2, <2>3 DEF Row
<1> QED
  BY <1>1, <1>2

LEMMA SetStateType ==
  ASSUME TypeOK, NEW i, NEW st \in IntentStates, SetState(i, st)
  PROVE  intents' \in [Ids -> Intent]
<1>0. intents \in [Ids -> Intent]
  BY DEF TypeOK
<1>1. intents' = [intents EXCEPT ![i] = [intents[i] EXCEPT !.st = st]]
  BY DEF SetState
<1>2. CASE i \in Ids
  <2>1. intents[i] \in Intent
    BY <1>0, <1>2
  <2>2. [intents[i] EXCEPT !.st = st] \in Intent
    BY <2>1 DEF Intent
  <2> QED
    BY <1>0, <1>1, <2>2
<1>3. CASE i \notin Ids
  BY <1>0, <1>1, <1>3
<1> QED
  BY <1>2, <1>3

LEMMA NewPostType ==
  ASSUME NEW o \in PostOps, NEW t \in Trades, NEW p \in Ids \cup {0}, NEW ep \in {"list", "order"},
         NEW q \in Nat
  PROVE  NewPost(o, t, p, ep, q) \in Intent
BY DEF NewPost, Intent, Ops, IntentStates

LEMMA PrepareType ==
  ASSUME TypeOK, NEW i, NEW n \in Intent, Prepare(i, n) PROVE intents' \in [Ids -> Intent]
<1>1. ASSUME NEW m \in Intent PROVE [m EXCEPT !.st = "ABORTED"] \in Intent
  BY DEF Intent, IntentStates
<1> QED
  BY <1>1 DEF TypeOK, Prepare

LEMMA OrderType ==
  ASSUME TypeOK, NEW i \in Ids
  PROVE  /\ book[i].qty \in Nat /\ book[i].bought \in Nat /\ book[i].sold \in Nat
         /\ btc.free \in Int /\ btc.locked \in Int
BY DEF TypeOK, ExchangeTypeOK, Order

LEMMA AcceptType ==
  ASSUME TypeOK, NEW i \in Ids, NEW k \in Kinds, NEW q \in Nat, Accept(i, k, q)
  PROVE  book' \in [Ids -> Order] /\ btc' \in [free : Int, locked : Int]
BY OrderType DEF TypeOK, ExchangeTypeOK, Accept, Order

LEMMA TerminateType ==
  ASSUME TypeOK, NEW i \in Ids, Terminate(i)
  PROVE  book' \in [Ids -> Order] /\ btc' \in [free : Int, locked : Int] /\ bell' \subseteq Ids
BY OrderType DEF TypeOK, ExchangeTypeOK, Terminate, Order

LEMMA FaultType ==
  ASSUME TypeOK, Fault \/ NoFault PROVE faults' \in 0 .. MaxFaults
BY ExchangeAssumption DEF TypeOK, ExchangeTypeOK, Fault, NoFault

-----------------------------------------------------------------------------
(***************************************************************************)
(* Types: the exchange.                                                     *)
(***************************************************************************)
LEMMA ExchangeTypes == ASSUME IInv, Next PROVE ExchangeTypeOK'
<1> USE DEF IInv, exchangeVars
<1>1. TypeOK
  OBVIOUS
<1>2. ASSUME UNCHANGED <<book, wire, btc>>, bell' \subseteq bell, faults' \in 0 .. MaxFaults
      PROVE  ExchangeTypeOK'
  BY <1>2 DEF TypeOK, ExchangeTypeOK
<1>3. CASE Exchange
  <2>1. ASSUME NEW i \in Ids, BuyFill(i) PROVE ExchangeTypeOK'
    BY <2>1, OrderType DEF BuyFill, TypeOK, ExchangeTypeOK, Order
  <2>2. ASSUME NEW i \in Ids, SellFill(i) PROVE ExchangeTypeOK'
    <3> DEFINE ph == IF book[i].sold + 1 = book[i].qty THEN "done" ELSE book[i].ph
    <3>1. ASSUME NEW o \in Order, NEW n \in Nat, NEW p \in {"none", "working", "protecting", "done"}
          PROVE  [o EXCEPT !.sold = n, !.ph = p] \in Order
      BY DEF Order
    <3>2. book[i] \in Order /\ book[i].sold + 1 \in Nat
      BY OrderType DEF TypeOK, ExchangeTypeOK
    <3>3. ph \in {"none", "working", "protecting", "done"}
      BY <3>2 DEF Order
    <3>4. book' = [book EXCEPT ![i] = [book[i] EXCEPT !.sold = book[i].sold + 1, !.ph = ph]]
      BY <2>2 DEF SellFill
    <3>5. [book[i] EXCEPT !.sold = book[i].sold + 1, !.ph = ph] \in Order
      <4> HIDE DEF ph
      <4> QED
        BY <3>1, <3>2, <3>3
    <3>6. book' \in [Ids -> Order]
      BY <3>4, <3>5 DEF TypeOK, ExchangeTypeOK
    <3> QED
      BY <2>2, <3>6, OrderType DEF SellFill, TypeOK, ExchangeTypeOK
  <2>3. ASSUME NEW i \in Ids, ExpireEntry(i) PROVE ExchangeTypeOK'
    BY <2>3, TerminateType, FaultType DEF ExpireEntry, TypeOK, ExchangeTypeOK
  <2>4. ASSUME NEW m \in wire, LandPost(m) PROVE ExchangeTypeOK'
    <3>1. m.id \in Ids /\ m.kind \in Kinds /\ m.qty \in Nat
      BY DEF TypeOK, ExchangeTypeOK, Request
    <3> QED
      BY <2>4, <3>1, AcceptType DEF LandPost, TypeOK, ExchangeTypeOK
  <2>5. ASSUME NEW m \in wire, LandDelete(m) PROVE ExchangeTypeOK'
    <3>1. m.id \in Ids
      BY DEF TypeOK, ExchangeTypeOK, Request
    <3> QED
      BY <2>5, <3>1, TerminateType DEF LandDelete, TypeOK, ExchangeTypeOK
  <2> QED
    BY <1>3, <2>1, <2>2, <2>3, <2>4, <2>5 DEF Exchange, ExchangeStep
<1>4. CASE PostProcedure
  <2>1. CASE PostAccepted \/ PostUnanswered
    <3>1. /\ op.i \in Ids /\ intents[op.i].qty \in Nat
          /\ KindOf(op.i) \in Kinds
      BY <2>1 DEF PostAccepted, PostUnanswered, ControlInv, StepInv, TypeOK, Intent, KindOf, Kinds
    <3>2. CASE PostAccepted
      BY <3>1, <3>2, AcceptType DEF PostAccepted, TypeOK, ExchangeTypeOK
    <3>3. CASE PostUnanswered
      BY <3>1, <3>3, FaultType DEF PostUnanswered, TypeOK, ExchangeTypeOK, Request
    <3> QED
      BY <2>1, <3>2, <3>3
  <2>2. CASE MarkSubmitting \/ PostRejected \/ LookupFound \/ LookupMissing \/ ConfirmIntent \/ BindIntent
    BY <1>2, <2>2, FaultType DEF MarkSubmitting, PostRejected, LookupFound, LookupMissing,
       ConfirmIntent, BindIntent, TypeOK, ExchangeTypeOK
  <2> QED
    BY <1>4, <2>1, <2>2 DEF PostProcedure
<1>5. CASE CancelProcedure
  <2>1. CASE DeleteAccepted
    <3>1. op.x \in Ids
      BY <2>1 DEF DeleteAccepted, ControlInv, StepInv
    <3> QED
      BY <2>1, <3>1, TerminateType DEF DeleteAccepted, TypeOK, ExchangeTypeOK
  <2>2. CASE DeleteFails
    <3>1. op.x \in Ids
      BY <2>2 DEF DeleteFails, ControlInv, StepInv
    <3> QED
      BY <2>2, <3>1, FaultType DEF DeleteFails, TypeOK, ExchangeTypeOK, Request, Kinds
  <2>3. CASE CancelAlreadyPrepared
    BY <1>2, <2>3, FaultType DEF CancelAlreadyPrepared, TypeOK, ExchangeTypeOK
  <2>4. CASE \/ CancelWithoutTarget \/ CancelOutOfRoom \/ CancelMark \/ CancelConfirm
             \/ \E i \in Ids : CancelPrepare(i)
    BY <1>2, <2>4 DEF CancelWithoutTarget, CancelOutOfRoom, CancelMark, CancelConfirm,
       CancelPrepare, TypeOK, ExchangeTypeOK
  <2> QED
    BY <1>5, <2>1, <2>2, <2>3, <2>4 DEF CancelProcedure
<1>6. CASE Entry \/ Convert \/ Emergency
  <2>1. faults' = faults \/ Fault
    BY <1>6 DEF Entry, ProcessSignal, ManualEntry, SubmitRefused, SubmitRaises, SubmitPersist,
       PrepareEntry, EntryDone, Convert, ConvertBegin, ConvertStops, ConvertCanceled,
       ReplaceFoundFlat, ConvertExited, ConvertDone, PrepareReplacement, Emergency,
       EmergencyBegin, EmergencyStops, EmergencyVerify, EmergencySell, NoFault
  <2>2. UNCHANGED <<book, wire, btc, bell>>
    BY <1>6 DEF Entry, ProcessSignal, ManualEntry, SubmitRefused, SubmitRaises, SubmitPersist,
       PrepareEntry, EntryDone, Convert, ConvertBegin, ConvertStops, ConvertCanceled,
       ReplaceFoundFlat, ConvertExited, ConvertDone, PrepareReplacement, Emergency,
       EmergencyBegin, EmergencyStops, EmergencyVerify, EmergencySell
  <2> QED
    BY <1>2, <2>1, <2>2, FaultType DEF NoFault
<1>7. CASE Tick
  <2>1. faults' = faults \/ Fault
    BY <1>7 DEF Tick, EntryWindowExpires, TickBegin, TickPartial, StaleFails, StaleCancels,
       StaleCanceled, StaleTerminal, PartialCompletes, PartialRefuses, PartialCancels,
       PartialProceeds, PartialFails, PartialCanceled, PartialTerminal, PartialDone,
       PartialPlace, NoFault
  <2>2. UNCHANGED <<book, wire, btc, bell>>
    BY <1>7 DEF Tick, EntryWindowExpires, TickBegin, TickPartial, StaleFails, StaleCancels,
       StaleCanceled, StaleTerminal, PartialCompletes, PartialRefuses, PartialCancels,
       PartialProceeds, PartialFails, PartialCanceled, PartialTerminal, PartialDone,
       PartialPlace
  <2> QED
    BY <1>2, <2>1, <2>2, FaultType DEF NoFault
<1>8. CASE Reconcile
  <2>1. faults' = faults \/ Fault
    BY <1>8 DEF Reconcile, ReconcileCommand, ArmCommand, ArmFinish, Start, ResolveSkips,
       ResolveChild, ResolvePrepared, ResolveCancel, ResolveFound, PlanWithoutCancel,
       PlanResumes, ResolveAbortedEntry, ResolveDone, ResolveEnds, PlanStays, PlanDone,
       PlansEnd, Refresh, RecoverExits, ReconcileRecovers, Verdict, NoFault
  <2>2. UNCHANGED <<book, wire, btc>> /\ bell' \in {bell, {}}
    BY <1>8 DEF Reconcile, ReconcileCommand, ArmCommand, ArmFinish, Start, ResolveSkips,
       ResolveChild, ResolvePrepared, ResolveCancel, ResolveFound, PlanWithoutCancel,
       PlanResumes, ResolveAbortedEntry, ResolveDone, ResolveEnds, PlanStays, PlanDone,
       PlansEnd, Refresh, RecoverExits, ReconcileRecovers, Verdict
  <2> QED
    BY <1>2, <2>1, <2>2, FaultType DEF NoFault
<1>9. CASE Stream \/ Owner \/ Crash
  <2>1. faults' = faults \/ Fault
    BY <1>9 DEF Stream, StreamUpdate, StreamPartialFill, StreamResync, Owner, ClearRiskPause,
       OwnerPause, Crash
  <2>2. UNCHANGED <<book, wire, btc>> /\ bell' \subseteq bell
    BY <1>9 DEF Stream, StreamUpdate, StreamPartialFill, StreamResync, Owner, ClearRiskPause,
       OwnerPause, Crash
  <2> QED
    BY <1>2, <2>1, <2>2, FaultType DEF NoFault
<1> QED
  BY <1>3, <1>4, <1>5, <1>6, <1>7, <1>8, <1>9 DEF Next

-----------------------------------------------------------------------------
(***************************************************************************)
(* Types: the durable intents.                                              *)
(***************************************************************************)
LEMMA IntentTypes == ASSUME IInv, Next PROVE intents' \in [Ids -> Intent]
<1> USE DEF IInv
<1>1. TypeOK /\ intents \in [Ids -> Intent] /\ op \in Op /\ btc.free \in Int
  BY DEF TypeOK, ExchangeTypeOK
<1>2. ASSUME NEW i, NEW st \in IntentStates, SetState(i, st) PROVE intents' \in [Ids -> Intent]
  BY <1>1, <1>2, SetStateType
<1>3. ASSUME NEW i, NEW n \in Intent, Prepare(i, n) PROVE intents' \in [Ids -> Intent]
  BY <1>1, <1>3, PrepareType
<1>4. ASSUME NEW i \in Ids, PrepareEntry(i) PROVE intents' \in [Ids -> Intent]
  <2>1. op.t \in Trades /\ EntryQty \in Nat
    BY <1>4, ExchangeAssumption DEF PrepareEntry, ControlInv, StepInv, TradeSteps
  <2>2. NewPost("ENTRY", op.t, 0, "list", EntryQty) \in Intent
    BY <2>1, NewPostType DEF PostOps
  <2> QED
    BY <1>3, <1>4, <2>2 DEF PrepareEntry
<1>5. ASSUME NEW i \in Ids, CancelPrepare(i) PROVE intents' \in [Ids -> Intent]
  <2>1. [NoIntent EXCEPT !.opn = op.c, !.trade = op.t, !.obj = op.x, !.st = "PREPARED"] \in Intent
    <3>1. ASSUME NEW n \in Intent, NEW o \in CancelOps, NEW t \in Trades \cup {0}, NEW x \in Ids \cup {0}
          PROVE  [n EXCEPT !.opn = o, !.trade = t, !.obj = x, !.st = "PREPARED"] \in Intent
      BY DEF Intent, Ops, IntentStates
    <3>2. NoIntent \in Intent
      BY DEF NoIntent, Intent, Ops, IntentStates
    <3>3. op.c \in CancelOps /\ op.t \in Trades \cup {0} /\ op.x \in Ids \cup {0}
      BY <1>1 DEF Op
    <3> QED
      BY <3>1, <3>2, <3>3
  <2> QED
    BY <1>3, <1>5, <2>1 DEF CancelPrepare
<1>6. ASSUME NEW h, NEW t \in Trades, NEW i \in Ids, NEW ep \in Endpoints, ConvertBegin(h, t, i, ep)
      PROVE  intents' \in [Ids -> Intent]
  <2>1. [NoIntent EXCEPT !.opn = "REPLACE_PROTECTION", !.trade = t, !.ep = ep,
                         !.qty = rows[t].prot, !.st = "PREPARED"] \in Intent
    <3>1. ASSUME NEW n \in Intent, NEW e \in {"list", "order"}, NEW q \in Nat
          PROVE  [n EXCEPT !.opn = "REPLACE_PROTECTION", !.trade = t, !.ep = e,
                           !.qty = q, !.st = "PREPARED"] \in Intent
      BY DEF Intent, Ops, IntentStates
    <3>2. NoIntent \in Intent
      BY DEF NoIntent, Intent, Ops, IntentStates
    <3>3. ep \in {"list", "order"} /\ rows[t].prot \in Nat
      BY <1>1, ExecutionAssumption DEF TypeOK, Row
    <3> QED
      BY <3>1, <3>2, <3>3
  <2> QED
    BY <1>3, <1>6, <2>1 DEF ConvertBegin
<1>7. ASSUME NEW i \in Ids, PrepareReplacement(i) PROVE intents' \in [Ids -> Intent]
  <2>1. op.t \in Trades /\ op.plan \in Ids
    BY <1>7 DEF PrepareReplacement, ControlInv, StepInv, PlanInv, TradeSteps
  <2>2. intents[op.plan].ep \in {"list", "order"} /\ op.q \in Nat
    BY <1>1, <2>1 DEF Intent, Op
  <2>3. SmallerOf(btc.free, op.q) \in Nat
    BY <1>1, <1>7, <2>2 DEF PrepareReplacement, SmallerOf
  <2>4. NewPost("PROTECTION", op.t, op.plan, intents[op.plan].ep, SmallerOf(btc.free, op.q)) \in Intent
    BY <2>1, <2>2, <2>3, NewPostType DEF PostOps
  <2> QED
    BY <1>3, <1>7, <2>4 DEF PrepareReplacement
<1>8. ASSUME NEW i \in Ids, EmergencySell(i) PROVE intents' \in [Ids -> Intent]
  <2>1. op.t \in Trades /\ op.q \in Nat
    BY <1>1, <1>8 DEF EmergencySell, ControlInv, StepInv, TradeSteps, Op
  <2>2. SmallerOf(btc.free, op.q) \in Nat
    BY <1>1, <1>8, <2>1 DEF EmergencySell, SmallerOf
  <2>3. NewPost("EMERGENCY_EXIT", op.t, 0, "order", SmallerOf(btc.free, op.q)) \in Intent
    BY <2>1, <2>2, NewPostType DEF PostOps
  <2> QED
    BY <1>3, <1>8, <2>3 DEF EmergencySell
<1>9. ASSUME NEW i \in Ids, NEW ep \in Endpoints, PartialPlace(i, ep) PROVE intents' \in [Ids -> Intent]
  <2>1. op.t \in Trades
    BY <1>9 DEF PartialPlace, ControlInv, StepInv, TradeSteps
  <2>2. rows[op.t].filled \in Nat /\ ep \in {"list", "order"}
    BY <1>1, <2>1, ExecutionAssumption DEF TypeOK, Row
  <2>3. SmallerOf(btc.free, rows[op.t].filled) \in Nat
    BY <1>1, <1>9, <2>2 DEF PartialPlace, SmallerOf
  <2>4. NewPost("PARTIAL_FILL_PROTECTION", op.t, 0, ep, SmallerOf(btc.free, rows[op.t].filled)) \in Intent
    BY <2>1, <2>2, <2>3, NewPostType DEF PostOps
  <2> QED
    BY <1>3, <1>9, <2>4 DEF PartialPlace
<1>10. CASE PostProcedure
  <2>1. \/ intents' = intents
        \/ \E st \in IntentStates : SetState(op.i, st)
    BY <1>10 DEF PostProcedure, MarkSubmitting, PostAccepted, PostRejected, PostUnanswered,
       LookupFound, LookupMissing, ConfirmIntent, BindIntent, IntentStates
  <2> QED
    BY <1>1, <1>2, <2>1
<1>11. CASE CancelProcedure
  <2>1. \/ intents' = intents
        \/ \E st \in IntentStates : SetState(op.i, st)
        \/ \E i \in Ids : CancelPrepare(i)
    BY <1>11 DEF CancelProcedure, CancelWithoutTarget, CancelAlreadyPrepared, CancelOutOfRoom,
       CancelMark, DeleteAccepted, DeleteFails, CancelConfirm, IntentStates
  <2> QED
    BY <1>1, <1>2, <1>5, <2>1
<1>12. CASE Reconcile
  <2>1. \/ intents' = intents
        \/ \E i \in Ids, st \in IntentStates : SetState(i, st)
    BY <1>12 DEF Reconcile, ReconcileCommand, ArmCommand, ArmFinish, Start, ResolveSkips,
       ResolveChild, ResolvePrepared, ResolveCancel, ResolveFound, PlanWithoutCancel,
       PlanResumes, ResolveAbortedEntry, ResolveDone, ResolveEnds, PlanStays, PlanDone,
       PlansEnd, Refresh, RecoverExits, ReconcileRecovers, Verdict, IntentStates
  <2> QED
    BY <1>1, <1>2, <2>1
<1>13. CASE Entry
  <2>1. intents' = intents \/ \E i \in Ids : PrepareEntry(i)
    BY <1>13 DEF Entry, ProcessSignal, ManualEntry, SubmitRefused, SubmitRaises, SubmitPersist, EntryDone
  <2> QED
    BY <1>1, <1>4, <2>1
<1>14. CASE Convert
  <2>1. \/ intents' = intents
        \/ SetState(op.plan, "ABORTED")
        \/ \E h \in {"convert", "auto"}, t \in Trades, i \in Ids, ep \in Endpoints : ConvertBegin(h, t, i, ep)
        \/ \E i \in Ids : PrepareReplacement(i)
    BY <1>14 DEF Convert, ConvertStops, ConvertCanceled, ReplaceFoundFlat, ConvertExited, ConvertDone
  <2> QED
    BY <1>1, <1>2, <1>6, <1>7, <2>1 DEF IntentStates
<1>15. CASE Emergency
  <2>1. intents' = intents \/ \E i \in Ids : EmergencySell(i)
    BY <1>15 DEF Emergency, EmergencyBegin, EmergencyStops, EmergencyVerify
  <2> QED
    BY <1>1, <1>8, <2>1
<1>16. CASE Tick
  <2>1. intents' = intents \/ \E i \in Ids, ep \in Endpoints : PartialPlace(i, ep)
    BY <1>16 DEF Tick, EntryWindowExpires, TickBegin, TickPartial, StaleFails, StaleCancels,
       StaleCanceled, StaleTerminal, PartialCompletes, PartialRefuses, PartialCancels,
       PartialProceeds, PartialFails, PartialCanceled, PartialTerminal, PartialDone
  <2> QED
    BY <1>1, <1>9, <2>1
<1>17. CASE Exchange \/ Stream \/ Owner \/ Crash
  BY <1>1, <1>17 DEF Exchange, durableVars, Stream, StreamUpdate, StreamPartialFill,
     StreamResync, Owner, ClearRiskPause, OwnerPause, Crash
<1> QED
  BY <1>10, <1>11, <1>12, <1>13, <1>14, <1>15, <1>16, <1>17 DEF Next

-----------------------------------------------------------------------------
(***************************************************************************)
(* Types: the trade records.                                                *)
(***************************************************************************)
RowsTyped == rows \in [Trades -> Row] /\ latest \in Trades \cup {0}

LEMMA RowTypes == ASSUME IInv, Next PROVE RowsTyped'
<1> USE DEF IInv, RowsTyped
<1>1. TypeOK /\ rows \in [Trades -> Row] /\ latest \in Trades \cup {0}
  BY DEF TypeOK
<1>2. ASSUME NEW t \in Trades \cup {0}, NEW r \in Row, SetRow(t, r) PROVE RowsTyped'
  BY <1>1, <1>2, SetRowType
<1>3. ASSUME NEW t \in Trades, NEW lc \in Lifecycles, SetLifecycle(t, lc) PROVE RowsTyped'
  BY <1>1, <1>3, LifecycleType
<1>4. ASSUME KeepRows PROVE RowsTyped'
  BY <1>1, <1>4 DEF KeepRows
<1>5. pc \in TradeSteps => op.t \in Trades /\ rows[op.t] \in Row
  BY <1>1 DEF ControlInv, StepInv
<1>6. \A t \in Trades : ApplyBuy(rows[t]) \in Row /\ ApplySell(rows[t]) \in Row
                        /\ ApplyAll(rows[t]) \in Row
  BY <1>1, ApplyBuyType, ApplySellType DEF ApplyAll
<1>7. ASSUME NEW r \in Row, NEW lc \in Lifecycles PROVE [r EXCEPT !.lc = lc] \in Row
  BY DEF Row
<1>8. CASE Entry
  <2>1. ASSUME NEW t \in Trades, ProcessSignal(t) \/ ManualEntry(t) PROVE RowsTyped'
    BY <1>3, <1>4, <2>1 DEF ProcessSignal, ManualEntry, Lifecycles
  <2>2. CASE SubmitRefused
    BY <1>3, <1>4, <1>5, <2>2 DEF SubmitRefused, Lifecycles, TradeSteps
  <2>3. CASE SubmitPersist
    <3>1. [NoRow EXCEPT !.lc = "ENTRY_SUBMITTED"] \in Row
      BY DEF NoRow, Row, Lifecycles
    <3> QED
      BY <1>2, <1>5, <2>3, <3>1 DEF SubmitPersist, TradeSteps
  <2>4. CASE EntryDone
    BY <1>3, <1>4, <1>5, <2>4 DEF EntryDone, Lifecycles, TradeSteps
  <2> QED
    BY <1>4, <1>8, <2>1, <2>2, <2>3, <2>4 DEF Entry, SubmitRaises, PrepareEntry
<1>9. CASE PostProcedure
  <2>1. CASE BindIntent
    <3> DEFINE n == intents[op.i]
               b == BoundRow(n, rows[n.trade], op.i)
    <3>1. op.i \in Ids /\ n \in Intent /\ n.trade \in Trades
      BY <2>1 DEF BindIntent, TypeOK, ControlInv, StepInv, LedgerInv
    <3>2. b \in Row
      <4>1. ASSUME NEW r \in Row, NEW q \in Nat
            PROVE  /\ [r EXCEPT !.lc = "ENTRY_SUBMITTED", !.ent = op.i, !.obj = op.i] \in Row
                   /\ [r EXCEPT !.lc = "PROTECTION_ACTIVE", !.obj = op.i, !.prot = q] \in Row
        BY <3>1 DEF Row, Lifecycles
      <4>2. rows[n.trade] \in Row /\ n.qty \in Nat
        BY <1>1, <3>1 DEF Intent
      <4> HIDE DEF n
      <4> QED
        BY <4>1, <4>2 DEF BoundRow
    <3>3. Reported(n, b) \subseteq {b, ApplyBuy(b), ApplyAll(b)}
      BY DEF Reported
    <3>4. ApplyBuy(b) \in Row /\ ApplyAll(b) \in Row
      BY <1>1, <3>2, ApplyBuyType, ApplySellType DEF ApplyAll
    <3>5. \E r \in Reported(n, b) : SetRow(n.trade, r)
      BY <2>1 DEF BindIntent
    <3> HIDE DEF n, b
    <3> QED
      BY <1>2, <3>1, <3>2, <3>3, <3>4, <3>5
  <2> QED
    BY <1>4, <1>9, <2>1 DEF PostProcedure, MarkSubmitting, PostAccepted, PostRejected,
       PostUnanswered, LookupFound, LookupMissing, ConfirmIntent, PostUnchanged
<1>10. CASE CancelProcedure
  BY <1>4, <1>10 DEF CancelProcedure, CancelWithoutTarget, CancelAlreadyPrepared,
     CancelOutOfRoom, CancelPrepare, CancelMark, DeleteAccepted, DeleteFails, CancelConfirm,
     CancelUnchanged
<1>11. CASE Convert
  <2>1. CASE ConvertExited \/ ConvertDone
    BY <1>3, <1>5, <2>1 DEF ConvertExited, ConvertDone, Lifecycles, TradeSteps
  <2> QED
    BY <1>4, <1>11, <2>1 DEF Convert, ConvertBegin, ConvertStops, ConvertCanceled,
       ReplaceFoundFlat, PrepareReplacement
<1>12. CASE Emergency
  <2>1. CASE EmergencyVerify
    BY <1>3, <1>4, <1>5, <2>1 DEF EmergencyVerify, Lifecycles, TradeSteps
  <2> QED
    BY <1>4, <1>12, <2>1 DEF Emergency, EmergencyBegin, EmergencyStops, EmergencySell
<1>13. CASE Tick
  <2>1. ASSUME NEW t \in Trades, EntryWindowExpires(t) PROVE RowsTyped'
    BY <1>1, <2>1 DEF EntryWindowExpires, Row
  <2>2. CASE StaleCancels \/ StaleTerminal
    <3>1. op.t \in Trades
      BY <1>5, <2>2 DEF StaleCancels, StaleTerminal, TradeSteps
    <3>2. [ApplyBuy(rows[op.t]) EXCEPT !.lc = "ENTRY_REJECTED"] \in Row
      BY <1>6, <1>7, <3>1 DEF Lifecycles
    <3> QED
      BY <1>2, <1>6, <2>2, <3>1, <3>2 DEF StaleCancels, StaleTerminal
  <2>3. ASSUME NEW t \in Trades,
               PartialCompletes(t) \/ PartialRefuses(t) \/ PartialCancels(t) \/ PartialProceeds(t)
        PROVE  RowsTyped'
    <3>1. [ApplyBuy(rows[t]) EXCEPT !.lc = "PROTECTION_ACTIVE"] \in Row
      BY <1>6, <1>7 DEF Lifecycles
    <3> QED
      BY <1>2, <1>6, <2>3, <3>1 DEF PartialCompletes, PartialRefuses, PartialCancels, PartialProceeds
  <2>4. CASE PartialTerminal
    BY <1>2, <1>4, <1>5, <1>6, <2>4 DEF PartialTerminal, TradeSteps
  <2> QED
    BY <1>4, <1>13, <2>1, <2>2, <2>3, <2>4 DEF Tick, TickBegin, TickPartial, StaleFails,
       StaleCanceled, PartialFails, PartialCanceled, PartialDone, PartialPlace
<1>14. CASE Reconcile
  <2>1. CASE ResolveAbortedEntry
    BY <1>3, <1>5, <2>1 DEF ResolveAbortedEntry, Lifecycles, TradeSteps
  <2>2. CASE ResolveDone \/ PlanDone
    BY <1>3, <1>4, <1>5, <2>2 DEF ResolveDone, PlanDone, Lifecycles, TradeSteps
  <2>3. CASE Refresh
    BY <1>1, <1>4, <1>6, <2>3 DEF Refresh, ActiveRows
  <2>4. CASE RecoverExits
    <3>1. [t \in Trades |-> [rows[t] EXCEPT !.lc = "EXIT_FILLED"]] \in [Trades -> Row]
      BY <1>1, <1>7 DEF Lifecycles
    <3> QED
      BY <1>1, <1>4, <2>4, <3>1 DEF RecoverExits
  <2> QED
    BY <1>4, <1>14, <2>1, <2>2, <2>3, <2>4 DEF Reconcile, ReconcileCommand, ArmCommand,
       ArmFinish, Start, ResolveSkips, ResolveChild, ResolvePrepared, ResolveCancel,
       ResolveFound, PlanWithoutCancel, PlanResumes, ResolveEnds, PlanStays, PlansEnd,
       ReconcileRecovers, Verdict
<1>15. CASE Stream
  <2>1. ASSUME NEW t \in Trades, StreamUpdate(t) PROVE RowsTyped'
    BY <1>2, <1>6, <2>1 DEF StreamUpdate
  <2>2. ASSUME NEW i \in Ids, StreamPartialFill(i) PROVE RowsTyped'
    BY <1>2, <1>4, <1>6, <2>2 DEF StreamPartialFill
  <2> QED
    BY <1>4, <1>15, <2>1, <2>2 DEF Stream, StreamResync
<1>16. CASE Exchange \/ Owner \/ Crash
  BY <1>4, <1>16 DEF Exchange, durableVars, KeepRows, Owner, ClearRiskPause, OwnerPause, Crash
<1> QED
  BY <1>8, <1>9, <1>10, <1>11, <1>12, <1>13, <1>14, <1>15, <1>16 DEF Next

-----------------------------------------------------------------------------
(***************************************************************************)
(* Types: the locals of the main thread.                                    *)
(***************************************************************************)
OpTyped == op \in Op /\ rec \in Rec

\* A handler's locals after the assignments of one step.
LEMMA OpH  == ASSUME NEW o \in Op, NEW h \in Handlers PROVE [o EXCEPT !.h = h] \in Op
BY DEF Op
LEMMA OpHT == ASSUME NEW o \in Op, NEW h \in Handlers, NEW t \in Trades
              PROVE  [o EXCEPT !.h = h, !.t = t] \in Op
BY DEF Op
LEMMA OpI  == ASSUME NEW o \in Op, NEW i \in Ids PROVE [o EXCEPT !.i = i] \in Op
BY DEF Op
LEMMA OpIT == ASSUME NEW o \in Op, NEW i \in Ids, NEW t \in Trades
              PROVE  [o EXCEPT !.i = i, !.t = t] \in Op
BY DEF Op
LEMMA OpHTI == ASSUME NEW o \in Op, NEW h \in Handlers, NEW t \in Trades, NEW i \in Ids
               PROVE  [o EXCEPT !.h = h, !.t = t, !.i = i] \in Op
BY DEF Op
LEMMA OpHTIG == ASSUME NEW o \in Op, NEW h \in Handlers, NEW t \in Trades, NEW i \in Ids
                PROVE  [o EXCEPT !.h = h, !.t = t, !.i = i, !.got = TRUE] \in Op
BY DEF Op
LEMMA OpHTPQ == ASSUME NEW o \in Op, NEW h \in Handlers, NEW t \in Trades, NEW p \in Ids, NEW q \in Nat
                PROVE  [o EXCEPT !.h = h, !.t = t, !.plan = p, !.q = q] \in Op
BY DEF Op

LEMMA RecUpdateType ==
  ASSUME NEW r \in Rec, NEW S \in SUBSET Ids, NEW b \in BOOLEAN
  PROVE  /\ NoRec \in Rec
         /\ [r EXCEPT !.todo = S] \in Rec
         /\ [r EXCEPT !.ok = b] \in Rec
         /\ [NoRec EXCEPT !.was = b] \in Rec
BY DEF Rec, NoRec

LEMMA BeginReconcileType ==
  ASSUME NEW ret \in {"start", "arm", "auto", "command"}, NEW was \in BOOLEAN, BeginReconcile(ret, was)
  PROVE  OpTyped'
BY NoOpType DEF BeginReconcile, OpTyped, Rec, Unresolved

LEMMA OpTypes == ASSUME IInv, Next PROVE OpTyped'
<1> USE DEF IInv, OpTyped, Goto
<1>1. TypeOK /\ op \in Op /\ rec \in Rec /\ NoOp \in Op /\ NoRec \in Rec
  BY NoOpType DEF TypeOK, Rec, NoRec
<1>2. ASSUME Finish PROVE op' \in Op
  BY <1>1, <1>2 DEF Finish
<1>3. rec.ret \in {"none", "start", "arm", "auto", "command"} /\ rec.todo \subseteq Ids
      /\ rec.ok \in BOOLEAN /\ rec.was \in BOOLEAN
  BY <1>1 DEF Rec
<1>4. \A t \in Trades : /\ rows[t].obj \in Ids \cup {0} /\ rows[t].filled \in Nat
                        /\ rows[t].prot \in Nat
                        /\ LargerOf(rows[t].filled, rows[t].prot) \in Nat
  BY <1>1 DEF TypeOK, Row, LargerOf
<1>5. CASE Entry
  <2>1. rec' = rec
    BY <1>5 DEF Entry, ProcessSignal, ManualEntry, SubmitRefused, SubmitRaises, SubmitPersist,
       PrepareEntry, EntryDone
  <2>2. ASSUME NEW t \in Trades, ProcessSignal(t) \/ ManualEntry(t) PROVE op' \in Op
    <3>1. "entry" \in Handlers /\ "manual" \in Handlers
      BY DEF Handlers
    <3>2. [NoOp EXCEPT !.h = "entry", !.t = t] \in Op /\ [NoOp EXCEPT !.h = "manual", !.t = t] \in Op
      BY <1>1, <3>1, OpHT
    <3> QED
      BY <2>2, <3>2 DEF ProcessSignal, ManualEntry
  <2>3. ASSUME NEW i \in Ids, PrepareEntry(i) PROVE op' \in Op
    <3>1. [op EXCEPT !.i = i] \in Op
      BY <1>1, OpI
    <3> QED
      BY <2>3, <3>1 DEF PrepareEntry
  <2>4. CASE SubmitRefused \/ SubmitRaises \/ SubmitPersist \/ EntryDone
    BY <1>1, <1>2, <2>4 DEF SubmitRefused, SubmitRaises, SubmitPersist, EntryDone
  <2> QED
    BY <1>1, <1>5, <2>1, <2>2, <2>3, <2>4 DEF Entry
<1>6. CASE PostProcedure
  <2>1. op' = op \/ op' = [op EXCEPT !.got = TRUE]
    BY <1>6 DEF PostProcedure, MarkSubmitting, PostAccepted, PostRejected, PostUnanswered,
       LookupFound, LookupMissing, ConfirmIntent, BindIntent
  <2>2. rec' = rec
    BY <1>6 DEF PostProcedure, MarkSubmitting, PostAccepted, PostRejected, PostUnanswered,
       LookupFound, LookupMissing, ConfirmIntent, BindIntent, PostUnchanged
  <2> QED
    BY <1>1, <2>1, <2>2 DEF Op
<1>7. CASE CancelProcedure
  <2>1. rec' = rec /\ (op' = op \/ \E i \in Ids : op' = [op EXCEPT !.i = i])
    BY <1>7 DEF CancelProcedure, CancelWithoutTarget, CancelAlreadyPrepared, CancelOutOfRoom,
       CancelPrepare, CancelMark, DeleteAccepted, DeleteFails, CancelConfirm, CancelUnchanged
  <2> QED
    BY <1>1, <2>1, OpI
<1>8. CASE Convert
  <2>1. ASSUME NEW h \in {"convert", "auto"}, NEW t \in Trades, NEW i \in Ids, NEW ep \in Endpoints,
               ConvertBegin(h, t, i, ep)
        PROVE  OpTyped'
    <3>1. op' = [NoOp EXCEPT !.h = h, !.t = t, !.x = rows[t].obj, !.plan = i, !.q = rows[t].prot]
      BY <2>1 DEF ConvertBegin
    <3>2. rec' = [NoRec EXCEPT !.was = h = "auto" /\ armed]
      BY <2>1 DEF ConvertBegin
    <3>3. op' \in Op
      <4>1. h \in Handlers
        BY DEF Handlers
      <4>2. CancelOps # {}
        BY DEF CancelOps
      <4>3. [NoOp EXCEPT !.h = h, !.t = t, !.x = rows[t].obj, !.plan = i, !.q = rows[t].prot] \in Op
        BY <1>1, <1>4, <4>1, <4>2 DEF Op
      <4> QED
        BY <3>1, <4>3
    <3>4. (h = "auto" /\ armed) \in BOOLEAN
      OBVIOUS
    <3> QED
      BY <1>1, <3>2, <3>3, <3>4, RecUpdateType
  <2>2. ASSUME NEW b \in BOOLEAN, ConvertReturns(b) PROVE OpTyped'
    BY <1>1, <1>2, <1>3, <2>2, BeginReconcileType DEF ConvertReturns
  <2>3. CASE ConvertExited \/ ConvertDone
    BY <2>2, <2>3 DEF ConvertExited, ConvertDone
  <2>4. ASSUME NEW i \in Ids, PrepareReplacement(i) PROVE OpTyped'
    <3>1. [op EXCEPT !.i = i] \in Op
      BY <1>1, OpI
    <3> QED
      BY <1>1, <2>4, <3>1 DEF PrepareReplacement
  <2> QED
    BY <1>1, <1>2, <1>8, <2>1, <2>3, <2>4 DEF Convert, ConvertStops, ConvertCanceled, ReplaceFoundFlat
<1>9. CASE Emergency
  <2>1. ASSUME NEW t \in Trades, EmergencyBegin(t) PROVE OpTyped'
    <3>1. [NoOp EXCEPT !.h = "emergency", !.t = t, !.x = rows[t].obj,
                       !.q = LargerOf(rows[t].filled, rows[t].prot)] \in Op
      <4>1. "emergency" \in Handlers
        BY DEF Handlers
      <4> QED
        BY <1>1, <1>4, <4>1 DEF Op
    <3> QED
      BY <1>1, <2>1, <3>1 DEF EmergencyBegin
  <2>2. ASSUME NEW i \in Ids, EmergencySell(i) PROVE OpTyped'
    <3>1. btc.free \in Int
      BY <1>1 DEF TypeOK, ExchangeTypeOK
    <3>2. [op EXCEPT !.i = i, !.free = btc.free] \in Op
      BY <1>1, <3>1 DEF Op
    <3> QED
      BY <1>1, <2>2, <3>2 DEF EmergencySell, EmergencyUnchanged
  <2> QED
    BY <1>1, <1>2, <1>9, <2>1, <2>2 DEF Emergency, EmergencyStops, EmergencyVerify, EmergencyUnchanged
<1>10. CASE Tick
  <2>1. [NoOp EXCEPT !.h = "partial"] \in Op /\ \A t \in Trades : [NoOp EXCEPT !.h = "stale", !.t = t] \in Op
    <3>1. "partial" \in Handlers /\ "stale" \in Handlers
      BY DEF Handlers
    <3> QED
      BY <1>1, <3>1, OpH, OpHT
  <2>2. ASSUME NEW b \in BOOLEAN PROVE [rec EXCEPT !.ok = @ /\ b] \in Rec
    <3>1. (rec.ok /\ b) \in BOOLEAN
      OBVIOUS
    <3> QED
      BY <1>1, <3>1, RecUpdateType
  <2>3. ASSUME NEW b \in BOOLEAN, StaleReturns(b) PROVE OpTyped'
    BY <1>1, <2>2, <2>3 DEF StaleReturns
  <2>4. ASSUME NEW b \in BOOLEAN, PartialReturns(b) \/ PartialReturn(b) PROVE OpTyped'
    BY <1>1, <2>2, <2>3, <2>4 DEF PartialReturns, PartialReturn
  <2>5. CASE StaleCancels
    <3>1. op.t \in Trades
      BY <2>5 DEF StaleCancels, ControlInv, StepInv, TradeSteps
    <3>2. op' = [op EXCEPT !.x = rows[op.t].obj, !.c = "CANCEL_STALE_ENTRY"] /\ rec' = rec
      BY <2>5 DEF StaleCancels
    <3>3. [op EXCEPT !.x = rows[op.t].obj, !.c = "CANCEL_STALE_ENTRY"] \in Op
      <4>1. "CANCEL_STALE_ENTRY" \in CancelOps
        BY DEF CancelOps
      <4> QED
        BY <1>1, <1>4, <3>1, <4>1 DEF Op
    <3> QED
      BY <1>1, <3>2, <3>3
  <2>6. ASSUME NEW t \in Trades, PartialCancels(t) PROVE OpTyped'
    <3>1. [op EXCEPT !.t = t, !.x = rows[t].obj, !.c = "CANCEL_PARTIAL_ENTRY"] \in Op
      <4>1. "CANCEL_PARTIAL_ENTRY" \in CancelOps
        BY DEF CancelOps
      <4> QED
        BY <1>1, <1>4, <4>1 DEF Op
    <3> QED
      BY <1>1, <2>6, <3>1 DEF PartialCancels
  <2>7. ASSUME NEW t \in Trades, PartialProceeds(t) PROVE OpTyped'
    <3>1. [op EXCEPT !.t = t] \in Op
      BY <1>1 DEF Op
    <3> QED
      BY <1>1, <2>7, <3>1 DEF PartialProceeds
  <2>8. ASSUME NEW i \in Ids, NEW ep \in Endpoints, PartialPlace(i, ep) PROVE OpTyped'
    <3>1. [op EXCEPT !.i = i] \in Op
      BY <1>1 DEF Op
    <3> QED
      BY <1>1, <2>8, <3>1 DEF PartialPlace
  <2>9. CASE \/ StaleTerminal \/ StaleFails \/ PartialFails \/ PartialTerminal \/ PartialDone
             \/ \E t \in Trades : PartialCompletes(t) \/ PartialRefuses(t)
    BY <1>1, <2>3, <2>4, <2>9 DEF StaleTerminal, StaleFails, PartialFails, PartialTerminal,
       PartialDone, PartialCompletes, PartialRefuses
  <2>10. CASE \/ TickBegin \/ TickPartial \/ StaleCanceled \/ PartialCanceled
              \/ \E t \in Trades : EntryWindowExpires(t)
    BY <1>1, <1>2, <2>1, <2>10 DEF TickBegin, TickPartial, StaleCanceled, PartialCanceled,
       EntryWindowExpires, StaleRows, ActiveRows
  <2> QED
    BY <1>10, <2>5, <2>6, <2>7, <2>8, <2>9, <2>10 DEF Tick
<1>11. CASE Reconcile
  <2>1. ASSUME NEW i \in Ids PROVE [rec EXCEPT !.todo = @ \ {i}] \in Rec
    BY <1>1, <1>3, RecUpdateType
  <2>2. ASSUME NEW i, rec' = [rec EXCEPT !.todo = @ \ {i}] PROVE rec' \in Rec
    <3>1. rec.todo \ {i} \in SUBSET Ids
      BY <1>3
    <3> QED
      BY <1>1, <2>2, <3>1, RecUpdateType
  <2>3. ASSUME NEW i, Resolved(i) \/ PlanLeaves(i) PROVE OpTyped'
    BY <1>1, <2>2, <2>3 DEF Resolved, PlanLeaves
  <2>4. CASE ReconcileCommand \/ ArmCommand \/ Start
    BY <2>4, BeginReconcileType DEF ReconcileCommand, ArmCommand, Start
  <2>5. ASSUME NEW i \in Ids,
               ResolveChild(i) \/ ResolvePrepared(i) \/ ResolveFound(i) \/ PlanResumes(i)
        PROVE  OpTyped'
    <3>1. CASE Resolved(i)
      BY <2>3, <3>1
    <3>2. CASE ~Resolved(i)
      <4>1. intents[i].st \in {"PREPARED", "SUBMITTING", "AMBIGUOUS"}
        <5>1. CASE ResolveChild(i) \/ ResolvePrepared(i)
          BY <5>1 DEF ResolveChild, ResolvePrepared
        <5>2. CASE ResolveFound(i) \/ PlanResumes(i)
          <6>1. (pc = "resolve" \/ pc = "plans") /\ i \in rec.todo
            BY <5>2 DEF ResolveFound, PlanResumes, Resolving, Resuming
          <6>2. op.i = 0 /\ op.plan = 0
            BY <6>1 DEF ControlInv, TodoInv, NoOp
          <6>3. i # 0
            BY IdFacts
          <6> QED
            BY <6>1, <6>2, <6>3 DEF ControlInv, TodoInv
        <5> QED
          BY <2>5, <5>1, <5>2
      <4>2. intents[i].trade \in Trades /\ intents[i].qty \in Nat
        BY <1>1, <4>1 DEF LedgerInv, TypeOK, Intent
      <4>3. /\ \/ op' = [NoOp EXCEPT !.h = "child", !.t = intents[i].trade, !.i = i]
               \/ op' = [NoOp EXCEPT !.i = i, !.t = intents[i].trade]
               \/ op' = [NoOp EXCEPT !.h = "found", !.t = intents[i].trade, !.i = i, !.got = TRUE]
               \/ op' = [NoOp EXCEPT !.h = "plan", !.t = intents[i].trade, !.plan = i, !.q = intents[i].qty]
            /\ rec' = rec
        BY <2>5, <3>2 DEF ResolveChild, ResolvePrepared, ResolveFound, PlanResumes
      <4>4. {"child", "found", "plan"} \subseteq Handlers /\ CancelOps # {}
        BY DEF Handlers, CancelOps
      <4>5. /\ [NoOp EXCEPT !.h = "child", !.t = intents[i].trade, !.i = i] \in Op
            /\ [NoOp EXCEPT !.i = i, !.t = intents[i].trade] \in Op
            /\ [NoOp EXCEPT !.h = "found", !.t = intents[i].trade, !.i = i, !.got = TRUE] \in Op
            /\ [NoOp EXCEPT !.h = "plan", !.t = intents[i].trade, !.plan = i, !.q = intents[i].qty] \in Op
        BY <1>1, <4>2, <4>4, OpHTI, OpIT, OpHTIG, OpHTPQ
      <4> QED
        BY <1>1, <4>3, <4>5
    <3> QED
      BY <3>1, <3>2
  <2>6. CASE ResolveEnds
    <3>1. {i \in Ids : intents[i].opn = "REPLACE_PROTECTION" /\ intents[i].st = "PREPARED"} \in SUBSET Ids
      OBVIOUS
    <3> QED
      BY <1>1, <2>6, <3>1, RecUpdateType DEF ResolveEnds
  <2>7. CASE RecoverExits
    <3>1. \E b : rec' = [rec EXCEPT !.ok = b] /\ b \in BOOLEAN
      BY <2>7 DEF RecoverExits
    <3> QED
      BY <1>1, <2>7, <3>1, RecUpdateType DEF RecoverExits
  <2>8. CASE ReconcileRecovers
    <3>1. \/ op' = op \/ op' = NoOp \/ op' = [NoOp EXCEPT !.h = "partial"]
          \/ \E t \in Trades : op' = [NoOp EXCEPT !.h = "stale", !.t = t]
      BY <2>8 DEF ReconcileRecovers, StaleRows, ActiveRows
    <3>2. "partial" \in Handlers /\ "stale" \in Handlers
      BY DEF Handlers
    <3>3. [NoOp EXCEPT !.h = "partial"] \in Op /\ \A t \in Trades : [NoOp EXCEPT !.h = "stale", !.t = t] \in Op
      BY <1>1, <3>2, OpH, OpHT
    <3>4. rec' = rec
      BY <2>8 DEF ReconcileRecovers
    <3> QED
      BY <1>1, <3>1, <3>3, <3>4
  <2>9. CASE \/ ResolveAbortedEntry \/ ResolveDone \/ PlanStays \/ PlanDone
             \/ \E i \in Ids : ResolveSkips(i) \/ ResolveCancel(i) \/ PlanWithoutCancel(i)
    BY <2>3, <2>9 DEF ResolveAbortedEntry, ResolveDone, PlanStays, PlanDone, ResolveSkips,
       ResolveCancel, PlanWithoutCancel
  <2>10. CASE ArmFinish \/ PlansEnd \/ Refresh \/ Verdict
    BY <1>1, <1>2, <2>10 DEF ArmFinish, PlansEnd, Refresh, Verdict
  <2> QED
    BY <1>11, <2>4, <2>5, <2>6, <2>7, <2>8, <2>9, <2>10 DEF Reconcile
<1>12. CASE Exchange \/ Stream \/ Owner \/ Crash
  BY <1>1, <1>12 DEF Exchange, Stream, StreamUpdate, StreamPartialFill, StreamResync, Owner,
     ClearRiskPause, OwnerPause, Crash
<1> QED
  BY <1>5, <1>6, <1>7, <1>8, <1>9, <1>10, <1>11, <1>12 DEF Next

-----------------------------------------------------------------------------
(***************************************************************************)
(* Types: flags, program counter and history.                               *)
(***************************************************************************)
FlagsTyped == /\ verdict \in {"REQUIRED", "RECONCILED", "FAILED"}
              /\ paused \in BOOLEAN /\ armed \in BOOLEAN /\ recovery \in BOOLEAN

PcTyped == pc \in Steps

HistoryTyped == posts \in [Ids -> Nat] /\ crashes \in 0 .. MaxCrashes

LEMMA FlagTypes == ASSUME IInv, Next PROVE FlagsTyped'
<1> USE DEF IInv, FlagsTyped, KeepArming, Pause, Disarm
<1>1. FlagsTyped
  BY DEF TypeOK
<1>2. CASE Entry
  BY <1>1, <1>2 DEF Entry, ProcessSignal, ManualEntry, SubmitRefused, SubmitRaises, SubmitPersist,
     PrepareEntry, EntryDone
<1>3. CASE PostProcedure
  BY <1>1, <1>3 DEF PostProcedure, MarkSubmitting, PostAccepted, PostRejected, PostUnanswered,
     LookupFound, LookupMissing, ConfirmIntent, BindIntent, PostUnchanged
<1>4. CASE CancelProcedure
  BY <1>1, <1>4 DEF CancelProcedure, CancelWithoutTarget, CancelAlreadyPrepared, CancelOutOfRoom,
     CancelPrepare, CancelMark, DeleteAccepted, DeleteFails, CancelConfirm, CancelUnchanged
<1>5. CASE Convert
  <2>1. CASE \E h \in {"convert", "auto"}, t \in Trades, i \in Ids, ep \in Endpoints :
               ConvertBegin(h, t, i, ep)
    BY <1>1, <2>1 DEF ConvertBegin
  <2>2. CASE ConvertStops \/ ConvertCanceled \/ ReplaceFoundFlat
    BY <1>1, <2>2 DEF ConvertStops, ConvertCanceled, ReplaceFoundFlat, ReplaceUnchanged
  <2>3. CASE ConvertExited \/ ConvertDone
    BY <1>1, <2>3 DEF ConvertExited, ConvertDone, ReplaceUnchanged
  <2>4. CASE \E i \in Ids : PrepareReplacement(i)
    BY <1>1, <2>4 DEF PrepareReplacement, ReplaceUnchanged
  <2> QED
    BY <1>5, <2>1, <2>2, <2>3, <2>4 DEF Convert
<1>6. CASE Emergency
  BY <1>1, <1>6 DEF Emergency, EmergencyBegin, EmergencyStops, EmergencyVerify, EmergencySell,
     EmergencyUnchanged
<1>7. CASE Tick
  <2> USE DEF RecoveryUnchanged, PartialReturn, PartialReturns, StaleReturns, ReturnArming,
          ReturnRecovery
  <2>1. CASE (\E t \in Trades : EntryWindowExpires(t)) \/ TickBegin \/ TickPartial
    BY <1>1, <2>1 DEF EntryWindowExpires, TickBegin, TickPartial
  <2>2. CASE StaleFails \/ StaleCancels \/ StaleCanceled \/ StaleTerminal
    BY <1>1, <2>2 DEF StaleFails, StaleCancels, StaleCanceled, StaleTerminal
  <2>3. ASSUME NEW t \in Trades, PartialCompletes(t) \/ PartialRefuses(t) PROVE FlagsTyped'
    BY <1>1, <2>3 DEF PartialCompletes, PartialRefuses
  <2>4. ASSUME NEW t \in Trades, PartialCancels(t) \/ PartialProceeds(t) PROVE FlagsTyped'
    BY <1>1, <2>4 DEF PartialCancels, PartialProceeds
  <2>5. CASE PartialFails \/ PartialCanceled
    BY <1>1, <2>5 DEF PartialFails, PartialCanceled
  <2>6. CASE PartialTerminal \/ PartialDone
    BY <1>1, <2>6 DEF PartialTerminal, PartialDone
  <2>7. CASE \E i \in Ids, ep \in Endpoints : PartialPlace(i, ep)
    BY <1>1, <2>7 DEF PartialPlace
  <2> QED
    BY <1>7, <2>1, <2>2, <2>3, <2>4, <2>5, <2>6, <2>7 DEF Tick
<1>8. CASE Reconcile
  <2> USE DEF ReconcileUnchanged, ResolveUnchanged, BeginReconcile, Resolved, PlanLeaves
  <2>1. CASE ReconcileCommand \/ ArmCommand \/ ArmFinish \/ Start
    BY <1>1, <2>1 DEF ReconcileCommand, ArmCommand, ArmFinish, Start
  <2>2. ASSUME NEW i \in Ids, ResolveSkips(i) \/ ResolveChild(i) \/ ResolvePrepared(i)
        PROVE  FlagsTyped'
    BY <1>1, <2>2 DEF ResolveSkips, ResolveChild, ResolvePrepared
  <2>3. ASSUME NEW i \in Ids, ResolveCancel(i) \/ ResolveFound(i) PROVE FlagsTyped'
    BY <1>1, <2>3 DEF ResolveCancel, ResolveFound
  <2>4. ASSUME NEW i \in Ids, PlanWithoutCancel(i) \/ PlanResumes(i) PROVE FlagsTyped'
    BY <1>1, <2>4 DEF PlanWithoutCancel, PlanResumes
  <2>5. CASE ResolveAbortedEntry \/ ResolveDone \/ ResolveEnds
    BY <1>1, <2>5 DEF ResolveAbortedEntry, ResolveDone, ResolveEnds
  <2>6. CASE PlanStays \/ PlanDone \/ PlansEnd
    BY <1>1, <2>6 DEF PlanStays, PlanDone, PlansEnd
  <2>7. CASE Refresh \/ RecoverExits \/ ReconcileRecovers \/ Verdict
    BY <1>1, <2>7 DEF Refresh, RecoverExits, ReconcileRecovers, Verdict
  <2> QED
    BY <1>8, <2>1, <2>2, <2>3, <2>4, <2>5, <2>6, <2>7 DEF Reconcile
<1>9. CASE Stream
  BY <1>1, <1>9 DEF Stream, StreamUpdate, StreamPartialFill, StreamResync
<1>10. CASE Exchange \/ Owner \/ Crash
  BY <1>1, <1>10 DEF Exchange, durableVars, Owner, ClearRiskPause, OwnerPause, Crash
<1> QED
  BY <1>2, <1>3, <1>4, <1>5, <1>6, <1>7, <1>8, <1>9, <1>10 DEF Next

LEMMA PcTypes == ASSUME IInv, Next PROVE PcTyped'
<1> USE DEF IInv, PcTyped, Goto, Finish, Steps
<1>1. PcTyped
  BY DEF TypeOK
<1>2. CASE Entry
  BY <1>1, <1>2 DEF Entry, ProcessSignal, ManualEntry, SubmitRefused, SubmitRaises, SubmitPersist,
     PrepareEntry, EntryDone
<1>3. CASE PostProcedure
  BY <1>1, <1>3 DEF PostProcedure, MarkSubmitting, PostAccepted, PostRejected, PostUnanswered,
     LookupFound, LookupMissing, ConfirmIntent, BindIntent, PostUnchanged
<1>4. CASE CancelProcedure
  BY <1>1, <1>4 DEF CancelProcedure, CancelWithoutTarget, CancelAlreadyPrepared, CancelOutOfRoom,
     CancelPrepare, CancelMark, DeleteAccepted, DeleteFails, CancelConfirm, CancelUnchanged
<1>5. CASE Convert
  BY <1>1, <1>5 DEF Convert, ConvertBegin, ConvertStops, ConvertCanceled, ReplaceFoundFlat,
     ConvertExited, ConvertDone, PrepareReplacement, ReplaceUnchanged, ConvertReturns,
     BeginReconcile
<1>6. CASE Emergency
  BY <1>1, <1>6 DEF Emergency, EmergencyBegin, EmergencyStops, EmergencyVerify, EmergencySell,
     EmergencyUnchanged
<1>7. CASE Tick
  BY <1>1, <1>7 DEF Tick, EntryWindowExpires, TickBegin, TickPartial, StaleFails, StaleCancels,
     StaleCanceled, StaleTerminal, PartialCompletes, PartialRefuses, PartialCancels,
     PartialProceeds, PartialFails, PartialCanceled, PartialTerminal, PartialDone, PartialPlace,
     RecoveryUnchanged, PartialReturn, PartialReturns, StaleReturns, ReturnArming, ReturnRecovery
<1>8. CASE Reconcile
  BY <1>1, <1>8 DEF Reconcile, ReconcileCommand, ArmCommand, ArmFinish, Start, ResolveSkips,
     ResolveChild, ResolvePrepared, ResolveCancel, ResolveFound, PlanWithoutCancel, PlanResumes,
     ResolveAbortedEntry, ResolveDone, ResolveEnds, PlanStays, PlanDone, PlansEnd, Refresh,
     RecoverExits, ReconcileRecovers, Verdict, ReconcileUnchanged, ResolveUnchanged,
     BeginReconcile, Resolved, PlanLeaves
<1>9. CASE Stream
  BY <1>1, <1>9 DEF Stream, StreamUpdate, StreamPartialFill, StreamResync
<1>10. CASE Exchange \/ Owner \/ Crash
  BY <1>1, <1>10 DEF Exchange, durableVars, Owner, ClearRiskPause, OwnerPause, Crash
<1> QED
  BY <1>2, <1>3, <1>4, <1>5, <1>6, <1>7, <1>8, <1>9, <1>10 DEF Next

LEMMA HistoryTypes == ASSUME IInv, Next PROVE HistoryTyped'
<1> USE DEF IInv, HistoryTyped, Transmit
<1>1. HistoryTyped /\ MaxCrashes \in Nat
  BY ExecutionAssumption DEF TypeOK
<1>2. CASE Entry
  BY <1>1, <1>2 DEF Entry, ProcessSignal, ManualEntry, SubmitRefused, SubmitRaises, SubmitPersist,
     PrepareEntry, EntryDone
<1>3. CASE PostProcedure
  BY <1>1, <1>3 DEF PostProcedure, MarkSubmitting, PostAccepted, PostRejected, PostUnanswered,
     LookupFound, LookupMissing, ConfirmIntent, BindIntent, PostUnchanged
<1>4. CASE CancelProcedure
  BY <1>1, <1>4 DEF CancelProcedure, CancelWithoutTarget, CancelAlreadyPrepared, CancelOutOfRoom,
     CancelPrepare, CancelMark, DeleteAccepted, DeleteFails, CancelConfirm, CancelUnchanged
<1>5. CASE Convert
  BY <1>1, <1>5 DEF Convert, ConvertBegin, ConvertStops, ConvertCanceled, ReplaceFoundFlat,
     ConvertExited, ConvertDone, PrepareReplacement, ReplaceUnchanged, ConvertReturns,
     BeginReconcile
<1>6. CASE Emergency
  BY <1>1, <1>6 DEF Emergency, EmergencyBegin, EmergencyStops, EmergencyVerify, EmergencySell,
     EmergencyUnchanged
<1>7. CASE Tick
  BY <1>1, <1>7 DEF Tick, EntryWindowExpires, TickBegin, TickPartial, StaleFails, StaleCancels,
     StaleCanceled, StaleTerminal, PartialCompletes, PartialRefuses, PartialCancels,
     PartialProceeds, PartialFails, PartialCanceled, PartialTerminal, PartialDone, PartialPlace,
     RecoveryUnchanged, PartialReturn, PartialReturns, StaleReturns, ReturnArming, ReturnRecovery
<1>8. CASE Reconcile
  BY <1>1, <1>8 DEF Reconcile, ReconcileCommand, ArmCommand, ArmFinish, Start, ResolveSkips,
     ResolveChild, ResolvePrepared, ResolveCancel, ResolveFound, PlanWithoutCancel, PlanResumes,
     ResolveAbortedEntry, ResolveDone, ResolveEnds, PlanStays, PlanDone, PlansEnd, Refresh,
     RecoverExits, ReconcileRecovers, Verdict, ReconcileUnchanged, ResolveUnchanged,
     BeginReconcile, Resolved, PlanLeaves
<1>9. CASE Stream
  BY <1>1, <1>9 DEF Stream, StreamUpdate, StreamPartialFill, StreamResync
<1>10. CASE Exchange \/ Owner \/ Crash
  BY <1>1, <1>10 DEF Exchange, durableVars, Owner, ClearRiskPause, OwnerPause, Crash
<1> QED
  BY <1>2, <1>3, <1>4, <1>5, <1>6, <1>7, <1>8, <1>9, <1>10 DEF Next

LEMMA TypeStep == ASSUME IInv, Next PROVE TypeOK'
BY ExchangeTypes, IntentTypes, RowTypes, OpTypes, FlagTypes, PcTypes, HistoryTypes
   DEF TypeOK, RowsTyped, OpTyped, FlagsTyped, PcTyped, HistoryTyped

-----------------------------------------------------------------------------
(***************************************************************************)
(* LedgerInv, by what a step does to the intents: nothing, a new state of   *)
(* one, a new one, or the transmission of its request.                      *)
(***************************************************************************)
Present(i) == Exists(i) \/ OnWire(i)

\* No order and no request in flight appears.
NothingAppears == \A i \in Ids : Present(i)' => Present(i)

LEMMA PresentFacts ==
  ASSUME LedgerInv, NEW i \in Ids
  PROVE  /\ posts[i] <= 1
         /\ intents[i].st \in {"NONE", "PREPARED"} => posts[i] = 0
         /\ posts[i] = 0 => ~Present(i)
         /\ Present(i) => posts[i] = 1 /\ intents[i].st \in Landed
         /\ intents[i].st # "NONE" => intents[i].trade \in Trades
         /\ intents[i].parent # 0 => intents[intents[i].parent].st = "ABORTED"
BY DEF LedgerInv, Present

LEMMA ToLedgerInv ==
  ASSUME \A i \in Ids :
           /\ posts'[i] <= 1
           /\ intents'[i].st \in {"NONE", "PREPARED"} => posts'[i] = 0
           /\ Present(i)' => posts'[i] = 1 /\ intents'[i].st \in Landed
           /\ intents'[i].st # "NONE" => intents'[i].trade \in Trades
           /\ intents'[i].parent # 0 => intents'[intents'[i].parent].st = "ABORTED"
  PROVE  LedgerInv'
BY DEF LedgerInv, Present

LEMMA QuietExchange == ASSUME UNCHANGED <<book, wire>> PROVE NothingAppears
BY DEF NothingAppears, Present, Exists, OnWire

LEMMA LedgerStays ==
  ASSUME LedgerInv, UNCHANGED <<intents, posts>>, NothingAppears PROVE LedgerInv'
BY PresentFacts, ToLedgerInv DEF NothingAppears

\* finish_intent and mark_intent_submitting.
LEMMA LedgerMoves ==
  ASSUME TypeOK, LedgerInv, NEW i \in Ids, NEW st, SetState(i, st), UNCHANGED posts, NothingAppears,
         \/ st \in Landed /\ intents[i].st \in {"PREPARED", "SUBMITTING", "AMBIGUOUS"}
         \/ st = "ABORTED" /\ intents[i].st = "PREPARED"
  PROVE  LedgerInv'
<1>1. \A j \in Ids : /\ intents'[j].trade = intents[j].trade
                     /\ intents'[j].parent = intents[j].parent
                     /\ intents[j].parent \in Ids \cup {0}
                     /\ j # i => intents'[j].st = intents[j].st
  BY DEF SetState, TypeOK, Intent
<1>2. intents'[i].st = st
  BY DEF SetState, TypeOK, Intent
<1>3. ASSUME NEW j \in Ids
      PROVE  /\ posts'[j] <= 1
             /\ intents'[j].st \in {"NONE", "PREPARED"} => posts'[j] = 0
             /\ Present(j)' => posts'[j] = 1 /\ intents'[j].st \in Landed
             /\ intents'[j].st # "NONE" => intents'[j].trade \in Trades
  <2>1. CASE j # i
    BY <1>1, <2>1, PresentFacts DEF NothingAppears
  <2>2. CASE j = i
    BY <1>1, <1>2, <2>2, PresentFacts DEF NothingAppears, Landed
  <2> QED
    BY <2>1, <2>2
<1>4. ASSUME NEW j \in Ids, intents'[j].parent # 0 PROVE intents'[intents'[j].parent].st = "ABORTED"
  <2>1. intents[j].parent \in Ids /\ intents[intents[j].parent].st = "ABORTED"
    BY <1>1, <1>4, PresentFacts
  <2> QED
    BY <1>1, <2>1
<1> QED
  BY <1>3, <1>4, ToLedgerInv

\* prepare_intent.
LEMMA LedgerInserts ==
  ASSUME TypeOK, LedgerInv, NEW i \in Ids, NEW n \in Intent, Prepare(i, n),
         n.st = "PREPARED", n.trade \in Trades, n.parent # i, UNCHANGED posts, NothingAppears
  PROVE  LedgerInv'
<1>1. /\ intents'[i] = n /\ intents[i].st = "NONE" /\ n.parent \in Ids \cup {0}
      /\ n.parent # 0 => intents[n.parent].st = "PREPARED" /\ intents'[n.parent].st = "ABORTED"
  BY DEF Prepare, NewIntent, Intent, TypeOK
<1>2. \A j \in Ids \ {i} : /\ intents'[j].trade = intents[j].trade
                           /\ intents'[j].parent = intents[j].parent
                           /\ intents[j].parent \in Ids \cup {0}
                           /\ j # n.parent => intents'[j].st = intents[j].st
  BY DEF Prepare, TypeOK, Intent
<1>3. ASSUME NEW j \in Ids
      PROVE  /\ posts'[j] <= 1
             /\ intents'[j].st \in {"NONE", "PREPARED"} => posts'[j] = 0
             /\ Present(j)' => posts'[j] = 1 /\ intents'[j].st \in Landed
             /\ intents'[j].st # "NONE" => intents'[j].trade \in Trades
  <2>1. CASE j = i
    BY <1>1, <2>1, PresentFacts DEF NothingAppears
  <2>2. CASE j # i /\ j = n.parent
    BY <1>1, <1>2, <2>2, IdFacts, PresentFacts DEF NothingAppears
  <2>3. CASE j # i /\ j # n.parent
    BY <1>2, <2>3, PresentFacts DEF NothingAppears
  <2> QED
    BY <2>1, <2>2, <2>3
<1>4. ASSUME NEW j \in Ids, intents'[j].parent # 0 PROVE intents'[intents'[j].parent].st = "ABORTED"
  <2>1. CASE j = i
    BY <1>1, <1>4, <2>1
  <2>2. CASE j # i
    <3>1. intents[j].parent \in Ids /\ intents[intents[j].parent].st = "ABORTED"
      BY <1>2, <1>4, <2>2, PresentFacts
    <3>2. intents[j].parent # i /\ intents[j].parent # n.parent
      BY <1>1, <1>4, <2>2, <1>2, <3>1
    <3> QED
      BY <1>2, <2>2, <3>1, <3>2
  <2> QED
    BY <2>1, <2>2
<1> QED
  BY <1>3, <1>4, ToLedgerInv

\* A request is transmitted: it rests, is refused, or is in flight.
LEMMA LedgerSends ==
  ASSUME TypeOK, LedgerInv, ControlInv, PostAccepted \/ PostRejected \/ PostUnanswered
  PROVE  LedgerInv'
<1>1. op.i \in Ids /\ intents[op.i].st = "SUBMITTING" /\ posts[op.i] = 0
  BY DEF ControlInv, StepInv, PostAccepted, PostRejected, PostUnanswered
<1>2. /\ posts'[op.i] = 1
      /\ \A j \in Ids \ {op.i} : posts'[j] = posts[j]
  BY <1>1 DEF PostAccepted, PostRejected, PostUnanswered, Transmit, TypeOK
<1>3. ASSUME NEW j \in Ids \ {op.i}, Present(j)' PROVE Present(j)
  <2>1. CASE PostAccepted
    <3>1. wire' = wire /\ book'[j] = book[j]
      BY <2>1 DEF PostAccepted, Accept, TypeOK, ExchangeTypeOK
    <3> QED
      BY <1>3, <3>1 DEF Present, Exists, OnWire
  <2>2. CASE PostRejected
    BY <1>3, <2>2 DEF PostRejected, Present, Exists, OnWire
  <2>3. CASE PostUnanswered
    BY <1>3, <2>3 DEF PostUnanswered, Present, Exists, OnWire
  <2> QED
    BY <2>1, <2>2, <2>3
<1>4. \A j \in Ids : /\ intents'[j].trade = intents[j].trade
                     /\ intents'[j].parent = intents[j].parent
                     /\ intents[j].parent \in Ids \cup {0}
                     /\ j # op.i => intents'[j].st = intents[j].st
  BY DEF PostAccepted, PostRejected, PostUnanswered, SetState, TypeOK, Intent
<1>5. ASSUME NEW j \in Ids, j = op.i
      PROVE  /\ intents'[j].st \in {"SUBMITTING", "DEFINITE_REJECT"}
             /\ Present(j)' => intents'[j].st = "SUBMITTING"
  <2>1. CASE PostRejected
    <3>1. intents'[j].st = "DEFINITE_REJECT"
      BY <1>1, <1>5, <2>1 DEF PostRejected, SetState, TypeOK, Intent
    <3>2. ~Present(j)
      BY <1>1, <1>5, PresentFacts
    <3>3. ~Present(j)'
      BY <2>1, <3>2 DEF PostRejected, Present, Exists, OnWire
    <3> QED
      BY <3>1, <3>3
  <2>2. CASE PostAccepted \/ PostUnanswered
    BY <1>1, <1>5, <2>2 DEF PostAccepted, PostUnanswered
  <2> QED
    BY <2>1, <2>2
<1>6. ASSUME NEW j \in Ids
      PROVE  /\ posts'[j] <= 1
             /\ intents'[j].st \in {"NONE", "PREPARED"} => posts'[j] = 0
             /\ Present(j)' => posts'[j] = 1 /\ intents'[j].st \in Landed
             /\ intents'[j].st # "NONE" => intents'[j].trade \in Trades
  <2>1. CASE j = op.i
    BY <1>1, <1>2, <1>4, <1>5, <2>1, PresentFacts DEF Landed
  <2>2. CASE j # op.i
    BY <1>2, <1>3, <1>4, <2>2, PresentFacts
  <2> QED
    BY <2>1, <2>2
<1>7. ASSUME NEW j \in Ids, intents'[j].parent # 0 PROVE intents'[intents'[j].parent].st = "ABORTED"
  <2>1. intents[j].parent \in Ids /\ intents[intents[j].parent].st = "ABORTED"
    BY <1>4, <1>7, PresentFacts
  <2> QED
    BY <1>1, <1>4, <2>1
<1> QED
  BY <1>6, <1>7, ToLedgerInv

\* The exchange executes only what was already present.
LEMMA ExchangeAppears == ASSUME TypeOK, Exchange PROVE NothingAppears
<1>1. ASSUME NEW i \in Ids, BuyFill(i) \/ SellFill(i) \/ ExpireEntry(i) PROVE NothingAppears
  <2>1. wire' = wire /\ Exists(i) /\ \A j \in Ids \ {i} : book'[j] = book[j]
    BY <1>1 DEF BuyFill, SellFill, ExpireEntry, Terminate, Exists, TypeOK, ExchangeTypeOK
  <2> QED
    BY <2>1 DEF NothingAppears, Present, Exists, OnWire
<1>2. ASSUME NEW m \in wire, LandPost(m) PROVE NothingAppears
  <2>1. wire' = wire \ {m} /\ OnWire(m.id) /\ \A j \in Ids \ {m.id} : book'[j] = book[j]
    BY <1>2 DEF LandPost, Accept, OnWire, TypeOK, ExchangeTypeOK
  <2> QED
    BY <2>1 DEF NothingAppears, Present, Exists, OnWire
<1>3. ASSUME NEW m \in wire, LandDelete(m) PROVE NothingAppears
  <2>1. /\ wire' = wire \ {m}
        /\ book' = book \/ (Live(m.id) /\ \A j \in Ids \ {m.id} : book'[j] = book[j])
    BY <1>3 DEF LandDelete, Terminate, TypeOK, ExchangeTypeOK
  <2> QED
    BY <2>1 DEF NothingAppears, Present, Exists, OnWire, Live
<1> QED
  BY <1>1, <1>2, <1>3 DEF Exchange, ExchangeStep

\* A DELETE only ends an order.
LEMMA DeleteAppears == ASSUME TypeOK, DeleteAccepted \/ DeleteFails PROVE NothingAppears
<1>1. CASE DeleteAccepted
  <2>1. wire' = wire /\ Live(op.x) /\ \A j \in Ids \ {op.x} : book'[j] = book[j]
    BY <1>1 DEF DeleteAccepted, Terminate, TypeOK, ExchangeTypeOK
  <2> QED
    BY <2>1 DEF NothingAppears, Present, Exists, OnWire, Live
<1>2. CASE DeleteFails
  BY <1>2 DEF DeleteFails, NothingAppears, Present, Exists, OnWire
<1> QED
  BY <1>1, <1>2

-----------------------------------------------------------------------------
(***************************************************************************)
(* What a step does to the intents: nothing, an outcome, a new intent, or   *)
(* the transmission of a request.  Only the last lets an order appear.      *)
(***************************************************************************)
Outcomes == {<<"PREPARED", "SUBMITTING">>, <<"PREPARED", "ABORTED">>, <<"SUBMITTING", "AMBIGUOUS">>,
             <<"SUBMITTING", "CONFIRMED">>, <<"AMBIGUOUS", "CONFIRMED">>}

IntentEffect ==
  \/ /\ NothingAppears /\ UNCHANGED posts
     /\ \/ UNCHANGED intents
        \/ \E i \in Ids : \E st : SetState(i, st) /\ <<intents[i].st, st>> \in Outcomes
        \/ \E i \in Ids, n \in Intent : /\ Prepare(i, n) /\ n.st = "PREPARED"
                                       /\ n.trade \in Trades /\ n.parent # i
  \/ PostAccepted \/ PostRejected \/ PostUnanswered

LEMMA IntentStep == ASSUME IInv, Next PROVE IntentEffect
<1> USE DEF IInv
<1>1. TypeOK /\ LedgerInv /\ ControlInv /\ intents \in [Ids -> Intent] /\ op \in Op
  BY DEF TypeOK
<1>2. ASSUME UNCHANGED <<intents, posts, book, wire>> PROVE IntentEffect
  BY <1>2, QuietExchange DEF IntentEffect
<1>3. ASSUME NEW i \in Ids, NEW st, SetState(i, st), UNCHANGED <<posts, book, wire>>,
             <<intents[i].st, st>> \in Outcomes
      PROVE  IntentEffect
  BY <1>3, QuietExchange DEF IntentEffect
<1>4. ASSUME NEW i \in Ids, SetState(i, "ABORTED"), UNCHANGED <<posts, book, wire>>,
             intents[i].st = "PREPARED"
      PROVE  IntentEffect
  BY <1>3, <1>4 DEF Outcomes
<1>5. ASSUME NEW i \in Ids, NEW n \in Intent, Prepare(i, n), n.st = "PREPARED", n.trade \in Trades,
             n.parent # i, UNCHANGED <<posts, book, wire>>
      PROVE  IntentEffect
  BY <1>5, QuietExchange DEF IntentEffect
<1>6. ASSUME NEW i \in Ids, NEW o \in PostOps, NEW t \in Trades, NEW p \in Ids \cup {0}, NEW ep \in {"list", "order"},
             NEW q \in Nat, Prepare(i, NewPost(o, t, p, ep, q)), p # i, UNCHANGED <<posts, book, wire>>
      PROVE  IntentEffect
  <2>1. NewPost(o, t, p, ep, q) \in Intent
    BY NewPostType
  <2>2. /\ NewPost(o, t, p, ep, q).st = "PREPARED"
        /\ NewPost(o, t, p, ep, q).trade = t /\ NewPost(o, t, p, ep, q).parent = p
    BY DEF NewPost
  <2> QED
    BY <1>5, <1>6, <2>1, <2>2
<1>7. 0 \notin Ids
  BY IdFacts
<1>8. CASE Exchange
  BY <1>1, <1>8, ExchangeAppears DEF Exchange, durableVars, IntentEffect
<1>9. CASE Entry
  <2>1. ASSUME NEW i \in Ids, PrepareEntry(i) PROVE IntentEffect
    <3>1. op.t \in Trades /\ EntryQty \in Nat /\ "ENTRY" \in PostOps
      BY <2>1, ExchangeAssumption DEF PrepareEntry, ControlInv, StepInv, TradeSteps, PostOps
    <3>2. Prepare(i, NewPost("ENTRY", op.t, 0, "list", EntryQty)) /\ UNCHANGED <<posts, book, wire>>
      BY <2>1 DEF PrepareEntry, exchangeVars
    <3> QED
      BY <1>6, <1>7, <3>1, <3>2
  <2> QED
    BY <1>2, <1>9, <2>1 DEF Entry, ProcessSignal, ManualEntry, SubmitRefused, SubmitRaises,
       SubmitPersist, EntryDone, exchangeVars
<1>10. CASE PostProcedure
  <2>1. CASE MarkSubmitting \/ LookupMissing \/ ConfirmIntent
    <3>1. op.i \in Ids
      BY <2>1 DEF MarkSubmitting, LookupMissing, ConfirmIntent, ControlInv, StepInv
    <3>2. /\ UNCHANGED <<posts, book, wire>>
          /\ \E st : SetState(op.i, st) /\ <<intents[op.i].st, st>> \in Outcomes
      BY <2>1 DEF MarkSubmitting, LookupMissing, ConfirmIntent, exchangeVars, Outcomes, ControlInv, StepInv
    <3> QED
      BY <1>3, <3>1, <3>2
  <2> QED
    BY <1>2, <1>10, <2>1 DEF PostProcedure, LookupFound, BindIntent, exchangeVars, IntentEffect
<1>11. CASE CancelProcedure
  <2>1. CASE CancelMark \/ CancelConfirm
    <3>1. op.i \in Ids
      BY <2>1 DEF CancelMark, CancelConfirm, ControlInv, StepInv
    <3>2. /\ UNCHANGED <<posts, book, wire>>
          /\ \E st : SetState(op.i, st) /\ <<intents[op.i].st, st>> \in Outcomes
      BY <2>1 DEF CancelMark, CancelConfirm, CancelUnchanged, exchangeVars, Outcomes, ControlInv, StepInv
    <3> QED
      BY <1>3, <3>1, <3>2
  <2>2. CASE DeleteAccepted
    BY <1>1, <2>2, DeleteAppears DEF DeleteAccepted, CancelUnchanged, IntentEffect
  <2>3. CASE DeleteFails
    <3>1. op.i \in Ids /\ intents[op.i].st = "SUBMITTING"
      BY <2>3 DEF DeleteFails, ControlInv, StepInv
    <3>2. SetState(op.i, "AMBIGUOUS") /\ UNCHANGED posts
      BY <2>3 DEF DeleteFails, CancelUnchanged
    <3> QED
      BY <1>1, <2>3, <3>1, <3>2, DeleteAppears DEF IntentEffect, Outcomes
  <2>4. ASSUME NEW i \in Ids, CancelPrepare(i) PROVE IntentEffect
    <3> DEFINE n == [NoIntent EXCEPT !.opn = op.c, !.trade = op.t, !.obj = op.x, !.st = "PREPARED"]
    <3>1. op.c \in CancelOps /\ op.x \in Ids \cup {0} /\ op.t \in Trades
      BY <1>1, <2>4 DEF CancelPrepare, ControlInv, StepInv, TradeSteps, Op
    <3>2. n \in Intent /\ n.st = "PREPARED" /\ n.trade = op.t /\ n.parent = 0
      BY <3>1 DEF NoIntent, Intent, Ops, IntentStates
    <3>3. Prepare(i, n) /\ UNCHANGED <<posts, book, wire>>
      BY <2>4 DEF CancelPrepare, CancelUnchanged, exchangeVars
    <3> HIDE DEF n
    <3> QED
      BY <1>5, <1>7, <3>1, <3>2, <3>3
  <2> QED
    BY <1>2, <1>11, <2>1, <2>2, <2>3, <2>4 DEF CancelProcedure, CancelWithoutTarget,
       CancelAlreadyPrepared, CancelOutOfRoom, CancelUnchanged, exchangeVars
<1>12. CASE Convert
  <2>1. ASSUME NEW h, NEW t \in Trades, NEW i \in Ids, NEW ep \in Endpoints, ConvertBegin(h, t, i, ep)
        PROVE  IntentEffect
    <3> DEFINE n == [NoIntent EXCEPT !.opn = "REPLACE_PROTECTION", !.trade = t, !.ep = ep,
                                     !.qty = rows[t].prot, !.st = "PREPARED"]
    <3>1. ep \in {"list", "order"} /\ rows[t].prot \in Nat
      BY <1>1, ExecutionAssumption DEF TypeOK, Row
    <3>2. n \in Intent /\ n.st = "PREPARED" /\ n.trade = t /\ n.parent = 0
      BY <3>1 DEF NoIntent, Intent, Ops, IntentStates
    <3>3. Prepare(i, n) /\ UNCHANGED <<posts, book, wire>>
      BY <2>1 DEF ConvertBegin, exchangeVars
    <3> HIDE DEF n
    <3> QED
      BY <1>5, <1>7, <3>1, <3>2, <3>3
  <2>2. ASSUME NEW i \in Ids, PrepareReplacement(i) PROVE IntentEffect
    <3>1. op.t \in Trades /\ op.plan \in Ids /\ intents[op.plan].st = "PREPARED"
      BY <2>2 DEF PrepareReplacement, ControlInv, StepInv, PlanInv, TradeSteps
    <3>2. intents[op.plan].ep \in {"list", "order"} /\ op.q \in Nat /\ btc.free \in Int
      BY <1>1, <3>1 DEF Intent, Op, TypeOK, ExchangeTypeOK
    <3>3. SmallerOf(btc.free, op.q) \in Nat
      BY <1>1, <2>2, <3>2 DEF PrepareReplacement, SmallerOf
    <3>4. /\ Prepare(i, NewPost("PROTECTION", op.t, op.plan, intents[op.plan].ep, SmallerOf(btc.free, op.q)))
          /\ UNCHANGED <<posts, book, wire>>
      BY <2>2 DEF PrepareReplacement, ReplaceUnchanged, exchangeVars
    <3>5. op.plan # i /\ "PROTECTION" \in PostOps
      BY <3>1, <3>4 DEF Prepare, NewIntent, PostOps
    <3> QED
      BY <1>6, <3>1, <3>2, <3>3, <3>4, <3>5
  <2>3. CASE ReplaceFoundFlat
    <3>1. op.plan \in Ids /\ intents[op.plan].st = "PREPARED"
      BY <2>3 DEF ReplaceFoundFlat, ControlInv, PlanInv
    <3> QED
      BY <1>4, <2>3, <3>1 DEF ReplaceFoundFlat, ReplaceUnchanged, exchangeVars
  <2> QED
    BY <1>2, <1>12, <2>1, <2>2, <2>3 DEF Convert, ConvertStops, ConvertCanceled, ConvertExited,
       ConvertDone, ReplaceUnchanged, exchangeVars
<1>13. CASE Emergency
  <2>1. ASSUME NEW i \in Ids, EmergencySell(i) PROVE IntentEffect
    <3>1. op.t \in Trades /\ op.q \in Nat /\ btc.free \in Int
      BY <1>1, <2>1 DEF EmergencySell, ControlInv, StepInv, TradeSteps, Op, TypeOK, ExchangeTypeOK
    <3>2. SmallerOf(btc.free, op.q) \in Nat
      BY <2>1, <3>1 DEF EmergencySell, SmallerOf
    <3>3. /\ Prepare(i, NewPost("EMERGENCY_EXIT", op.t, 0, "order", SmallerOf(btc.free, op.q)))
          /\ UNCHANGED <<posts, book, wire>> /\ "EMERGENCY_EXIT" \in PostOps
      BY <2>1 DEF EmergencySell, EmergencyUnchanged, exchangeVars, PostOps
    <3> QED
      BY <1>6, <1>7, <3>1, <3>2, <3>3
  <2> QED
    BY <1>2, <1>13, <2>1 DEF Emergency, EmergencyBegin, EmergencyStops, EmergencyVerify,
       EmergencyUnchanged, exchangeVars
<1>14. CASE Tick
  <2>1. ASSUME NEW i \in Ids, NEW ep \in Endpoints, PartialPlace(i, ep) PROVE IntentEffect
    <3>1. op.t \in Trades /\ btc.free \in Int
      BY <1>1, <2>1 DEF PartialPlace, ControlInv, StepInv, TradeSteps, TypeOK, ExchangeTypeOK
    <3>2. rows[op.t].filled \in Nat /\ ep \in {"list", "order"}
      BY <1>1, <3>1, ExecutionAssumption DEF TypeOK, Row
    <3>3. SmallerOf(btc.free, rows[op.t].filled) \in Nat
      BY <2>1, <3>1, <3>2 DEF PartialPlace, SmallerOf
    <3>4. /\ Prepare(i, NewPost("PARTIAL_FILL_PROTECTION", op.t, 0, ep,
                                SmallerOf(btc.free, rows[op.t].filled)))
          /\ UNCHANGED <<posts, book, wire>> /\ "PARTIAL_FILL_PROTECTION" \in PostOps
      BY <2>1 DEF PartialPlace, RecoveryUnchanged, exchangeVars, PostOps
    <3> QED
      BY <1>6, <1>7, <3>1, <3>2, <3>3, <3>4
  <2>2. CASE Tick /\ ~\E i \in Ids, ep \in Endpoints : PartialPlace(i, ep)
    <3>1. UNCHANGED <<intents, posts, book, wire>>
      BY <2>2 DEF Tick, EntryWindowExpires, TickBegin, TickPartial, StaleFails, StaleCancels,
         StaleCanceled, StaleTerminal, PartialCompletes, PartialRefuses, PartialCancels,
         PartialProceeds, PartialFails, PartialCanceled, PartialTerminal, PartialDone,
         PartialReturn, RecoveryUnchanged, exchangeVars
    <3> QED
      BY <1>2, <3>1
  <2> QED
    BY <1>14, <2>1, <2>2
<1>15. CASE Reconcile
  <2>1. ASSUME NEW i \in Ids, ResolvePrepared(i) PROVE IntentEffect
    BY <1>4, <2>1 DEF ResolvePrepared, ResolveUnchanged, ReconcileUnchanged, exchangeVars
  <2>2. ASSUME NEW i \in Ids, ResolveCancel(i) \/ ResolveFound(i) PROVE IntentEffect
    <3>1. pc = "resolve" /\ i \in rec.todo
      BY <2>2 DEF ResolveCancel, ResolveFound, Resolving
    <3>2. op.i = 0
      BY <3>1 DEF ControlInv, TodoInv, NoOp
    <3>3. intents[i].st \in {"PREPARED", "SUBMITTING", "AMBIGUOUS"}
      BY <1>7, <3>1, <3>2 DEF ControlInv, TodoInv
    <3>4. /\ SetState(i, "CONFIRMED") /\ intents[i].st # "PREPARED"
          /\ UNCHANGED <<posts, book, wire>>
      BY <2>2 DEF ResolveCancel, ResolveFound, ResolveUnchanged, ReconcileUnchanged, exchangeVars
    <3> QED
      BY <1>3, <3>3, <3>4 DEF Outcomes
  <2>3. ASSUME NEW i \in Ids, PlanWithoutCancel(i) PROVE IntentEffect
    <3>1. pc = "plans" /\ i \in rec.todo
      BY <2>3 DEF PlanWithoutCancel, Resuming
    <3>2. op.plan = 0
      BY <3>1 DEF ControlInv, TodoInv, NoOp
    <3>3. intents[i].st = "PREPARED"
      BY <1>7, <3>1, <3>2 DEF ControlInv, TodoInv
    <3> QED
      BY <1>4, <2>3, <3>3 DEF PlanWithoutCancel, ResolveUnchanged, ReconcileUnchanged, exchangeVars
  <2>4. CASE Reconcile /\ ~\E i \in Ids : \/ ResolvePrepared(i) \/ ResolveCancel(i)
                                          \/ ResolveFound(i) \/ PlanWithoutCancel(i)
    <3>1. UNCHANGED <<intents, posts, book, wire>>
      BY <2>4 DEF Reconcile, ReconcileCommand, ArmCommand, ArmFinish, Start, ResolveSkips,
         ResolveChild, PlanResumes, ResolveAbortedEntry, ResolveDone, ResolveEnds, PlanStays,
         PlanDone, PlansEnd, Refresh, RecoverExits, ReconcileRecovers, Verdict,
         ReconcileUnchanged, ResolveUnchanged, exchangeVars
    <3> QED
      BY <1>2, <3>1
  <2> QED
    BY <1>15, <2>1, <2>2, <2>3, <2>4
<1>16. CASE Stream \/ Owner \/ Crash
  <2>1. UNCHANGED <<intents, posts, book, wire>>
    BY <1>16 DEF Stream, StreamUpdate, StreamPartialFill, StreamResync, Owner, ClearRiskPause,
       OwnerPause, Crash, exchangeVars
  <2> QED
    BY <1>2, <2>1
<1> QED
  BY <1>8, <1>9, <1>10, <1>11, <1>12, <1>13, <1>14, <1>15, <1>16 DEF Next

LEMMA LedgerStep == ASSUME IInv, Next PROVE LedgerInv'
<1> USE DEF IInv
<1>1. TypeOK /\ LedgerInv /\ ControlInv
  OBVIOUS
<1>2. CASE UNCHANGED <<intents, posts>> /\ NothingAppears
  BY <1>1, <1>2, LedgerStays
<1>3. ASSUME NEW i \in Ids, NEW st, SetState(i, st), <<intents[i].st, st>> \in Outcomes,
             UNCHANGED posts, NothingAppears
      PROVE  LedgerInv'
  <2>1. \/ st \in Landed /\ intents[i].st \in {"PREPARED", "SUBMITTING", "AMBIGUOUS"}
        \/ st = "ABORTED" /\ intents[i].st = "PREPARED"
    BY <1>3 DEF Outcomes, Landed
  <2> QED
    BY <1>1, <1>3, <2>1, LedgerMoves
<1>4. ASSUME NEW i \in Ids, NEW n \in Intent, Prepare(i, n), n.st = "PREPARED", n.trade \in Trades,
             n.parent # i, UNCHANGED posts, NothingAppears
      PROVE  LedgerInv'
  BY <1>1, <1>4, LedgerInserts
<1> QED
  BY <1>1, <1>2, <1>3, <1>4, IntentStep, LedgerSends DEF IntentEffect

-----------------------------------------------------------------------------
(***************************************************************************)
(* ControlInv, action by action.                                            *)
(***************************************************************************)
LEMMA SetStateFacts ==
  ASSUME TypeOK, NEW i \in Ids, NEW st, SetState(i, st)
  PROVE  intents'[i].st = st /\ \A j \in Ids \ {i} : intents'[j].st = intents[j].st
BY DEF SetState, TypeOK, Intent

LEMMA PrepareFacts ==
  ASSUME TypeOK, NEW i \in Ids, NEW n, Prepare(i, n)
  PROVE  /\ intents[i].st = "NONE" /\ intents'[i] = n
         /\ \A j \in Ids \ {i} : j # n.parent => intents'[j].st = intents[j].st
BY DEF Prepare, NewIntent, TypeOK, Intent

LEMMA ControlStays ==
  ASSUME ControlInv, UNCHANGED <<pc, op, rec, intents, posts>> PROVE ControlInv'
BY DEF ControlInv, StepInv, PlanInv, TodoInv

LEMMA PostControl == ASSUME IInv, PostProcedure PROVE ControlInv'
<1> USE DEF IInv, ControlInv, StepInv, PlanInv, TodoInv, TradeSteps, PlanSteps, HandlerSteps, Goto
<1>1. TypeOK /\ op \in Op /\ rec.todo \subseteq Ids
  BY DEF TypeOK, Rec
<1>2. rec' = rec
  BY DEF PostProcedure, MarkSubmitting, PostAccepted, PostRejected, PostUnanswered,
     LookupFound, LookupMissing, ConfirmIntent, BindIntent, PostUnchanged
<1>3. CASE MarkSubmitting
  <2>1. op.i \in Ids /\ intents'[op.i].st = "SUBMITTING" /\ posts[op.i] = 0
        /\ \A j \in Ids \ {op.i} : intents'[j].st = intents[j].st
    BY <1>1, <1>3, SetStateFacts, PresentFacts DEF MarkSubmitting
  <2> QED
    BY <1>1, <1>2, <1>3, <2>1 DEF MarkSubmitting
<1>4. CASE PostAccepted \/ PostUnanswered
  BY <1>1, <1>2, <1>4 DEF PostAccepted, PostUnanswered
<1>5. CASE PostRejected \/ LookupMissing \/ ConfirmIntent
  <2>1. \E st \in {"DEFINITE_REJECT", "AMBIGUOUS", "CONFIRMED"} :
          /\ SetState(op.i, st) /\ op.i \in Ids
          /\ pc' \in {"rejected", "ambiguous", "bind"} /\ (pc' = "bind" => st = "CONFIRMED")
    BY <1>5 DEF PostRejected, LookupMissing, ConfirmIntent
  <2>2. /\ pc' = "bind" => intents'[op.i].st = "CONFIRMED"
        /\ \A j \in Ids \ {op.i} : intents'[j].st = intents[j].st
    BY <1>1, <2>1, SetStateFacts
  <2>3. op' = op /\ pc \in TradeSteps \cap HandlerSteps /\ pc \notin {"resolve", "abortRow", "plans", "free"}
    BY <1>5 DEF PostRejected, LookupMissing, ConfirmIntent
  <2> QED
    BY <1>1, <1>2, <2>1, <2>2, <2>3
<1>6. CASE LookupFound
  <2>1. op'.i = op.i /\ op'.h = op.h /\ op'.t = op.t /\ op'.plan = op.plan
    BY <1>1, <1>6 DEF LookupFound, Op
  <2> QED
    BY <1>1, <1>2, <1>6, <2>1 DEF LookupFound
<1>7. CASE BindIntent
  BY <1>1, <1>2, <1>7 DEF BindIntent
<1> QED
  BY <1>3, <1>4, <1>5, <1>6, <1>7 DEF PostProcedure

LEMMA CancelControl == ASSUME IInv, CancelProcedure PROVE ControlInv'
<1> USE DEF IInv, ControlInv, StepInv, PlanInv, TodoInv, TradeSteps, PlanSteps, HandlerSteps, Goto
<1>1. TypeOK /\ op \in Op /\ rec.todo \subseteq Ids /\ op.x \in Ids \cup {0}
  BY DEF TypeOK, Rec, Op
<1>2. rec' = rec /\ posts' = posts
  BY DEF CancelProcedure, CancelWithoutTarget, CancelAlreadyPrepared, CancelOutOfRoom,
     CancelPrepare, CancelMark, DeleteAccepted, DeleteFails, CancelConfirm, CancelUnchanged
<1>3. pc \in {"cancel", "cmark", "delete", "cconfirm"} /\ op.h \notin {"child", "found", "plan"}
  BY DEF CancelProcedure, CancelWithoutTarget, CancelAlreadyPrepared, CancelOutOfRoom,
     CancelPrepare, CancelMark, DeleteAccepted, DeleteFails, CancelConfirm
<1>4. CASE CancelWithoutTarget \/ CancelAlreadyPrepared \/ CancelOutOfRoom
  BY <1>1, <1>2, <1>3, <1>4 DEF CancelWithoutTarget, CancelAlreadyPrepared, CancelOutOfRoom
<1>5. ASSUME NEW i \in Ids, CancelPrepare(i) PROVE ControlInv'
  <2> DEFINE n == [NoIntent EXCEPT !.opn = op.c, !.trade = op.t, !.obj = op.x, !.st = "PREPARED"]
  <2>1. n.st = "PREPARED" /\ n.parent = 0 /\ Prepare(i, n)
    BY <1>5 DEF CancelPrepare, NoIntent
  <2> HIDE DEF n
  <2>2. intents[i].st = "NONE" /\ intents'[i].st = "PREPARED"
        /\ \A j \in Ids \ {i} : intents'[j].st = intents[j].st
    BY <1>1, <2>1, PrepareFacts, IdFacts
  <2>3. op'.i = i /\ op'.h = op.h /\ op'.t = op.t /\ op'.x = op.x /\ op'.plan = op.plan
    BY <1>1, <1>5 DEF CancelPrepare, Op
  <2> QED
    BY <1>1, <1>2, <1>3, <1>5, <2>2, <2>3 DEF CancelPrepare
<1>6. CASE CancelMark \/ DeleteFails \/ CancelConfirm
  <2>1. /\ op.i \in Ids /\ op' = op
        /\ \E st : SetState(op.i, st) /\ (pc' = "delete" => st = "SUBMITTING")
        /\ pc' \in {"delete", "cancelFailed", "canceled"}
    BY <1>6 DEF CancelMark, DeleteFails, CancelConfirm
  <2>2. /\ pc' = "delete" => intents'[op.i].st = "SUBMITTING"
        /\ \A j \in Ids \ {op.i} : intents'[j].st = intents[j].st
    BY <1>1, <2>1, SetStateFacts
  <2>3. pc' = "delete" => op.x \in Ids
    BY <1>6 DEF CancelMark, DeleteFails, CancelConfirm
  <2> QED
    BY <1>1, <1>2, <1>3, <2>1, <2>2, <2>3
<1>7. CASE DeleteAccepted
  BY <1>1, <1>2, <1>3, <1>7 DEF DeleteAccepted
<1> QED
  BY <1>4, <1>5, <1>6, <1>7 DEF CancelProcedure

LEMMA PlainControl ==
  ASSUME pc' \in {"idle", "submit", "down", "arming", "tick", "stale", "partial", "refresh",
                  "exits", "recStale", "recPartial", "verdict", "verify"},
         op'.h \notin {"child", "found", "plan"}, pc' \in {"submit", "stale"} => op'.t \in Trades,
         pc' = "stale" => op'.h = "stale", pc' = "partial" => op'.h \in {"stale", "partial"}
  PROVE  ControlInv'
BY DEF ControlInv, StepInv, PlanInv, TodoInv, TradeSteps, PlanSteps

LEMMA EntryControl == ASSUME IInv, Entry PROVE ControlInv'
<1> USE DEF IInv, ControlInv, StepInv, PlanInv, TodoInv, TradeSteps, PlanSteps, HandlerSteps, Goto
<1>1. TypeOK /\ op \in Op
  BY DEF TypeOK
<1>2. ASSUME Finish PROVE ControlInv'
  BY <1>2, PlainControl DEF Finish, NoOp
<1>3. ASSUME NEW t \in Trades, ProcessSignal(t) \/ ManualEntry(t) PROVE ControlInv'
  <2>1. pc' = "submit" /\ op'.h \in {"entry", "manual"} /\ op'.t = t
    BY <1>3 DEF ProcessSignal, ManualEntry, NoOp
  <2> QED
    BY <2>1, PlainControl
<1>4. CASE SubmitPersist
  BY <1>4 DEF SubmitPersist
<1>5. ASSUME NEW i \in Ids, PrepareEntry(i) PROVE ControlInv'
  <2> DEFINE n == NewPost("ENTRY", op.t, 0, "list", EntryQty)
  <2>1. n.st = "PREPARED" /\ Prepare(i, n)
    BY <1>5 DEF PrepareEntry, NewPost
  <2> HIDE DEF n
  <2>2. intents'[i].st = "PREPARED"
    BY <1>1, <2>1, PrepareFacts
  <2>3. op'.i = i /\ op'.h = op.h /\ op'.t = op.t
    BY <1>1, <1>5 DEF PrepareEntry, Op
  <2> QED
    BY <1>5, <2>2, <2>3 DEF PrepareEntry
<1> QED
  BY <1>2, <1>3, <1>4, <1>5 DEF Entry, SubmitRefused, SubmitRaises, EntryDone

LEMMA ConvertControl == ASSUME IInv, Convert PROVE ControlInv'
<1> USE DEF IInv, ControlInv, StepInv, PlanInv, TodoInv, TradeSteps, PlanSteps, HandlerSteps, Goto
<1>1. TypeOK /\ op \in Op /\ rec.todo \subseteq Ids
  BY DEF TypeOK, Rec
<1>2. ASSUME Finish PROVE ControlInv'
  BY <1>2, PlainControl DEF Finish, NoOp
<1>3. ASSUME NEW ret, NEW was, BeginReconcile(ret, was), intents' = intents PROVE ControlInv'
  BY <1>3 DEF BeginReconcile, Unresolved, NoOp
<1>4. ASSUME NEW h \in {"convert", "auto"}, NEW t \in Trades, NEW i \in Ids, NEW ep \in Endpoints,
             ConvertBegin(h, t, i, ep)
      PROVE  ControlInv'
  <2> DEFINE n == [NoIntent EXCEPT !.opn = "REPLACE_PROTECTION", !.trade = t, !.ep = ep,
                                   !.qty = rows[t].prot, !.st = "PREPARED"]
  <2>1. n.st = "PREPARED" /\ Prepare(i, n)
    BY <1>4 DEF ConvertBegin, NoIntent
  <2> HIDE DEF n
  <2>2. intents'[i].st = "PREPARED" /\ i # 0
    BY <1>1, <2>1, PrepareFacts, IdFacts
  <2>3. pc' = "cancel" /\ op'.h = h /\ op'.t = t /\ op'.plan = i /\ op'.i = 0
    BY <1>4 DEF ConvertBegin, NoOp
  <2> QED
    BY <2>2, <2>3
<1>5. CASE ConvertStops \/ ConvertExited \/ ConvertDone
  BY <1>2, <1>3, <1>5 DEF ConvertStops, ConvertExited, ConvertDone, ConvertReturns
<1>6. CASE ConvertCanceled
  BY <1>6 DEF ConvertCanceled
<1>7. CASE ReplaceFoundFlat
  <2>1. /\ op.plan \in Ids /\ op' = op /\ rec' = rec /\ pc' = "exitRow"
        /\ SetState(op.plan, "ABORTED")
    BY <1>7 DEF ReplaceFoundFlat
  <2>2. \A j \in Ids \ {op.plan} : intents'[j].st = intents[j].st
    BY <1>1, <2>1, SetStateFacts
  <2> QED
    BY <1>1, <1>7, <2>1, <2>2 DEF ReplaceFoundFlat
<1>8. ASSUME NEW i \in Ids, PrepareReplacement(i) PROVE ControlInv'
  <2> DEFINE n == NewPost("PROTECTION", op.t, op.plan, intents[op.plan].ep, SmallerOf(btc.free, op.q))
  <2>1. n.st = "PREPARED" /\ n.parent = op.plan /\ Prepare(i, n)
    BY <1>8 DEF PrepareReplacement, NewPost
  <2> HIDE DEF n
  <2>2. /\ intents[i].st = "NONE" /\ intents'[i].st = "PREPARED"
        /\ \A j \in Ids \ {i} : j # op.plan => intents'[j].st = intents[j].st
    BY <1>1, <2>1, PrepareFacts
  <2>3. op'.i = i /\ op'.h = op.h /\ op'.t = op.t /\ op'.plan = op.plan /\ rec' = rec
    BY <1>1, <1>8 DEF PrepareReplacement, Op
  <2> QED
    BY <1>1, <1>8, <2>2, <2>3 DEF PrepareReplacement
<1> QED
  BY <1>4, <1>5, <1>6, <1>7, <1>8 DEF Convert

LEMMA EmergencyControl == ASSUME IInv, Emergency PROVE ControlInv'
<1> USE DEF IInv, ControlInv, StepInv, PlanInv, TodoInv, TradeSteps, PlanSteps, HandlerSteps, Goto
<1>1. TypeOK /\ op \in Op
  BY DEF TypeOK
<1>2. ASSUME NEW t \in Trades, EmergencyBegin(t) PROVE ControlInv'
  <2>1. pc' = "cancel" /\ op'.h = "emergency" /\ op'.t = t
    BY <1>2 DEF EmergencyBegin, NoOp
  <2> QED
    BY <2>1
<1>3. ASSUME NEW i \in Ids, EmergencySell(i) PROVE ControlInv'
  <2> DEFINE n == NewPost("EMERGENCY_EXIT", op.t, 0, "order", SmallerOf(btc.free, op.q))
  <2>1. n.st = "PREPARED" /\ Prepare(i, n)
    BY <1>3 DEF EmergencySell, NewPost
  <2> HIDE DEF n
  <2>2. intents'[i].st = "PREPARED"
    BY <1>1, <2>1, PrepareFacts
  <2>3. op'.i = i /\ op'.h = op.h /\ op'.t = op.t
    BY <1>1, <1>3 DEF EmergencySell, Op
  <2> QED
    BY <1>3, <2>2, <2>3 DEF EmergencySell
<1>4. CASE EmergencyStops \/ EmergencyVerify
  BY <1>4, PlainControl DEF EmergencyStops, EmergencyVerify, Finish, NoOp
<1> QED
  BY <1>2, <1>3, <1>4 DEF Emergency

LEMMA TickControl == ASSUME IInv, Tick PROVE ControlInv'
<1> USE DEF IInv, ControlInv, StepInv, PlanInv, TodoInv, TradeSteps, PlanSteps, HandlerSteps, Goto
<1>1. TypeOK /\ op \in Op
  BY DEF TypeOK
<1>2. ASSUME NEW ok, StaleReturns(ok) \/ (op.h # "stale" /\ PartialReturns(ok)) PROVE ControlInv'
  BY <1>2, PlainControl DEF StaleReturns, PartialReturns, NoOp
<1>3. ASSUME NEW ok, PartialReturns(ok) \/ PartialReturn(ok) PROVE ControlInv'
  BY <1>2, <1>3 DEF PartialReturns, PartialReturn
<1>4. ASSUME NEW t \in Trades, EntryWindowExpires(t) PROVE ControlInv'
  BY <1>4, ControlStays DEF EntryWindowExpires
<1>5. CASE TickBegin \/ TickPartial
  <2>1. ASSUME NEW t \in Trades, op' = [NoOp EXCEPT !.h = "stale", !.t = t], pc' = "stale"
        PROVE  ControlInv'
    <3>1. op'.h = "stale" /\ op'.t = t
      BY <2>1 DEF NoOp
    <3> QED
      BY <2>1, <3>1, PlainControl
  <2>2. ASSUME op' = [NoOp EXCEPT !.h = "partial"], pc' = "partial" PROVE ControlInv'
    <3>1. op'.h = "partial"
      BY <2>2 DEF NoOp
    <3> QED
      BY <2>2, <3>1, PlainControl
  <2>3. ASSUME Finish PROVE ControlInv'
    BY <2>3, PlainControl DEF Finish, NoOp
  <2> QED
    BY <1>5, <2>1, <2>2, <2>3 DEF TickBegin, TickPartial, StaleRows, ActiveRows
<1>6. CASE StaleFails \/ PartialFails \/ PartialDone
  BY <1>2, <1>3, <1>6 DEF StaleFails, PartialFails, PartialDone
<1>7. CASE StaleCancels
  <2>1. pc' = "cancel" /\ op'.h = op.h /\ op'.t = op.t /\ op'.plan = op.plan /\ pc = "stale"
    BY <1>1, <1>7 DEF StaleCancels, Op
  <2> QED
    BY <2>1
<1>8. CASE StaleCanceled \/ PartialCanceled
  BY <1>8 DEF StaleCanceled, PartialCanceled
<1>9. CASE StaleTerminal
  BY <1>2, <1>9 DEF StaleTerminal
<1>10. ASSUME NEW t \in Trades, PartialCompletes(t) \/ PartialRefuses(t) PROVE ControlInv'
  BY <1>3, <1>10 DEF PartialCompletes, PartialRefuses
<1>11. ASSUME NEW t \in Trades, PartialCancels(t) \/ PartialProceeds(t) PROVE ControlInv'
  <2>1. pc' \in {"cancel", "partialPlace"} /\ op'.h = op.h /\ op'.t = t /\ pc = "partial"
    BY <1>1, <1>11 DEF PartialCancels, PartialProceeds, PartialLookup, Op
  <2> QED
    BY <2>1
<1>12. CASE PartialTerminal
  BY <1>3, <1>12 DEF PartialTerminal
<1>13. ASSUME NEW i \in Ids, NEW ep \in Endpoints, PartialPlace(i, ep) PROVE ControlInv'
  <2> DEFINE n == NewPost("PARTIAL_FILL_PROTECTION", op.t, 0, ep, SmallerOf(btc.free, rows[op.t].filled))
  <2>1. n.st = "PREPARED" /\ Prepare(i, n)
    BY <1>13 DEF PartialPlace, NewPost
  <2> HIDE DEF n
  <2>2. intents'[i].st = "PREPARED"
    BY <1>1, <2>1, PrepareFacts
  <2>3. op'.i = i /\ op'.h = op.h /\ op'.t = op.t
    BY <1>1, <1>13 DEF PartialPlace, Op
  <2> QED
    BY <1>13, <2>2, <2>3 DEF PartialPlace
<1> QED
  BY <1>4, <1>5, <1>6, <1>7, <1>8, <1>9, <1>10, <1>11, <1>12, <1>13 DEF Tick

LEMMA ReconcileControl == ASSUME IInv, Reconcile PROVE ControlInv'
<1> USE DEF IInv, ControlInv, StepInv, PlanInv, TodoInv, TradeSteps, PlanSteps, HandlerSteps, Goto
<1>1. TypeOK /\ LedgerInv /\ op \in Op /\ rec \in Rec /\ rec.todo \subseteq Ids /\ 0 \notin Ids
  BY IdFacts DEF TypeOK, Rec
<1>2. ASSUME NEW ret, NEW was, BeginReconcile(ret, was), intents' = intents PROVE ControlInv'
  BY <1>2 DEF BeginReconcile, Unresolved, NoOp
<1>3. ASSUME NEW i \in Ids, Resolving(i) \/ Resuming(i)
      PROVE  /\ op.i = 0 /\ op.plan = 0 /\ op.h = "none" /\ i \in rec.todo
             /\ pc = "resolve" => \A j \in rec.todo : intents[j].st \in {"PREPARED", "SUBMITTING", "AMBIGUOUS"}
             /\ pc = "plans" => \A j \in rec.todo : intents[j].st = "PREPARED"
  <2>1. op.i = 0 /\ op.plan = 0 /\ op.h = "none" /\ i \in rec.todo
    BY <1>3 DEF Resolving, Resuming, NoOp
  <2>2. rec.todo \ {op.i} = rec.todo /\ rec.todo \ {op.plan} = rec.todo
    BY <1>1, <2>1
  <2> QED
    BY <2>1, <2>2
<1>4. ASSUME NEW i, Resolved(i), pc \in {"resolve", "abortRow"} \/ op.h \in {"child", "found"},
             \A j \in rec.todo \ {i} : intents'[j].st \in {"PREPARED", "SUBMITTING", "AMBIGUOUS"}
      PROVE  ControlInv'
  <2>1. pc' = "resolve" /\ op' = NoOp /\ op'.h = "none" /\ op'.i = 0 /\ rec'.todo = rec.todo \ {i}
    BY <1>1, <1>4 DEF Resolved, NoOp, Rec
  <2> QED
    BY <1>4, <2>1
<1>5. ASSUME NEW i, PlanLeaves(i), \A j \in rec.todo \ {i} : intents'[j].st = "PREPARED"
      PROVE  ControlInv'
  <2>1. pc' = "plans" /\ op' = NoOp /\ op'.h = "none" /\ op'.i = 0 /\ rec'.todo = rec.todo \ {i}
    BY <1>1, <1>5 DEF PlanLeaves, NoOp, Rec
  <2>2. 0 \notin rec'.todo
    BY <1>1, <2>1
  <2> QED
    BY <1>5, <2>1, <2>2
<1>6. CASE ReconcileCommand \/ ArmCommand \/ Start
  BY <1>2, <1>6 DEF ReconcileCommand, ArmCommand, Start
<1>7. CASE ArmFinish
  BY <1>7, PlainControl DEF ArmFinish, Finish, NoOp
<1>8. ASSUME NEW i \in Ids, ResolveSkips(i) PROVE ControlInv'
  BY <1>3, <1>4, <1>8 DEF ResolveSkips, Resolving
<1>9. ASSUME NEW i \in Ids, ResolveChild(i) PROVE ControlInv'
  <2>1. /\ pc' = "mark" /\ op'.h = "child" /\ op'.i = i /\ op'.t = intents[i].trade
        /\ op'.plan = 0 /\ intents' = intents /\ rec' = rec
    BY <1>9 DEF ResolveChild, NoOp
  <2>2. intents[i].trade \in Trades /\ intents[i].st = "PREPARED"
    BY <1>1, <1>9, PresentFacts DEF ResolveChild
  <2>3. \A j \in rec.todo : intents[j].st \in {"PREPARED", "SUBMITTING", "AMBIGUOUS"}
    BY <1>3, <1>9 DEF ResolveChild, Resolving
  <2> QED
    BY <2>1, <2>2, <2>3
<1>10. ASSUME NEW i \in Ids, ResolvePrepared(i) \/ ResolveCancel(i) \/ ResolveFound(i) PROVE ControlInv'
  <2>1. /\ pc = "resolve" /\ Resolving(i)
        /\ \E st \in {"ABORTED", "CONFIRMED"} : SetState(i, st)
        /\ ResolveFound(i) => SetState(i, "CONFIRMED")
    BY <1>10 DEF ResolvePrepared, ResolveCancel, ResolveFound, Resolving
  <2>2. /\ \A j \in rec.todo \ {i} : intents'[j].st \in {"PREPARED", "SUBMITTING", "AMBIGUOUS"}
        /\ ResolveFound(i) => intents'[i].st = "CONFIRMED"
        /\ intents[i].trade \in Trades
    BY <1>1, <1>3, <2>1, SetStateFacts, PresentFacts
  <2>3. CASE Resolved(i)
    BY <1>4, <2>1, <2>2, <2>3
  <2>4. CASE ResolvePrepared(i) /\ ~Resolved(i)
    <3>1. /\ pc' = "abortRow" /\ rec' = rec
          /\ op'.h = "none" /\ op'.i = i /\ op'.t = intents[i].trade
      BY <2>4 DEF ResolvePrepared, NoOp
    <3> QED
      BY <2>2, <3>1
  <2>5. CASE ResolveFound(i)
    <3>1. /\ pc' = "bind" /\ rec' = rec
          /\ op'.h = "found" /\ op'.i = i /\ op'.t = intents[i].trade
      BY <2>5 DEF ResolveFound, NoOp
    <3> QED
      BY <2>2, <2>5, <3>1
  <2> QED
    BY <1>10, <2>3, <2>4, <2>5 DEF ResolveCancel
<1>11. CASE ResolveAbortedEntry \/ ResolveDone
  <2>1. /\ Resolved(op.i) /\ intents' = intents
        /\ pc = "abortRow" \/ op.h \in {"child", "found"}
    BY <1>11 DEF ResolveAbortedEntry, ResolveDone
  <2> QED
    BY <1>4, <2>1
<1>12. CASE ResolveEnds
  <2>1. /\ pc' = "plans" /\ op' = op /\ intents' = intents
        /\ \A j \in rec'.todo : j \in Ids /\ intents[j].st = "PREPARED"
    BY <1>1, <1>12 DEF ResolveEnds, Rec
  <2>2. op = NoOp /\ op.h = "none" /\ op.i = 0
    BY <1>12 DEF ResolveEnds, NoOp
  <2> QED
    BY <1>1, <2>1, <2>2
<1>13. ASSUME NEW i \in Ids, PlanWithoutCancel(i) PROVE ControlInv'
  <2>1. \A j \in Ids \ {i} : intents'[j].st = intents[j].st
    BY <1>1, <1>13, SetStateFacts DEF PlanWithoutCancel
  <2>2. \A j \in rec.todo : intents[j].st = "PREPARED"
    BY <1>3, <1>13 DEF PlanWithoutCancel, Resuming
  <2> QED
    BY <1>1, <1>5, <1>13, <2>1, <2>2 DEF PlanWithoutCancel
<1>14. ASSUME NEW i \in Ids, PlanResumes(i) PROVE ControlInv'
  <2>1. /\ pc' = "free" /\ op'.h = "plan" /\ op'.i = 0 /\ op'.plan = i
        /\ op'.t = intents[i].trade /\ intents' = intents /\ rec' = rec
    BY <1>14 DEF PlanResumes, NoOp
  <2>2. i \in rec.todo /\ \A j \in rec.todo : intents[j].st = "PREPARED"
    BY <1>3, <1>14 DEF PlanResumes, Resuming
  <2>3. intents[i].trade \in Trades
    BY <1>1, <2>2, PresentFacts
  <2> QED
    BY <1>1, <2>1, <2>2, <2>3
<1>15. CASE PlanStays
  <2>1. \/ \E p \in rec.todo : Resuming(p) /\ PlanLeaves(p)
        \/ op.h = "plan" /\ PlanLeaves(op.plan)
    BY <1>15 DEF PlanStays
  <2>2. intents' = intents
    BY <1>15 DEF PlanStays
  <2>3. ASSUME NEW p \in rec.todo, Resuming(p), PlanLeaves(p) PROVE ControlInv'
    BY <1>1, <1>3, <1>5, <2>2, <2>3 DEF Resuming
  <2> QED
    BY <1>5, <2>1, <2>2, <2>3
<1>16. CASE PlanDone
  BY <1>5, <1>16 DEF PlanDone
<1>17. CASE PlansEnd \/ RecoverExits \/ Refresh \/ Verdict
  <2>1. CASE PlansEnd \/ Verdict
    <3>1. op' = NoOp /\ pc' \in {"refresh", "down", "arming", "idle"}
      BY <2>1 DEF PlansEnd, Verdict
    <3> QED
      BY <3>1, PlainControl DEF NoOp
  <2>2. CASE RecoverExits \/ Refresh
    BY <2>2, PlainControl DEF RecoverExits, Refresh
  <2> QED
    BY <1>17, <2>1, <2>2
<1>18. CASE ReconcileRecovers
  <2>1. ASSUME NEW t \in Trades, op' = [NoOp EXCEPT !.h = "stale", !.t = t], pc' = "stale"
        PROVE  ControlInv'
    <3>1. op'.h = "stale" /\ op'.t = t
      BY <2>1 DEF NoOp
    <3> QED
      BY <2>1, <3>1, PlainControl
  <2>2. ASSUME op' = [NoOp EXCEPT !.h = "partial"], pc' = "partial" PROVE ControlInv'
    <3>1. op'.h = "partial"
      BY <2>2 DEF NoOp
    <3> QED
      BY <2>2, <3>1, PlainControl
  <2>3. ASSUME op' = NoOp, pc' \in {"recPartial", "verdict"} PROVE ControlInv'
    BY <2>3, PlainControl DEF NoOp
  <2> QED
    BY <1>18, <2>1, <2>2, <2>3 DEF ReconcileRecovers, StaleRows, ActiveRows
<1> QED
  BY <1>6, <1>7, <1>8, <1>9, <1>10, <1>11, <1>12, <1>13, <1>14, <1>15, <1>16, <1>17, <1>18 DEF Reconcile

LEMMA ControlStep == ASSUME IInv, Next PROVE ControlInv'
<1>1. CASE Exchange \/ Stream \/ Owner
  <2>1. UNCHANGED <<pc, op, rec, intents, posts>>
    BY <1>1 DEF Exchange, durableVars, Stream, StreamUpdate, StreamPartialFill, StreamResync, Owner,
       ClearRiskPause, OwnerPause
  <2> QED
    BY <2>1, ControlStays DEF IInv
<1>2. CASE Crash
  BY <1>2, PlainControl DEF Crash, NoOp
<1> QED
  BY <1>1, <1>2, PostControl, CancelControl, EntryControl, ConvertControl, EmergencyControl,
     TickControl, ReconcileControl DEF Next

-----------------------------------------------------------------------------
(***************************************************************************)
(* The theorems.                                                            *)
(***************************************************************************)
LEMMA InitIInv == ASSUME Init PROVE IInv
<1> USE DEF Init, ExchangeInit
<1>1. TypeOK
  <2>1. ExchangeTypeOK
    BY ExchangeAssumption DEF ExchangeTypeOK, NoOrder, Order
  <2>2. intents \in [Ids -> Intent] /\ rows \in [Trades -> Row]
    BY DEF NoIntent, Intent, Ops, IntentStates, NoRow, Row, Lifecycles
  <2>3. op \in Op /\ rec \in Rec
    BY NoOpType DEF Rec, NoRec
  <2>4. pc \in Steps /\ posts \in [Ids -> Nat] /\ crashes \in 0 .. MaxCrashes
    BY ExecutionAssumption DEF Steps
  <2>5. /\ latest \in Trades \cup {0} /\ verdict \in {"REQUIRED", "RECONCILED", "FAILED"}
        /\ paused \in BOOLEAN /\ armed \in BOOLEAN /\ recovery \in BOOLEAN
    OBVIOUS
  <2> QED
    BY <2>1, <2>2, <2>3, <2>4, <2>5 DEF TypeOK
<1>2. LedgerInv
  BY DEF LedgerInv, NoIntent, Exists, OnWire, NoOrder
<1>3. ControlInv
  BY DEF ControlInv, StepInv, PlanInv, TodoInv, TradeSteps, PlanSteps, NoOp
<1> QED
  BY <1>1, <1>2, <1>3 DEF IInv

LEMMA StutterIInv == ASSUME IInv, UNCHANGED vars PROVE IInv'
<1> USE DEF IInv, vars, exchangeVars, durableVars
<1>1. TypeOK'
  BY DEF TypeOK, ExchangeTypeOK
<1>2. LedgerInv'
  BY QuietExchange, LedgerStays
<1>3. ControlInv'
  BY ControlStays
<1> QED
  BY <1>1, <1>2, <1>3

\* IInv holds in every state of the adapter, whatever the bounds are.
THEOREM Invariance == Spec => []IInv
<1>1. IInv /\ [Next]_vars => IInv'
  BY TypeStep, LedgerStep, ControlStep, StutterIInv DEF IInv
<1> QED
  BY <1>1, InitIInv, PTL DEF Spec

\* The variables keep their types: every handler leaves a record that state_store.py can store.
THEOREM TypeCorrect == Spec => []TypeOK
BY Invariance, PTL DEF IInv

\* No intent is transmitted twice, over any number of timeouts, crashes and reconciliations.
THEOREM AtMostOnce == Spec => []AtMostOncePost
<1>1. IInv => AtMostOncePost
  BY DEF IInv, LedgerInv, AtMostOncePost
<1> QED
  BY <1>1, Invariance, PTL

\* An order that exists or may yet exist has an intent that says so.
THEOREM Durable == Spec => []LandedIsDurable
<1>1. IInv => LandedIsDurable
  BY DEF IInv, LedgerInv, LandedIsDurable, Landed
<1> QED
  BY <1>1, Invariance, PTL

\* A plan with a replacement child is closed, so _resume_prepared_replacement finds none.
THEOREM PlanClosed == Spec => []ChildClosesPlan
<1>1. IInv => ChildClosesPlan
  BY DEF IInv, LedgerInv, ChildClosesPlan
<1> QED
  BY <1>1, Invariance, PTL

-----------------------------------------------------------------------------
(***************************************************************************)
(* Refinement: every step moves, inserts or sends one intent of the ledger, *)
(* or leaves the ledger alone.                                              *)
(***************************************************************************)
Status == [i \in Ids |-> intents[i].st]

LEMMA LedgerMapsMove ==
  ASSUME TypeOK, NEW i \in Ids, NEW st, SetState(i, st), <<intents[i].st, st>> \in Outcomes,
         UNCHANGED posts
  PROVE  Ledger!LedgerNext
<1>1. Status' = [Status EXCEPT ![i] = st]
  BY DEF Status, SetState, TypeOK, Intent
<1>2. Status[i] = intents[i].st
  BY DEF Status
<1>3. ASSUME NEW from, NEW to, intents[i].st \in from, st = to PROVE Ledger!Move(i, from, to)
  BY <1>1, <1>2, <1>3 DEF Ledger!Move, Status
<1>4. CASE st = "SUBMITTING"
  BY <1>3, <1>4 DEF Ledger!LedgerNext, Ledger!Mark, Outcomes
<1>5. CASE st = "ABORTED"
  BY <1>3, <1>5 DEF Ledger!LedgerNext, Ledger!Abort, Outcomes
<1>6. CASE st = "AMBIGUOUS"
  BY <1>3, <1>6 DEF Ledger!LedgerNext, Ledger!Doubt, Outcomes
<1>7. CASE st = "CONFIRMED"
  BY <1>3, <1>7 DEF Ledger!LedgerNext, Ledger!Confirm, Outcomes
<1> QED
  BY <1>4, <1>5, <1>6, <1>7 DEF Outcomes

LEMMA LedgerMapsPrepare ==
  ASSUME TypeOK, NEW i \in Ids, NEW n \in Intent, Prepare(i, n), n.st = "PREPARED", n.parent # i,
         UNCHANGED posts
  PROVE  Ledger!LedgerNext
<1>1. Status[i] = "NONE" /\ n.parent \in Ids \cup {0}
  BY DEF Status, Prepare, NewIntent, Intent
<1>2. CASE n.parent = 0
  <2>1. Status' = [Status EXCEPT ![i] = "PREPARED"]
    BY <1>2, IdFacts DEF Status, Prepare, TypeOK, Intent
  <2>2. Ledger!Insert(i)
    BY <1>1, <2>1 DEF Ledger!Insert, Ledger!Move, Status
  <2> QED
    BY <2>2 DEF Ledger!LedgerNext
<1>3. CASE n.parent # 0
  <2>1. n.parent \in Ids /\ Status[n.parent] = "PREPARED"
    BY <1>1, <1>3 DEF Status, Prepare
  <2>2. Status' = [Status EXCEPT ![i] = "PREPARED", ![n.parent] = "ABORTED"]
    BY <2>1 DEF Status, Prepare, TypeOK, Intent
  <2>3. Ledger!InsertChild(i, n.parent)
    BY <1>1, <2>1, <2>2 DEF Ledger!InsertChild, Status
  <2> QED
    BY <2>1, <2>3 DEF Ledger!LedgerNext
<1> QED
  BY <1>2, <1>3

LEMMA LedgerMapsSend ==
  ASSUME IInv, PostAccepted \/ PostRejected \/ PostUnanswered PROVE Ledger!LedgerNext
<1>1. op.i \in Ids /\ Status[op.i] = "SUBMITTING" /\ posts[op.i] = 0
  BY DEF IInv, ControlInv, StepInv, PostAccepted, PostRejected, PostUnanswered, Status
<1>2. posts' = [posts EXCEPT ![op.i] = 1]
  BY <1>1 DEF IInv, TypeOK, PostAccepted, PostRejected, PostUnanswered, Transmit
<1>3. \E to \in {"SUBMITTING", "DEFINITE_REJECT"} : Status' = [Status EXCEPT ![op.i] = to]
  <2>1. CASE PostRejected
    <3>1. Status' = [Status EXCEPT ![op.i] = "DEFINITE_REJECT"]
      BY <1>1, <2>1 DEF PostRejected, SetState, Status, IInv, TypeOK, Intent
    <3> QED
      BY <3>1
  <2>2. CASE PostAccepted \/ PostUnanswered
    <3>1. Status' = [Status EXCEPT ![op.i] = "SUBMITTING"]
      BY <1>1, <2>2 DEF PostAccepted, PostUnanswered, Status
    <3> QED
      BY <3>1
  <2> QED
    BY <2>1, <2>2
<1>4. ASSUME NEW i \in Ids, i = op.i PROVE Ledger!Send(i)
  BY <1>1, <1>2, <1>3, <1>4 DEF Ledger!Send, Status
<1> QED
  BY <1>1, <1>4 DEF Ledger!LedgerNext

\* The adapter keeps the promise of the ledger: an intent is durable before its request
\* leaves, the request leaves once, and no outcome is rewritten.
THEOREM Refinement == Spec => ImplementsLedger
<1>1. Init => Ledger!LedgerInit
  BY DEF Init, NoIntent, Ledger!LedgerInit
<1>2. ASSUME IInv, [Next]_vars PROVE [Ledger!LedgerNext]_(Ledger!ledgerVars)
  <2>1. CASE UNCHANGED <<intents, posts>>
    BY <2>1 DEF Ledger!ledgerVars
  <2>2. CASE Next /\ ~UNCHANGED <<intents, posts>>
    BY <1>2, <2>2, IntentStep, LedgerMapsMove, LedgerMapsPrepare, LedgerMapsSend DEF IntentEffect, IInv
  <2>3. CASE UNCHANGED vars
    BY <2>1, <2>3 DEF vars, durableVars
  <2> QED
    BY <1>2, <2>1, <2>2, <2>3
<1> QED
  BY <1>1, <1>2, Invariance, PTL DEF Spec, ImplementsLedger, Ledger!LedgerSpec

-----------------------------------------------------------------------------
(***************************************************************************)
(* The second invariant ties the trade rows and the orders that rows and    *)
(* cancels name to the intents.  It holds next to IInv: BookInv relates an  *)
(* order and a request in flight to the intent that asked for it, RowInv a  *)
(* row to the intents of its trade, and TargetInv says what the main thread *)
(* knows of the order that it cancels and of the row that it works on.      *)
(***************************************************************************)
BookInv ==
  /\ \A i \in Ids : IF Exists(i) THEN book[i].qty = intents[i].qty ELSE book[i].bought = 0
  /\ \A m \in wire : m.t = "post" =>
       ~Exists(m.id) /\ m.kind = KindOf(m.id) /\ m.qty = intents[m.id].qty

\* An intent is the row of an operation, and an entry asks for the whole quantity.
ShapeInv ==
  \A i \in Ids :
    /\ intents[i].st = "NONE" => intents[i].opn = "NONE" /\ intents[i].trade = 0
    /\ intents[i].opn = "NONE" => intents[i].st = "NONE"
    /\ intents[i].opn = "ENTRY" => intents[i].qty = EntryQty

EntryOf(i, t) == intents[i].opn = "ENTRY" /\ intents[i].trade = t

\* The entry of a trade ended without a fill.
Unfilled(i) == \/ intents[i].st \in {"ABORTED", "DEFINITE_REJECT"}
               \/ book[i].ph = "done" /\ book[i].bought = 0

\* A row names orders that exist, and its lifecycle agrees with its only entry: an
\* entry that may yet land keeps the row open, and an unbound row has not gone further.
RowOf(t) ==
  LET r == rows[t]
  IN
  /\ r.lc = "NONE" => r.obj = 0 /\ \A i \in Ids : intents[i].trade # t
  /\ r.obj = 0 => r.ent = 0 /\ r.lc \notin {"ENTRY_PARTIALLY_FILLED", "ENTRY_FILLED",
                                            "PROTECTION_ACTIVE", "EXIT_FILLED"}
  /\ r.obj # 0 => Exists(r.obj)
  /\ r.ent # 0 => Exists(r.ent) /\ EntryOf(r.ent, t)
  /\ \A i \in Ids : EntryOf(i, t) =>
       /\ intents[i].st # "CONFIRMED" => r.obj = 0
       /\ intents[i].st \in {"PREPARED", "SUBMITTING", "AMBIGUOUS"} => r.lc \notin Terminal
       /\ r.lc = "ENTRY_REJECTED" => Unfilled(i)
  /\ \A i \in Ids : intents[i].trade = t /\ intents[i].opn # "ENTRY" => r.obj # 0

RowInv ==
  /\ \A t \in Trades : RowOf(t)
  /\ \A t \in Trades, i, j \in Ids : EntryOf(i, t) /\ EntryOf(j, t) => i = j

\* A cancel names an order that exists.
CancelInv ==
  /\ \A j \in Ids : intents[j].opn \in CancelOps => intents[j].obj \in Ids /\ Exists(intents[j].obj)
  /\ ConfirmedCancelTerminal

\* The steps that transmit, bind and settle the intent op.i of the trade op.t.
SubmitSteps == {"mark", "post", "lookup", "confirm", "bind", "posted", "rejected", "ambiguous"}

\* The steps that go ahead on the orders that the row names.
BoundSteps == {"canceled", "free", "exitRow", "staleTerminal", "partialTerminal", "partialPlace"}

SubmitInv ==
  /\ pc \in SubmitSteps =>
       /\ op.i \in Ids /\ intents[op.i].opn \notin CancelOps /\ intents[op.i].trade = op.t
       /\ op.h \in {"entry", "manual"} => intents[op.i].opn = "ENTRY"
       /\ op.h \notin {"entry", "manual", "found"} => intents[op.i].opn # "ENTRY"
  /\ pc \in {"confirm", "bind"} => Exists(op.i)
  /\ pc = "rejected" => intents[op.i].st = "DEFINITE_REJECT"
  /\ pc = "abortRow" => op.i \in Ids /\ EntryOf(op.i, op.t) /\ intents[op.i].st = "ABORTED"
  /\ pc \in {"submit", "prepare"} =>
       /\ op.h \in {"entry", "manual"}
       /\ rows[op.t].obj = 0 /\ \A i \in Ids : intents[i].trade # op.t
  /\ pc = "prepare" => rows[op.t].lc = "ENTRY_SUBMITTED"

TargetInv ==
  /\ pc \in {"cancel", "cmark", "delete", "cconfirm"} /\ op.x # 0 =>
       Exists(op.x) /\ rows[op.t].obj # 0
  /\ pc = "cancel" /\ op.c # "CANCEL_PROTECTION" => op.x # 0
  /\ pc \in {"cmark", "delete", "cconfirm"} =>
       intents[op.i].opn \in CancelOps /\ intents[op.i].obj = op.x
  /\ pc = "cconfirm" => book[op.x].ph = "done"
  /\ pc \in BoundSteps => rows[op.t].obj # 0
  /\ pc \in {"partialTerminal", "partialPlace"} \/ (pc \in PlanSteps /\ op.c = "CANCEL_PARTIAL_ENTRY")
       => op.h \in {"partial", "stale"}

RInv == BookInv /\ ShapeInv /\ RowInv /\ CancelInv /\ SubmitInv /\ TargetInv

LEMMA RInvParts ==
  ASSUME RInv PROVE BookInv /\ ShapeInv /\ RowInv /\ CancelInv /\ SubmitInv /\ TargetInv
BY DEF RInv

-----------------------------------------------------------------------------
(***************************************************************************)
(* What a step does to the orders.                                          *)
(***************************************************************************)

\* An order that exists stays, for the quantity that it was for, and a terminal one
\* does not change any more.
OrdersLast ==
  \A i \in Ids : /\ Exists(i) => Exists(i)' /\ book'[i].qty = book[i].qty
                 /\ book[i].ph = "done" => book'[i].ph = "done" /\ book'[i].bought = book[i].bought

LEMMA LastOf ==
  ASSUME OrdersLast, NEW i \in Ids
  PROVE  /\ Exists(i) => Exists(i)' /\ book'[i].qty = book[i].qty
         /\ book[i].ph = "done" => book'[i].ph = "done" /\ book'[i].bought = book[i].bought
BY DEF OrdersLast

LEMMA QuietOrders == ASSUME UNCHANGED book PROVE OrdersLast
BY DEF OrdersLast, Exists

\* Only these steps touch the orders or the requests in flight.
LEMMA BookCauses ==
  ASSUME Next
  PROVE  \/ UNCHANGED <<book, wire, btc>>
         \/ Exchange \/ PostAccepted \/ PostUnanswered \/ DeleteAccepted \/ DeleteFails
<1> USE DEF exchangeVars
<1>1. CASE Entry
  BY <1>1 DEF Entry, ProcessSignal, ManualEntry, SubmitRefused, SubmitRaises, SubmitPersist,
     PrepareEntry, EntryDone
<1>2. CASE PostProcedure
  BY <1>2 DEF PostProcedure, MarkSubmitting, PostRejected, LookupFound, LookupMissing, ConfirmIntent,
     BindIntent
<1>3. CASE CancelProcedure
  BY <1>3 DEF CancelProcedure, CancelWithoutTarget, CancelAlreadyPrepared, CancelOutOfRoom,
     CancelPrepare, CancelMark, CancelConfirm
<1>4. CASE Convert
  <2>1. CASE \E h \in {"convert", "auto"}, t \in Trades, i \in Ids, ep \in Endpoints :
               ConvertBegin(h, t, i, ep)
    BY <2>1 DEF ConvertBegin
  <2>2. CASE ConvertStops \/ ConvertCanceled \/ ReplaceFoundFlat
    BY <2>2 DEF ConvertStops, ConvertCanceled, ReplaceFoundFlat
  <2>3. CASE ConvertExited \/ ConvertDone \/ \E i \in Ids : PrepareReplacement(i)
    BY <2>3 DEF ConvertExited, ConvertDone, PrepareReplacement
  <2> QED
    BY <1>4, <2>1, <2>2, <2>3 DEF Convert
<1>5. CASE Emergency
  BY <1>5 DEF Emergency, EmergencyBegin, EmergencyStops, EmergencyVerify, EmergencySell
<1>6. CASE Tick
  BY <1>6 DEF Tick, EntryWindowExpires, TickBegin, TickPartial, StaleFails, StaleCancels,
     StaleCanceled, StaleTerminal, PartialCompletes, PartialRefuses, PartialCancels,
     PartialProceeds, PartialFails, PartialCanceled, PartialTerminal, PartialDone, PartialPlace
<1>7. CASE Reconcile
  BY <1>7 DEF Reconcile, ReconcileCommand, ArmCommand, ArmFinish, Start, ResolveSkips,
     ResolveChild, ResolvePrepared, ResolveCancel, ResolveFound, PlanWithoutCancel, PlanResumes,
     ResolveAbortedEntry, ResolveDone, ResolveEnds, PlanStays, PlanDone, PlansEnd, Refresh,
     RecoverExits, ReconcileRecovers, Verdict
<1>8. CASE Stream \/ Owner \/ Crash
  BY <1>8 DEF Stream, StreamUpdate, StreamPartialFill, StreamResync, Owner, ClearRiskPause,
     OwnerPause, Crash
<1> QED
  BY <1>1, <1>2, <1>3, <1>4, <1>5, <1>6, <1>7, <1>8 DEF Next

\* Whatever the matching engine does to an order, it did not exist or it lasts.
LEMMA AcceptLasts ==
  ASSUME TypeOK, NEW i \in Ids, NEW k, NEW q, ~Exists(i), Accept(i, k, q)
  PROVE  /\ OrdersLast /\ book'[i].qty = q /\ Exists(i)' 
         /\ \A j \in Ids \ {i} : book'[j] = book[j]
<1>1. \E ph \in {"working", "protecting", "done"} : \E x :
        book' = [book EXCEPT ![i] = [kind |-> k, ph |-> ph, qty |-> q, bought |-> 0, sold |-> x]]
  BY DEF Accept
<1>2. /\ book'[i].qty = q /\ book'[i].ph \in {"working", "protecting", "done"}
      /\ \A j \in Ids \ {i} : book'[j] = book[j]
  BY <1>1 DEF TypeOK, ExchangeTypeOK
<1>3. Exists(i)' /\ book[i].ph = "none"
  BY <1>2 DEF Exists
<1> QED
  BY <1>2, <1>3 DEF OrdersLast, Exists

LEMMA TerminateLasts ==
  ASSUME TypeOK, NEW i \in Ids, Live(i), Terminate(i)
  PROVE  /\ OrdersLast /\ book'[i].ph = "done"
         /\ \A j \in Ids : (Exists(j)' <=> Exists(j)) /\ book'[j].bought = book[j].bought
BY DEF TypeOK, ExchangeTypeOK, Order, Terminate, OrdersLast, Exists, Live

LEMMA FillLasts ==
  ASSUME TypeOK, NEW i \in Ids, BuyFill(i) \/ SellFill(i) \/ ExpireEntry(i)
  PROVE  /\ OrdersLast
         /\ \A j \in Ids : (Exists(j)' <=> Exists(j)) /\ (~Exists(j) => book'[j] = book[j])
<1>1. CASE BuyFill(i)
  <2>1. book \in [Ids -> Order] /\ book[i] \in Order /\ book[i].ph = "working"
    BY <1>1 DEF TypeOK, ExchangeTypeOK, BuyFill
  <2>2. PICK ph \in {"working", "protecting"} :
               book' = [book EXCEPT ![i] = [book[i] EXCEPT !.bought = book[i].bought + 1, !.ph = ph]]
    <3>1. CASE book[i].bought + 1 = book[i].qty
      BY <1>1, <2>1, <3>1 DEF BuyFill, Order
    <3>2. CASE book[i].bought + 1 # book[i].qty
      <4>1. book' = [book EXCEPT ![i] = [book[i] EXCEPT !.bought = book[i].bought + 1]]
        BY <1>1, <2>1, <3>2 DEF BuyFill, Order
      <4>2. [book[i] EXCEPT !.bought = book[i].bought + 1]
              = [book[i] EXCEPT !.bought = book[i].bought + 1, !.ph = "working"]
        BY <2>1 DEF Order
      <4> QED
        BY <4>1, <4>2
    <3> QED
      BY <3>1, <3>2
  <2>3. /\ book'[i].ph = ph /\ book'[i].qty = book[i].qty
        /\ \A j \in Ids \ {i} : book'[j] = book[j]
    BY <2>1, <2>2 DEF Order
  <2> QED
    BY <2>1, <2>3 DEF OrdersLast, Exists
<1>2. CASE SellFill(i)
  <2> DEFINE ph == IF book[i].sold + 1 = book[i].qty THEN "done" ELSE book[i].ph
  <2>1. book' = [book EXCEPT ![i] = [book[i] EXCEPT !.sold = book[i].sold + 1, !.ph = ph]]
    BY <1>2 DEF SellFill
  <2>2. ph \in {"protecting", "done"} /\ book[i].ph = "protecting"
    BY <1>2 DEF SellFill
  <2> HIDE DEF ph
  <2>3. book[i] \in Order
    BY DEF TypeOK, ExchangeTypeOK
  <2>4. /\ book'[i].ph = ph /\ book'[i].qty = book[i].qty
        /\ \A j \in Ids \ {i} : book'[j] = book[j]
    BY <2>1, <2>3 DEF TypeOK, ExchangeTypeOK, Order
  <2> QED
    BY <2>2, <2>4 DEF OrdersLast, Exists
<1>3. CASE ExpireEntry(i)
  <2>1. Live(i) /\ Terminate(i)
    BY <1>3 DEF ExpireEntry, Live
  <2>2. \A j \in Ids : j # i => book'[j] = book[j]
    BY <2>1 DEF Terminate, TypeOK, ExchangeTypeOK
  <2> QED
    BY <2>1, <2>2, TerminateLasts DEF Live, Exists
<1> QED
  BY <1>1, <1>2, <1>3

\* A request in flight is for an order that does not exist yet, so landing adds an
\* order and takes none away; nothing but an exchange step or a DELETE ends one.
LEMMA OrdersStep == ASSUME IInv, BookInv, Next PROVE OrdersLast
<1>1. TypeOK
  BY DEF IInv
<1>2. CASE Exchange
  <2>1. ASSUME NEW m \in wire, LandPost(m) PROVE OrdersLast
    <3>1. m.id \in Ids
      BY <1>1 DEF TypeOK, ExchangeTypeOK, Request
    <3>2. CASE Acceptable(m.id, m.kind, m.qty)
      BY <1>1, <2>1, <3>1, <3>2, AcceptLasts DEF LandPost, Acceptable
    <3>3. CASE ~Acceptable(m.id, m.kind, m.qty)
      BY <2>1, <3>3, QuietOrders DEF LandPost
    <3> QED
      BY <3>2, <3>3
  <2>2. ASSUME NEW m \in wire, LandDelete(m) PROVE OrdersLast
    <3>1. m.id \in Ids
      BY <1>1 DEF TypeOK, ExchangeTypeOK, Request
    <3> QED
      BY <1>1, <2>2, <3>1, TerminateLasts, QuietOrders DEF LandDelete
  <2> QED
    BY <1>1, <1>2, <2>1, <2>2, FillLasts DEF Exchange, ExchangeStep
<1>3. CASE PostAccepted
  <2>1. op.i \in Ids
    BY <1>3 DEF PostAccepted, IInv, ControlInv, StepInv
  <2> QED
    BY <1>1, <1>3, <2>1, AcceptLasts DEF PostAccepted, Acceptable
<1>4. CASE DeleteAccepted
  <2>1. op.x \in Ids
    BY <1>4 DEF DeleteAccepted, IInv, ControlInv, StepInv
  <2> QED
    BY <1>1, <1>4, <2>1, TerminateLasts DEF DeleteAccepted
<1>5. CASE PostUnanswered \/ DeleteFails
  BY <1>5, QuietOrders DEF PostUnanswered, DeleteFails
<1> QED
  BY <1>2, <1>3, <1>4, <1>5, BookCauses, QuietOrders

-----------------------------------------------------------------------------
(***************************************************************************)
(* What a step does to the intents, by the step that does it.               *)
(***************************************************************************)
PreparedBy(i) ==
  \/ PrepareEntry(i) \/ CancelPrepare(i) \/ PrepareReplacement(i) \/ EmergencySell(i)
  \/ \E h \in {"convert", "auto"}, t \in Trades, ep \in Endpoints : ConvertBegin(h, t, i, ep)
  \/ \E ep \in Endpoints : PartialPlace(i, ep)

SettledBy(i) == ResolvePrepared(i) \/ ResolveCancel(i) \/ ResolveFound(i) \/ PlanWithoutCancel(i)

Settles ==
  \/ MarkSubmitting \/ PostRejected \/ LookupMissing \/ ConfirmIntent
  \/ CancelMark \/ DeleteFails \/ CancelConfirm \/ ReplaceFoundFlat
  \/ \E i \in Ids : SettledBy(i)

\* An intent is inserted or settled by one of a few steps, and those leave the rows alone.
LEMMA Causes ==
  ASSUME Next
  PROVE  \/ UNCHANGED intents
         \/ UNCHANGED rows /\ \E i \in Ids : PreparedBy(i)
         \/ UNCHANGED rows /\ Settles
<1>1. CASE Exchange \/ Stream \/ Owner \/ Crash
  BY <1>1 DEF Exchange, durableVars, Stream, StreamUpdate, StreamPartialFill, StreamResync, Owner,
     ClearRiskPause, OwnerPause, Crash
<1>2. CASE Entry
  BY <1>2 DEF Entry, ProcessSignal, ManualEntry, SubmitRefused, SubmitRaises, SubmitPersist,
     EntryDone, PrepareEntry, PreparedBy, KeepRows
<1>3. CASE PostProcedure
  BY <1>3 DEF PostProcedure, MarkSubmitting, PostAccepted, PostRejected, PostUnanswered, LookupFound,
     LookupMissing, ConfirmIntent, BindIntent, PostUnchanged, KeepRows, Settles
<1>4. CASE CancelProcedure
  BY <1>4 DEF CancelProcedure, CancelWithoutTarget, CancelAlreadyPrepared, CancelOutOfRoom,
     CancelPrepare, CancelMark, DeleteAccepted, DeleteFails, CancelConfirm, CancelUnchanged, KeepRows,
     Settles, PreparedBy
<1>5. CASE Convert
  <2>1. CASE \E h \in {"convert", "auto"}, t \in Trades, i \in Ids, ep \in Endpoints :
               ConvertBegin(h, t, i, ep)
    <3>1. ASSUME NEW h \in {"convert", "auto"}, NEW t \in Trades, NEW i \in Ids, NEW ep \in Endpoints,
                 ConvertBegin(h, t, i, ep)
          PROVE  UNCHANGED rows /\ PreparedBy(i)
      BY <3>1 DEF ConvertBegin, PreparedBy, KeepRows
    <3> QED
      BY <2>1, <3>1
  <2>2. CASE ConvertStops \/ ConvertCanceled \/ ReplaceFoundFlat
    BY <2>2 DEF ConvertStops, ConvertCanceled, ReplaceFoundFlat, KeepRows, Settles
  <2>3. CASE ConvertExited \/ ConvertDone
    BY <2>3 DEF ConvertExited, ConvertDone
  <2>4. ASSUME NEW i \in Ids, PrepareReplacement(i) PROVE PreparedBy(i) /\ UNCHANGED rows
    BY <2>4 DEF PrepareReplacement, KeepRows, PreparedBy
  <2> QED
    BY <1>5, <2>1, <2>2, <2>3, <2>4 DEF Convert
<1>6. CASE Emergency
  BY <1>6 DEF Emergency, EmergencyBegin, EmergencyStops, EmergencyVerify, EmergencySell, KeepRows,
     PreparedBy
<1>7. CASE Tick
  BY <1>7 DEF Tick, EntryWindowExpires, TickBegin, TickPartial, StaleFails, StaleCancels,
     StaleCanceled, StaleTerminal, PartialCompletes, PartialRefuses, PartialCancels,
     PartialProceeds, PartialFails, PartialCanceled, PartialTerminal, PartialDone, PartialPlace,
     KeepRows, PreparedBy
<1>8. CASE Reconcile
  <2>1. ASSUME NEW i \in Ids, SettledBy(i) PROVE UNCHANGED rows /\ Settles
    BY <2>1 DEF SettledBy, Settles, ResolvePrepared, ResolveCancel, ResolveFound, PlanWithoutCancel,
       KeepRows
  <2>2. CASE Reconcile /\ ~\E i \in Ids : SettledBy(i)
    BY <2>2 DEF Reconcile, SettledBy, ReconcileCommand, ArmCommand, ArmFinish, Start, ResolveSkips,
       ResolveChild, PlanResumes, ResolveAbortedEntry, ResolveDone, ResolveEnds, PlanStays,
       PlanDone, PlansEnd, Refresh, RecoverExits, ReconcileRecovers, Verdict
  <2> QED
    BY <1>8, <2>1, <2>2
<1> QED
  BY <1>1, <1>2, <1>3, <1>4, <1>5, <1>6, <1>7, <1>8 DEF Next

\* The intent that a step settles, and what a CONFIRMED cancel is confirmed by.
LEMMA SettledFacts ==
  ASSUME IInv, RInv, Settles
  PROVE  \E i \in Ids : \E st \in {"SUBMITTING", "ABORTED", "AMBIGUOUS", "CONFIRMED", "DEFINITE_REJECT"} :
           /\ SetState(i, st)
           /\ intents[i].st \in {"PREPARED", "SUBMITTING", "AMBIGUOUS"}
           /\ UNCHANGED book
           /\ st = "CONFIRMED" /\ intents[i].opn \in CancelOps => book[intents[i].obj].ph = "done"
<1>1. TypeOK /\ StepInv /\ PlanInv /\ TodoInv /\ TargetInv /\ SubmitInv /\ CancelInv /\ 0 \notin Ids
  BY IdFacts DEF IInv, ControlInv, RInv
<1>2. CASE MarkSubmitting \/ PostRejected \/ LookupMissing
  <2>1. /\ op.i \in Ids /\ intents[op.i].st \in {"PREPARED", "SUBMITTING"} /\ UNCHANGED book
        /\ \E st \in {"SUBMITTING", "AMBIGUOUS", "DEFINITE_REJECT"} : SetState(op.i, st)
    BY <1>1, <1>2 DEF MarkSubmitting, PostRejected, LookupMissing, StepInv, exchangeVars
  <2> QED
    BY <2>1
<1>3. CASE ConfirmIntent
  <2>1. /\ op.i \in Ids /\ intents[op.i].st = "SUBMITTING" /\ UNCHANGED book
        /\ SetState(op.i, "CONFIRMED") /\ intents[op.i].opn \notin CancelOps
    BY <1>1, <1>3 DEF ConfirmIntent, StepInv, exchangeVars, SubmitInv, SubmitSteps
  <2> QED
    BY <2>1
<1>4. CASE CancelMark \/ DeleteFails
  <2>1. /\ op.i \in Ids /\ intents[op.i].st \in {"PREPARED", "SUBMITTING"} /\ UNCHANGED book
        /\ \E st \in {"SUBMITTING", "AMBIGUOUS"} : SetState(op.i, st)
    BY <1>1, <1>4 DEF CancelMark, DeleteFails, StepInv, exchangeVars
  <2> QED
    BY <2>1
<1>5. CASE CancelConfirm
  <2>1. /\ op.i \in Ids /\ intents[op.i].st = "SUBMITTING" /\ UNCHANGED book
        /\ SetState(op.i, "CONFIRMED") /\ intents[op.i].obj = op.x /\ book[op.x].ph = "done"
    BY <1>1, <1>5 DEF CancelConfirm, StepInv, exchangeVars, TargetInv
  <2> QED
    BY <2>1
<1>6. CASE ReplaceFoundFlat
  <2>1. /\ op.plan \in Ids /\ intents[op.plan].st = "PREPARED" /\ UNCHANGED book
        /\ SetState(op.plan, "ABORTED")
    BY <1>1, <1>6 DEF ReplaceFoundFlat, PlanInv, exchangeVars
  <2> QED
    BY <2>1
<1>7. ASSUME NEW i \in Ids, ResolvePrepared(i)
      PROVE  SetState(i, "ABORTED") /\ intents[i].st = "PREPARED" /\ UNCHANGED book
  BY <1>7 DEF ResolvePrepared, exchangeVars
<1>8. ASSUME NEW i \in Ids, ResolveCancel(i) \/ ResolveFound(i)
      PROVE  /\ SetState(i, "CONFIRMED") /\ intents[i].st \in {"PREPARED", "SUBMITTING", "AMBIGUOUS"}
             /\ UNCHANGED book
             /\ intents[i].opn \in CancelOps => book[intents[i].obj].ph = "done"
  <2>1. pc = "resolve" /\ i \in rec.todo
    BY <1>8 DEF ResolveCancel, ResolveFound, Resolving
  <2>2. op.i = 0
    BY <1>1, <2>1 DEF TodoInv, NoOp
  <2>3. intents[i].st \in {"PREPARED", "SUBMITTING", "AMBIGUOUS"}
    BY <1>1, <2>1, <2>2 DEF TodoInv
  <2>4. ASSUME intents[i].opn \in CancelOps PROVE book[intents[i].obj].ph = "done"
    <3>1. ~Live(intents[i].obj)
      BY <1>8, <2>4 DEF ResolveCancel, ResolveFound, IsCancel
    <3>2. intents[i].obj \in Ids /\ Exists(intents[i].obj)
      BY <1>1, <2>4 DEF CancelInv
    <3> QED
      BY <1>1, <3>1, <3>2 DEF Live, Exists, TypeOK, ExchangeTypeOK, Order
  <2> QED
    BY <1>8, <2>3, <2>4 DEF ResolveCancel, ResolveFound, exchangeVars
<1>9. ASSUME NEW i \in Ids, PlanWithoutCancel(i)
      PROVE  SetState(i, "ABORTED") /\ intents[i].st = "PREPARED" /\ UNCHANGED book
  <2>1. pc = "plans" /\ i \in rec.todo
    BY <1>9 DEF PlanWithoutCancel, Resuming
  <2>2. op.plan = 0
    BY <1>1, <2>1 DEF TodoInv, NoOp
  <2>3. intents[i].st = "PREPARED"
    BY <1>1, <2>1, <2>2 DEF TodoInv
  <2> QED
    BY <1>9, <2>3 DEF PlanWithoutCancel, exchangeVars
<1> QED
  BY <1>2, <1>3, <1>4, <1>5, <1>6, <1>7, <1>8, <1>9 DEF Settles, SettledBy

\* What an intent is inserted for: an entry by submit alone, before its trade has any
\* other intent; everything else for a trade whose row names an order.
Asked(n) ==
  /\ n.st = "PREPARED" /\ n.opn # "NONE" /\ n.trade \in Trades
  /\ n.opn = "ENTRY" => n.qty = EntryQty /\ pc = "prepare" /\ n.trade = op.t
  /\ n.opn # "ENTRY" => rows[n.trade].obj # 0
  /\ n.opn \in CancelOps => n.obj = op.x /\ op.x \in Ids /\ Exists(op.x)

LEMMA NewPostFacts ==
  ASSUME NEW o, NEW t, NEW p, NEW ep, NEW q
  PROVE  LET n == NewPost(o, t, p, ep, q)
         IN  n.opn = o /\ n.trade = t /\ n.qty = q /\ n.st = "PREPARED"
BY DEF NewPost

LEMMA PreparedFacts ==
  ASSUME IInv, RInv, NEW i \in Ids, PreparedBy(i)
  PROVE  /\ \E n : Prepare(i, n) /\ Asked(n)
         /\ UNCHANGED <<book, wire>>
<1>1. TypeOK /\ StepInv /\ PlanInv /\ TargetInv /\ RowInv /\ LedgerInv /\ op \in Op
  BY DEF IInv, ControlInv, RInv, TypeOK
<1>2. UNCHANGED <<book, wire>>
  BY DEF PreparedBy, PrepareEntry, CancelPrepare, PrepareReplacement, EmergencySell, ConvertBegin,
     PartialPlace, exchangeVars
<1>3. ASSUME NEW o \in {"PROTECTION", "PARTIAL_FILL_PROTECTION", "EMERGENCY_EXIT"}, NEW p, NEW ep, NEW q,
             Prepare(i, NewPost(o, op.t, p, ep, q)), op.t \in Trades, rows[op.t].obj # 0
      PROVE  \E n : Prepare(i, n) /\ Asked(n)
  <2> DEFINE n == NewPost(o, op.t, p, ep, q)
  <2>1. n.opn = o /\ n.trade = op.t /\ n.st = "PREPARED"
    BY NewPostFacts
  <2>2. Prepare(i, n)
    BY <1>3
  <2>3. o # "NONE" /\ o # "ENTRY" /\ o \notin CancelOps
    BY DEF CancelOps
  <2> HIDE DEF n
  <2> QED
    BY <1>3, <2>1, <2>2, <2>3 DEF Asked
<1>4. CASE PrepareEntry(i)
  <2> DEFINE n == NewPost("ENTRY", op.t, 0, "list", EntryQty)
  <2>1. n.opn = "ENTRY" /\ n.trade = op.t /\ n.st = "PREPARED" /\ n.qty = EntryQty
    BY NewPostFacts
  <2>2. Prepare(i, n) /\ pc = "prepare" /\ op.t \in Trades
    BY <1>1, <1>4 DEF PrepareEntry, StepInv, TradeSteps
  <2>3. "ENTRY" # "NONE" /\ "ENTRY" \notin CancelOps
    BY DEF CancelOps
  <2> HIDE DEF n
  <2>4. Asked(n)
    BY <2>1, <2>2, <2>3 DEF Asked
  <2> QED
    BY <1>2, <2>2, <2>4
<1>5. CASE CancelPrepare(i)
  <2> DEFINE n == [NoIntent EXCEPT !.opn = op.c, !.trade = op.t, !.obj = op.x, !.st = "PREPARED"]
  <2>1. n.opn = op.c /\ n.trade = op.t /\ n.st = "PREPARED" /\ n.obj = op.x
    BY DEF NoIntent
  <2>2. /\ Prepare(i, n) /\ op.t \in Trades /\ op.c \in CancelOps /\ op.x \in Ids
        /\ Exists(op.x) /\ rows[op.t].obj # 0
    BY <1>1, <1>5 DEF CancelPrepare, StepInv, TradeSteps, TargetInv, Op
  <2>3. op.c # "NONE" /\ op.c # "ENTRY"
    BY <2>2 DEF CancelOps
  <2> HIDE DEF n
  <2>4. Asked(n)
    BY <2>1, <2>2, <2>3 DEF Asked
  <2> QED
    BY <1>2, <2>2, <2>4
<1>6. CASE PrepareReplacement(i)
  <2>1. op.t \in Trades /\ rows[op.t].obj # 0
    BY <1>1, <1>6 DEF PrepareReplacement, StepInv, TradeSteps, TargetInv, BoundSteps
  <2>2. Prepare(i, NewPost("PROTECTION", op.t, op.plan, intents[op.plan].ep, SmallerOf(btc.free, op.q)))
    BY <1>6 DEF PrepareReplacement
  <2> QED
    BY <1>2, <1>3, <2>1, <2>2
<1>7. CASE EmergencySell(i)
  <2>1. op.t \in Trades /\ rows[op.t].obj # 0
    BY <1>1, <1>7 DEF EmergencySell, StepInv, TradeSteps, TargetInv, BoundSteps
  <2>2. Prepare(i, NewPost("EMERGENCY_EXIT", op.t, 0, "order", SmallerOf(btc.free, op.q)))
    BY <1>7 DEF EmergencySell
  <2> QED
    BY <1>2, <1>3, <2>1, <2>2
<1>8. ASSUME NEW h, NEW t \in Trades, NEW ep, ConvertBegin(h, t, i, ep)
      PROVE  \E n : Prepare(i, n) /\ Asked(n)
  <2> DEFINE n == [NoIntent EXCEPT !.opn = "REPLACE_PROTECTION", !.trade = t, !.ep = ep,
                                   !.qty = rows[t].prot, !.st = "PREPARED"]
  <2>1. n.opn = "REPLACE_PROTECTION" /\ n.trade = t /\ n.st = "PREPARED"
    BY DEF NoIntent
  <2>2. Prepare(i, n) /\ rows[t].lc = "PROTECTION_ACTIVE"
    BY <1>8 DEF ConvertBegin
  <2>3. rows[t].obj # 0
    BY <1>1, <2>2 DEF RowInv, RowOf
  <2>4. "REPLACE_PROTECTION" # "NONE" /\ "REPLACE_PROTECTION" # "ENTRY" /\ "REPLACE_PROTECTION" \notin CancelOps
    BY DEF CancelOps
  <2> HIDE DEF n
  <2> QED
    BY <2>1, <2>2, <2>3, <2>4 DEF Asked
<1>9. ASSUME NEW ep, PartialPlace(i, ep) PROVE \E n : Prepare(i, n) /\ Asked(n)
  <2>1. op.t \in Trades /\ rows[op.t].obj # 0
    BY <1>1, <1>9 DEF PartialPlace, StepInv, TradeSteps, TargetInv, BoundSteps
  <2> QED
    BY <1>3, <1>9, <2>1 DEF PartialPlace
<1> QED
  BY <1>2, <1>4, <1>5, <1>6, <1>7, <1>8, <1>9 DEF PreparedBy

\* An operation does not change once it is recorded.
IntentsLast ==
  \A i \in Ids : intents[i].st # "NONE" =>
    /\ intents'[i].opn = intents[i].opn /\ intents'[i].trade = intents[i].trade
    /\ intents'[i].obj = intents[i].obj /\ intents'[i].qty = intents[i].qty
    /\ intents'[i].st # "NONE"

LEMMA SetStateFields ==
  ASSUME TypeOK, NEW i \in Ids, NEW st, SetState(i, st)
  PROVE  \A j \in Ids : /\ intents'[j].opn = intents[j].opn /\ intents'[j].trade = intents[j].trade
                        /\ intents'[j].obj = intents[j].obj /\ intents'[j].qty = intents[j].qty
                        /\ intents'[j].st = IF j = i THEN st ELSE intents[j].st
BY DEF SetState, TypeOK, Intent

\* A new intent, and its parent, which it closes.
LEMMA PrepareFields ==
  ASSUME TypeOK, NEW i \in Ids, NEW n, Prepare(i, n)
  PROVE  /\ intents[i].st = "NONE" /\ intents'[i] = n
         /\ \A j \in Ids \ {i} :
              /\ intents'[j].opn = intents[j].opn /\ intents'[j].trade = intents[j].trade
              /\ intents'[j].obj = intents[j].obj /\ intents'[j].qty = intents[j].qty
              /\ \/ intents'[j].st = intents[j].st
                 \/ j = n.parent /\ intents[j].st = "PREPARED" /\ intents'[j].st = "ABORTED"
<1>1. /\ intents[i].st = "NONE"
      /\ n.parent # 0 => intents[n.parent].st = "PREPARED"
      /\ \A j \in Ids : intents'[j] = IF j = i THEN n
                                      ELSE IF j = n.parent THEN [intents[j] EXCEPT !.st = "ABORTED"]
                                      ELSE intents[j]
  BY DEF Prepare, NewIntent
<1>2. ASSUME NEW j \in Ids \ {i}
      PROVE  /\ intents'[j].opn = intents[j].opn /\ intents'[j].trade = intents[j].trade
             /\ intents'[j].obj = intents[j].obj /\ intents'[j].qty = intents[j].qty
             /\ \/ intents'[j].st = intents[j].st
                \/ j = n.parent /\ intents[j].st = "PREPARED" /\ intents'[j].st = "ABORTED"
  <2>1. intents[j] \in Intent /\ j # 0
    BY IdFacts DEF TypeOK
  <2>2. CASE j = n.parent
    BY <1>1, <2>1, <2>2 DEF Intent
  <2>3. CASE j # n.parent
    BY <1>1, <2>3
  <2> QED
    BY <2>2, <2>3
<1> QED
  BY <1>1, <1>2

LEMMA IntentsStep == ASSUME IInv, RInv, Next PROVE IntentsLast
<1>1. TypeOK
  BY DEF IInv
<1>2. CASE UNCHANGED intents
  BY <1>2 DEF IntentsLast
<1>3. ASSUME NEW i \in Ids, PreparedBy(i) PROVE IntentsLast
  <2>1. PICK n : Prepare(i, n) /\ Asked(n)
    BY <1>3, PreparedFacts
  <2> QED
    BY <1>1, <2>1, PrepareFields DEF IntentsLast
<1>4. CASE Settles
  BY <1>1, <1>4, SettledFacts, SetStateFields DEF IntentsLast
<1> QED
  BY <1>2, <1>3, <1>4, Causes

-----------------------------------------------------------------------------
(***************************************************************************)
(* BookInv, ShapeInv and CancelInv.                                         *)
(***************************************************************************)
LEMMA ShapeStep == ASSUME IInv, RInv, Next PROVE ShapeInv'
<1>1. TypeOK /\ ShapeInv
  BY DEF IInv, RInv
<1>2. CASE UNCHANGED intents
  BY <1>1, <1>2 DEF ShapeInv
<1>3. ASSUME NEW i \in Ids, PreparedBy(i) PROVE ShapeInv'
  <2>1. PICK n : Prepare(i, n) /\ Asked(n)
    BY <1>3, PreparedFacts
  <2> QED
    BY <1>1, <2>1, PrepareFields DEF ShapeInv, Asked
<1>4. CASE Settles
  BY <1>1, <1>4, SettledFacts, SetStateFields DEF ShapeInv
<1> QED
  BY <1>2, <1>3, <1>4, Causes

LEMMA CancelStep == ASSUME IInv, RInv, Next PROVE CancelInv'
<1>1. TypeOK /\ CancelInv /\ OrdersLast
  BY OrdersStep DEF IInv, RInv
<1> USE DEF CancelInv, ConfirmedCancelTerminal, Exists
<1>2. CASE UNCHANGED intents
  BY <1>1, <1>2, LastOf
<1>3. ASSUME NEW i \in Ids, PreparedBy(i) PROVE CancelInv'
  <2>1. PICK n : Prepare(i, n) /\ Asked(n)
    BY <1>3, PreparedFacts
  <2>2. ASSUME NEW j \in Ids, intents'[j].opn \in CancelOps
        PROVE  /\ intents'[j].obj \in Ids /\ book'[intents'[j].obj].ph # "none"
               /\ intents'[j].st = "CONFIRMED" => book'[intents'[j].obj].ph = "done"
    <3>1. CASE j = i
      BY <1>1, <2>1, <2>2, <3>1, PrepareFields, LastOf DEF Asked
    <3>2. CASE j # i
      BY <1>1, <2>1, <2>2, <3>2, PrepareFields, LastOf
    <3> QED
      BY <3>1, <3>2
  <2> QED
    BY <2>2
<1>4. CASE Settles
  <2>1. PICK i \in Ids : \E st \in {"SUBMITTING", "ABORTED", "AMBIGUOUS", "CONFIRMED", "DEFINITE_REJECT"} :
           /\ SetState(i, st)
           /\ st = "CONFIRMED" /\ intents[i].opn \in CancelOps => book[intents[i].obj].ph = "done"
    BY <1>4, SettledFacts
  <2>2. ASSUME NEW j \in Ids, intents'[j].opn \in CancelOps
        PROVE  /\ intents'[j].obj \in Ids /\ book'[intents'[j].obj].ph # "none"
               /\ intents'[j].st = "CONFIRMED" => book'[intents'[j].obj].ph = "done"
    BY <1>1, <2>1, <2>2, SetStateFields, LastOf
  <2> QED
    BY <2>2
<1> QED
  BY <1>2, <1>3, <1>4, Causes

\* KindOf looks at the operation alone.
LEMMA KindLasts ==
  ASSUME NEW i, intents'[i].opn = intents[i].opn PROVE KindOf(i)' = KindOf(i)
BY DEF KindOf

LEMMA WireFacts ==
  ASSUME TypeOK, LedgerInv, BookInv, NEW m \in wire, m.t = "post"
  PROVE  /\ m.id \in Ids /\ m \in Request /\ ~Exists(m.id) /\ intents[m.id].st # "NONE" /\ posts[m.id] = 1
         /\ m.kind = KindOf(m.id) /\ m.qty = intents[m.id].qty
<1>1. m.id \in Ids /\ m \in Request
  BY DEF TypeOK, ExchangeTypeOK, Request
<1>2. Present(m.id)
  BY DEF Present, OnWire
<1> QED
  BY <1>1, <1>2, PresentFacts DEF BookInv, Landed

\* Two requests in flight are not for the same intent.
LEMMA WireUnique ==
  ASSUME TypeOK, LedgerInv, BookInv, NEW m \in wire, NEW n \in wire,
         m.t = "post", n.t = "post", m.id = n.id
  PROVE  m = n
BY WireFacts DEF Request

LEMMA OrderOfIntent ==
  ASSUME LedgerInv, BookInv, NEW i \in Ids
  PROVE  /\ Exists(i) => book[i].qty = intents[i].qty /\ intents[i].st # "NONE"
         /\ ~Exists(i) => book[i].bought = 0
BY PresentFacts DEF BookInv, Present, Landed

LEMMA BookStep == ASSUME IInv, RInv, Next PROVE BookInv'
<1>1. TypeOK /\ LedgerInv /\ BookInv /\ OrdersLast /\ IntentsLast
  BY OrdersStep, IntentsStep DEF IInv, RInv
<1> DEFINE Orders == \A i \in Ids : IF Exists(i) THEN book[i].qty = intents[i].qty ELSE book[i].bought = 0
           Sent(m) == ~Exists(m.id) /\ m.kind = KindOf(m.id) /\ m.qty = intents[m.id].qty
\* An order that was there is for the quantity of its intent, as it was.
<1>2. ASSUME NEW i \in Ids, Exists(i) PROVE Exists(i)' /\ book'[i].qty = intents'[i].qty
  BY <1>1, <1>2, LastOf, OrderOfIntent DEF IntentsLast
<1>3. ASSUME NEW i \in Ids, ~Exists(i), book'[i] = book[i]
      PROVE  ~Exists(i)' /\ book'[i].bought = 0
  BY <1>1, <1>3, OrderOfIntent DEF Exists
<1>4. ASSUME \A i \in Ids : ~Exists(i) => book'[i] = book[i] PROVE Orders'
  BY <1>2, <1>3, <1>4
\* A request that was in flight before and whose order is not there yet is what it was.
<1>5. ASSUME NEW m \in wire, m.t = "post", book'[m.id] = book[m.id] PROVE Sent(m)'
  <2>1. /\ m.id \in Ids /\ ~Exists(m.id) /\ intents[m.id].st # "NONE"
        /\ m.kind = KindOf(m.id) /\ m.qty = intents[m.id].qty
    BY <1>1, <1>5, WireFacts
  <2>2. intents'[m.id].opn = intents[m.id].opn /\ intents'[m.id].qty = intents[m.id].qty
    BY <1>1, <2>1 DEF IntentsLast
  <2>3. KindOf(m.id)' = KindOf(m.id)
    BY <2>2 DEF KindOf
  <2> QED
    BY <1>5, <2>1, <2>2, <2>3 DEF Exists
<1>6. ASSUME Orders', \A m \in wire' : m.t = "post" => Sent(m)' PROVE BookInv'
  BY <1>6 DEF BookInv
<1> HIDE DEF Orders, Sent
<1>7. ASSUME \A i \in Ids : ~Exists(i) => book'[i] = book[i],
             \A m \in wire' : m.t = "post" => m \in wire
      PROVE  BookInv'
  <2>1. ASSUME NEW m \in wire', m.t = "post" PROVE Sent(m)'
    <3>1. m \in wire /\ m.id \in Ids /\ ~Exists(m.id)
      BY <1>1, <1>7, <2>1, WireFacts
    <3> QED
      BY <1>5, <1>7, <2>1, <3>1
  <2> QED
    BY <1>4, <1>6, <1>7, <2>1
<1>8. CASE UNCHANGED <<book, wire>>
  BY <1>7, <1>8
<1>9. CASE Exchange
  <2>1. ASSUME NEW i \in Ids, BuyFill(i) \/ SellFill(i) \/ ExpireEntry(i) PROVE BookInv'
    <3>1. wire' = wire
      BY <2>1 DEF BuyFill, SellFill, ExpireEntry
    <3> QED
      BY <1>1, <1>7, <2>1, <3>1, FillLasts
  <2>2. ASSUME NEW m \in wire, LandPost(m) PROVE BookInv'
    <3>1. /\ m.id \in Ids /\ m.t = "post" /\ wire' = wire \ {m} /\ ~Exists(m.id)
          /\ m.qty = intents[m.id].qty /\ intents[m.id].st # "NONE"
      BY <1>1, <2>2, WireFacts DEF LandPost
    <3>2. CASE Acceptable(m.id, m.kind, m.qty)
      <4>1. /\ book'[m.id].qty = m.qty /\ Exists(m.id)'
            /\ \A j \in Ids \ {m.id} : book'[j] = book[j]
        BY <1>1, <2>2, <3>1, <3>2, AcceptLasts DEF LandPost
      <4>2. ASSUME NEW i \in Ids
            PROVE  IF Exists(i)' THEN book'[i].qty = intents'[i].qty ELSE book'[i].bought = 0
        <5>1. CASE i = m.id
          BY <1>1, <3>1, <4>1, <5>1 DEF IntentsLast
        <5>2. CASE i # m.id
          BY <1>2, <1>3, <4>1, <5>2
        <5> QED
          BY <5>1, <5>2
      <4>3. Orders'
        BY <4>2 DEF Orders
      <4>4. ASSUME NEW n \in wire', n.t = "post" PROVE Sent(n)'
        <5>1. n \in wire /\ n # m
          BY <3>1, <4>4
        <5>2. n.id # m.id /\ n.id \in Ids
          BY <1>1, <3>1, <4>4, <5>1, WireUnique, WireFacts
        <5> QED
          BY <1>5, <4>1, <4>4, <5>1, <5>2
      <4> QED
        BY <1>6, <4>3, <4>4
    <3>3. CASE ~Acceptable(m.id, m.kind, m.qty)
      BY <1>7, <2>2, <3>1, <3>3 DEF LandPost
    <3> QED
      BY <3>2, <3>3
  <2>3. ASSUME NEW m \in wire, LandDelete(m) PROVE BookInv'
    <3>1. m.id \in Ids /\ wire' = wire \ {m}
      BY <1>1, <2>3 DEF LandDelete, TypeOK, ExchangeTypeOK, Request
    <3>2. \A j \in Ids : ~Exists(j) => book'[j] = book[j]
      BY <1>1, <2>3, <3>1 DEF LandDelete, Terminate, Live, Exists, TypeOK, ExchangeTypeOK
    <3> QED
      BY <1>7, <3>1, <3>2
  <2> QED
    BY <1>9, <2>1, <2>2, <2>3 DEF Exchange, ExchangeStep
<1>10. CASE PostAccepted
  <2>1. /\ op.i \in Ids /\ intents[op.i].st = "SUBMITTING" /\ posts[op.i] = 0 /\ ~Exists(op.i)
        /\ wire' = wire /\ op' = op
    BY <1>10 DEF PostAccepted, Acceptable, IInv, ControlInv, StepInv
  <2>2. /\ book'[op.i].qty = intents[op.i].qty /\ Exists(op.i)'
        /\ \A j \in Ids \ {op.i} : book'[j] = book[j]
    BY <1>1, <1>10, <2>1, AcceptLasts DEF PostAccepted
  <2>3. ASSUME NEW i \in Ids
        PROVE  IF Exists(i)' THEN book'[i].qty = intents'[i].qty ELSE book'[i].bought = 0
    <3>1. CASE i = op.i
      BY <1>1, <2>1, <2>2, <3>1 DEF IntentsLast
    <3>2. CASE i # op.i
      BY <1>2, <1>3, <2>2, <3>2
    <3> QED
      BY <3>1, <3>2
  <2>4. Orders'
    BY <2>3 DEF Orders
  <2>5. ASSUME NEW n \in wire', n.t = "post" PROVE Sent(n)'
    <3>1. n \in wire /\ n.id # op.i /\ n.id \in Ids
      BY <1>1, <2>1, <2>5, WireFacts
    <3> QED
      BY <1>5, <2>2, <2>5, <3>1
  <2> QED
    BY <1>6, <2>4, <2>5
<1>11. CASE PostUnanswered
  <2> DEFINE r == [t |-> "post", id |-> op.i, kind |-> KindOf(op.i), qty |-> intents[op.i].qty]
  <2>1. /\ op.i \in Ids /\ posts[op.i] = 0 /\ wire' = wire \cup {r} /\ UNCHANGED <<op, book, intents>>
    BY <1>11 DEF PostUnanswered, IInv, ControlInv, StepInv
  <2>2. ~Exists(op.i)
    BY <1>1, <2>1, PresentFacts DEF Present
  <2>3. r.id = op.i /\ r.kind = KindOf(op.i) /\ r.qty = intents[op.i].qty
    OBVIOUS
  <2> HIDE DEF r
  <2>4. ASSUME NEW m \in wire', m.t = "post" PROVE Sent(m)'
    <3>1. CASE m = r
      <4>1. KindOf(op.i)' = KindOf(op.i) /\ ~Exists(op.i)'
        BY <2>1, <2>2 DEF KindOf, Exists
      <4> QED
        BY <2>1, <2>3, <3>1, <4>1 DEF Sent
    <3>2. CASE m \in wire
      BY <1>5, <2>1, <2>4, <3>2
    <3> QED
      BY <2>1, <2>4, <3>1, <3>2
  <2>5. Orders'
    BY <1>4, <2>1
  <2> QED
    BY <1>6, <2>4, <2>5
<1>12. CASE DeleteAccepted
  <2>1. op.x \in Ids /\ wire' = wire
    BY <1>12 DEF DeleteAccepted, IInv, ControlInv, StepInv
  <2>2. \A j \in Ids : ~Exists(j) => book'[j] = book[j]
    BY <1>1, <1>12, <2>1 DEF DeleteAccepted, Terminate, Live, Exists, TypeOK, ExchangeTypeOK
  <2> QED
    BY <1>7, <2>1, <2>2
<1>13. CASE DeleteFails
  <2>1. /\ UNCHANGED book
        /\ \E r : r.t = "delete" /\ wire' \subseteq wire \cup {r}
    <3>1. [t |-> "delete", id |-> op.x, kind |-> "entry", qty |-> 0].t = "delete"
      OBVIOUS
    <3> QED
      BY <1>13, <3>1 DEF DeleteFails
  <2> QED
    BY <1>7, <2>1
<1> QED
  BY <1>8, <1>9, <1>10, <1>11, <1>12, <1>13, BookCauses

-----------------------------------------------------------------------------
(***************************************************************************)
(* RowInv.  A step that leaves the intents alone keeps a row, moves the     *)
(* lifecycle of a bound row, writes the lifecycle of an entry that is not   *)
(* bound, or binds an order.                                                *)
(***************************************************************************)
SameNames(t) == rows'[t].ent = rows[t].ent /\ rows'[t].obj = rows[t].obj

RejectedRightly(t) == rows'[t].lc = "ENTRY_REJECTED" => \A i \in Ids : EntryOf(i, t) => Unfilled(i)

RowKept(t) == SameNames(t) /\ rows'[t].lc = rows[t].lc

RowMoved(t) == SameNames(t) /\ rows[t].obj # 0 /\ rows'[t].lc # "NONE" /\ RejectedRightly(t)

RowWritten(t) ==
  /\ SameNames(t)
  /\ rows'[t].lc \in {"SIGNAL_APPROVED", "ENTRY_SUBMITTED", "AMBIGUOUS", "ENTRY_REJECTED"}
  /\ rows'[t].lc = "ENTRY_REJECTED" =>
       \A i \in Ids : EntryOf(i, t) => intents[i].st \in {"ABORTED", "DEFINITE_REJECT"}

RowBound(t) ==
  /\ rows'[t].obj \in Ids /\ Exists(rows'[t].obj)
  /\ \/ rows'[t].ent = rows[t].ent
     \/ rows'[t].ent \in Ids /\ Exists(rows'[t].ent) /\ EntryOf(rows'[t].ent, t)
  /\ rows'[t].lc # "NONE" /\ RejectedRightly(t)
  /\ \A i \in Ids : EntryOf(i, t) => intents[i].st = "CONFIRMED"

RowEffect(t) == RowKept(t) \/ RowMoved(t) \/ RowWritten(t) \/ RowBound(t)

LEMMA RowFacts ==
  ASSUME RowInv, NEW t \in Trades
  PROVE  LET r == rows[t]
         IN
         /\ r.lc = "NONE" => r.obj = 0 /\ \A i \in Ids : intents[i].trade # t
         /\ r.obj = 0 => r.ent = 0 /\ r.lc \notin {"ENTRY_PARTIALLY_FILLED", "ENTRY_FILLED",
                                                   "PROTECTION_ACTIVE", "EXIT_FILLED"}
         /\ r.obj # 0 => Exists(r.obj)
         /\ r.ent # 0 => Exists(r.ent) /\ EntryOf(r.ent, t)
         /\ \A i \in Ids : EntryOf(i, t) =>
              /\ intents[i].st # "CONFIRMED" => r.obj = 0
              /\ intents[i].st \in {"PREPARED", "SUBMITTING", "AMBIGUOUS"} => r.lc \notin Terminal
              /\ r.lc = "ENTRY_REJECTED" => Unfilled(i)
         /\ \A i \in Ids : intents[i].trade = t /\ intents[i].opn # "ENTRY" => r.obj # 0
BY DEF RowInv, RowOf

LEMMA RowStepOf ==
  ASSUME TypeOK, RowInv, OrdersLast, UNCHANGED intents, NEW t \in Trades, RowEffect(t)
  PROVE  RowOf(t)'
<1> DEFINE r == rows[t]
           s == rows'[t]
<1>1. /\ r.ent \in Ids \cup {0} /\ r.obj \in Ids \cup {0} /\ 0 \notin Ids
  BY IdFacts DEF TypeOK, Row
<1>2. ASSUME NEW i \in Ids PROVE (EntryOf(i, t)' <=> EntryOf(i, t)) /\ (Unfilled(i) => Unfilled(i)')
  BY LastOf DEF EntryOf, Unfilled
<1>3. /\ r.lc = "NONE" => r.obj = 0 /\ \A i \in Ids : intents[i].trade # t
      /\ r.obj = 0 => r.ent = 0 /\ r.lc \notin {"ENTRY_PARTIALLY_FILLED", "ENTRY_FILLED",
                                                "PROTECTION_ACTIVE", "EXIT_FILLED"}
      /\ r.obj # 0 => Exists(r.obj)
      /\ r.ent # 0 => Exists(r.ent) /\ EntryOf(r.ent, t)
      /\ \A i \in Ids : EntryOf(i, t) =>
           /\ intents[i].st # "CONFIRMED" => r.obj = 0
           /\ intents[i].st \in {"PREPARED", "SUBMITTING", "AMBIGUOUS"} => r.lc \notin Terminal
           /\ r.lc = "ENTRY_REJECTED" => Unfilled(i)
      /\ \A i \in Ids : intents[i].trade = t /\ intents[i].opn # "ENTRY" => r.obj # 0
  BY RowFacts
<1> HIDE DEF r, s
<1>4. ASSUME /\ s.lc = "NONE" => s.obj = 0 /\ \A i \in Ids : intents[i].trade # t
             /\ s.obj = 0 => s.ent = 0 /\ s.lc \notin {"ENTRY_PARTIALLY_FILLED", "ENTRY_FILLED",
                                                       "PROTECTION_ACTIVE", "EXIT_FILLED"},
             s.obj # 0 => s.obj \in Ids /\ Exists(s.obj),
             s.ent # 0 => s.ent \in Ids /\ Exists(s.ent) /\ EntryOf(s.ent, t),
             \A i \in Ids : EntryOf(i, t) =>
               /\ intents[i].st # "CONFIRMED" => s.obj = 0
               /\ intents[i].st \in {"PREPARED", "SUBMITTING", "AMBIGUOUS"} => s.lc \notin Terminal
               /\ s.lc = "ENTRY_REJECTED" => Unfilled(i),
             \A i \in Ids : intents[i].trade = t /\ intents[i].opn # "ENTRY" => s.obj # 0
      PROVE  RowOf(t)'
  <2>1. s.obj # 0 => book'[s.obj].ph # "none"
    BY <1>4, LastOf DEF Exists
  <2>2. s.ent # 0 => book'[s.ent].ph # "none" /\ intents'[s.ent].opn = "ENTRY" /\ intents'[s.ent].trade = t
    BY <1>4, LastOf DEF Exists, EntryOf
  <2> QED
    BY <1>2, <1>4, <2>1, <2>2 DEF RowOf, s, Exists, EntryOf
<1>5. CASE RowKept(t)
  <2>1. s.ent = r.ent /\ s.obj = r.obj /\ s.lc = r.lc
    BY <1>5 DEF RowKept, SameNames, r, s
  <2> QED
    BY <1>1, <1>3, <1>4, <2>1
<1>6. CASE RowMoved(t)
  <2>1. /\ s.ent = r.ent /\ s.obj = r.obj /\ r.obj # 0 /\ s.lc # "NONE"
        /\ s.lc = "ENTRY_REJECTED" => \A i \in Ids : EntryOf(i, t) => Unfilled(i)
    BY <1>6 DEF RowMoved, SameNames, RejectedRightly, r, s
  <2> QED
    BY <1>1, <1>3, <1>4, <2>1
<1>7. CASE RowWritten(t)
  <2>1. /\ s.ent = r.ent /\ s.obj = r.obj
        /\ s.lc \in {"SIGNAL_APPROVED", "ENTRY_SUBMITTED", "AMBIGUOUS", "ENTRY_REJECTED"}
        /\ s.lc = "ENTRY_REJECTED" =>
             \A i \in Ids : EntryOf(i, t) => intents[i].st \in {"ABORTED", "DEFINITE_REJECT"}
    BY <1>7 DEF RowWritten, SameNames, r, s
  <2> QED
    BY <1>1, <1>3, <1>4, <2>1 DEF Terminal, Unfilled
<1>8. CASE RowBound(t)
  <2>1. /\ s.obj \in Ids /\ Exists(s.obj) /\ s.lc # "NONE"
        /\ \/ s.ent = r.ent
           \/ s.ent \in Ids /\ Exists(s.ent) /\ EntryOf(s.ent, t)
        /\ s.lc = "ENTRY_REJECTED" => \A i \in Ids : EntryOf(i, t) => Unfilled(i)
        /\ \A i \in Ids : EntryOf(i, t) => intents[i].st = "CONFIRMED"
    BY <1>8 DEF RowBound, SameNames, RejectedRightly, r, s
  <2> QED
    BY <1>1, <1>3, <1>4, <2>1
<1> QED
  BY <1>5, <1>6, <1>7, <1>8 DEF RowEffect

\* A trade has one entry.
LEMMA EntryUnique ==
  ASSUME IInv, RInv, NEW i \in Ids, NEW j \in Ids, intents[i].opn = "ENTRY", intents[j].opn = "ENTRY",
         intents[i].trade = intents[j].trade
  PROVE  i = j
<1>1. intents[i].trade \in Trades
  BY PresentFacts DEF IInv, RInv, ShapeInv
<1> QED
  BY <1>1 DEF RInv, RowInv, EntryOf

\* A step that inserts or settles an intent leaves the rows, and they still agree.
LEMMA RowsKeptInv ==
  ASSUME IInv, RInv, OrdersLast, UNCHANGED rows, (\E i \in Ids : PreparedBy(i)) \/ Settles
  PROVE  RowInv'
<1>1. TypeOK /\ RowInv /\ ShapeInv /\ SubmitInv /\ IInv /\ RInv
  BY DEF IInv, RInv
<1>2. \A t \in Trades : /\ rows[t].ent \in Ids \cup {0} /\ rows[t].obj \in Ids \cup {0} /\ rows'[t] = rows[t]
  BY <1>1 DEF TypeOK, Row
\* It suffices that operations last, that a new one was rightly asked for, and how states moved.
<1>3. ASSUME \A i \in Ids : intents[i].st # "NONE" =>
               /\ intents'[i].opn = intents[i].opn /\ intents'[i].trade = intents[i].trade
               /\ \/ intents'[i].st = intents[i].st
                  \/ intents[i].st \in {"PREPARED", "SUBMITTING", "AMBIGUOUS"},
             \A i, j \in Ids : intents'[i].opn = "ENTRY" /\ intents'[j].opn = "ENTRY"
                               /\ intents'[i].trade = intents'[j].trade => i = j,
             \A i \in Ids : intents[i].st = "NONE" =>
               \/ intents'[i] = intents[i]
               \/ /\ intents'[i].trade \in Trades /\ rows[intents'[i].trade].lc # "NONE"
                  /\ intents'[i].opn # "ENTRY" => rows[intents'[i].trade].obj # 0
                  /\ intents'[i].opn = "ENTRY" => /\ rows[intents'[i].trade].obj = 0
                                                  /\ rows[intents'[i].trade].lc \notin Terminal
      PROVE  RowInv'
  <2>1. ASSUME NEW t \in Trades, NEW i \in Ids, intents'[i].trade = t
        PROVE  /\ rows[t].lc # "NONE"
               /\ intents'[i].opn # "ENTRY" => rows[t].obj # 0
    <3>1. CASE intents[i].st = "NONE"
      <4>1. intents[i].trade # t
        BY <1>1, <3>1, IdFacts DEF ShapeInv
      <4> QED
        BY <1>3, <2>1, <3>1, <4>1
    <3>2. CASE intents[i].st # "NONE"
      <4>1. intents[i].trade = t /\ intents'[i].opn = intents[i].opn
        BY <1>3, <2>1, <3>2
      <4> QED
        BY <1>1, <4>1, RowFacts
    <3> QED
      BY <3>1, <3>2
  <2>2. ASSUME NEW t \in Trades, NEW i \in Ids, intents'[i].trade = t, intents'[i].opn = "ENTRY"
        PROVE  /\ intents'[i].st # "CONFIRMED" => rows[t].obj = 0
               /\ intents'[i].st \in {"PREPARED", "SUBMITTING", "AMBIGUOUS"} => rows[t].lc \notin Terminal
               /\ rows[t].lc = "ENTRY_REJECTED" => Unfilled(i)'
    <3>1. CASE intents[i].st = "NONE"
      <4>1. intents[i].trade # t
        BY <1>1, <3>1, IdFacts DEF ShapeInv
      <4> QED
        BY <1>3, <2>2, <3>1, <4>1 DEF Terminal
    <3>2. CASE intents[i].st # "NONE"
      <4>1. /\ intents[i].trade = t /\ intents[i].opn = "ENTRY"
            /\ \/ intents'[i].st = intents[i].st
               \/ intents[i].st \in {"PREPARED", "SUBMITTING", "AMBIGUOUS"}
        BY <1>3, <2>2, <3>2
      <4>2. /\ intents[i].st # "CONFIRMED" => rows[t].obj = 0
            /\ intents[i].st \in {"PREPARED", "SUBMITTING", "AMBIGUOUS"} => rows[t].lc \notin Terminal
            /\ rows[t].lc = "ENTRY_REJECTED" => Unfilled(i)
        BY <1>1, <4>1, RowFacts DEF EntryOf
      <4>3. CASE intents'[i].st = intents[i].st
        BY <4>2, <4>3, LastOf DEF Unfilled
      <4>4. CASE intents[i].st \in {"PREPARED", "SUBMITTING", "AMBIGUOUS"}
        BY <4>2, <4>4 DEF Terminal
      <4> QED
        BY <4>1, <4>3, <4>4
    <3> QED
      BY <3>1, <3>2
  <2>3. ASSUME NEW t \in Trades PROVE RowOf(t)'
    <3>1. /\ rows[t].obj = 0 => rows[t].ent = 0 /\ rows[t].lc \notin {"ENTRY_PARTIALLY_FILLED", "ENTRY_FILLED",
                                                                      "PROTECTION_ACTIVE", "EXIT_FILLED"}
          /\ rows[t].lc = "NONE" => rows[t].obj = 0
      BY <1>1, RowFacts
    <3>2. rows[t].obj # 0 => book'[rows[t].obj].ph # "none"
      BY <1>1, <1>2, RowFacts, LastOf DEF Exists
    <3>3. rows[t].ent # 0 => /\ book'[rows[t].ent].ph # "none"
                             /\ intents'[rows[t].ent].opn = "ENTRY" /\ intents'[rows[t].ent].trade = t
      <4>1. ASSUME rows[t].ent # 0
            PROVE  rows[t].ent \in Ids /\ Exists(rows[t].ent) /\ EntryOf(rows[t].ent, t)
        BY <1>1, <1>2, <4>1, RowFacts
      <4>2. ASSUME NEW e \in Ids, Exists(e), EntryOf(e, t)
            PROVE  book'[e].ph # "none" /\ intents'[e].opn = "ENTRY" /\ intents'[e].trade = t
        <5>1. intents[e].st # "NONE"
          BY <1>1, <4>2 DEF ShapeInv, EntryOf
        <5> QED
          BY <1>3, <4>2, <5>1, LastOf DEF Exists, EntryOf
      <4> QED
        BY <4>1, <4>2
    <3> QED
      BY <1>2, <2>1, <2>2, <3>1, <3>2, <3>3 DEF RowOf, Exists, EntryOf
  <2> QED
    BY <1>3, <2>3 DEF RowInv, EntryOf
<1>4. ASSUME NEW i \in Ids, PreparedBy(i) PROVE RowInv'
  <2>1. PICK n : Prepare(i, n) /\ Asked(n)
    BY <1>1, <1>4, PreparedFacts
  <2>2. /\ intents[i].st = "NONE" /\ intents'[i] = n
        /\ \A j \in Ids \ {i} :
              /\ intents'[j].opn = intents[j].opn /\ intents'[j].trade = intents[j].trade
              /\ \/ intents'[j].st = intents[j].st
                 \/ j = n.parent /\ intents[j].st = "PREPARED" /\ intents'[j].st = "ABORTED"
        /\ \A j \in Ids \ {i} : intents[j].st = "NONE" => intents'[j] = intents[j]
    <3>1. /\ n.parent # 0 => intents[n.parent].st = "PREPARED"
          /\ \A j \in Ids \ {i} : j # n.parent => intents'[j] = intents[j]
      BY <2>1 DEF Prepare
    <3>2. \A j \in Ids \ {i} : intents[j].st = "NONE" => intents'[j] = intents[j]
      BY <3>1, IdFacts
    <3> QED
      BY <1>1, <2>1, <3>2, PrepareFields
  <2>3. /\ n.trade \in Trades /\ rows[n.trade].lc # "NONE"
        /\ n.opn # "ENTRY" => rows[n.trade].obj # 0
        /\ n.opn = "ENTRY" => /\ rows[n.trade].obj = 0 /\ rows[n.trade].lc \notin Terminal
                              /\ \A j \in Ids : intents[j].trade # n.trade
    BY <1>1, <2>1, RowFacts DEF Asked, SubmitInv, Terminal
  <2>4. \A j, k \in Ids : intents'[j].opn = "ENTRY" /\ intents'[k].opn = "ENTRY"
                          /\ intents'[j].trade = intents'[k].trade => j = k
    BY <1>1, <2>2, <2>3, EntryUnique
  <2> QED
    BY <1>3, <2>2, <2>3, <2>4
<1>5. CASE Settles
  <2>1. PICK i \in Ids : \E st \in {"SUBMITTING", "ABORTED", "AMBIGUOUS", "CONFIRMED", "DEFINITE_REJECT"} :
           SetState(i, st) /\ intents[i].st \in {"PREPARED", "SUBMITTING", "AMBIGUOUS"}
    BY <1>1, <1>5, SettledFacts
  <2>2. \A j \in Ids : /\ intents'[j].opn = intents[j].opn /\ intents'[j].trade = intents[j].trade
                       /\ j # i => intents'[j] = intents[j]
    BY <1>1, <2>1, SetStateFields DEF SetState, TypeOK
  <2>3. \A j, k \in Ids : intents'[j].opn = "ENTRY" /\ intents'[k].opn = "ENTRY"
                          /\ intents'[j].trade = intents'[k].trade => j = k
    BY <1>1, <2>2, EntryUnique
  <2> QED
    BY <1>3, <2>1, <2>2, <2>3
<1> QED
  BY <1>4, <1>5

-----------------------------------------------------------------------------
(***************************************************************************)
(* The steps that change rows.                                              *)
(***************************************************************************)

\* What an authenticated report does to a row: the names stay, and the lifecycle of a
\* row that names an order may move.
Moves(r, s) ==
  /\ s.ent = r.ent /\ s.obj = r.obj
  /\ \/ s.lc = r.lc
     \/ /\ r.obj # 0 /\ s.lc # "NONE"
        /\ s.lc = "ENTRY_REJECTED" => r.ent # 0 /\ book[r.ent].ph = "done" /\ book[r.ent].bought = 0

LEMMA BuyMoves ==
  ASSUME TypeOK, NEW r \in Row, r.ent # 0 => r.obj # 0
  PROVE  Moves(r, ApplyBuy(r))
<1>1. CASE r.ent = 0
  BY <1>1 DEF ApplyBuy, Moves
<1>2. CASE r.ent # 0
  <2> DEFINE o == book[r.ent]
             lc == IF o.bought = o.qty THEN "ENTRY_FILLED"
                   ELSE IF o.bought > 0 THEN "ENTRY_PARTIALLY_FILLED"
                   ELSE IF o.ph = "done" THEN "ENTRY_REJECTED"
                   ELSE r.lc
  <2>1. r.ent \in Ids /\ o.bought \in Nat
    BY <1>2, OrderType DEF Row
  <2>2. /\ lc = r.lc \/ lc \in {"ENTRY_FILLED", "ENTRY_PARTIALLY_FILLED", "ENTRY_REJECTED"}
        /\ lc = "ENTRY_REJECTED" => lc = r.lc \/ (o.ph = "done" /\ o.bought = 0)
    BY <2>1
  <2>3. ApplyBuy(r) = [r EXCEPT !.filled = o.bought, !.lc = Advance(r.lc, lc)]
    BY <1>2 DEF ApplyBuy
  <2> HIDE DEF lc
  <2>4. ApplyBuy(r).ent = r.ent /\ ApplyBuy(r).obj = r.obj /\ ApplyBuy(r).lc = Advance(r.lc, lc)
    BY <2>3 DEF Row
  <2>5. Advance(r.lc, lc) \in {r.lc, lc}
    BY DEF Advance
  <2> QED
    BY <1>2, <2>2, <2>4, <2>5 DEF Moves
<1> QED
  BY <1>1, <1>2

LEMMA SellMoves ==
  ASSUME TypeOK, NEW r \in Row
  PROVE  /\ ApplySell(r).ent = r.ent /\ ApplySell(r).obj = r.obj
         /\ \/ ApplySell(r).lc = r.lc
            \/ r.obj # 0 /\ ApplySell(r).lc \in {"PROTECTION_ACTIVE", "EXIT_FILLED"}
<1>1. CASE r.obj = 0
  BY <1>1 DEF ApplySell
<1>2. CASE r.obj # 0
  <2>1. ASSUME NEW lc PROVE Advance(r.lc, lc) \in {r.lc, lc}
    BY DEF Advance
  <2>2. \/ ApplySell(r) = [r EXCEPT !.prot = book[r.obj].qty, !.lc = Advance(r.lc, "PROTECTION_ACTIVE")]
        \/ ApplySell(r) = [r EXCEPT !.lc = Advance(r.lc, "EXIT_FILLED")]
        \/ ApplySell(r) = r
    BY <1>2 DEF ApplySell
  <2>3. /\ Advance(r.lc, "PROTECTION_ACTIVE") \in {r.lc, "PROTECTION_ACTIVE"}
        /\ Advance(r.lc, "EXIT_FILLED") \in {r.lc, "EXIT_FILLED"}
    BY <2>1
  <2>4. ASSUME NEW q, NEW lc
        PROVE  /\ [r EXCEPT !.prot = q, !.lc = lc].ent = r.ent /\ [r EXCEPT !.prot = q, !.lc = lc].obj = r.obj
               /\ [r EXCEPT !.prot = q, !.lc = lc].lc = lc
               /\ [r EXCEPT !.lc = lc].ent = r.ent /\ [r EXCEPT !.lc = lc].obj = r.obj
               /\ [r EXCEPT !.lc = lc].lc = lc
    BY DEF Row
  <2>5. CASE ApplySell(r) = [r EXCEPT !.prot = book[r.obj].qty, !.lc = Advance(r.lc, "PROTECTION_ACTIVE")]
    BY <1>2, <2>3, <2>4, <2>5
  <2>6. CASE ApplySell(r) = [r EXCEPT !.lc = Advance(r.lc, "EXIT_FILLED")]
    BY <1>2, <2>3, <2>4, <2>6
  <2> QED
    BY <2>2, <2>5, <2>6
<1> QED
  BY <1>1, <1>2

LEMMA AppliedMoves ==
  ASSUME TypeOK, NEW r \in Row, r.ent # 0 => r.obj # 0
  PROVE  Moves(r, r) /\ Moves(r, ApplyBuy(r)) /\ Moves(r, ApplySell(r)) /\ Moves(r, ApplyAll(r))
<1> DEFINE b == ApplyBuy(r)
<1>1. Moves(r, r)
  BY DEF Moves
<1>2. Moves(r, b) /\ b \in Row
  BY BuyMoves, ApplyBuyType
<1>3. Moves(r, ApplySell(r))
  BY SellMoves DEF Moves
<1>4. ApplyAll(r) = ApplySell(b)
  BY DEF ApplyAll
<1> HIDE DEF b
<1>5. Moves(r, ApplySell(b))
  BY <1>2, SellMoves DEF Moves
<1> QED
  BY <1>1, <1>2, <1>3, <1>4, <1>5 DEF b

\* A bound row that moves on a report is a row that moved.
LEMMA MovedRow ==
  ASSUME IInv, RInv, NEW t \in Trades, Moves(rows[t], rows'[t]) PROVE RowEffect(t)
<1>1. rows[t].ent # 0 => EntryOf(rows[t].ent, t) /\ rows[t].ent \in Ids
  BY RowFacts DEF RInv, IInv, TypeOK, Row
<1>2. CASE rows'[t].lc = rows[t].lc
  BY <1>2 DEF Moves, RowEffect, RowKept, SameNames
<1>3. CASE rows'[t].lc # rows[t].lc
  <2>1. /\ SameNames(t) /\ rows[t].obj # 0 /\ rows'[t].lc # "NONE"
        /\ rows'[t].lc = "ENTRY_REJECTED" =>
             rows[t].ent # 0 /\ book[rows[t].ent].ph = "done" /\ book[rows[t].ent].bought = 0
    BY <1>3 DEF Moves, SameNames
  <2>2. ASSUME rows'[t].lc = "ENTRY_REJECTED", NEW i \in Ids, EntryOf(i, t) PROVE Unfilled(i)
    <3>1. i = rows[t].ent
      BY <1>1, <2>1, <2>2, EntryUnique DEF EntryOf
    <3> QED
      BY <2>1, <2>2, <3>1 DEF Unfilled
  <2> QED
    BY <2>1, <2>2 DEF RowEffect, RowMoved, RejectedRightly
<1> QED
  BY <1>2, <1>3

\* Rows that a step does not name are kept.
LEMMA OthersKept ==
  ASSUME TypeOK, NEW t \in Trades, NEW r, SetRow(t, r)
  PROVE  rows'[t] = r /\ \A u \in Trades \ {t} : RowEffect(u)
BY DEF SetRow, TypeOK, RowEffect, RowKept, SameNames

LEMMA SetRowMoves ==
  ASSUME IInv, RInv, NEW t \in Trades, NEW r, SetRow(t, r), Moves(rows[t], r)
  PROVE  \A u \in Trades : RowEffect(u)
<1>1. rows'[t] = r /\ \A u \in Trades \ {t} : RowEffect(u)
  BY OthersKept DEF IInv
<1> QED
  BY <1>1, MovedRow

\* A lifecycle that is written over: of a bound row, or of an entry.
LEMMA LifecycleWritten ==
  ASSUME IInv, RInv, NEW t \in Trades, NEW lc, SetLifecycle(t, lc),
         \/ rows[t].obj # 0 /\ lc \notin {"NONE", "ENTRY_REJECTED"}
         \/ lc = "SIGNAL_APPROVED" \/ lc = "AMBIGUOUS"
         \/ /\ lc = "ENTRY_REJECTED"
            /\ \A i \in Ids : EntryOf(i, t) => intents[i].st \in {"ABORTED", "DEFINITE_REJECT"}
  PROVE  \A u \in Trades : RowEffect(u)
<1>1. rows[t] \in Row
  BY DEF IInv, TypeOK
<1>2. /\ rows'[t] = [rows[t] EXCEPT !.lc = lc]
      /\ \A u \in Trades \ {t} : RowEffect(u)
  BY OthersKept DEF IInv, SetLifecycle
<1>3. SameNames(t) /\ rows'[t].lc = lc
  BY <1>1, <1>2 DEF SameNames, Row
<1>4. RowEffect(t)
  BY <1>3 DEF RowEffect, RowMoved, RowWritten, RejectedRightly
<1> QED
  BY <1>2, <1>4

\* What submit, bind and the settling steps know of their intent.
LEMMA SubmitFacts ==
  ASSUME IInv, RInv, pc \in SubmitSteps
  PROVE  /\ op.i \in Ids /\ op.t \in Trades /\ intents[op.i].trade = op.t
         /\ intents[op.i].opn \notin CancelOps
         /\ op.h \notin {"entry", "manual", "found"} => rows[op.t].obj # 0
         /\ op.h \in {"entry", "manual"} =>
              \A i \in Ids : EntryOf(i, op.t) => intents[i].st = intents[op.i].st
<1>1. op.t \in Trades
  BY DEF IInv, ControlInv, StepInv, TradeSteps, SubmitSteps
<1>2. /\ op.i \in Ids /\ intents[op.i].opn \notin CancelOps /\ intents[op.i].trade = op.t
      /\ op.h \in {"entry", "manual"} => intents[op.i].opn = "ENTRY"
      /\ op.h \notin {"entry", "manual", "found"} => intents[op.i].opn # "ENTRY"
  BY DEF RInv, SubmitInv
<1>3. op.h \notin {"entry", "manual", "found"} => rows[op.t].obj # 0
  BY <1>1, <1>2, RowFacts DEF RInv
<1>4. ASSUME op.h \in {"entry", "manual"}, NEW i \in Ids, EntryOf(i, op.t)
      PROVE  intents[i].st = intents[op.i].st
  BY <1>2, <1>4, EntryUnique DEF EntryOf
<1> QED
  BY <1>1, <1>2, <1>3, <1>4

LEMMA BindEffect ==
  ASSUME IInv, RInv, BindIntent PROVE \A u \in Trades : RowEffect(u)
<1> DEFINE n == intents[op.i]
           t == intents[op.i].trade
           b == BoundRow(n, rows[t], op.i)
<1>1. TypeOK /\ RowInv /\ pc = "bind" /\ op \in Op
  BY DEF BindIntent, IInv, TypeOK, RInv
<1>2. /\ op.i \in Ids /\ op.i # 0 /\ n.st = "CONFIRMED" /\ Exists(op.i) /\ t \in Trades
      /\ n \in Intent
  <2>1. op.i \in Ids /\ t \in Trades
    BY <1>1, SubmitFacts DEF SubmitSteps
  <2>2. n.st = "CONFIRMED" /\ Exists(op.i)
    BY <1>1 DEF IInv, ControlInv, StepInv, RInv, SubmitInv
  <2> QED
    BY <1>1, <2>1, <2>2, IdFacts DEF TypeOK
<1>3. rows[t] \in Row /\ (rows[t].obj = 0 => rows[t].ent = 0)
  BY <1>1, <1>2, RowFacts DEF TypeOK
<1>4. PICK s \in Reported(n, b) : SetRow(t, s)
  BY DEF BindIntent
<1> HIDE DEF n, t, b
<1>5. s \in {b, ApplyAll(b), ApplyBuy(b)}
  BY <1>4 DEF Reported
<1>6. ASSUME b \in Row, b.ent # 0 => b.obj # 0 PROVE Moves(b, s)
  BY <1>1, <1>5, <1>6, AppliedMoves
<1>7. rows'[t] = s /\ \A u \in Trades \ {t} : RowEffect(u)
  BY <1>1, <1>2, <1>4, OthersKept
<1>8. CASE n.opn = "ENTRY"
  <2>1. b = [rows[t] EXCEPT !.lc = "ENTRY_SUBMITTED", !.ent = op.i, !.obj = op.i]
    BY <1>8 DEF b, BoundRow
  <2>2. b \in Row /\ b.ent = op.i /\ b.obj = op.i /\ b.lc = "ENTRY_SUBMITTED"
    BY <1>2, <1>3, <2>1 DEF Row, Lifecycles
  <2>3. Moves(b, s)
    BY <1>2, <1>6, <2>2
  <2>4. /\ s.ent = op.i /\ s.obj = op.i /\ s.lc # "NONE"
        /\ s.lc = "ENTRY_REJECTED" => book[op.i].ph = "done" /\ book[op.i].bought = 0
    BY <2>2, <2>3 DEF Moves
  <2>5. EntryOf(op.i, t)
    BY <1>8 DEF EntryOf, n, t
  <2>6. ASSUME NEW i \in Ids, EntryOf(i, t)
        PROVE  intents[i].st = "CONFIRMED" /\ (s.lc = "ENTRY_REJECTED" => Unfilled(i))
    <3>1. i = op.i
      BY <1>2, <2>5, <2>6, EntryUnique DEF EntryOf
    <3> QED
      BY <1>2, <2>4, <3>1 DEF Unfilled, n
  <2>7. RowBound(t)
    BY <1>2, <1>7, <2>4, <2>5, <2>6 DEF RowBound, RejectedRightly
  <2> QED
    BY <1>7, <2>7 DEF RowEffect
<1>9. CASE n.opn \in {"PROTECTION", "PARTIAL_FILL_PROTECTION"}
  <2>1. b = [rows[t] EXCEPT !.lc = "PROTECTION_ACTIVE", !.obj = op.i, !.prot = n.qty]
    BY <1>9 DEF b, BoundRow
  <2>2. n.qty \in Nat
    BY <1>2 DEF Intent
  <2>3. b \in Row /\ b.ent = rows[t].ent /\ b.obj = op.i /\ b.lc = "PROTECTION_ACTIVE"
    BY <1>2, <1>3, <2>1, <2>2 DEF Row, Lifecycles
  <2>4. Moves(b, s)
    BY <1>2, <1>6, <2>3
  <2>5. /\ s.ent = rows[t].ent /\ s.obj = op.i /\ s.lc # "NONE"
        /\ s.lc = "ENTRY_REJECTED" =>
             rows[t].ent # 0 /\ book[rows[t].ent].ph = "done" /\ book[rows[t].ent].bought = 0
    BY <2>3, <2>4 DEF Moves
  <2>6. rows[t].obj # 0
    BY <1>1, <1>2, <1>9, RowFacts DEF n, t
  <2>7. rows[t].ent # 0 => rows[t].ent \in Ids /\ EntryOf(rows[t].ent, t)
    BY <1>1, <1>2, <1>3, RowFacts DEF Row
  <2>8. ASSUME NEW i \in Ids, EntryOf(i, t)
        PROVE  intents[i].st = "CONFIRMED" /\ (s.lc = "ENTRY_REJECTED" => Unfilled(i))
    <3>1. intents[i].st = "CONFIRMED"
      BY <1>1, <1>2, <2>6, <2>8, RowFacts
    <3>2. ASSUME s.lc = "ENTRY_REJECTED" PROVE Unfilled(i)
      <4>1. i = rows[t].ent
        BY <2>5, <2>7, <2>8, <3>2, EntryUnique DEF EntryOf
      <4> QED
        BY <2>5, <3>2, <4>1 DEF Unfilled
    <3> QED
      BY <3>1, <3>2
  <2>9. RowBound(t)
    BY <1>2, <1>7, <2>5, <2>8 DEF RowBound, RejectedRightly
  <2> QED
    BY <1>7, <2>9 DEF RowEffect
<1>10. CASE n.opn \notin {"ENTRY", "PROTECTION", "PARTIAL_FILL_PROTECTION"}
  <2>1. b = rows[t]
    BY <1>10 DEF b, BoundRow
  <2>2. Moves(rows[t], s)
    BY <1>3, <1>6, <2>1
  <2> QED
    BY <1>2, <1>4, <2>2, SetRowMoves
<1> QED
  BY <1>8, <1>9, <1>10

\* The reports of a bound BUY and SELL, for every row.
LEMMA ReportMoves ==
  ASSUME IInv, RInv, NEW t \in Trades
  PROVE  /\ Moves(rows[t], rows[t]) /\ Moves(rows[t], ApplyBuy(rows[t]))
         /\ Moves(rows[t], ApplySell(rows[t])) /\ Moves(rows[t], ApplyAll(rows[t]))
<1>1. rows[t] \in Row /\ (rows[t].ent # 0 => rows[t].obj # 0)
  BY RowFacts DEF IInv, RInv, TypeOK
<1> QED
  BY <1>1, AppliedMoves DEF IInv

\* A lifecycle that a routine writes over a report of the bound BUY.
LEMMA ReportedLifecycle ==
  ASSUME IInv, RInv, NEW t \in Trades, rows[t].ent # 0, NEW lc, lc # "NONE",
         lc = "ENTRY_REJECTED" => BuyTerminal(rows[t].ent) /\ ~(book[rows[t].ent].bought > 0)
  PROVE  Moves(rows[t], [ApplyBuy(rows[t]) EXCEPT !.lc = lc])
<1> DEFINE r == rows[t]
           b == ApplyBuy(r)
<1>1. r \in Row /\ r.obj # 0 /\ r.ent \in Ids /\ Exists(r.ent) /\ EntryOf(r.ent, t)
  BY RowFacts DEF IInv, RInv, TypeOK, Row
<1>2. b \in Row /\ b.ent = r.ent /\ b.obj = r.obj
  BY <1>1, BuyMoves, ApplyBuyType DEF IInv, Moves
<1>3. book[r.ent].qty = EntryQty /\ EntryQty # 0
  BY <1>1, OrderOfIntent, ExchangeAssumption DEF IInv, RInv, ShapeInv, EntryOf
<1>4. book[r.ent].bought \in Nat
  BY <1>1, OrderType DEF IInv
<1>5. lc = "ENTRY_REJECTED" => BuyTerminal(r.ent) /\ ~(book[r.ent].bought > 0)
  OBVIOUS
<1> HIDE DEF r, b
<1>6. lc = "ENTRY_REJECTED" => book[r.ent].ph = "done" /\ book[r.ent].bought = 0
  BY <1>3, <1>4, <1>5 DEF BuyTerminal
<1>7. [b EXCEPT !.lc = lc].ent = r.ent /\ [b EXCEPT !.lc = lc].obj = r.obj /\ [b EXCEPT !.lc = lc].lc = lc
  BY <1>2 DEF Row
<1>8. r.ent # 0
  BY DEF r
<1>9. Moves(r, [b EXCEPT !.lc = lc])
  BY <1>1, <1>6, <1>7, <1>8 DEF Moves
<1> QED
  BY <1>9 DEF r, b

RowsMoved == \A t \in Trades : RowEffect(t)

LEMMA QuietRows == ASSUME UNCHANGED rows PROVE RowsMoved
BY DEF RowsMoved, RowEffect, RowKept, SameNames

\* A report applied to one row.
LEMMA ReportRow ==
  ASSUME IInv, RInv, NEW t \in Trades,
         \/ SetRow(t, ApplyBuy(rows[t])) \/ SetRow(t, ApplySell(rows[t]))
  PROVE  RowsMoved
BY ReportMoves, SetRowMoves DEF RowsMoved

LEMMA EntryRows == ASSUME IInv, RInv, Entry, UNCHANGED intents PROVE RowsMoved
<1> USE DEF IInv
<1>1. TypeOK /\ SubmitInv /\ RowInv
  BY DEF RInv
<1>2. ASSUME NEW t \in Trades, SetLifecycle(t, "SIGNAL_APPROVED") \/ SetLifecycle(t, "AMBIGUOUS")
      PROVE  RowsMoved
  BY <1>2, LifecycleWritten DEF RowsMoved
<1>3. ASSUME NEW t \in Trades, SetLifecycle(t, "ENTRY_REJECTED"),
             \A i \in Ids : EntryOf(i, t) => intents[i].st \in {"ABORTED", "DEFINITE_REJECT"}
      PROVE  RowsMoved
  BY <1>3, LifecycleWritten DEF RowsMoved
<1>4. pc = "submit" => /\ op.t \in Trades /\ rows[op.t].obj = 0 /\ rows[op.t].ent = 0
                       /\ \A i \in Ids : ~EntryOf(i, op.t)
  <2>1. pc = "submit" => op.t \in Trades
    BY DEF ControlInv, StepInv, TradeSteps
  <2> QED
    BY <1>1, <2>1, RowFacts DEF SubmitInv, EntryOf
<1>5. ASSUME NEW t \in Trades, ProcessSignal(t) PROVE RowsMoved
  BY <1>2, <1>5 DEF ProcessSignal
<1>6. CASE SubmitRefused
  <2>1. CASE SetLifecycle(op.t, "ENTRY_REJECTED")
    BY <1>3, <1>4, <1>6, <2>1 DEF SubmitRefused
  <2>2. CASE KeepRows
    BY <2>2, QuietRows DEF KeepRows
  <2> QED
    BY <1>6, <2>1, <2>2 DEF SubmitRefused
<1>7. CASE SubmitPersist
  <2>1. /\ op.t \in Trades /\ rows[op.t].obj = 0 /\ rows[op.t].ent = 0
        /\ SetRow(op.t, [NoRow EXCEPT !.lc = "ENTRY_SUBMITTED"])
    BY <1>4, <1>7 DEF SubmitPersist
  <2>2. /\ rows'[op.t] = [NoRow EXCEPT !.lc = "ENTRY_SUBMITTED"]
        /\ \A u \in Trades \ {op.t} : RowEffect(u)
    BY <1>1, <2>1, OthersKept
  <2>3. rows'[op.t].ent = 0 /\ rows'[op.t].obj = 0 /\ rows'[op.t].lc = "ENTRY_SUBMITTED"
    BY <2>2 DEF NoRow
  <2>4. RowEffect(op.t)
    BY <2>1, <2>3 DEF RowEffect, RowWritten, SameNames
  <2> QED
    BY <2>2, <2>4 DEF RowsMoved
<1>8. CASE EntryDone
  <2>1. CASE pc = "posted" /\ KeepRows
    BY <2>1, QuietRows DEF KeepRows
  <2>2. CASE pc = "rejected" /\ SetLifecycle(op.t, "ENTRY_REJECTED")
    <3>1. /\ op.t \in Trades /\ intents[op.i].st = "DEFINITE_REJECT"
          /\ \A i \in Ids : EntryOf(i, op.t) => intents[i].st = intents[op.i].st
      BY <1>1, <1>8, <2>2, SubmitFacts DEF EntryDone, SubmitSteps, SubmitInv
    <3> QED
      BY <1>3, <2>2, <3>1
  <2>3. CASE pc = "ambiguous" /\ SetLifecycle(op.t, "AMBIGUOUS")
    <3>1. op.t \in Trades
      BY <2>3, SubmitFacts DEF SubmitSteps
    <3> QED
      BY <1>2, <2>3, <3>1
  <2> QED
    BY <1>8, <2>1, <2>2, <2>3 DEF EntryDone
<1>9. CASE SubmitRaises \/ \E t \in Trades : ManualEntry(t)
  BY <1>9, QuietRows DEF SubmitRaises, ManualEntry, KeepRows
<1>10. ASSUME NEW i \in Ids, PrepareEntry(i) PROVE RowsMoved
  BY <1>10, QuietRows DEF PrepareEntry, KeepRows
<1> QED
  BY <1>5, <1>6, <1>7, <1>8, <1>9, <1>10 DEF Entry

LEMMA HandlerRows == ASSUME IInv, RInv, Convert \/ Emergency, UNCHANGED intents PROVE RowsMoved
<1> USE DEF IInv
<1>1. ASSUME NEW t \in Trades, SetLifecycle(t, "AMBIGUOUS") PROVE RowsMoved
  BY <1>1, LifecycleWritten DEF RowsMoved
<1>2. ASSUME NEW t \in Trades, rows[t].obj # 0,
             SetLifecycle(t, "EXIT_FILLED") \/ SetLifecycle(t, "PROTECTION_ACTIVE")
      PROVE  RowsMoved
  BY <1>2, LifecycleWritten DEF RowsMoved
<1>3. CASE ConvertExited
  <2>1. pc = "exitRow" /\ SetLifecycle(op.t, "EXIT_FILLED")
    BY <1>3 DEF ConvertExited
  <2>2. op.t \in Trades /\ rows[op.t].obj # 0
    BY <2>1 DEF ControlInv, StepInv, TradeSteps, RInv, TargetInv, BoundSteps
  <2> QED
    BY <1>2, <2>1, <2>2
<1>4. CASE ConvertDone \/ EmergencyVerify
  <2>1. pc \in SubmitSteps /\ op.h \notin {"entry", "manual", "found"}
    BY <1>4 DEF ConvertDone, EmergencyVerify, SubmitSteps
  <2>2. op.t \in Trades /\ rows[op.t].obj # 0
    BY <2>1, SubmitFacts
  <2>3. CASE SetLifecycle(op.t, "AMBIGUOUS")
    BY <1>1, <2>2, <2>3
  <2>4. CASE SetLifecycle(op.t, "EXIT_FILLED") \/ SetLifecycle(op.t, "PROTECTION_ACTIVE")
    BY <1>2, <2>2, <2>4
  <2>5. CASE KeepRows
    BY <2>5, QuietRows DEF KeepRows
  <2> QED
    BY <1>4, <2>3, <2>4, <2>5 DEF ConvertDone, EmergencyVerify
<1>5. CASE UNCHANGED rows
  BY <1>5, QuietRows
<1> QED
  BY <1>3, <1>4, <1>5 DEF Convert, ConvertBegin, ConvertStops, ConvertCanceled, ReplaceFoundFlat,
     PrepareReplacement, Emergency, EmergencyBegin, EmergencyStops, EmergencySell, KeepRows

LEMMA TickRows == ASSUME IInv, RInv, Tick, UNCHANGED intents PROVE RowsMoved
<1> USE DEF IInv
<1>1. TypeOK
  OBVIOUS
<1>2. ASSUME NEW t \in Trades, SetRow(t, ApplyBuy(rows[t])) PROVE RowsMoved
  BY <1>2, ReportRow
<1>3. ASSUME NEW t \in Trades, EntryWindowExpires(t) PROVE RowsMoved
  <2>1. rows' = [rows EXCEPT ![t].stale = TRUE]
    BY <1>3 DEF EntryWindowExpires
  <2>2. \A u \in Trades : rows'[u].lc = rows[u].lc /\ rows'[u].ent = rows[u].ent /\ rows'[u].obj = rows[u].obj
    BY <1>1, <2>1 DEF TypeOK, Row
  <2> QED
    BY <2>2 DEF RowsMoved, RowEffect, RowKept, SameNames
<1>4. pc \in {"stale", "staleTerminal", "partialTerminal"} => op.t \in Trades
  BY DEF ControlInv, StepInv, TradeSteps
<1>5. CASE StaleCancels
  BY <1>2, <1>4, <1>5 DEF StaleCancels
<1>6. CASE StaleTerminal
  <2>1. CASE book[rows[op.t].ent].bought > 0
    BY <1>2, <1>4, <1>6, <2>1 DEF StaleTerminal
  <2>2. CASE ~(book[rows[op.t].ent].bought > 0)
    <3>1. /\ op.t \in Trades /\ rows[op.t].ent # 0 /\ BuyTerminal(rows[op.t].ent)
          /\ SetRow(op.t, [ApplyBuy(rows[op.t]) EXCEPT !.lc = "ENTRY_REJECTED"])
      BY <1>4, <1>6, <2>2 DEF StaleTerminal
    <3>2. Moves(rows[op.t], [ApplyBuy(rows[op.t]) EXCEPT !.lc = "ENTRY_REJECTED"])
      BY <2>2, <3>1, ReportedLifecycle
    <3> QED
      BY <3>1, <3>2, SetRowMoves DEF RowsMoved
  <2> QED
    BY <2>1, <2>2
<1>7. ASSUME NEW t \in Trades, PartialCompletes(t) PROVE RowsMoved
  <2>1. rows[t].ent # 0 /\ SetRow(t, [ApplyBuy(rows[t]) EXCEPT !.lc = "PROTECTION_ACTIVE"])
    BY <1>7 DEF PartialCompletes, PartialLookup
  <2>2. Moves(rows[t], [ApplyBuy(rows[t]) EXCEPT !.lc = "PROTECTION_ACTIVE"])
    BY <2>1, ReportedLifecycle
  <2> QED
    BY <2>1, <2>2, SetRowMoves DEF RowsMoved
<1>8. ASSUME NEW t \in Trades, PartialRefuses(t) \/ PartialCancels(t) \/ PartialProceeds(t) PROVE RowsMoved
  BY <1>2, <1>8 DEF PartialRefuses, PartialCancels, PartialProceeds
<1>9. CASE PartialTerminal
  <2>1. CASE SetRow(op.t, ApplyBuy(rows[op.t]))
    BY <1>2, <1>4, <1>9, <2>1 DEF PartialTerminal
  <2>2. CASE KeepRows
    BY <2>2, QuietRows DEF KeepRows
  <2> QED
    BY <1>9, <2>1, <2>2 DEF PartialTerminal
<1>10. CASE UNCHANGED rows
  BY <1>10, QuietRows
<1> QED
  BY <1>3, <1>5, <1>6, <1>7, <1>8, <1>9, <1>10 DEF Tick, TickBegin, TickPartial, StaleFails, StaleCanceled,
     PartialFails, PartialCanceled, PartialDone, PartialPlace, KeepRows

LEMMA ReconcileRows == ASSUME IInv, RInv, Reconcile, UNCHANGED intents PROVE RowsMoved
<1> USE DEF IInv
<1>1. TypeOK /\ RowInv
  BY DEF RInv
<1>2. ASSUME NEW t \in Trades, rows[t].obj # 0,
             SetLifecycle(t, "EXIT_FILLED") \/ SetLifecycle(t, "PROTECTION_ACTIVE")
      PROVE  RowsMoved
  BY <1>2, LifecycleWritten DEF RowsMoved
<1>3. CASE ResolveAbortedEntry
  <2>1. pc = "abortRow" /\ SetLifecycle(op.t, "ENTRY_REJECTED")
    BY <1>3 DEF ResolveAbortedEntry
  <2>2. op.t \in Trades /\ op.i \in Ids /\ EntryOf(op.i, op.t) /\ intents[op.i].st = "ABORTED"
    BY <2>1 DEF ControlInv, StepInv, TradeSteps, RInv, SubmitInv
  <2>3. \A i \in Ids : EntryOf(i, op.t) => intents[i].st = "ABORTED"
    BY <2>2, EntryUnique DEF EntryOf
  <2> QED
    BY <2>1, <2>2, <2>3, LifecycleWritten DEF RowsMoved
<1>4. CASE ResolveDone \/ PlanDone
  <2>1. CASE op.h \in {"child", "plan"} /\ pc = "posted" /\ SetLifecycle(op.t, "PROTECTION_ACTIVE")
    BY <1>2, <2>1, SubmitFacts DEF SubmitSteps
  <2>2. CASE pc = "exitRow" /\ SetLifecycle(op.t, "EXIT_FILLED")
    <3>1. op.t \in Trades /\ rows[op.t].obj # 0
      BY <2>2 DEF ControlInv, StepInv, TradeSteps, RInv, TargetInv, BoundSteps
    <3> QED
      BY <1>2, <2>2, <3>1
  <2>3. CASE KeepRows
    BY <2>3, QuietRows DEF KeepRows
  <2> QED
    BY <1>4, <2>1, <2>2, <2>3 DEF ResolveDone, PlanDone
<1>5. CASE Refresh
  <2>1. CASE KeepRows
    BY <2>1, QuietRows DEF KeepRows
  <2>2. CASE rows' = [t \in Trades |-> IF t \in ActiveRows THEN ApplyAll(rows[t]) ELSE rows[t]]
    <3>1. ASSUME NEW t \in Trades PROVE Moves(rows[t], rows'[t])
      <4>1. rows'[t] \in {ApplyAll(rows[t]), rows[t]}
        BY <2>2
      <4> QED
        BY <4>1, ReportMoves
    <3> QED
      BY <3>1, MovedRow DEF RowsMoved
  <2> QED
    BY <1>5, <2>1, <2>2 DEF Refresh
<1>6. CASE RecoverExits
  <2> DEFINE candidates == {t \in ActiveRows : ConfirmedExits(t) # {}}
  <2>1. CASE KeepRows
    BY <2>1, QuietRows DEF KeepRows
  <2>2. CASE rows' = [t \in Trades |-> IF t \in candidates /\ Exited(t)
                                         THEN [rows[t] EXCEPT !.lc = "EXIT_FILLED"] ELSE rows[t]]
    <3>1. ASSUME NEW t \in Trades PROVE RowEffect(t)
      <4>1. CASE rows'[t] = rows[t]
        BY <4>1 DEF RowEffect, RowKept, SameNames
      <4>2. CASE rows'[t] # rows[t]
        <5>1. t \in candidates /\ rows'[t] = [rows[t] EXCEPT !.lc = "EXIT_FILLED"]
          BY <2>2, <4>2
        <5>2. PICK j \in Ids : intents[j].opn = "EMERGENCY_EXIT" /\ intents[j].trade = t
          BY <5>1 DEF ConfirmedExits
        <5>3. rows[t].obj # 0
          BY <1>1, <5>2, RowFacts
        <5>4. rows'[t].ent = rows[t].ent /\ rows'[t].obj = rows[t].obj /\ rows'[t].lc = "EXIT_FILLED"
          BY <1>1, <5>1 DEF TypeOK, Row
        <5> QED
          BY <5>3, <5>4 DEF RowEffect, RowMoved, SameNames, RejectedRightly
      <4> QED
        BY <4>1, <4>2
    <3> QED
      BY <3>1 DEF RowsMoved
  <2> QED
    BY <1>6, <2>1, <2>2 DEF RecoverExits
<1>7. CASE UNCHANGED rows
  BY <1>7, QuietRows
<1> QED
  BY <1>3, <1>4, <1>5, <1>6, <1>7 DEF Reconcile, ReconcileCommand, ArmCommand, ArmFinish, Start, ResolveSkips,
     ResolveChild, ResolvePrepared, ResolveCancel, ResolveFound, PlanWithoutCancel, PlanResumes,
     ResolveEnds, PlanStays, PlansEnd, ReconcileRecovers, Verdict, KeepRows

LEMMA StreamRows == ASSUME IInv, RInv, Stream PROVE RowsMoved
<1>1. ASSUME NEW t \in Trades, StreamUpdate(t) PROVE RowsMoved
  BY <1>1, ReportRow DEF StreamUpdate
<1>2. ASSUME NEW i \in Ids, StreamPartialFill(i) PROVE RowsMoved
  <2>1. CASE KeepRows
    BY <2>1, QuietRows DEF KeepRows
  <2>2. ASSUME NEW t \in Trades, SetRow(t, ApplyBuy(rows[t])) PROVE RowsMoved
    BY <2>2, ReportRow
  <2> QED
    BY <1>2, <2>1, <2>2 DEF StreamPartialFill
<1>3. CASE StreamResync
  BY <1>3, QuietRows DEF StreamResync, KeepRows
<1> QED
  BY <1>1, <1>2, <1>3 DEF Stream

LEMMA RowsStep == ASSUME IInv, RInv, Next, UNCHANGED intents PROVE RowsMoved
<1>1. CASE Exchange \/ CancelProcedure \/ Owner \/ Crash
  <2>1. UNCHANGED rows
    BY <1>1 DEF Exchange, durableVars, CancelProcedure, CancelWithoutTarget, CancelAlreadyPrepared,
       CancelOutOfRoom, CancelPrepare, CancelMark, DeleteAccepted, DeleteFails, CancelConfirm,
       CancelUnchanged, Owner, ClearRiskPause, OwnerPause, Crash, KeepRows
  <2> QED
    BY <2>1, QuietRows
<1>2. CASE PostProcedure
  <2>1. CASE BindIntent
    BY <2>1, BindEffect DEF RowsMoved
  <2>2. CASE UNCHANGED rows
    BY <2>2, QuietRows
  <2> QED
    BY <1>2, <2>1, <2>2 DEF PostProcedure, MarkSubmitting, PostAccepted, PostRejected, PostUnanswered,
       LookupFound, LookupMissing, ConfirmIntent, PostUnchanged, KeepRows
<1> QED
  BY <1>1, <1>2, EntryRows, HandlerRows, TickRows, ReconcileRows, StreamRows DEF Next

LEMMA RowStep == ASSUME IInv, RInv, Next PROVE RowInv'
<1>1. TypeOK /\ RowInv /\ OrdersLast
  BY OrdersStep DEF IInv, RInv
<1>2. CASE UNCHANGED intents
  <2>1. \A t \in Trades : RowOf(t)'
    BY <1>1, <1>2, RowsStep, RowStepOf DEF RowsMoved
  <2> QED
    BY <1>1, <1>2, <2>1 DEF RowInv, EntryOf
<1>3. CASE UNCHANGED rows /\ ((\E i \in Ids : PreparedBy(i)) \/ Settles)
  BY <1>1, <1>3, RowsKeptInv
<1> QED
  BY <1>2, <1>3, Causes

-----------------------------------------------------------------------------
(***************************************************************************)
(* SubmitInv and TargetInv, action by action.                               *)
(***************************************************************************)
WorkInv == SubmitInv /\ TargetInv

\* A row that names an order names one for ever.
LEMMA BoundLasts ==
  ASSUME IInv, RInv, Next PROVE \A t \in Trades : rows[t].obj # 0 => rows'[t].obj # 0
<1>1. 0 \notin Ids
  BY IdFacts
<1>2. CASE UNCHANGED intents
  BY <1>1, <1>2, RowsStep DEF RowsMoved, RowEffect, RowKept, RowMoved, RowWritten, RowBound, SameNames
<1>3. CASE UNCHANGED rows
  BY <1>3
<1> QED
  BY <1>2, <1>3, Causes

\* The steps that work on no intent and no order.
LEMMA PlainWork ==
  ASSUME pc' \in {"idle", "down", "arming", "tick", "stale", "partial", "refresh", "exits", "recStale",
                  "recPartial", "verdict", "verify", "resolve", "plans", "cancelFailed"}
  PROVE  WorkInv'
BY DEF WorkInv, SubmitInv, TargetInv, SubmitSteps, BoundSteps, PlanSteps

\* The steps that submit an intent.
LEMMA SubmitWork ==
  ASSUME pc' \in SubmitSteps, op'.i \in Ids,
         intents'[op'.i].opn \notin CancelOps, intents'[op'.i].trade = op'.t,
         op'.h \in {"entry", "manual"} => intents'[op'.i].opn = "ENTRY",
         op'.h \notin {"entry", "manual", "found"} => intents'[op'.i].opn # "ENTRY",
         pc' \in {"confirm", "bind"} => book'[op'.i].ph # "none",
         pc' = "rejected" => intents'[op'.i].st = "DEFINITE_REJECT"
  PROVE  WorkInv'
BY DEF WorkInv, SubmitInv, TargetInv, SubmitSteps, BoundSteps, PlanSteps, Exists

\* The start of a cancel, and the steps that go ahead after it.
LEMMA CancelWork ==
  ASSUME pc' = "cancel",
         op'.x # 0 => book'[op'.x].ph # "none" /\ rows'[op'.t].obj # 0,
         op'.c # "CANCEL_PROTECTION" => op'.x # 0,
         op'.c = "CANCEL_PARTIAL_ENTRY" => op'.h \in {"partial", "stale"}
  PROVE  WorkInv'
BY DEF WorkInv, SubmitInv, TargetInv, SubmitSteps, BoundSteps, PlanSteps, Exists

LEMMA BoundWork ==
  ASSUME pc' \in BoundSteps, rows'[op'.t].obj # 0,
         pc' \in {"partialTerminal", "partialPlace"} => op'.h \in {"partial", "stale"},
         pc' = "canceled" /\ op'.c = "CANCEL_PARTIAL_ENTRY" => op'.h \in {"partial", "stale"}
  PROVE  WorkInv'
BY DEF WorkInv, SubmitInv, TargetInv, SubmitSteps, BoundSteps, PlanSteps

\* Another actor does not disturb the step that the main thread is at.
LEMMA WorkStays ==
  ASSUME IInv, RInv, Next, UNCHANGED <<pc, op, intents>>,
         \A t \in Trades : /\ rows'[t].obj = rows[t].obj
                           /\ pc = "prepare" => rows'[t].lc = rows[t].lc
  PROVE  WorkInv'
<1>1. SubmitInv /\ TargetInv /\ StepInv /\ OrdersLast /\ op \in Op /\ 0 \notin Ids
  BY OrdersStep, IdFacts DEF IInv, RInv, ControlInv, TypeOK
<1>2. pc \in TradeSteps => op.t \in Trades
  BY <1>1 DEF StepInv
<1>3. SubmitInv'
  <2>1. pc \in {"confirm", "bind"} => op.i \in Ids /\ Exists(op.i) /\ book'[op.i].ph # "none"
    BY <1>1, LastOf DEF SubmitInv, SubmitSteps, Exists
  <2>2. pc \in {"submit", "prepare"} => op.t \in Trades
    BY <1>2 DEF TradeSteps
  <2> QED
    BY <1>1, <2>1, <2>2 DEF SubmitInv, Exists, EntryOf
<1>4. TargetInv'
  <2>1. pc \in {"cancel", "cmark", "delete", "cconfirm"} \cup BoundSteps => op.t \in Trades
    BY <1>2 DEF TradeSteps, BoundSteps
  <2>2. op.x # 0 => op.x \in Ids
    BY <1>1 DEF Op
  <2>3. pc = "cconfirm" => op.x \in Ids
    BY <1>1 DEF StepInv
  <2> QED
    BY <1>1, <2>1, <2>2, <2>3, LastOf DEF TargetInv, Exists
<1> QED
  BY <1>3, <1>4 DEF WorkInv

LEMMA PostWork == ASSUME IInv, RInv, Next, PostProcedure PROVE WorkInv'
<1> USE DEF Goto
<1>1. TypeOK /\ StepInv /\ SubmitInv /\ op \in Op /\ OrdersLast /\ IntentsLast
  BY OrdersStep, IntentsStep DEF IInv, RInv, ControlInv, TypeOK
<1>2. pc \in {"mark", "post", "lookup", "confirm", "bind"} /\ pc' \in SubmitSteps
  BY DEF PostProcedure, MarkSubmitting, PostAccepted, PostRejected, PostUnanswered,
     LookupFound, LookupMissing, ConfirmIntent, BindIntent, SubmitSteps
<1>3. op'.i = op.i /\ op'.h = op.h /\ op'.t = op.t
  BY <1>1 DEF PostProcedure, MarkSubmitting, PostAccepted, PostRejected, PostUnanswered,
     LookupFound, LookupMissing, ConfirmIntent, BindIntent, PostUnchanged, Op
<1>4. op.i \in Ids /\ intents[op.i].st # "NONE"
  BY <1>1, <1>2 DEF StepInv
<1>5. /\ intents[op.i].opn \notin CancelOps /\ intents[op.i].trade = op.t
      /\ op.h \in {"entry", "manual"} => intents[op.i].opn = "ENTRY"
      /\ op.h \notin {"entry", "manual", "found"} => intents[op.i].opn # "ENTRY"
  BY <1>1, <1>2 DEF SubmitInv, SubmitSteps
<1>6. intents'[op.i].opn = intents[op.i].opn /\ intents'[op.i].trade = intents[op.i].trade
  BY <1>1, <1>4 DEF IntentsLast
<1>7. pc' \in {"confirm", "bind"} => book'[op.i].ph # "none"
  <2>1. CASE PostAccepted
    BY <1>1, <1>4, <2>1, AcceptLasts DEF PostAccepted, Acceptable, Exists
  <2>2. CASE LookupFound \/ ConfirmIntent
    <3>1. Exists(op.i)
      BY <1>1, <2>2 DEF LookupFound, ConfirmIntent, SubmitInv
    <3> QED
      BY <1>1, <1>4, <3>1, LastOf DEF Exists
  <2> QED
    BY <2>1, <2>2 DEF PostProcedure, MarkSubmitting, PostRejected, PostUnanswered, LookupMissing, BindIntent
<1>8. pc' = "rejected" => intents'[op.i].st = "DEFINITE_REJECT"
  <2>1. pc' = "rejected" => SetState(op.i, "DEFINITE_REJECT")
    BY DEF PostProcedure, MarkSubmitting, PostAccepted, PostRejected, PostUnanswered,
       LookupFound, LookupMissing, ConfirmIntent, BindIntent
  <2> QED
    BY <1>1, <1>4, <2>1, SetStateFacts
<1> QED
  BY <1>2, <1>3, <1>4, <1>5, <1>6, <1>7, <1>8, SubmitWork

LEMMA CancelProcedureWork == ASSUME IInv, RInv, Next, CancelProcedure PROVE WorkInv'
<1> USE DEF Goto
<1>1. /\ TypeOK /\ StepInv /\ TargetInv /\ op \in Op /\ OrdersLast /\ IntentsLast
      /\ op.x \in Ids \cup {0} /\ op.c \in CancelOps
  BY OrdersStep, IntentsStep DEF IInv, RInv, ControlInv, TypeOK, Op
<1>2. pc \in {"cancel", "cmark", "delete", "cconfirm"} /\ rows' = rows
  BY DEF CancelProcedure, CancelWithoutTarget, CancelAlreadyPrepared, CancelOutOfRoom, CancelPrepare,
     CancelMark, DeleteAccepted, DeleteFails, CancelConfirm, CancelUnchanged, KeepRows
<1>3. op'.h = op.h /\ op'.t = op.t /\ op'.x = op.x /\ op'.c = op.c
  BY <1>1 DEF CancelProcedure, CancelWithoutTarget, CancelAlreadyPrepared, CancelOutOfRoom, CancelPrepare,
     CancelMark, DeleteAccepted, DeleteFails, CancelConfirm, CancelUnchanged, Op
<1>4. op.x # 0 => Exists(op.x) /\ book'[op.x].ph # "none" /\ rows[op.t].obj # 0
  BY <1>1, <1>2, LastOf DEF TargetInv, Exists
<1>5. op.c = "CANCEL_PARTIAL_ENTRY" => op.h \in {"partial", "stale"}
  BY <1>1, <1>2 DEF TargetInv, PlanSteps
<1>6. pc \in {"cmark", "delete", "cconfirm"} =>
        /\ op.i \in Ids /\ op.x \in Ids /\ intents[op.i].st # "NONE"
        /\ intents[op.i].opn \in CancelOps /\ intents[op.i].obj = op.x
  BY <1>1 DEF StepInv, TargetInv
\* The next step of the procedure.
<1>7. ASSUME pc' \in {"cmark", "delete", "cconfirm"}, op.x # 0,
             intents'[op'.i].opn \in CancelOps, intents'[op'.i].obj = op.x,
             pc' = "cconfirm" => book'[op.x].ph = "done"
      PROVE  WorkInv'
  BY <1>2, <1>3, <1>4, <1>5, <1>7
     DEF WorkInv, SubmitInv, TargetInv, SubmitSteps, BoundSteps, PlanSteps, Exists
<1>8. ASSUME pc' = "canceled", op.x # 0 PROVE WorkInv'
  BY <1>2, <1>3, <1>4, <1>5, <1>8, BoundWork DEF BoundSteps
<1>9. CASE CancelWithoutTarget \/ CancelAlreadyPrepared \/ CancelOutOfRoom
  <2>1. pc' = "cancelFailed" \/ (pc' = "canceled" /\ op.x # 0)
    BY <1>1, <1>9 DEF CancelWithoutTarget, CancelAlreadyPrepared, CancelOutOfRoom, TargetInv
  <2> QED
    BY <1>8, <2>1, PlainWork
<1>10. ASSUME NEW i \in Ids, CancelPrepare(i) PROVE WorkInv'
  <2> DEFINE n == [NoIntent EXCEPT !.opn = op.c, !.trade = op.t, !.obj = op.x, !.st = "PREPARED"]
  <2>1. n.opn = op.c /\ n.obj = op.x /\ Prepare(i, n)
    BY <1>10 DEF CancelPrepare, NoIntent
  <2> HIDE DEF n
  <2>2. intents'[i] = n
    BY <1>1, <2>1, PrepareFacts
  <2>3. op'.i = i /\ pc' = "cmark" /\ op.x # 0
    BY <1>1, <1>10 DEF CancelPrepare, Op
  <2> QED
    BY <1>1, <1>7, <2>1, <2>2, <2>3
<1>11. ASSUME pc \in {"cmark", "delete", "cconfirm"}, op' = op
       PROVE  /\ op.x # 0 /\ op.x \in Ids
              /\ intents'[op'.i].opn \in CancelOps /\ intents'[op'.i].obj = op.x
  BY <1>1, <1>6, <1>11, IdFacts DEF IntentsLast
<1>12. CASE CancelMark
  BY <1>7, <1>11, <1>12 DEF CancelMark
<1>13. CASE DeleteAccepted
  <2>1. pc = "delete" /\ pc' = "cconfirm" /\ op' = op /\ Live(op.x) /\ Terminate(op.x)
    BY <1>13 DEF DeleteAccepted
  <2>2. book'[op.x].ph = "done"
    BY <1>1, <1>11, <2>1, TerminateLasts
  <2> QED
    BY <1>7, <1>11, <2>1, <2>2
<1>14. CASE DeleteFails
  BY <1>14, PlainWork DEF DeleteFails
<1>15. CASE CancelConfirm
  BY <1>8, <1>11, <1>15 DEF CancelConfirm
<1> QED
  BY <1>9, <1>10, <1>12, <1>13, <1>14, <1>15 DEF CancelProcedure

LEMMA EntryWork == ASSUME IInv, RInv, Next, Entry PROVE WorkInv'
<1> USE DEF Goto
<1>1. TypeOK /\ SubmitInv /\ RowInv /\ op \in Op
  BY DEF IInv, RInv, TypeOK
<1>2. ASSUME Finish PROVE WorkInv'
  BY <1>2, PlainWork DEF Finish
\* Before the entry of the trade is prepared.
<1>3. ASSUME pc' \in {"submit", "prepare"}, op'.h \in {"entry", "manual"}, rows'[op'.t].obj = 0,
             \A i \in Ids : intents'[i].trade # op'.t, pc' = "prepare" => rows'[op'.t].lc = "ENTRY_SUBMITTED"
      PROVE  WorkInv'
  BY <1>3 DEF WorkInv, SubmitInv, TargetInv, SubmitSteps, BoundSteps, PlanSteps
<1>4. ASSUME NEW t \in Trades, ProcessSignal(t) \/ ManualEntry(t) PROVE WorkInv'
  <2>1. rows[t].lc = "NONE" /\ intents' = intents /\ pc' = "submit"
    BY <1>4 DEF ProcessSignal, ManualEntry, NewTrade
  <2>2. rows[t].obj = 0 /\ \A i \in Ids : intents[i].trade # t
    BY <1>1, <2>1, RowFacts
  <2>3. rows'[t].obj = rows[t].obj
    BY <1>1, <1>4 DEF ProcessSignal, ManualEntry, SetLifecycle, SetRow, KeepRows, TypeOK, Row
  <2>4. op'.h \in {"entry", "manual"} /\ op'.t = t
    BY <1>4 DEF ProcessSignal, ManualEntry, NoOp
  <2> QED
    BY <1>3, <2>1, <2>2, <2>3, <2>4
<1>5. CASE SubmitPersist
  <2>1. /\ pc = "submit" /\ pc' = "prepare" /\ op' = op /\ intents' = intents
        /\ SetRow(op.t, [NoRow EXCEPT !.lc = "ENTRY_SUBMITTED"])
    BY <1>5 DEF SubmitPersist
  <2>2. op.t \in Trades /\ op.h \in {"entry", "manual"} /\ \A i \in Ids : intents[i].trade # op.t
    BY <1>1, <2>1 DEF SubmitInv, IInv, ControlInv, StepInv, TradeSteps
  <2>3. rows'[op.t].obj = 0 /\ rows'[op.t].lc = "ENTRY_SUBMITTED"
    BY <1>1, <2>1, <2>2, OthersKept DEF NoRow
  <2> QED
    BY <1>3, <2>1, <2>2, <2>3
<1>6. ASSUME NEW i \in Ids, PrepareEntry(i) PROVE WorkInv'
  <2> DEFINE n == NewPost("ENTRY", op.t, 0, "list", EntryQty)
  <2>1. n.opn = "ENTRY" /\ n.trade = op.t /\ Prepare(i, n)
    BY <1>6, NewPostFacts DEF PrepareEntry
  <2> HIDE DEF n
  <2>2. intents'[i] = n
    BY <1>1, <2>1, PrepareFacts
  <2>3. op'.i = i /\ op'.h = op.h /\ op'.t = op.t /\ pc' = "mark" /\ op.h \in {"entry", "manual"}
    BY <1>1, <1>6 DEF PrepareEntry, Op, SubmitInv
  <2>4. "ENTRY" \notin CancelOps /\ "mark" \in SubmitSteps
    BY DEF CancelOps, SubmitSteps
  <2> QED
    BY <2>1, <2>2, <2>3, <2>4, SubmitWork
<1> QED
  BY <1>2, <1>4, <1>5, <1>6 DEF Entry, SubmitRefused, SubmitRaises, EntryDone

\* A sale for the trade op.t is prepared by a handler of its own.
LEMMA SaleWork ==
  ASSUME IInv, NEW i \in Ids, NEW o \in {"PROTECTION", "PARTIAL_FILL_PROTECTION", "EMERGENCY_EXIT"},
         NEW p, NEW ep, NEW q, Prepare(i, NewPost(o, op.t, p, ep, q)),
         op' = [op EXCEPT !.i = i] \/ op' = [op EXCEPT !.i = i, !.free = btc.free],
         pc' = "mark", op.h \notin {"entry", "manual", "found"}
  PROVE  WorkInv'
<1> DEFINE n == NewPost(o, op.t, p, ep, q)
<1>1. n.opn = o /\ n.trade = op.t /\ Prepare(i, n)
  BY NewPostFacts
<1> HIDE DEF n
<1>2. intents'[i] = n
  BY <1>1, PrepareFacts DEF IInv
<1>3. op \in Op
  BY DEF IInv, TypeOK
<1>4. op'.i = i /\ op'.h = op.h /\ op'.t = op.t
  BY <1>3 DEF Op
<1>5. o \notin CancelOps /\ o # "ENTRY" /\ "mark" \in SubmitSteps
  BY DEF CancelOps, SubmitSteps
<1> QED
  BY <1>1, <1>2, <1>4, <1>5, SubmitWork

LEMMA ConvertWork == ASSUME IInv, RInv, Next, Convert PROVE WorkInv'
<1> USE DEF Goto
<1>1. TypeOK /\ RowInv /\ TargetInv /\ OrdersLast /\ op \in Op /\ 0 \notin Ids
  BY OrdersStep, IdFacts DEF IInv, RInv, TypeOK
<1>2. ASSUME Finish \/ \E ret, was : BeginReconcile(ret, was) PROVE WorkInv'
  BY <1>2, PlainWork DEF Finish, BeginReconcile
<1>3. ASSUME NEW h, NEW t \in Trades, NEW i \in Ids, NEW ep, ConvertBegin(h, t, i, ep) PROVE WorkInv'
  <2>1. rows[t].lc = "PROTECTION_ACTIVE" /\ rows' = rows /\ pc' = "cancel"
    BY <1>3 DEF ConvertBegin, KeepRows
  <2>2. rows[t].obj # 0 /\ Exists(rows[t].obj) /\ rows[t].obj \in Ids
    BY <1>1, <2>1, RowFacts DEF TypeOK, Row
  <2>3. op'.t = t /\ op'.x = rows[t].obj /\ op'.c = "CANCEL_PROTECTION"
    BY <1>3 DEF ConvertBegin, NoOp
  <2> QED
    BY <1>1, <2>1, <2>2, <2>3, LastOf, CancelWork DEF Exists
<1>4. CASE ConvertStops \/ ConvertExited \/ ConvertDone
  BY <1>2, <1>4 DEF ConvertStops, ConvertExited, ConvertDone, ConvertReturns
<1>5. CASE ConvertCanceled \/ ReplaceFoundFlat
  <2>1. /\ pc \in {"canceled", "free"} /\ pc' \in {"free", "exitRow"} /\ op' = op /\ rows' = rows
    BY <1>5 DEF ConvertCanceled, ReplaceFoundFlat, KeepRows
  <2>2. rows[op.t].obj # 0
    BY <1>1, <2>1 DEF TargetInv, BoundSteps
  <2> QED
    BY <2>1, <2>2, BoundWork DEF BoundSteps
<1>6. ASSUME NEW i \in Ids, PrepareReplacement(i) PROVE WorkInv'
  <2>1. op.h \notin {"entry", "manual", "found"}
    BY <1>6 DEF PrepareReplacement, IInv, ControlInv, PlanInv
  <2> QED
    BY <1>6, <2>1, SaleWork DEF PrepareReplacement
<1> QED
  BY <1>3, <1>4, <1>5, <1>6 DEF Convert

LEMMA EmergencyWork == ASSUME IInv, RInv, Next, Emergency PROVE WorkInv'
<1> USE DEF Goto
<1>1. TypeOK /\ RowInv /\ OrdersLast /\ 0 \notin Ids
  BY OrdersStep, IdFacts DEF IInv, RInv
<1>2. ASSUME NEW t \in Trades, EmergencyBegin(t) PROVE WorkInv'
  <2>1. rows' = rows /\ pc' = "cancel"
    BY <1>2 DEF EmergencyBegin, KeepRows
  <2>2. rows[t].obj # 0 => Exists(rows[t].obj) /\ rows[t].obj \in Ids
    BY <1>1, RowFacts DEF TypeOK, Row
  <2>3. op'.t = t /\ op'.x = rows[t].obj /\ op'.c = "CANCEL_PROTECTION"
    BY <1>2 DEF EmergencyBegin, NoOp
  <2> QED
    BY <1>1, <2>1, <2>2, <2>3, LastOf, CancelWork DEF Exists
<1>3. ASSUME NEW i \in Ids, EmergencySell(i) PROVE WorkInv'
  BY <1>3, SaleWork DEF EmergencySell
<1>4. CASE EmergencyStops \/ EmergencyVerify
  BY <1>4, PlainWork DEF EmergencyStops, EmergencyVerify, Finish
<1> QED
  BY <1>2, <1>3, <1>4 DEF Emergency

LEMMA TickWork == ASSUME IInv, RInv, Next, Tick PROVE WorkInv'
<1> USE DEF Goto
<1>1. /\ TypeOK /\ RowInv /\ TargetInv /\ StepInv /\ PlanInv /\ OrdersLast /\ op \in Op /\ 0 \notin Ids
      /\ \A t \in Trades : rows[t].obj # 0 => rows'[t].obj # 0
  BY OrdersStep, IdFacts, BoundLasts DEF IInv, RInv, ControlInv, TypeOK
<1>2. ASSUME NEW ok, StaleReturns(ok) \/ PartialReturns(ok) \/ PartialReturn(ok) PROVE WorkInv'
  BY <1>2, PlainWork DEF StaleReturns, PartialReturns, PartialReturn
\* A bound row names an order that exists; a row with an entry is bound.
<1>3. ASSUME NEW t \in Trades
      PROVE  /\ rows[t].ent # 0 => rows[t].obj # 0
             /\ rows[t].obj # 0 => book'[rows[t].obj].ph # "none" /\ rows'[t].obj # 0
  <2>1. rows[t].obj # 0 => rows[t].obj \in Ids /\ Exists(rows[t].obj)
    BY <1>1, RowFacts DEF TypeOK, Row
  <2> QED
    BY <1>1, <2>1, RowFacts, LastOf DEF Exists
<1>4. ASSUME NEW t \in Trades, EntryWindowExpires(t) PROVE WorkInv'
  <2>1. rows' = [rows EXCEPT ![t].stale = TRUE] /\ UNCHANGED <<pc, op, intents>>
    BY <1>4 DEF EntryWindowExpires
  <2>2. \A u \in Trades : rows'[u].lc = rows[u].lc /\ rows'[u].obj = rows[u].obj
    BY <1>1, <2>1 DEF TypeOK, Row
  <2> QED
    BY <2>1, <2>2, WorkStays
<1>5. CASE TickBegin \/ TickPartial
  BY <1>5, PlainWork DEF TickBegin, TickPartial, Finish
<1>6. CASE StaleFails \/ PartialFails \/ PartialDone
  BY <1>2, <1>6 DEF StaleFails, PartialFails, PartialDone
<1>7. CASE StaleCancels
  <2>1. /\ pc = "stale" /\ pc' = "cancel" /\ rows[op.t].ent # 0 /\ op.t \in Trades
    BY <1>1, <1>7 DEF StaleCancels, StepInv, TradeSteps
  <2>2. op'.x = rows[op.t].obj /\ op'.t = op.t /\ op'.c = "CANCEL_STALE_ENTRY"
    BY <1>1, <1>7 DEF StaleCancels, Op
  <2> QED
    BY <1>3, <2>1, <2>2, CancelWork
<1>8. CASE StaleCanceled \/ PartialCanceled
  <2>1. /\ pc = "canceled" /\ op' = op /\ rows' = rows
        /\ \/ pc' = "staleTerminal"
           \/ pc' = "partialTerminal" /\ op.c = "CANCEL_PARTIAL_ENTRY"
    BY <1>8 DEF StaleCanceled, PartialCanceled, KeepRows
  <2>2. rows[op.t].obj # 0 /\ (op.c = "CANCEL_PARTIAL_ENTRY" => op.h \in {"partial", "stale"})
    BY <1>1, <2>1 DEF TargetInv, BoundSteps, PlanSteps
  <2> QED
    BY <2>1, <2>2, BoundWork DEF BoundSteps
<1>9. CASE StaleTerminal
  BY <1>2, <1>9, PlainWork DEF StaleTerminal
<1>10. ASSUME NEW t \in Trades, PartialCompletes(t) \/ PartialRefuses(t) PROVE WorkInv'
  BY <1>2, <1>10 DEF PartialCompletes, PartialRefuses
<1>11. ASSUME NEW t \in Trades, PartialCancels(t) PROVE WorkInv'
  <2>1. /\ pc = "partial" /\ pc' = "cancel" /\ rows[t].ent # 0 /\ op.h \in {"partial", "stale"}
    BY <1>1, <1>11 DEF PartialCancels, PartialLookup, PlanInv
  <2>2. op'.x = rows[t].obj /\ op'.t = t /\ op'.h = op.h
    BY <1>1, <1>11 DEF PartialCancels, Op
  <2> QED
    BY <1>3, <2>1, <2>2, CancelWork
<1>12. ASSUME NEW t \in Trades, PartialProceeds(t) PROVE WorkInv'
  <2>1. /\ pc = "partial" /\ pc' = "partialPlace" /\ rows[t].ent # 0 /\ op.h \in {"partial", "stale"}
    BY <1>1, <1>12 DEF PartialProceeds, PartialLookup, PlanInv
  <2>2. op'.t = t /\ op'.h = op.h
    BY <1>1, <1>12 DEF PartialProceeds, Op
  <2> QED
    BY <1>3, <2>1, <2>2, BoundWork DEF BoundSteps
<1>13. CASE PartialTerminal
  <2>1. CASE pc' = "partialPlace" /\ op' = op
    <3>1. op.t \in Trades /\ rows[op.t].obj # 0 /\ op.h \in {"partial", "stale"}
      BY <1>1, <1>13 DEF PartialTerminal, StepInv, TradeSteps, TargetInv, BoundSteps
    <3> QED
      BY <1>1, <2>1, <3>1, BoundWork DEF BoundSteps
  <2>2. CASE PartialReturn(FALSE)
    BY <1>2, <2>2
  <2> QED
    BY <1>13, <2>1, <2>2 DEF PartialTerminal
<1>14. ASSUME NEW i \in Ids, NEW ep, PartialPlace(i, ep) PROVE WorkInv'
  <2>1. op.h \notin {"entry", "manual", "found"}
    BY <1>1, <1>14 DEF PartialPlace, TargetInv
  <2> QED
    BY <1>14, <2>1, SaleWork DEF PartialPlace
<1> QED
  BY <1>4, <1>5, <1>6, <1>7, <1>8, <1>9, <1>10, <1>11, <1>12, <1>13, <1>14 DEF Tick

LEMMA ReconcileWork == ASSUME IInv, RInv, Next, Reconcile PROVE WorkInv'
<1> USE DEF Goto
<1>1. /\ TypeOK /\ LedgerInv /\ RowInv /\ OrdersLast
  BY OrdersStep DEF IInv, RInv
<1>2. ASSUME NEW i \in Ids, ResolveChild(i) PROVE WorkInv'
  <2>1. intents[i].opn = "PROTECTION" /\ intents' = intents /\ pc' = "mark"
    BY <1>2 DEF ResolveChild, IsChild
  <2>2. op'.i = i /\ op'.t = intents[i].trade /\ op'.h = "child"
    BY <1>2 DEF ResolveChild, NoOp
  <2>3. "PROTECTION" \notin CancelOps /\ "mark" \in SubmitSteps
    BY DEF CancelOps, SubmitSteps
  <2> QED
    BY <2>1, <2>2, <2>3, SubmitWork
<1>3. ASSUME NEW i \in Ids, ResolvePrepared(i) PROVE WorkInv'
  <2>1. CASE Resolved(i)
    BY <2>1, PlainWork DEF Resolved
  <2>2. CASE ~Resolved(i)
    <3>1. /\ pc' = "abortRow" /\ intents[i].opn = "ENTRY" /\ SetState(i, "ABORTED")
          /\ op'.i = i /\ op'.t = intents[i].trade
      BY <1>3, <2>2 DEF ResolvePrepared, NoOp
    <3>2. intents'[i].st = "ABORTED" /\ intents'[i].opn = "ENTRY" /\ intents'[i].trade = intents[i].trade
      BY <1>1, <3>1, SetStateFields
    <3> QED
      BY <3>1, <3>2 DEF WorkInv, SubmitInv, TargetInv, SubmitSteps, BoundSteps, PlanSteps, EntryOf
  <2> QED
    BY <2>1, <2>2
<1>4. ASSUME NEW i \in Ids, ResolveFound(i) PROVE WorkInv'
  <2>1. /\ pc' = "bind" /\ intents[i].opn \notin CancelOps /\ SetState(i, "CONFIRMED") /\ Exists(i)
        /\ op'.i = i /\ op'.t = intents[i].trade /\ op'.h = "found"
    BY <1>4 DEF ResolveFound, IsCancel, NoOp
  <2>2. intents'[i].opn = intents[i].opn /\ intents'[i].trade = intents[i].trade
    BY <1>1, <2>1, SetStateFields
  <2>3. book'[i].ph # "none" /\ "bind" \in SubmitSteps
    BY <1>1, <2>1, LastOf DEF Exists, SubmitSteps
  <2> QED
    BY <2>1, <2>2, <2>3, SubmitWork
\* The plan of a trade with a cancel is the plan of a bound row.
<1>5. ASSUME NEW i \in Ids, PlanResumes(i) PROVE WorkInv'
  <2>1. PICK j \in Ids : intents[j].opn = "CANCEL_PROTECTION" /\ intents[j].trade = intents[i].trade
    BY <1>5 DEF PlanResumes, IsLastCancel, ProtectionCancels
  <2>2. intents[j].st # "NONE"
    BY <2>1 DEF RInv, ShapeInv
  <2>3. intents[i].trade \in Trades
    BY <1>1, <2>1, <2>2, PresentFacts
  <2>4. rows[intents[i].trade].obj # 0
    BY <1>1, <2>1, <2>3, RowFacts
  <2>5. pc' = "free" /\ rows' = rows /\ op'.t = intents[i].trade
    BY <1>5 DEF PlanResumes, KeepRows, NoOp
  <2> QED
    BY <2>4, <2>5, BoundWork DEF BoundSteps
<1>6. CASE \/ ReconcileCommand \/ ArmCommand \/ ArmFinish \/ Start
           \/ \E i \in Ids : ResolveSkips(i) \/ ResolveCancel(i) \/ PlanWithoutCancel(i)
           \/ ResolveAbortedEntry \/ ResolveDone \/ ResolveEnds \/ PlanStays \/ PlanDone \/ PlansEnd
           \/ Refresh \/ RecoverExits \/ ReconcileRecovers \/ Verdict
  <2>1. pc' \in {"idle", "down", "arming", "stale", "partial", "refresh", "exits", "recStale",
                 "recPartial", "verdict", "resolve", "plans"}
    BY <1>6 DEF ReconcileCommand, ArmCommand, ArmFinish, Start, ResolveSkips, ResolveCancel,
       PlanWithoutCancel, ResolveAbortedEntry, ResolveDone, ResolveEnds, PlanStays, PlanDone, PlansEnd,
       Refresh, RecoverExits, ReconcileRecovers, Verdict, BeginReconcile, Resolved, PlanLeaves, Finish
  <2> QED
    BY <2>1, PlainWork
<1> QED
  BY <1>2, <1>3, <1>4, <1>5, <1>6 DEF Reconcile

LEMMA WorkStep == ASSUME IInv, RInv, Next PROVE WorkInv'
<1>1. CASE Exchange \/ Owner
  <2>1. UNCHANGED <<pc, op, intents, rows>>
    BY <1>1 DEF Exchange, durableVars, Owner, ClearRiskPause, OwnerPause, KeepRows
  <2> QED
    BY <2>1, WorkStays
<1>2. CASE Stream
  <2>1. UNCHANGED <<pc, op, intents>> /\ pc # "prepare"
    BY <1>2 DEF Stream, StreamUpdate, StreamPartialFill, StreamResync, LockFree
  <2>2. ASSUME NEW t \in Trades, SetRow(t, ApplyBuy(rows[t])) \/ SetRow(t, ApplySell(rows[t]))
        PROVE  \A u \in Trades : rows'[u].obj = rows[u].obj
    <3>1. rows \in [Trades -> Row] /\ ApplyBuy(rows[t]).obj = rows[t].obj /\ ApplySell(rows[t]).obj = rows[t].obj
      BY ReportMoves DEF Moves, IInv, TypeOK
    <3> QED
      BY <2>2, <3>1 DEF SetRow
  <2>3. \A u \in Trades : rows'[u].obj = rows[u].obj
    BY <1>2, <2>2 DEF Stream, StreamUpdate, StreamPartialFill, StreamResync, KeepRows
  <2> QED
    BY <2>1, <2>3, WorkStays
<1>3. CASE Crash
  BY <1>3, PlainWork DEF Crash
<1> QED
  BY <1>1, <1>2, <1>3, PostWork, CancelProcedureWork, EntryWork, ConvertWork, EmergencyWork,
     TickWork, ReconcileWork DEF Next

-----------------------------------------------------------------------------
(***************************************************************************)
(* The theorems about rows and cancels.                                     *)
(***************************************************************************)
LEMMA InitRInv == ASSUME Init PROVE RInv
<1> USE DEF Init, ExchangeInit
<1>1. BookInv
  BY DEF BookInv, Exists, NoOrder
<1>2. ShapeInv /\ CancelInv
  BY DEF ShapeInv, CancelInv, ConfirmedCancelTerminal, NoIntent, CancelOps
<1>3. RowInv
  BY IdFacts DEF RowInv, RowOf, EntryOf, NoRow, NoIntent
<1>4. SubmitInv /\ TargetInv
  BY DEF SubmitInv, TargetInv, SubmitSteps, BoundSteps, PlanSteps
<1> QED
  BY <1>1, <1>2, <1>3, <1>4 DEF RInv

LEMMA StutterRInv == ASSUME RInv, UNCHANGED vars PROVE RInv'
<1> USE DEF RInv, vars, exchangeVars, durableVars
<1>1. BookInv'
  BY DEF BookInv, Exists, KindOf
<1>2. ShapeInv' /\ CancelInv'
  BY DEF ShapeInv, CancelInv, ConfirmedCancelTerminal, Exists
<1>3. RowInv'
  BY DEF RowInv, RowOf, EntryOf, Unfilled, Exists
<1>4. SubmitInv'
  BY DEF SubmitInv, Exists, EntryOf
<1>5. TargetInv'
  BY DEF TargetInv, Exists
<1> QED
  BY <1>1, <1>2, <1>3, <1>4, <1>5

\* Both invariants hold in every state of the adapter, whatever the bounds are.
THEOREM RowInvariance == Spec => [](IInv /\ RInv)
<1>1. ASSUME IInv, RInv, [Next]_vars PROVE RInv'
  BY <1>1, BookStep, ShapeStep, RowStep, CancelStep, WorkStep, StutterRInv DEF RInv, WorkInv
<1>2. IInv /\ RInv /\ [Next]_vars => (IInv /\ RInv)'
  BY <1>1, TypeStep, LedgerStep, ControlStep, StutterIInv DEF IInv
<1> QED
  BY <1>2, InitIInv, InitRInv, PTL DEF Spec

\* A CONFIRMED cancel proves that its target is terminal, whether _cancel_protection was
\* answered or _resolve_operation_intents read the order back after a restart.
THEOREM CancelIsProof == Spec => []ConfirmedCancelTerminal
<1>1. RInv => ConfirmedCancelTerminal
  BY DEF RInv, CancelInv
<1> QED
  BY <1>1, RowInvariance, PTL

\* An entry whose outcome is unknown keeps its trade among the nonterminal rows that submit
\* looks at, over every crash, stream event and reconciliation.
THEOREM UncertainStaysOpen == Spec => []UncertainNotTerminal
<1>1. ASSUME IInv, RInv PROVE UncertainNotTerminal
  <2>1. ASSUME NEW i \in Ids, intents[i].opn = "ENTRY", intents[i].st \in {"SUBMITTING", "AMBIGUOUS"}
        PROVE  intents[i].trade \in ActiveRows
    <3>1. intents[i].trade \in Trades
      BY <1>1, <2>1, PresentFacts DEF IInv
    <3>2. rows[intents[i].trade].lc \notin Terminal /\ rows[intents[i].trade].lc # "NONE"
      BY <1>1, <2>1, <3>1, RowFacts DEF RInv, EntryOf
    <3> QED
      BY <3>1, <3>2 DEF ActiveRows
  <2> QED
    BY <2>1 DEF UncertainNotTerminal
<1> QED
  BY <1>1, RowInvariance, PTL

\* ENTRY_REJECTED is recorded of an entry that bought nothing, and whose request is no longer
\* in flight: no BTC is bought behind a closed row.
THEOREM RejectedBoughtNothing == Spec => []RejectedNeverFilled
<1>1. ASSUME IInv, RInv PROVE RejectedNeverFilled
  <2>1. ASSUME NEW t \in Trades, NEW i \in Ids, rows[t].lc = "ENTRY_REJECTED", EntryOf(i, t)
        PROVE  ~OnWire(i) /\ book[i].bought = 0
    <3>1. Unfilled(i) /\ LedgerInv /\ BookInv
      BY <1>1, <2>1, RowFacts DEF RInv, IInv
    <3>2. CASE intents[i].st \in {"ABORTED", "DEFINITE_REJECT"}
      <4>1. ~Present(i)
        BY <3>1, <3>2, PresentFacts DEF Landed
      <4> QED
        BY <3>1, <4>1, OrderOfIntent DEF Present
    <3>3. CASE book[i].ph = "done" /\ book[i].bought = 0
      BY <3>1, <3>3 DEF BookInv, OnWire, Exists
    <3> QED
      BY <3>1, <3>2, <3>3 DEF Unfilled
  <2> QED
    BY <2>1 DEF RejectedNeverFilled, EntryOf
<1> QED
  BY <1>1, RowInvariance, PTL

=============================================================================
