---------------------------- MODULE SpotExecution ----------------------------
(***************************************************************************)
(* services/execution_sidecar/bitcoin_adapter.py with the durable trade     *)
(* rows and operation intents of state_store.py: entry, cancel-and-replace  *)
(* of protection, partial-fill and stale-entry recovery, emergency exit and *)
(* restart reconciliation.                                                  *)
(*                                                                          *)
(* A handler runs on the main thread and holds adapter.lock, so it is cut   *)
(* into steps only where the exchange may move or the process may die: at   *)
(* each network call and each durable commit.  User-stream callbacks take   *)
(* the same lock and run only where it is free.                             *)
(***************************************************************************)
EXTENDS SpotExchange

CONSTANTS
  MaxTrades,    \* bound: trade records
  MaxCrashes,   \* bound: process deaths
  Endpoints,    \* shapes of a protection: "list" (OCO) and/or "order" (trailing)
  Commands      \* owner and timer actions that a configuration explores

ASSUME ExecutionAssumption ==
  /\ MaxTrades \in Nat \ {0}
  /\ MaxCrashes \in Nat
  /\ Endpoints \subseteq {"list", "order"} /\ Endpoints # {}
  /\ Commands \subseteq {"manual", "convert", "auto", "emergency", "stale", "clear", "resync"}

VARIABLES
  \* SQLite and the JSON state file: they survive a crash
  intents,      \* operation_intents, in order of creation
  rows,         \* trade_records
  latest,       \* the record with the newest updated_at
  verdict,      \* data["last_reconciliation_status"]
  paused,       \* guard.state["global_pause"] is not empty
  \* the process
  pc, op,       \* the step the main thread is at, and its locals
  rec,          \* locals of verified_reconcile
  armed,        \* adapter.enabled and state.entries()
  recovery,     \* adapter.partial_recovery is not empty
  \* history and bound
  posts,        \* how often the POST of an intent was transmitted
  crashes

durableVars == <<intents, rows, latest, verdict, paused>>
vars == <<exchangeVars, durableVars, pc, op, rec, armed, recovery, posts, crashes>>

Trades == 1 .. MaxTrades

-----------------------------------------------------------------------------
(***************************************************************************)
(* Records.  `obj` is the order whose list and stop identifiers a row or a  *)
(* cancel intent names; `ent` is the order bound as entry_order_id.         *)
(***************************************************************************)
PostOps   == {"ENTRY", "PROTECTION", "PARTIAL_FILL_PROTECTION", "EMERGENCY_EXIT"}
CancelOps == {"CANCEL_PROTECTION", "CANCEL_PARTIAL_ENTRY", "CANCEL_STALE_ENTRY"}
Ops       == PostOps \cup CancelOps \cup {"REPLACE_PROTECTION", "NONE"}

IntentStates == {"NONE", "PREPARED", "SUBMITTING", "CONFIRMED", "DEFINITE_REJECT",
                 "AMBIGUOUS", "ABORTED"}

Intent == [opn : Ops, trade : Trades \cup {0}, parent : Ids \cup {0},
           obj : Ids \cup {0}, ep : {"list", "order"}, qty : Nat, st : IntentStates]

NoIntent == [opn |-> "NONE", trade |-> 0, parent |-> 0, obj |-> 0, ep |-> "list",
             qty |-> 0, st |-> "NONE"]

Lifecycles == {"NONE", "SIGNAL_APPROVED", "ENTRY_SUBMITTED", "ENTRY_PARTIALLY_FILLED",
               "ENTRY_FILLED", "PROTECTION_ACTIVE", "EXIT_FILLED", "ENTRY_REJECTED",
               "AMBIGUOUS"}
Terminal == {"EXIT_FILLED", "ENTRY_REJECTED"}

Row == [lc : Lifecycles, ent : Ids \cup {0}, obj : Ids \cup {0},
        filled : Nat, prot : Nat, stale : BOOLEAN]

NoRow == [lc |-> "NONE", ent |-> 0, obj |-> 0, filled |-> 0, prot |-> 0, stale |-> FALSE]

Handlers == {"none", "entry", "manual", "convert", "auto", "partial", "stale",
             "emergency", "plan", "child", "found"}

Op == [h : Handlers, t : Trades \cup {0}, i : Ids \cup {0}, x : Ids \cup {0},
       c : CancelOps, plan : Ids \cup {0}, q : Nat, free : Int, got : BOOLEAN]

NoOp == [h |-> "none", t |-> 0, i |-> 0, x |-> 0, c |-> "CANCEL_PROTECTION",
         plan |-> 0, q |-> 0, free |-> 0, got |-> FALSE]

Rec == [ret : {"none", "start", "arm", "auto", "command"}, todo : SUBSET Ids,
        ok : BOOLEAN, was : BOOLEAN]

NoRec == [ret |-> "none", todo |-> {}, ok |-> TRUE, was |-> FALSE]

Steps == {"down", "idle", "submit", "prepare", "arming", "tick",
          "mark", "post", "lookup", "confirm", "bind", "posted", "rejected", "ambiguous",
          "cancel", "cmark", "delete", "cconfirm", "canceled", "cancelFailed",
          "free", "exitRow", "abortRow", "verify",
          "stale", "staleTerminal", "partial", "partialTerminal", "partialPlace",
          "resolve", "plans", "refresh", "exits", "recStale", "recPartial", "verdict"}

TypeOK ==
  /\ ExchangeTypeOK
  /\ intents \in [Ids -> Intent]
  /\ rows \in [Trades -> Row]
  /\ latest \in Trades \cup {0}
  /\ verdict \in {"REQUIRED", "RECONCILED", "FAILED"}
  /\ paused \in BOOLEAN
  /\ pc \in Steps
  /\ op \in Op
  /\ rec \in Rec
  /\ armed \in BOOLEAN
  /\ recovery \in BOOLEAN
  /\ posts \in [Ids -> Nat]
  /\ crashes \in 0 .. MaxCrashes

-----------------------------------------------------------------------------
(***************************************************************************)
(* Queries of the durable state.                                            *)
(***************************************************************************)
Unresolved == {i \in Ids : intents[i].st \in {"PREPARED", "SUBMITTING", "AMBIGUOUS"}}

ActiveRows == {t \in Trades : rows[t].lc \notin Terminal \cup {"NONE"}}

\* active_trade_for_symbol: the nonterminal record with the newest updated_at
ActiveTrade(t) == /\ t \in ActiveRows
                  /\ latest \in ActiveRows => t = latest

\* The next row of operation_intents, while the bound leaves one.
NewIntent(i) == /\ i \in Ids
                /\ intents[i].st = "NONE"
                /\ \A j \in Ids : j < i => intents[j].st # "NONE"
Room == \E i \in Ids : NewIntent(i)

NewTrade(t) == rows[t].lc = "NONE" /\ \A u \in Trades : u < t => rows[u].lc # "NONE"

\* The cancel intent a deterministic seed over (operation, trade, target) names.
PriorCancel(c, t, x) ==
  {j \in Ids : intents[j].opn = c /\ intents[j].trade = t /\ intents[j].obj = x}

SmallerOf(a, b) == IF a < b THEN a ELSE b
LargerOf(a, b)  == IF a < b THEN b ELSE a

StateRank(lc) ==
  CASE lc = "SIGNAL_APPROVED"        -> 0
    [] lc = "ENTRY_SUBMITTED"        -> 1
    [] lc = "ENTRY_PARTIALLY_FILLED" -> 2
    [] lc = "ENTRY_FILLED"           -> 3
    [] lc = "PROTECTION_ACTIVE"      -> 5
    [] lc \in Terminal               -> 9
    [] lc = "AMBIGUOUS"              -> 10
    [] OTHER                         -> -1

\* A lifecycle that an event proposes never leaves a terminal one nor lowers the rank.
Advance(old, new) ==
  IF old \notin Terminal /\ StateRank(new) >= StateRank(old) THEN new ELSE old

-----------------------------------------------------------------------------
(***************************************************************************)
(* Event application: what authenticated reports of the bound orders do to  *)
(* a row.  A report here carries the status of the order at the moment it   *)
(* is applied; TradeEvents.tla is about late and reordered reports.         *)
(***************************************************************************)
\* Mutant: an order that GET returns is taken for terminal.
BuyTerminalAssumed(i) == Exists(i)

BuyTerminal(i) == book[i].ph = "done" \/ book[i].bought = book[i].qty

ApplyBuy(r) ==
  IF r.ent = 0 THEN r ELSE
  LET o == book[r.ent]
      lc == IF o.bought = o.qty THEN "ENTRY_FILLED"
            ELSE IF o.bought > 0 THEN "ENTRY_PARTIALLY_FILLED"
            ELSE IF o.ph = "done" THEN "ENTRY_REJECTED"
            ELSE r.lc
  IN [r EXCEPT !.filled = o.bought, !.lc = Advance(@, lc)]

ApplySell(r) ==
  IF r.obj = 0 THEN r ELSE
  LET o == book[r.obj]
  IN CASE o.ph = "protecting" -> [r EXCEPT !.prot = o.qty, !.lc = Advance(@, "PROTECTION_ACTIVE")]
       [] o.ph = "done" /\ o.sold = o.qty -> [r EXCEPT !.lc = Advance(@, "EXIT_FILLED")]
       [] OTHER -> r

ApplyAll(r) == ApplySell(ApplyBuy(r))

\* _durable_protection_is_open
ProtectionOpen(r) == r.obj # 0 /\ book[r.obj].ph = "protecting"

SetRow(t, r)        == rows' = [rows EXCEPT ![t] = r] /\ latest' = t
SetLifecycle(t, lc) == SetRow(t, [rows[t] EXCEPT !.lc = lc])
KeepRows            == UNCHANGED <<rows, latest>>

\* Mutant: the reject is stored under the lifecycle's word for it.
SetStateWrongWord(i, st) ==
  intents' = [intents EXCEPT ![i].st = IF st = "DEFINITE_REJECT" THEN "REJECTED" ELSE st]

SetState(i, st) == intents' = [intents EXCEPT ![i].st = st]

\* _pause and _disarm
Pause  == paused' = TRUE /\ armed' = FALSE
Disarm == armed' = FALSE /\ UNCHANGED paused
KeepArming == UNCHANGED <<armed, paused>>

Goto(step) == pc' = step
Finish == pc' = "idle" /\ op' = NoOp

\* Mutant: the parent is left open.
PrepareBesideParent(i, new) == NewIntent(i) /\ intents' = [intents EXCEPT ![i] = new]

\* prepare_intent: insert PREPARED and, for a child, close its PREPARED parent in the
\* same transaction.
Prepare(i, new) ==
  /\ NewIntent(i)
  /\ new.parent # 0 => intents[new.parent].st = "PREPARED"
  /\ intents' = [j \in Ids |->
       IF j = i THEN new
       ELSE IF j = new.parent THEN [intents[j] EXCEPT !.st = "ABORTED"]
       ELSE intents[j]]

NewPost(o, t, parent, ep, q) ==
  [opn |-> o, trade |-> t, parent |-> parent, obj |-> 0, ep |-> ep, qty |-> q,
   st |-> "PREPARED"]

-----------------------------------------------------------------------------
(***************************************************************************)
(* Entry: process_signal / manual_entry, then submit.                       *)
(***************************************************************************)
BeginReconcile(ret, was) ==
  /\ rec' = [ret |-> ret, todo |-> Unresolved, ok |-> TRUE, was |-> was]
  /\ pc' = "resolve"
  /\ op' = NoOp

\* guard.allow and entries() hold; the row is written before the adapter is called.
ProcessSignal(t) ==
  /\ pc = "idle" /\ armed /\ ~paused
  /\ NewTrade(t) /\ Room
  /\ SetLifecycle(t, "SIGNAL_APPROVED")
  /\ Goto("submit")
  /\ op' = [NoOp EXCEPT !.h = "entry", !.t = t]
  /\ KeepArming
  /\ UNCHANGED <<exchangeVars, intents, verdict, rec, recovery, posts, crashes>>

\* manual_entry calls submit without guard.allow and without a row.
ManualEntry(t) ==
  /\ "manual" \in Commands
  /\ pc = "idle" /\ armed
  /\ NewTrade(t) /\ Room
  /\ Goto("submit")
  /\ op' = [NoOp EXCEPT !.h = "manual", !.t = t]
  /\ KeepRows /\ KeepArming
  /\ UNCHANGED <<exchangeVars, intents, verdict, rec, recovery, posts, crashes>>

\* Mutant: the other nonterminal records are not looked at.
MaySubmitBeside(t) == armed /\ Unresolved = {}

MaySubmit(t) == armed /\ ActiveRows \subseteq {t} /\ Unresolved = {}

\* Refused before any call: process_signal rejects the row when the newest
\* nonterminal record is still SIGNAL_APPROVED.
SubmitRefused ==
  /\ pc = "submit"
  /\ ~MaySubmit(op.t)
  /\ IF op.h = "entry" /\ \E t \in Trades : ActiveTrade(t) /\ rows[t].lc = "SIGNAL_APPROVED"
       THEN SetLifecycle(op.t, "ENTRY_REJECTED")
       ELSE KeepRows
  /\ Finish /\ KeepArming
  /\ UNCHANGED <<exchangeVars, intents, verdict, rec, recovery, posts, crashes>>

\* A price, balance or filter check raises: main disarms, the row stays.
SubmitRaises ==
  /\ pc = "submit"
  /\ MaySubmit(op.t)
  /\ Fault
  /\ IF op.h = "entry" THEN Pause ELSE KeepArming
  /\ Finish /\ KeepRows
  /\ UNCHANGED <<book, wire, btc, bell, intents, verdict, rec, recovery, posts, crashes>>

SubmitPersist ==
  /\ pc = "submit"
  /\ MaySubmit(op.t)
  /\ SetRow(op.t, [NoRow EXCEPT !.lc = "ENTRY_SUBMITTED"])
  /\ Goto("prepare")
  /\ UNCHANGED <<exchangeVars, intents, verdict, op, rec, recovery, posts, crashes>>
  /\ KeepArming

PrepareEntry(i) ==
  /\ pc = "prepare"
  /\ Prepare(i, NewPost("ENTRY", op.t, 0, "list", EntryQty))
  /\ Goto("mark")
  /\ op' = [op EXCEPT !.i = i]
  /\ KeepRows /\ KeepArming
  /\ UNCHANGED <<exchangeVars, verdict, rec, recovery, posts, crashes>>

-----------------------------------------------------------------------------
(***************************************************************************)
(* _submit_once and _resume_existing_prepared_submission, for intent op.i.  *)
(***************************************************************************)
KindOf(i) == CASE intents[i].opn = "ENTRY"          -> "entry"
               [] intents[i].opn = "EMERGENCY_EXIT" -> "emergency"
               [] OTHER                             -> "protection"

PostUnchanged == /\ KeepRows
                 /\ UNCHANGED <<verdict, rec, recovery, crashes>>

\* Mutant: the boundary is crossed before it is durable.
MarkInMemory ==
  /\ pc = "mark"
  /\ Goto("post")
  /\ PostUnchanged /\ KeepArming
  /\ UNCHANGED <<intents, op, exchangeVars, posts>>

\* The may-have-landed boundary is durable before the request leaves.
MarkSubmitting ==
  /\ pc = "mark"
  /\ SetState(op.i, "SUBMITTING")
  /\ Goto("post")
  /\ PostUnchanged /\ KeepArming
  /\ UNCHANGED <<op, exchangeVars, posts>>

Transmit == posts' = [posts EXCEPT ![op.i] = @ + 1]

PostAccepted ==
  /\ pc = "post"
  /\ Acceptable(op.i, KindOf(op.i), intents[op.i].qty)
  /\ Accept(op.i, KindOf(op.i), intents[op.i].qty)
  /\ Transmit
  /\ Goto("confirm")
  /\ PostUnchanged /\ KeepArming
  /\ UNCHANGED <<op, wire, bell, faults, intents>>

\* A definite reject, by the balance or by any other exchange rule.
PostRejected ==
  /\ pc = "post"
  /\ \/ ~Acceptable(op.i, KindOf(op.i), intents[op.i].qty) /\ NoFault
     \/ Fault
  /\ Transmit
  /\ SetState(op.i, "DEFINITE_REJECT")
  /\ Goto("rejected")
  /\ PostUnchanged /\ KeepArming
  /\ UNCHANGED <<op, book, wire, btc, bell>>

\* Mutant: a POST that timed out is sent again.
PostRetried ==
  /\ pc = "post"
  /\ Fault
  /\ wire' = wire \cup {[t |-> "post", id |-> op.i, kind |-> KindOf(op.i),
                         qty |-> intents[op.i].qty]}
  /\ Transmit
  /\ PostUnchanged /\ KeepArming
  /\ UNCHANGED <<pc, op, book, btc, bell, intents>>

\* Timeout or broken connection: the request may still land, or never.
PostUnanswered ==
  /\ pc = "post"
  /\ Fault
  /\ wire' = wire \cup {[t |-> "post", id |-> op.i, kind |-> KindOf(op.i),
                         qty |-> intents[op.i].qty]}
  /\ Transmit
  /\ Goto("lookup")
  /\ PostUnchanged /\ KeepArming
  /\ UNCHANGED <<op, book, btc, bell, intents>>

LookupFound ==
  /\ pc = "lookup"
  /\ Exists(op.i)
  /\ Goto("confirm")
  /\ op' = [op EXCEPT !.got = TRUE]
  /\ PostUnchanged /\ KeepArming
  /\ UNCHANGED <<exchangeVars, intents, posts>>

\* Not found, or the GET failed: only _submit_once pauses.
LookupMissing ==
  /\ pc = "lookup"
  /\ \/ ~Exists(op.i) /\ NoFault
     \/ Fault
  /\ SetState(op.i, "AMBIGUOUS")
  /\ IF op.h = "child" THEN KeepArming ELSE Pause
  /\ Goto("ambiguous")
  /\ PostUnchanged
  /\ UNCHANGED <<op, book, wire, btc, bell, posts>>

ConfirmIntent ==
  /\ pc = "confirm"
  /\ SetState(op.i, "CONFIRMED")
  /\ Goto("bind")
  /\ PostUnchanged /\ KeepArming
  /\ UNCHANGED <<op, exchangeVars, posts>>

\* _bind_confirmed_intent: the identifiers, then the reports that came with the
\* response, then those that the user stream recorded before it knew the row.
\* The response to an entry may report an immediate fill; a GET by client ID
\* reports the status of a single order and none for the legs of a list.
BoundRow(n, r, i) ==
  CASE n.opn = "ENTRY" -> [r EXCEPT !.lc = "ENTRY_SUBMITTED", !.ent = i, !.obj = i]
    [] n.opn \in {"PROTECTION", "PARTIAL_FILL_PROTECTION"} ->
         [r EXCEPT !.lc = "PROTECTION_ACTIVE", !.obj = i, !.prot = n.qty]
    [] OTHER -> r

Reported(n, r) ==
  CASE n.opn = "EMERGENCY_EXIT"           -> {r}
    [] n.ep = "order" /\ op.got           -> {ApplyAll(r)}
    [] n.ep = "list" /\ op.h = "found"    -> {r, ApplyAll(r)}
    [] n.opn = "ENTRY" /\ ~op.got         -> {r, ApplyBuy(r)}
    [] OTHER                              -> {r}

BindIntent ==
  LET n == intents[op.i]
  IN
  /\ pc = "bind"
  /\ \E r \in Reported(n, BoundRow(n, rows[n.trade], op.i)) : SetRow(n.trade, r)
  /\ Goto("posted")
  /\ KeepArming
  /\ UNCHANGED <<exchangeVars, intents, verdict, op, rec, recovery, posts, crashes>>

\* Mutant: an unknown outcome is recorded as a reject.
EntryDoneCloses ==
  /\ op.h \in {"entry", "manual"}
  /\ \/ pc = "posted" /\ KeepRows
     \/ pc \in {"rejected", "ambiguous"} /\ SetLifecycle(op.t, "ENTRY_REJECTED")
  /\ Finish /\ KeepArming
  /\ UNCHANGED <<exchangeVars, intents, verdict, rec, recovery, posts, crashes>>

\* submit's three outcomes
EntryDone ==
  /\ op.h \in {"entry", "manual"}
  /\ \/ pc = "posted" /\ KeepRows
     \/ pc = "rejected" /\ SetLifecycle(op.t, "ENTRY_REJECTED")
     \/ pc = "ambiguous" /\ SetLifecycle(op.t, "AMBIGUOUS")
  /\ Finish /\ KeepArming
  /\ UNCHANGED <<exchangeVars, intents, verdict, rec, recovery, posts, crashes>>

-----------------------------------------------------------------------------
(***************************************************************************)
(* _cancel_protection and _cancel_entry_list: cancel order op.x under the   *)
(* operation op.c.                                                          *)
(***************************************************************************)
CancelUnchanged == /\ KeepRows /\ KeepArming
                   /\ UNCHANGED <<verdict, rec, recovery, posts, crashes>>

CancelWithoutTarget ==
  /\ pc = "cancel" /\ op.x = 0
  /\ Goto(IF op.c = "CANCEL_PROTECTION" THEN "cancelFailed" ELSE "canceled")
  /\ CancelUnchanged
  /\ UNCHANGED <<exchangeVars, intents, op>>

\* The seed was used before: only a CONFIRMED cancel lets the caller go on, and
\* _cancel_protection proves the terminal state again by GET.
CancelAlreadyPrepared ==
  /\ pc = "cancel" /\ op.x # 0
  /\ \E j \in PriorCancel(op.c, op.t, op.x) :
       \/ /\ intents[j].st = "CONFIRMED"
          /\ op.c = "CANCEL_PROTECTION" => book[op.x].ph = "done"
          /\ NoFault /\ Goto("canceled")
       \/ /\ intents[j].st # "CONFIRMED"
          /\ NoFault /\ Goto("cancelFailed")
       \/ /\ intents[j].st = "CONFIRMED" /\ op.c = "CANCEL_PROTECTION"
          /\ Fault /\ Goto("cancelFailed")
  /\ CancelUnchanged
  /\ UNCHANGED <<book, wire, btc, bell, intents, op>>

CancelPrepare(i) ==
  /\ pc = "cancel" /\ op.x # 0
  /\ PriorCancel(op.c, op.t, op.x) = {}
  /\ Prepare(i, [NoIntent EXCEPT !.opn = op.c, !.trade = op.t, !.obj = op.x, !.st = "PREPARED"])
  /\ op' = [op EXCEPT !.i = i]
  /\ Goto("cmark")
  /\ CancelUnchanged
  /\ UNCHANGED exchangeVars

\* The bound on intents is spent: as a failing SQLite commit, nothing is sent.
CancelOutOfRoom ==
  /\ pc = "cancel" /\ op.x # 0
  /\ PriorCancel(op.c, op.t, op.x) = {}
  /\ ~Room
  /\ Goto("cancelFailed")
  /\ CancelUnchanged
  /\ UNCHANGED <<exchangeVars, intents, op>>

CancelMark ==
  /\ pc = "cmark"
  /\ SetState(op.i, "SUBMITTING")
  /\ Goto("delete")
  /\ CancelUnchanged
  /\ UNCHANGED <<exchangeVars, op>>

DeleteAccepted ==
  /\ pc = "delete"
  /\ Live(op.x)
  /\ Terminate(op.x)
  /\ Goto("cconfirm")
  /\ CancelUnchanged
  /\ UNCHANGED <<wire, faults, intents, op>>

\* Mutant: the caller goes on although the DELETE was not answered.
DeleteTrusted ==
  /\ pc = "delete"
  /\ \/ ~Live(op.x) /\ NoFault /\ UNCHANGED wire
     \/ Fault /\ wire' = wire \cup {[t |-> "delete", id |-> op.x, kind |-> "entry", qty |-> 0]}
  /\ SetState(op.i, "AMBIGUOUS")
  /\ Goto("canceled")
  /\ CancelUnchanged
  /\ UNCHANGED <<book, btc, bell, op>>

\* Every exception is ambiguous here: the order is gone, or the call timed out.
DeleteFails ==
  /\ pc = "delete"
  /\ \/ ~Live(op.x) /\ NoFault /\ UNCHANGED wire
     \/ Fault /\ wire' = wire \cup {[t |-> "delete", id |-> op.x, kind |-> "entry", qty |-> 0]}
  /\ SetState(op.i, "AMBIGUOUS")
  /\ Goto("cancelFailed")
  /\ CancelUnchanged
  /\ UNCHANGED <<book, btc, bell, op>>

CancelConfirm ==
  /\ pc = "cconfirm"
  /\ SetState(op.i, "CONFIRMED")
  /\ Goto("canceled")
  /\ CancelUnchanged
  /\ UNCHANGED <<exchangeVars, op>>

-----------------------------------------------------------------------------
(***************************************************************************)
(* convert and _auto_convert: plan, cancel, replace.                        *)
(***************************************************************************)
ConvertBegin(h, t, i, ep) ==
  /\ h \in Commands
  /\ pc = "idle"
  /\ ActiveTrade(t)
  /\ Unresolved = {}
  /\ rows[t].lc = "PROTECTION_ACTIVE"
  /\ h = "auto" => verdict = "RECONCILED"
  /\ LargerOf(rows[t].prot, 0) > 0
  /\ ep \in Endpoints
  /\ Prepare(i, [NoIntent EXCEPT !.opn = "REPLACE_PROTECTION", !.trade = t, !.ep = ep,
                                 !.qty = rows[t].prot, !.st = "PREPARED"])
  /\ Disarm
  /\ Goto("cancel")
  /\ op' = [NoOp EXCEPT !.h = h, !.t = t, !.x = rows[t].obj, !.plan = i, !.q = rows[t].prot]
  /\ rec' = [NoRec EXCEPT !.was = h = "auto" /\ armed]
  /\ KeepRows
  /\ UNCHANGED <<exchangeVars, verdict, recovery, posts, crashes>>

ReplaceUnchanged == /\ KeepArming
                    /\ UNCHANGED <<verdict, recovery, posts, crashes>>

\* The plan stays PREPARED: the caller returns, or raises out of convert.
ConvertStops ==
  /\ op.h \in {"convert", "auto"}
  /\ \/ pc = "cancelFailed" /\ NoFault
     \/ pc = "free" /\ Fault
     \/ pc = "free" /\ NoFault /\ \/ btc.free <= 0 /\ BtcTotal > 0
                                  \/ btc.free > 0 /\ ~Room
  /\ Finish /\ rec' = NoRec
  /\ KeepRows /\ ReplaceUnchanged
  /\ UNCHANGED <<book, wire, btc, bell, intents>>

ConvertCanceled ==
  /\ op.h \in {"convert", "auto"} /\ pc = "canceled"
  /\ Goto("free")
  /\ KeepRows /\ ReplaceUnchanged
  /\ UNCHANGED <<exchangeVars, intents, op, rec>>

\* convert and _resume_prepared_replacement: the child intent closes its plan.
PrepareReplacement(i) ==
  /\ pc = "free"
  /\ btc.free > 0
  /\ Prepare(i, NewPost("PROTECTION", op.t, op.plan, intents[op.plan].ep,
                        SmallerOf(btc.free, op.q)))
  /\ op' = [op EXCEPT !.i = i]
  /\ Goto("mark")
  /\ KeepRows /\ ReplaceUnchanged
  /\ UNCHANGED <<exchangeVars, rec>>

\* No BTC is left, free or locked: the position exited under the cancel.
ReplaceFoundFlat ==
  /\ pc = "free"
  /\ btc.free <= 0 /\ BtcTotal <= 0
  /\ SetState(op.plan, "ABORTED")
  /\ Goto("exitRow")
  /\ KeepRows /\ ReplaceUnchanged
  /\ UNCHANGED <<exchangeVars, op, rec>>

\* A successful automatic conversion reconciles before it resumes entries.
ConvertReturns(ok) ==
  IF op.h = "auto" /\ ok
    THEN BeginReconcile("auto", rec.was)
    ELSE Finish /\ rec' = NoRec

ConvertExited ==
  /\ op.h \in {"convert", "auto"} /\ pc = "exitRow"
  /\ SetLifecycle(op.t, "EXIT_FILLED")
  /\ ConvertReturns(TRUE)
  /\ ReplaceUnchanged
  /\ UNCHANGED <<exchangeVars, intents>>

ConvertDone ==
  /\ op.h \in {"convert", "auto"}
  /\ \/ pc = "posted" /\ SetLifecycle(op.t, "PROTECTION_ACTIVE") /\ ConvertReturns(TRUE)
     \/ /\ pc \in {"rejected", "ambiguous"}
        /\ SetLifecycle(op.t, "AMBIGUOUS") /\ ConvertReturns(FALSE)
  /\ ReplaceUnchanged
  /\ UNCHANGED <<exchangeVars, intents>>

-----------------------------------------------------------------------------
(***************************************************************************)
(* emergency_exit: the quantities come from the row read before the cancel. *)
(***************************************************************************)
EmergencyBegin(t) ==
  /\ "emergency" \in Commands
  /\ pc = "idle"
  /\ ActiveTrade(t)
  /\ Pause
  /\ Goto("cancel")
  /\ op' = [NoOp EXCEPT !.h = "emergency", !.t = t, !.x = rows[t].obj,
                        !.q = LargerOf(rows[t].filled, rows[t].prot)]
  /\ KeepRows
  /\ UNCHANGED <<exchangeVars, intents, verdict, rec, recovery, posts, crashes>>

EmergencyUnchanged == /\ KeepArming
                      /\ UNCHANGED <<verdict, rec, recovery, posts, crashes>>

EmergencyStops ==
  /\ op.h = "emergency"
  /\ \/ pc \in {"cancelFailed", "rejected", "ambiguous"} /\ NoFault
     \/ pc = "canceled" /\ (SmallerOf(btc.free, op.q) <= 0 \/ ~Room) /\ NoFault
     \/ pc \in {"canceled", "posted"} /\ Fault
  /\ Finish
  /\ KeepRows /\ EmergencyUnchanged
  /\ UNCHANGED <<book, wire, btc, bell, intents>>

EmergencySell(i) ==
  /\ op.h = "emergency" /\ pc = "canceled"
  /\ SmallerOf(btc.free, op.q) > 0
  /\ Prepare(i, NewPost("EMERGENCY_EXIT", op.t, 0, "order", SmallerOf(btc.free, op.q)))
  /\ op' = [op EXCEPT !.i = i, !.free = btc.free]
  /\ Goto("mark")
  /\ KeepRows /\ EmergencyUnchanged
  /\ UNCHANGED exchangeVars

\* The IOC and the free balance are read back before the row may exit.
EmergencyVerify ==
  /\ op.h = "emergency" /\ pc = "posted"
  /\ IF /\ op.q - book[op.i].sold < 1
        /\ (op.free - btc.free) + 1 >= book[op.i].sold
       THEN SetLifecycle(op.t, "EXIT_FILLED")
       ELSE KeepRows
  /\ Finish /\ EmergencyUnchanged
  /\ UNCHANGED <<exchangeVars, intents>>

-----------------------------------------------------------------------------
(***************************************************************************)
(* tick, _expire_stale_entry and _place_partial_protection.  Both recovery  *)
(* routines also run inside verified_reconcile.                             *)
(***************************************************************************)
InReconcile == rec.ret # "none"

RecoveryUnchanged == UNCHANGED <<verdict, posts, crashes>>

EntryWindowExpires(t) ==
  /\ "stale" \in Commands
  /\ rows[t].lc = "ENTRY_SUBMITTED" /\ ~rows[t].stale
  /\ rows' = [rows EXCEPT ![t].stale = TRUE]
  /\ KeepArming
  /\ UNCHANGED <<exchangeVars, intents, latest, verdict, pc, op, rec, recovery, posts, crashes>>

\* Mutant: nothing expires while the guard is paused.
StaleRowsUnpaused == {t \in ActiveRows : rows[t].lc = "ENTRY_SUBMITTED" /\ rows[t].stale /\ ~paused}

StaleRows == {t \in ActiveRows : rows[t].lc = "ENTRY_SUBMITTED" /\ rows[t].stale}

\* Mutant: only the symbols that the stream reported are candidates.
PartialCandidateInMemory == recovery

PartialCandidate ==
  recovery \/ \E t \in ActiveRows : rows[t].lc = "ENTRY_PARTIALLY_FILLED"

TickBegin ==
  /\ pc = "idle"
  /\ \/ /\ Goto("stale")
        /\ \E t \in StaleRows : op' = [NoOp EXCEPT !.h = "stale", !.t = t]
     \/ /\ StaleRows = {} /\ PartialCandidate
        /\ Goto("partial") /\ op' = [NoOp EXCEPT !.h = "partial"]
  /\ KeepRows /\ KeepArming /\ RecoveryUnchanged
  /\ UNCHANGED <<exchangeVars, intents, rec, recovery>>

\* After the stale rows of a tick come its partial-fill candidates.
TickPartial ==
  /\ pc = "tick"
  /\ IF PartialCandidate
       THEN Goto("partial") /\ op' = [NoOp EXCEPT !.h = "partial"]
       ELSE Finish
  /\ KeepRows /\ KeepArming /\ RecoveryUnchanged
  /\ UNCHANGED <<exchangeVars, intents, rec, recovery>>

\* What a routine's (ok, detail) does to its caller.
StaleReturns(ok) ==
  /\ op' = NoOp
  /\ IF InReconcile
       THEN Goto("recPartial") /\ rec' = [rec EXCEPT !.ok = @ /\ ok]
       ELSE Goto("tick") /\ UNCHANGED rec

PartialReturns(ok) ==
  IF op.h = "stale" THEN StaleReturns(ok)
  ELSE /\ op' = NoOp
       /\ IF InReconcile
            THEN Goto("verdict") /\ rec' = [rec EXCEPT !.ok = @ /\ ok]
            ELSE Goto("idle") /\ UNCHANGED rec

\* tick pauses when a stale entry could not be resolved; a partial fill is only audited.
ReturnArming(ok) ==
  IF op.h = "stale" /\ ~ok /\ ~InReconcile THEN Pause ELSE KeepArming

\* Only the caller's own success takes the symbol out of partial_recovery.
ReturnRecovery(ok) ==
  recovery' = (recovery /\ ~(ok /\ op.h # "stale"))

\* Identity mismatch, failed lookup, or a cancel without a proven outcome.
StaleFails ==
  /\ op.h = "stale"
  /\ \/ pc = "stale" /\ rows[op.t].ent = 0 /\ NoFault
     \/ pc = "cancelFailed" /\ op.c = "CANCEL_STALE_ENTRY" /\ NoFault
     \/ pc \in {"stale", "staleTerminal"} /\ Fault
  /\ StaleReturns(FALSE) /\ ReturnArming(FALSE)
  /\ KeepRows /\ RecoveryUnchanged
  /\ UNCHANGED <<book, wire, btc, bell, intents, recovery>>

\* The working BUY is still open: record its report and cancel the list.
StaleCancels ==
  /\ pc = "stale" /\ rows[op.t].ent # 0 /\ ~BuyTerminal(rows[op.t].ent)
  /\ SetRow(op.t, ApplyBuy(rows[op.t]))
  /\ Goto("cancel")
  /\ op' = [op EXCEPT !.x = rows[op.t].obj, !.c = "CANCEL_STALE_ENTRY"]
  /\ KeepArming /\ RecoveryUnchanged
  /\ UNCHANGED <<exchangeVars, intents, rec, recovery>>

StaleCanceled ==
  /\ op.h = "stale" /\ op.c = "CANCEL_STALE_ENTRY" /\ pc = "canceled"
  /\ Goto("staleTerminal")
  /\ KeepRows /\ KeepArming /\ RecoveryUnchanged
  /\ UNCHANGED <<exchangeVars, intents, op, rec, recovery>>

\* The BUY is terminal, at once or by the cancel (ConfirmedCancelTerminal): a fill goes
\* to partial-fill protection, none ends the trade.
StaleTerminal ==
  /\ pc \in {"stale", "staleTerminal"} /\ rows[op.t].ent # 0
  /\ BuyTerminal(rows[op.t].ent)
  /\ IF book[rows[op.t].ent].bought > 0
       THEN /\ SetRow(op.t, ApplyBuy(rows[op.t]))
            /\ recovery' = TRUE /\ Pause
            /\ Goto("partial") /\ UNCHANGED <<op, rec>>
       ELSE /\ SetRow(op.t, [ApplyBuy(rows[op.t]) EXCEPT !.lc = "ENTRY_REJECTED"])
            /\ StaleReturns(TRUE) /\ KeepArming /\ UNCHANGED recovery
  /\ RecoveryUnchanged
  /\ UNCHANGED <<exchangeVars, intents>>

-----------------------------------------------------------------------------
ListOpen(r) == r.obj # 0 /\ Live(r.obj) /\ intents[r.obj].ep = "list"

PartialReturn(ok) ==
  PartialReturns(ok) /\ ReturnArming(ok) /\ ReturnRecovery(ok) /\ RecoveryUnchanged

\* No record, unbound entry, failed lookup, cancel or POST.
PartialFails ==
  /\ \/ /\ pc = "partial" /\ NoFault
        /\ ActiveRows = {} \/ \E t \in Trades : ActiveTrade(t) /\ rows[t].ent = 0
     \/ pc \in {"partial", "partialTerminal", "partialPlace"} /\ Fault
     \/ pc = "cancelFailed" /\ op.c = "CANCEL_PARTIAL_ENTRY" /\ NoFault
     \/ pc \in {"rejected", "ambiguous"} /\ op.h \in {"partial", "stale"} /\ NoFault
     \/ /\ pc = "partialPlace" /\ NoFault
        /\ SmallerOf(btc.free, rows[op.t].filled) <= 0 \/ ~Room
  /\ PartialReturn(FALSE)
  /\ KeepRows
  /\ UNCHANGED <<book, wire, btc, bell, intents>>

\* The working BUY, looked up, of the record that active_trade_for_symbol returns.
PartialLookup(t) == pc = "partial" /\ ActiveTrade(t) /\ rows[t].ent # 0

\* FILLED, and its SELL legs are verified open
Completed(t) ==
  LET o == book[rows[t].ent] IN o.bought = o.qty /\ ProtectionOpen(ApplyBuy(rows[t]))

PartialCompletes(t) ==
  /\ PartialLookup(t) /\ Completed(t)
  /\ SetRow(t, [ApplyBuy(rows[t]) EXCEPT !.lc = "PROTECTION_ACTIVE"])
  /\ PartialReturn(TRUE)
  /\ UNCHANGED <<exchangeVars, intents>>

\* NEW is not recoverable; a working BUY whose list is absent is a double-sell race.
PartialRefuses(t) ==
  LET o == book[rows[t].ent]
  IN
  /\ PartialLookup(t)
  /\ o.ph = "working" /\ (o.bought = 0 \/ ~ListOpen(rows[t]))
  /\ SetRow(t, ApplyBuy(rows[t]))
  /\ PartialReturn(FALSE)
  /\ UNCHANGED <<exchangeVars, intents>>

PartialCancels(t) ==
  LET o == book[rows[t].ent]
  IN
  /\ PartialLookup(t) /\ ~Completed(t)
  /\ o.ph = "working" => o.bought > 0
  /\ ListOpen(rows[t])
  /\ SetRow(t, ApplyBuy(rows[t]))
  /\ Goto("cancel")
  /\ op' = [op EXCEPT !.t = t, !.x = rows[t].obj, !.c = "CANCEL_PARTIAL_ENTRY"]
  /\ KeepArming /\ RecoveryUnchanged
  /\ UNCHANGED <<exchangeVars, intents, rec, recovery>>

\* Mutant: the working BUY is not cancelled first.
PartialProceedsBeside(t) ==
  /\ PartialLookup(t) /\ ~Completed(t)
  /\ SetRow(t, ApplyBuy(rows[t]))
  /\ Goto("partialPlace")
  /\ op' = [op EXCEPT !.t = t]
  /\ KeepArming /\ RecoveryUnchanged
  /\ UNCHANGED <<exchangeVars, intents, rec, recovery>>

PartialProceeds(t) ==
  /\ PartialLookup(t) /\ ~Completed(t)
  /\ BuyTerminal(rows[t].ent) /\ ~ListOpen(rows[t])
  /\ SetRow(t, ApplyBuy(rows[t]))
  /\ Goto("partialPlace")
  /\ op' = [op EXCEPT !.t = t]
  /\ KeepArming /\ RecoveryUnchanged
  /\ UNCHANGED <<exchangeVars, intents, rec, recovery>>

PartialCanceled ==
  /\ pc = "canceled" /\ op.c = "CANCEL_PARTIAL_ENTRY"
  /\ Goto("partialTerminal")
  /\ KeepRows /\ KeepArming /\ RecoveryUnchanged
  /\ UNCHANGED <<exchangeVars, intents, op, rec, recovery>>

\* The final cumulative fill is read again after the cancel.
PartialTerminal ==
  /\ pc = "partialTerminal"
  /\ IF BuyTerminal(rows[op.t].ent)
       THEN /\ SetRow(op.t, ApplyBuy(rows[op.t]))
            /\ Goto("partialPlace")
            /\ KeepArming /\ UNCHANGED <<op, rec, recovery>> /\ RecoveryUnchanged
       ELSE KeepRows /\ PartialReturn(FALSE)
  /\ UNCHANGED <<exchangeVars, intents>>

PartialPlace(i, ep) ==
  /\ pc = "partialPlace"
  /\ ep \in Endpoints
  /\ SmallerOf(btc.free, rows[op.t].filled) > 0
  /\ Prepare(i, NewPost("PARTIAL_FILL_PROTECTION", op.t, 0, ep,
                        SmallerOf(btc.free, rows[op.t].filled)))
  /\ op' = [op EXCEPT !.i = i]
  /\ Goto("mark")
  /\ KeepRows /\ KeepArming /\ RecoveryUnchanged
  /\ UNCHANGED <<exchangeVars, rec, recovery>>

PartialDone ==
  /\ op.h \in {"partial", "stale"} /\ pc = "posted"
  /\ PartialReturn(TRUE)
  /\ KeepRows
  /\ UNCHANGED <<exchangeVars, intents>>

-----------------------------------------------------------------------------
(***************************************************************************)
(* verified_reconcile.                                                      *)
(***************************************************************************)
ReconcileUnchanged == UNCHANGED <<posts, crashes>>

ReconcileCommand ==
  /\ pc = "idle"
  /\ BeginReconcile("command", FALSE)
  /\ KeepRows /\ KeepArming /\ ReconcileUnchanged
  /\ UNCHANGED <<exchangeVars, intents, verdict, recovery>>

\* set_enabled(True): entries are armed after a reconciliation, outside the lock.
ArmCommand ==
  /\ pc = "idle" /\ ~paused /\ ~armed
  /\ BeginReconcile("arm", FALSE)
  /\ KeepRows /\ KeepArming /\ ReconcileUnchanged
  /\ UNCHANGED <<exchangeVars, intents, verdict, recovery>>

ArmFinish ==
  /\ pc = "arming"
  /\ armed' = (Unresolved = {})
  /\ Finish
  /\ KeepRows /\ ReconcileUnchanged
  /\ UNCHANGED <<exchangeVars, intents, verdict, paused, rec, recovery>>

\* BitcoinSpotAdapter.start
Start ==
  /\ pc = "down"
  /\ BeginReconcile("start", FALSE)
  /\ armed' = FALSE /\ UNCHANGED paused
  /\ KeepRows /\ ReconcileUnchanged
  /\ UNCHANGED <<exchangeVars, intents, verdict, recovery>>

\* One unresolved intent of _resolve_operation_intents, in order of creation.
Resolving(i) == pc = "resolve" /\ i \in rec.todo /\ \A j \in rec.todo : i <= j

Resolved(i) == Goto("resolve") /\ op' = NoOp /\ rec' = [rec EXCEPT !.todo = @ \ {i}]

ResolveUnchanged == /\ KeepArming /\ ReconcileUnchanged
                    /\ UNCHANGED <<verdict, recovery>>

IsCancel(i) == intents[i].opn \in CancelOps
IsChild(i)  == intents[i].opn = "PROTECTION" /\ intents[i].parent # 0

\* A plan is left to the second pass; a failed or unproven GET leaves the intent.
ResolveSkips(i) ==
  /\ Resolving(i)
  /\ \/ intents[i].st = "PREPARED" /\ intents[i].opn = "REPLACE_PROTECTION" /\ NoFault
     \/ intents[i].st # "PREPARED" /\ IsCancel(i) /\ Live(intents[i].obj) /\ NoFault
     \/ intents[i].st # "PREPARED" /\ ~IsCancel(i) /\ ~Exists(i) /\ NoFault
     \/ (intents[i].st = "PREPARED" => IsChild(i)) /\ Fault
  /\ Resolved(i)
  /\ KeepRows /\ ResolveUnchanged
  /\ UNCHANGED <<book, wire, btc, bell, intents>>

\* Mutant: a child that was left in any unresolved state is POSTed.
ResolveChildAgain(i) ==
  /\ Resolving(i)
  /\ IsChild(i)
  /\ Goto("mark")
  /\ op' = [NoOp EXCEPT !.h = "child", !.t = intents[i].trade, !.i = i]
  /\ KeepRows /\ ResolveUnchanged
  /\ UNCHANGED <<exchangeVars, intents, rec>>

\* A PREPARED child of a plan was never POSTed: POST it now, once.
ResolveChild(i) ==
  /\ Resolving(i)
  /\ intents[i].st = "PREPARED" /\ IsChild(i)
  /\ Goto("mark")
  /\ op' = [NoOp EXCEPT !.h = "child", !.t = intents[i].trade, !.i = i]
  /\ KeepRows /\ ResolveUnchanged
  /\ UNCHANGED <<exchangeVars, intents, rec>>

\* Any other PREPARED intent proves that its request never left.
ResolvePrepared(i) ==
  /\ Resolving(i)
  /\ intents[i].st = "PREPARED" /\ ~IsChild(i) /\ intents[i].opn # "REPLACE_PROTECTION"
  /\ SetState(i, "ABORTED")
  /\ IF intents[i].opn = "ENTRY"
       THEN /\ Goto("abortRow") /\ op' = [NoOp EXCEPT !.i = i, !.t = intents[i].trade]
            /\ UNCHANGED rec
       ELSE Resolved(i)
  /\ KeepRows /\ ResolveUnchanged
  /\ UNCHANGED exchangeVars

ResolveAbortedEntry ==
  /\ pc = "abortRow"
  /\ SetLifecycle(op.t, "ENTRY_REJECTED")
  /\ Resolved(op.i)
  /\ ResolveUnchanged
  /\ UNCHANGED <<exchangeVars, intents>>

\* Mutant: any answer to the GET confirms the cancel.
ResolveCancelUnproven(i) ==
  /\ Resolving(i)
  /\ intents[i].st # "PREPARED" /\ IsCancel(i)
  /\ SetState(i, "CONFIRMED")
  /\ Resolved(i)
  /\ KeepRows /\ ResolveUnchanged
  /\ UNCHANGED exchangeVars

\* A cancel is confirmed only when GET shows its target terminal.
ResolveCancel(i) ==
  /\ Resolving(i)
  /\ intents[i].st # "PREPARED" /\ IsCancel(i)
  /\ ~Live(intents[i].obj)
  /\ SetState(i, "CONFIRMED")
  /\ Resolved(i)
  /\ KeepRows /\ ResolveUnchanged
  /\ UNCHANGED exchangeVars

\* A POST is confirmed only when GET by its client ID finds the order.
ResolveFound(i) ==
  /\ Resolving(i)
  /\ intents[i].st # "PREPARED" /\ ~IsCancel(i)
  /\ Exists(i)
  /\ SetState(i, "CONFIRMED")
  /\ Goto("bind")
  /\ op' = [NoOp EXCEPT !.h = "found", !.t = intents[i].trade, !.i = i, !.got = TRUE]
  /\ KeepRows /\ ResolveUnchanged
  /\ UNCHANGED <<exchangeVars, rec>>

ResolveDone ==
  /\ \/ op.h = "child" /\ pc = "posted" /\ SetLifecycle(op.t, "PROTECTION_ACTIVE")
     \/ op.h = "child" /\ pc \in {"rejected", "ambiguous"} /\ KeepRows
     \/ op.h = "found" /\ pc = "posted" /\ KeepRows
  /\ Resolved(op.i)
  /\ ResolveUnchanged
  /\ UNCHANGED <<exchangeVars, intents>>

ResolveEnds ==
  /\ pc = "resolve" /\ rec.todo = {}
  /\ Goto("plans")
  /\ rec' = [rec EXCEPT !.todo = {i \in Ids : /\ intents[i].opn = "REPLACE_PROTECTION"
                                              /\ intents[i].st = "PREPARED"}]
  /\ KeepRows /\ ResolveUnchanged
  /\ UNCHANGED <<exchangeVars, intents, op>>

-----------------------------------------------------------------------------
(***************************************************************************)
(* _resume_prepared_replacement, for each plan still PREPARED.  Its branch  *)
(* for existing children is not here: ChildClosesPlan shows that none can   *)
(* exist while the plan is PREPARED.                                        *)
(***************************************************************************)
Resuming(p) == pc = "plans" /\ p \in rec.todo /\ \A j \in rec.todo : p <= j

PlanLeaves(p) == Goto("plans") /\ op' = NoOp /\ rec' = [rec EXCEPT !.todo = @ \ {p}]

ProtectionCancels(t) ==
  {j \in Ids : intents[j].opn = "CANCEL_PROTECTION" /\ intents[j].trade = t}

\* The cancel that the code pairs with a plan: the newest one of the trade.
IsLastCancel(j, t) ==
  j \in ProtectionCancels(t) /\ \A k \in ProtectionCancels(t) : k <= j

PlanWithoutCancel(p) ==
  /\ Resuming(p)
  /\ ProtectionCancels(intents[p].trade) = {}
  /\ SetState(p, "ABORTED")
  /\ PlanLeaves(p)
  /\ KeepRows /\ ResolveUnchanged
  /\ UNCHANGED exchangeVars

CancelProven(j) == intents[j].st = "CONFIRMED" /\ ~Live(intents[j].obj)

PlanResumes(p) ==
  /\ Resuming(p)
  /\ \E j \in Ids : IsLastCancel(j, intents[p].trade) /\ CancelProven(j)
  /\ Goto("free")
  /\ op' = [NoOp EXCEPT !.h = "plan", !.t = intents[p].trade, !.plan = p, !.q = intents[p].qty]
  /\ KeepRows /\ ResolveUnchanged
  /\ UNCHANGED <<exchangeVars, intents, rec>>

\* The plan stays: unproven cancel, failed call, or BTC that is still locked.
PlanStays ==
  /\ \/ /\ pc = "plans" /\ NoFault
        /\ \E p \in rec.todo : /\ Resuming(p) /\ PlanLeaves(p)
                               /\ \E j \in Ids : /\ IsLastCancel(j, intents[p].trade)
                                                 /\ ~CancelProven(j)
     \/ /\ pc = "plans" /\ Fault
        /\ \E p \in rec.todo : Resuming(p) /\ PlanLeaves(p)
     \/ /\ op.h = "plan" /\ pc = "free" /\ PlanLeaves(op.plan) /\ NoFault
        /\ \/ btc.free <= 0 /\ BtcTotal > 0
           \/ btc.free > 0 /\ ~Room
     \/ op.h = "plan" /\ pc = "free" /\ PlanLeaves(op.plan) /\ Fault
  /\ KeepRows /\ ResolveUnchanged
  /\ UNCHANGED <<book, wire, btc, bell, intents>>

PlanDone ==
  /\ op.h = "plan"
  /\ \/ pc = "posted" /\ SetLifecycle(op.t, "PROTECTION_ACTIVE")
     \/ pc \in {"rejected", "ambiguous"} /\ KeepRows
     \/ pc = "exitRow" /\ SetLifecycle(op.t, "EXIT_FILLED")
  /\ PlanLeaves(op.plan)
  /\ ResolveUnchanged
  /\ UNCHANGED <<exchangeVars, intents>>

PlansEnd ==
  /\ pc = "plans" /\ rec.todo = {}
  /\ Goto("refresh") /\ op' = NoOp
  /\ KeepRows /\ ResolveUnchanged
  /\ UNCHANGED <<exchangeVars, intents, rec>>

-----------------------------------------------------------------------------
(***************************************************************************)
(* _refresh_durable_exchange_state.  A failed GET only adds a warning.      *)
(***************************************************************************)
Refresh ==
  /\ pc = "refresh"
  /\ \/ /\ rows' = [t \in Trades |-> IF t \in ActiveRows THEN ApplyAll(rows[t]) ELSE rows[t]]
        /\ \/ \E t \in ActiveRows : rows[t].ent # 0 /\ latest' = t
           \/ (\A t \in ActiveRows : rows[t].ent = 0) /\ UNCHANGED latest
        /\ NoFault
     \/ KeepRows /\ Fault
  /\ IF \E t \in Trades : rows'[t].lc = "ENTRY_PARTIALLY_FILLED"
       THEN recovery' = TRUE /\ Pause
       ELSE UNCHANGED recovery /\ KeepArming
  /\ Goto("exits")
  /\ ReconcileUnchanged
  /\ UNCHANGED <<book, wire, btc, bell, intents, verdict, op, rec>>

\* _reconcile_confirmed_emergency_exits: a confirmed IOC ends its trade only when
\* it was for, and sold, all that the row records; otherwise it fails the report.
ConfirmedExits(t) ==
  {j \in Ids : /\ intents[j].opn = "EMERGENCY_EXIT" /\ intents[j].trade = t
               /\ intents[j].st = "CONFIRMED"}

Exited(t) ==
  \E j \in ConfirmedExits(t) :
    /\ \A k \in ConfirmedExits(t) : k <= j
    /\ intents[j].qty = LargerOf(rows[t].filled, rows[t].prot)
    /\ book[j].sold = intents[j].qty

RecoverExits ==
  LET candidates == {t \in ActiveRows : ConfirmedExits(t) # {}}
  IN
  /\ pc = "exits"
  /\ \/ /\ candidates # {} /\ Fault /\ KeepRows
        /\ rec' = [rec EXCEPT !.ok = FALSE]
     \/ /\ NoFault
        /\ rows' = [t \in Trades |-> IF t \in candidates /\ Exited(t)
                                       THEN [rows[t] EXCEPT !.lc = "EXIT_FILLED"]
                                       ELSE rows[t]]
        /\ UNCHANGED latest
        /\ rec' = [rec EXCEPT !.ok = @ /\ \A t \in candidates : Exited(t)]
  /\ Goto("recStale")
  /\ KeepArming /\ ReconcileUnchanged
  /\ UNCHANGED <<book, wire, btc, bell, intents, verdict, op, recovery>>

\* The two recovery routines, when they have a candidate.
ReconcileRecovers ==
  /\ \/ /\ pc = "recStale" /\ Goto("stale")
        /\ \E t \in StaleRows : op' = [NoOp EXCEPT !.h = "stale", !.t = t]
     \/ /\ pc = "recStale" /\ StaleRows = {}
        /\ Goto("recPartial") /\ op' = NoOp
     \/ /\ pc = "recPartial" /\ recovery
        /\ Goto("partial") /\ op' = [NoOp EXCEPT !.h = "partial"]
     \/ /\ pc = "recPartial" /\ ~recovery
        /\ Goto("verdict") /\ op' = NoOp
  /\ KeepRows /\ KeepArming /\ ReconcileUnchanged
  /\ UNCHANGED <<exchangeVars, intents, verdict, rec, recovery>>

(***************************************************************************)
(* _reconciled_ownership.  The open orders and the account are read one     *)
(* after the other; a fill between the two reads is one of the fills that   *)
(* may precede or follow this step.                                         *)
(***************************************************************************)
Bound(t) == {rows[t].ent, rows[t].obj}

OwnedTrade(t) ==
  LET r == rows[t]
  IN
  /\ BtcTotal <= LargerOf(r.filled, r.prot)
  /\ BtcTotal >= r.prot
  /\ r.lc # "ENTRY_PARTIALLY_FILLED"
  /\ r.lc = "ENTRY_SUBMITTED" => BtcTotal <= 0
  /\ r.lc \in {"ENTRY_FILLED", "PROTECTION_ACTIVE"} => ProtectionOpen(r)

\* Mutant: orders that no record names are not looked for.
OwnedByQuantity ==
  /\ \A t, u \in ActiveRows : t = u
  /\ ActiveRows = {} => BtcTotal <= 0
  /\ \A t \in ActiveRows : OwnedTrade(t)

Owned ==
  /\ \A t, u \in ActiveRows : t = u
  /\ \A i \in Ids : Live(i) => \E t \in ActiveRows : i \in Bound(t)
  /\ ActiveRows = {} => BtcTotal <= 0
  /\ \A t \in ActiveRows : OwnedTrade(t)

\* The report, and what its caller does with it.
Verdict ==
  LET ok == rec.ok /\ Unresolved = {} /\ Owned
  IN
  /\ pc = "verdict"
  /\ \E result \in BOOLEAN :
       /\ IF result = ok THEN NoFault ELSE ok /\ Fault
       /\ verdict' = IF result THEN "RECONCILED" ELSE "FAILED"
       /\ pc' = CASE rec.ret = "start" /\ ~result -> "down"
                  [] rec.ret = "arm" /\ result    -> "arming"
                  [] OTHER                        -> "idle"
       /\ paused' = (paused \/ ~result)
       /\ armed' = /\ result
                   /\ armed \/ (rec.ret = "auto" /\ rec.was /\ ~paused)
       /\ recovery' = (recovery /\ pc' # "down")
       /\ bell' = IF pc' = "down" THEN {} ELSE bell
  /\ op' = NoOp /\ rec' = NoRec
  /\ KeepRows /\ ReconcileUnchanged
  /\ UNCHANGED <<book, wire, btc, intents>>

-----------------------------------------------------------------------------
(***************************************************************************)
(* User stream, owner controls and process death.                           *)
(***************************************************************************)
LockFree == pc \in {"idle", "submit", "arming"}

\* _on_order_update / _on_list_update for a bound order: a SELL report, or a BUY
\* report that is complete or carries no fill.
StreamUpdate(t) ==
  /\ LockFree
  /\ rows[t].ent # 0
  /\ \/ SetRow(t, ApplySell(rows[t]))
     \/ /\ book[rows[t].ent].bought \in {0, book[rows[t].ent].qty}
        /\ SetRow(t, ApplyBuy(rows[t]))
  /\ <<rows', latest'>> # <<rows, latest>>
  /\ KeepArming
  /\ UNCHANGED <<exchangeVars, intents, verdict, pc, op, rec, recovery, posts, crashes>>

\* _on_order_update for a BUY report that carries a fill but not completion
StreamPartialFill(i) ==
  /\ LockFree
  /\ i \in bell
  /\ bell' = bell \ {i}
  /\ recovery' = TRUE
  /\ Pause
  /\ IF \E t \in Trades : rows[t].ent = i
       THEN \E t \in Trades : rows[t].ent = i /\ SetRow(t, ApplyBuy(rows[t]))
       ELSE KeepRows
  /\ UNCHANGED <<book, wire, btc, faults, intents, verdict, pc, op, rec, posts, crashes>>

\* _on_resync: the stream was lost, with the reports it had not delivered.
StreamResync ==
  /\ "resync" \in Commands
  /\ LockFree
  /\ Fault
  /\ bell' = {}
  /\ verdict' = "REQUIRED"
  /\ Pause
  /\ KeepRows
  /\ UNCHANGED <<book, wire, btc, intents, pc, op, rec, recovery, posts, crashes>>

ClearRiskPause ==
  /\ "clear" \in Commands
  /\ pc = "idle" /\ paused
  /\ paused' = FALSE
  /\ KeepRows
  /\ UNCHANGED <<exchangeVars, intents, verdict, pc, op, rec, armed, recovery, posts, crashes>>

OwnerPause ==
  /\ pc = "idle" /\ armed
  /\ Disarm
  /\ KeepRows
  /\ UNCHANGED <<exchangeVars, intents, verdict, pc, op, rec, recovery, posts, crashes>>

Crash ==
  /\ pc # "down"
  /\ crashes < MaxCrashes
  /\ crashes' = crashes + 1
  /\ pc' = "down"
  /\ op' = NoOp /\ rec' = NoRec
  /\ armed' = FALSE /\ recovery' = FALSE /\ bell' = {}
  /\ KeepRows
  /\ UNCHANGED <<book, wire, btc, faults, intents, verdict, paused, posts>>

-----------------------------------------------------------------------------
Init ==
  /\ ExchangeInit
  /\ intents = [i \in Ids |-> NoIntent]
  /\ rows = [t \in Trades |-> NoRow]
  /\ latest = 0
  /\ verdict = "REQUIRED"
  /\ paused = FALSE
  /\ pc = "down" /\ op = NoOp /\ rec = NoRec
  /\ armed = FALSE /\ recovery = FALSE
  /\ posts = [i \in Ids |-> 0]
  /\ crashes = 0

Exchange ==
  /\ ExchangeStep
  /\ UNCHANGED <<durableVars, pc, op, rec, armed, recovery, posts, crashes>>

Entry ==
  \/ \E t \in Trades : ProcessSignal(t) \/ ManualEntry(t)
  \/ SubmitRefused \/ SubmitRaises \/ SubmitPersist
  \/ \E i \in Ids : PrepareEntry(i)
  \/ EntryDone

PostProcedure ==
  \/ MarkSubmitting \/ PostAccepted \/ PostRejected \/ PostUnanswered
  \/ LookupFound \/ LookupMissing \/ ConfirmIntent \/ BindIntent

CancelProcedure ==
  \/ CancelWithoutTarget \/ CancelAlreadyPrepared \/ CancelOutOfRoom
  \/ \E i \in Ids : CancelPrepare(i)
  \/ CancelMark \/ DeleteAccepted \/ DeleteFails \/ CancelConfirm

Convert ==
  \/ \E h \in {"convert", "auto"}, t \in Trades, i \in Ids, ep \in Endpoints :
       ConvertBegin(h, t, i, ep)
  \/ ConvertStops \/ ConvertCanceled \/ ReplaceFoundFlat \/ ConvertExited \/ ConvertDone
  \/ \E i \in Ids : PrepareReplacement(i)

Emergency ==
  \/ \E t \in Trades : EmergencyBegin(t)
  \/ EmergencyStops \/ EmergencyVerify
  \/ \E i \in Ids : EmergencySell(i)

Tick ==
  \/ \E t \in Trades : EntryWindowExpires(t)
  \/ TickBegin \/ TickPartial
  \/ StaleFails \/ StaleCancels \/ StaleCanceled \/ StaleTerminal
  \/ \E t \in Trades : \/ PartialCompletes(t) \/ PartialRefuses(t)
                       \/ PartialCancels(t) \/ PartialProceeds(t)
  \/ PartialFails \/ PartialCanceled \/ PartialTerminal \/ PartialDone
  \/ \E i \in Ids, ep \in Endpoints : PartialPlace(i, ep)

Reconcile ==
  \/ ReconcileCommand \/ ArmCommand \/ ArmFinish \/ Start
  \/ \E i \in Ids : \/ ResolveSkips(i) \/ ResolveChild(i) \/ ResolvePrepared(i)
                    \/ ResolveCancel(i) \/ ResolveFound(i)
                    \/ PlanWithoutCancel(i) \/ PlanResumes(i)
  \/ ResolveAbortedEntry \/ ResolveDone \/ ResolveEnds
  \/ PlanStays \/ PlanDone \/ PlansEnd
  \/ Refresh \/ RecoverExits \/ ReconcileRecovers \/ Verdict

Stream ==
  \/ \E t \in Trades : StreamUpdate(t)
  \/ \E i \in Ids : StreamPartialFill(i)
  \/ StreamResync

Owner == ClearRiskPause \/ OwnerPause

Next ==
  \/ Exchange \/ Entry \/ PostProcedure \/ CancelProcedure \/ Convert \/ Emergency
  \/ Tick \/ Reconcile \/ Stream \/ Owner \/ Crash

Spec == Init /\ [][Next]_vars

-----------------------------------------------------------------------------
(***************************************************************************)
(* Safety.                                                                  *)
(***************************************************************************)

\* A durable intent is transmitted at most once, whatever timed out, crashed or was
\* reconciled since (_resolve_operation_intents: "never repeat a POST").
AtMostOncePost == \A i \in Ids : posts[i] <= 1

OnWire(i) == \E m \in wire : m.t = "post" /\ m.id = i

\* An order that exists, or may still come to exist, has an intent that says so:
\* PREPARED, ABORTED and DEFINITE_REJECT prove that there is none (mark_intent_submitting
\* commits before the POST; the PREPARED branch of _resolve_operation_intents aborts).
LandedIsDurable ==
  \A i \in Ids : Exists(i) \/ OnWire(i) =>
    intents[i].st \in {"SUBMITTING", "AMBIGUOUS", "CONFIRMED"}

\* A CONFIRMED cancel is proof that its target is terminal, for ever: replacement,
\* emergency sale and partial-fill protection go ahead on the strength of it.
ConfirmedCancelTerminal ==
  \A j \in Ids : intents[j].opn \in CancelOps /\ intents[j].st = "CONFIRMED" =>
    book[intents[j].obj].ph = "done"

\* Once a replacement child exists its plan is closed (prepare_intent closes the parent in
\* the same transaction), so no restart can derive a second sale from one plan.
ChildClosesPlan ==
  \A i \in Ids : intents[i].parent # 0 => intents[intents[i].parent].st # "PREPARED"

\* The account never has two live orders: no second entry beside an exposure, no SELL
\* beside a working BUY ("a double-sell race"), no two protections of the same BTC, not
\* even when a request lands late.
OneLiveOrder == \A i, j \in Ids : Live(i) /\ Live(j) => i = j

\* A terminal trade record has no live order left on the exchange; active_trade_rows
\* would hide it from reconciliation.
ClosedTradeIsDead ==
  \A t \in Trades, i \in Ids : rows[t].lc \in Terminal /\ intents[i].trade = t => ~Live(i)

\* ENTRY_REJECTED is never recorded of an entry that bought something or may yet do so
\* (submit, ENTRY_TERMINAL_NO_FILL, _expire_stale_entry, the abort at restart).
RejectedNeverFilled ==
  \A t \in Trades, i \in Ids :
    rows[t].lc = "ENTRY_REJECTED" /\ intents[i].opn = "ENTRY" /\ intents[i].trade = t
      => ~OnWire(i) /\ book[i].bought = 0

\* An entry whose outcome is unknown keeps its record nonterminal, which is what blocks
\* the next entry after the intent itself has been resolved.
UncertainNotTerminal ==
  \A i \in Ids : intents[i].opn = "ENTRY" /\ intents[i].st \in {"SUBMITTING", "AMBIGUOUS"}
    => intents[i].trade \in ActiveRows

\* While entries are armed, every live order belongs to an active record that names it:
\* arming requires a reconciliation, and whatever may break ownership disarms.
ArmedOwned ==
  pc = "idle" /\ armed =>
    \A i \in Ids : Live(i) => \E t \in ActiveRows : i \in Bound(t)

\* The table of intents keeps the promise of OperationLedger.tla: outcomes are never
\* rewritten, whatever order of crashes, replies and reconciliations finish_intent meets.
Ledger == INSTANCE OperationLedger
            WITH Intents <- Ids, status <- [i \in Ids |-> intents[i].st], sent <- posts

ImplementsLedger == Ledger!LedgerSpec

-----------------------------------------------------------------------------
(***************************************************************************)
(* What a step may never do.                                                *)
(***************************************************************************)
Prepared(i) == intents[i].st = "NONE" /\ intents'[i].st = "PREPARED"

SellOps == PostOps \ {"ENTRY"}

\* No entry is prepared while an outcome is unknown, an order is live, or a request that
\* timed out may still land (submit's checks).
EntryNeedsCertainty ==
  [][\A i \in Ids : Prepared(i) /\ intents'[i].opn = "ENTRY"
       => Unresolved = {} /\ \A j \in Ids : ~Live(j) /\ ~OnWire(j)]_vars

\* A SELL is prepared only when no order is live: the protection it replaces, and the BUY
\* it protects, are proven terminal first (convert, emergency_exit, _place_partial_protection).
SellReplaces ==
  [][\A i \in Ids : Prepared(i) /\ intents'[i].opn \in SellOps => \A j \in Ids : ~Live(j)]_vars

-----------------------------------------------------------------------------
(***************************************************************************)
(* Liveness.  The main loop calls tick once per cycle, whatever commands    *)
(* and signals the cycle brings; a handler ends because every network call  *)
(* has a timeout; the container restarts a dead process.                    *)
(***************************************************************************)
Handler == Entry \/ PostProcedure \/ CancelProcedure \/ Convert \/ Emergency \/ Tick \/ Reconcile

Proceed == pc # "idle" /\ Handler

FairSpec == Spec /\ WF_vars(Proceed) /\ SF_vars(TickBegin)

\* A partially filled entry does not keep its bare BTC: tick cancels the rest and
\* protects what was bought, unless the entry completes or its position exits first.
PartialFillEnds ==
  \A t \in Trades : rows[t].lc = "ENTRY_PARTIALLY_FILLED" ~> rows[t].lc # "ENTRY_PARTIALLY_FILLED"

\* An entry that outlived MAX_ENTRY_OPEN_SECONDS is resolved by tick.
StaleEntryEnds ==
  \A t \in Trades : rows[t].lc = "ENTRY_SUBMITTED" /\ rows[t].stale ~> rows[t].lc # "ENTRY_SUBMITTED"

-----------------------------------------------------------------------------
(***************************************************************************)
(* What the repository says of the code and the code does not do.  Each is  *)
(* refuted by a run of its own; the README says how.                        *)
(***************************************************************************)

\* "the request is not blindly resent": no sale of a kind is prepared for a trade while
\* the outcome of an earlier one of that kind is unknown.
NoBlindSecondSell ==
  [][\A i, j \in Ids :
       /\ Prepared(i) /\ intents'[i].opn \in SellOps
       /\ intents[j].opn = intents'[i].opn /\ intents[j].trade = intents'[i].trade
       => intents[j].st # "AMBIGUOUS"]_vars

\* "cancels the working entry ... and then protects the executed amount": what
\* CANCEL_PARTIAL_ENTRY cancels is an entry, never a protection.
PartialCancelsEntry ==
  \A j \in Ids : intents[j].opn = "CANCEL_PARTIAL_ENTRY" => intents[intents[j].obj].opn = "ENTRY"

\* "Any unknown exchange outcome must pause entries".
UnknownOutcomePauses ==
  pc = "idle" /\ (\E i \in Ids : intents[i].st = "AMBIGUOUS") => ~armed

\* "Lifecycle rows remain nonterminal for exposure-bearing or uncertain states".
TerminalHoldsNoExposure ==
  (\A t \in Trades : rows[t].lc \in Terminal) => BtcTotal = 0

\* "risk pause cleared; entries remain off".
ClearLeavesEntriesOff == [][paused /\ ~paused' => ~armed']_vars

=============================================================================
