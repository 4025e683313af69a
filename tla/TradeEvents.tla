---------------------------- MODULE TradeEvents ----------------------------
(***************************************************************************)
(* How one trade record of state_store.py follows its orders: reports come  *)
(* late over the user stream, out of order with the answers of GET, before  *)
(* the identifiers they name are bound, or not at all.  Every report is     *)
(* journaled once (exchange_events), applied to the records that name its   *)
(* order, and applied again when the journal is replayed.                   *)
(*                                                                          *)
(* SpotExecution.tla treats a report as the order's status at the moment it *)
(* is applied.  This module keeps the reports and abstracts the intents: it *)
(* follows one entry list and at most one protection of a partial fill.     *)
(* Handlers of the main thread hold adapter.lock; stream callbacks take it  *)
(* too, so a report is delivered only where the lock is free.               *)
(***************************************************************************)
EXTENDS Integers, Sequences

CONSTANTS
  Qty,          \* BTC bought by the entry, in lot steps
  MaxFails,     \* bound: lost answers, failing calls and lost stream backlogs
  MaxCrashes    \* bound: process deaths

ASSUME EventsAssumption ==
  Qty \in Nat \ {0} /\ MaxFails \in Nat /\ MaxCrashes \in Nat

VARIABLES
  orders,       \* the exchange: status and executed (BUY) or requested (SELL) quantity
  stream,       \* user-stream reports not delivered yet
  journal,      \* table exchange_events, in order of id
  row,          \* the trade record
  unresolved,   \* orders whose POST intent is not finished
  recovery,     \* the symbol is in adapter.partial_recovery
  pc, work,     \* the step the main thread is at, and its locals
  lost,         \* history: some stream report was never delivered
  fails, crashes

vars == <<orders, stream, journal, row, unresolved, recovery, pc, work, lost, fails, crashes>>

-----------------------------------------------------------------------------
(***************************************************************************)
(* "exit" stands for the pending SELL legs of the entry list, which become  *)
(* NEW when the BUY is filled; "protection" for the SELL posted for a       *)
(* partial fill.  The legs of one OCO are one SELL.                         *)
(***************************************************************************)
Orders == {"entry", "exit", "protection"}
Sells  == Orders \ {"entry"}
Open   == {"NEW", "PARTIALLY_FILLED"}
Closed == {"FILLED", "CANCELED"}

Report == [ord : Orders, st : Open \cup Closed, n : Nat, src : {"stream", "rest"}]

Lifecycles == {"ENTRY_SUBMITTED", "ENTRY_PARTIALLY_FILLED", "ENTRY_FILLED",
               "PROTECTION_ACTIVE", "EXIT_FILLED", "ENTRY_REJECTED", "AMBIGUOUS"}
Terminal == {"EXIT_FILLED", "ENTRY_REJECTED"}

Rank(lc) == CASE lc = "ENTRY_SUBMITTED" -> 1
              [] lc = "ENTRY_PARTIALLY_FILLED" -> 2
              [] lc = "ENTRY_FILLED" -> 3
              [] lc = "PROTECTION_ACTIVE" -> 5
              [] lc \in Terminal -> 9
              [] lc = "AMBIGUOUS" -> 10

Row == [lc : Lifecycles, filled : Nat, prot : Nat, bound : SUBSET Orders]

\* ord: the order being bound; k: the next journal entry of a replay, which works on a
\* copy r of the record; next: the step after the replay; got: the last BUY a GET returned.
Resume == {"idle", "refresh", "refreshed", "protCheck", "protPlace", "protDone"}

Work == [ord : Orders, k : Nat \ {0}, r : Row, got : Open \cup Closed, next : Resume]

Steps == {"down", "start", "idle", "finish", "bind", "answer", "replay", "refresh",
          "refreshSell", "refreshed", "stale", "staleCancel", "staleAgain", "protGet",
          "protCheck", "protCancel", "protAgain", "protPlace", "protDone"}

(***************************************************************************)
(* The lifecycle a report asks for, or "none", and the record after it.     *)
(***************************************************************************)
Implied(e) ==
  CASE e.ord = "entry" /\ e.st = "PARTIALLY_FILLED"    -> "ENTRY_PARTIALLY_FILLED"
    [] e.ord = "entry" /\ e.st = "FILLED"              -> "ENTRY_FILLED"
    [] e.ord = "entry" /\ e.st = "CANCELED" /\ e.n > 0 -> "ENTRY_PARTIALLY_FILLED"
    [] e.ord = "entry" /\ e.st = "CANCELED" /\ e.n = 0 -> "ENTRY_REJECTED"
    [] e.ord \in Sells /\ e.st \in Open                -> "PROTECTION_ACTIVE"
    [] e.ord \in Sells /\ e.st = "FILLED"              -> "EXIT_FILLED"
    [] OTHER                                           -> "none"

\* Mutant: a report changes the lifecycle whatever rank the record has reached.
AdvancesAlways(old, new) == old \notin Terminal

Advances(old, new) == old \notin Terminal /\ Rank(new) >= Rank(old)

Applied(r, e) ==
  [r EXCEPT !.filled = IF e.ord = "entry" THEN e.n ELSE @,
            !.prot   = IF e.ord \in Sells /\ e.st \in Open THEN e.n ELSE @,
            !.lc     = IF Implied(e) # "none" /\ Advances(@, Implied(e)) THEN Implied(e) ELSE @]

Names(r, e) == e.ord \in r.bound

\* Mutant: the cumulative quantity is left out of the identity of an event.
EventKeyNoQty(e) == <<e.ord, e.st, e.src>>

\* Two reports with one key are one report.
EventKey(e) == <<e.ord, e.st, e.n, e.src>>

Seen(e) == \E k \in 1 .. Len(journal) : EventKey(journal[k]) = EventKey(e)

Record(e) ==
  /\ journal' = IF Seen(e) THEN journal ELSE Append(journal, e)
  /\ row' = IF ~Seen(e) /\ Names(row, e) THEN Applied(row, e) ELSE row

\* What a GET of an order that exists returns.
Got(o) == [ord |-> o, st |-> orders[o].st, n |-> orders[o].n, src |-> "rest"]

Exists(o) == orders[o].st # "NONE"

-----------------------------------------------------------------------------
Init ==
  /\ orders = [o \in Orders |-> [st |-> "NONE", n |-> 0]]
  /\ stream = <<>> /\ journal = <<>>
  /\ row = [lc |-> "ENTRY_SUBMITTED", filled |-> 0, prot |-> 0, bound |-> {}]
  /\ unresolved = {} /\ recovery = FALSE
  /\ pc = "idle"
  /\ work = [ord |-> "entry", k |-> 1, r |-> row, got |-> "NEW", next |-> "idle"]
  /\ lost = FALSE /\ fails = 0 /\ crashes = 0

Fail == fails < MaxFails /\ fails' = fails + 1

(***************************************************************************)
(* The exchange.  What it reports while the process is down is lost.        *)
(***************************************************************************)
Told(o, s, q) == [ord |-> o, st |-> s, n |-> q, src |-> "stream"]

Emit(reports) ==
  IF pc = "down" THEN stream' = stream /\ lost' = TRUE
                 ELSE stream' = stream \o reports /\ lost' = lost

Quiet == UNCHANGED <<journal, row, unresolved, recovery, pc, work, fails, crashes>>

BuyFills ==
  /\ orders["entry"].st \in Open
  /\ LET n == orders["entry"].n + 1 IN
       IF n < Qty
         THEN /\ orders' = [orders EXCEPT !["entry"] = [st |-> "PARTIALLY_FILLED", n |-> n]]
              /\ Emit(<<Told("entry", "PARTIALLY_FILLED", n)>>)
         ELSE /\ orders' = [orders EXCEPT !["entry"] = [st |-> "FILLED", n |-> n],
                                          !["exit"]  = [st |-> "NEW", n |-> Qty]]
              /\ Emit(<<Told("entry", "FILLED", n), Told("exit", "NEW", Qty)>>)
  /\ Quiet

EntryExpires ==
  /\ orders["entry"].st \in Open
  /\ orders' = [orders EXCEPT !["entry"].st = "CANCELED"]
  /\ Emit(<<Told("entry", "CANCELED", orders["entry"].n)>>)
  /\ Quiet

SellFills(o) ==
  /\ o \in Sells /\ orders[o].st = "NEW"
  /\ orders' = [orders EXCEPT ![o].st = "FILLED"]
  /\ Emit(<<Told(o, "FILLED", orders[o].n)>>)
  /\ Quiet

-----------------------------------------------------------------------------
(***************************************************************************)
(* The user stream.  A reconnect skips what was sent while it was away.     *)
(***************************************************************************)
LockFree == pc \in {"idle", "start"}

Deliver ==
  /\ LockFree /\ stream # <<>>
  /\ LET e == Head(stream) IN
       /\ Record(e)
       /\ recovery' = (recovery \/ (e.ord = "entry" /\ e.n > 0 /\ e.st \in {"PARTIALLY_FILLED", "CANCELED"}))
  /\ stream' = Tail(stream)
  /\ UNCHANGED <<orders, unresolved, pc, work, lost, fails, crashes>>

Reconnect ==
  /\ LockFree /\ stream # <<>> /\ Fail
  /\ stream' = <<>> /\ lost' = TRUE
  /\ UNCHANGED <<orders, journal, row, unresolved, recovery, pc, work, crashes>>

Crash ==
  /\ pc # "down" /\ crashes < MaxCrashes
  /\ crashes' = crashes + 1
  /\ pc' = "down" /\ recovery' = FALSE /\ work' = [work EXCEPT !.k = 1, !.next = "idle"]
  /\ stream' = <<>> /\ lost' = (lost \/ stream # <<>>)
  /\ UNCHANGED <<orders, journal, row, unresolved, fails>>

\* start(): the stream is running before the first reconciliation.
Restart ==
  /\ pc = "down" /\ pc' = "start"
  /\ UNCHANGED <<orders, stream, journal, row, unresolved, recovery, work, lost, fails, crashes>>

-----------------------------------------------------------------------------
(***************************************************************************)
(* Binding.  finish_intent, the record's new identifiers, the events in the *)
(* answer of the POST and the replay are separate commits.                  *)
(***************************************************************************)
Post(o, q) ==
  /\ orders' = [orders EXCEPT ![o] = [st |-> "NEW", n |-> q]]
  /\ Emit(<<Told(o, "NEW", q)>>)
  /\ unresolved' = unresolved \cup {o}

\* The submission of the entry; an unanswered one leaves the record AMBIGUOUS.
PostEntry ==
  /\ pc = "idle" /\ ~Exists("entry")
  /\ Post("entry", 0)
  /\ \/ /\ pc' = "finish" /\ work' = [work EXCEPT !.ord = "entry", !.next = "idle"]
        /\ UNCHANGED <<row, fails>>
     \/ /\ Fail /\ row' = [row EXCEPT !.lc = "AMBIGUOUS"] /\ UNCHANGED <<pc, work>>
  /\ UNCHANGED <<journal, recovery, crashes>>

Finish ==
  /\ pc = "finish" /\ pc' = "bind"
  /\ unresolved' = unresolved \ {work.ord}
  /\ UNCHANGED <<orders, stream, journal, row, recovery, work, lost, fails, crashes>>

BoundRow(o) ==
  IF o = "entry"
    THEN [row EXCEPT !.lc = "ENTRY_SUBMITTED", !.bound = {"entry", "exit"}]
    ELSE [row EXCEPT !.lc = "PROTECTION_ACTIVE", !.bound = {"entry", "protection"},
                     !.prot = orders[o].n]

\* Mutant: the replay is skipped.
ReplaySkipped(r, next) == pc' = next /\ work' = work

Replay(r, next) == pc' = "replay" /\ work' = [work EXCEPT !.k = 1, !.r = r, !.next = next]

\* A list found by GET has no order reports, the answer of a POST has.
Bind ==
  /\ pc = "bind"
  /\ row' = BoundRow(work.ord)
  /\ IF work.next = "refresh" THEN Replay(row', "refresh") ELSE pc' = "answer" /\ work' = work
  /\ UNCHANGED <<orders, stream, journal, unresolved, recovery, lost, fails, crashes>>

\* The answer holds what the POST matched at once: fills between the POST and this step.
Answer ==
  /\ pc = "answer"
  /\ Record(Got(work.ord))
  /\ Replay(row', work.next)
  /\ UNCHANGED <<orders, stream, unresolved, recovery, lost, fails, crashes>>

\* One transaction: nothing of the copy is seen before the commit.
ReplayEvent ==
  /\ pc = "replay" /\ work.k <= Len(journal)
  /\ LET e == journal[work.k] IN
       work' = [work EXCEPT !.k = @ + 1, !.r = IF Names(@, e) THEN Applied(@, e) ELSE @]
  /\ UNCHANGED <<orders, stream, journal, row, unresolved, recovery, pc, lost, fails, crashes>>

ReplayCommit ==
  /\ pc = "replay" /\ work.k > Len(journal)
  /\ row' = work.r /\ pc' = work.next /\ work' = [work EXCEPT !.k = 1]
  /\ UNCHANGED <<orders, stream, journal, unresolved, recovery, lost, fails, crashes>>

-----------------------------------------------------------------------------
(***************************************************************************)
(* verified_reconcile: look unfinished POSTs up by client ID, then GET the  *)
(* orders of the record and replay.                                         *)
(***************************************************************************)
Active == row.lc \notin Terminal /\ Exists("entry")

Reconcile ==
  /\ LockFree
  /\ IF ~Active
       THEN pc = "start" /\ pc' = "idle" /\ UNCHANGED <<work, fails>>
       ELSE \/ /\ pc' = "finish" /\ UNCHANGED fails
               /\ \E o \in unresolved : work' = [work EXCEPT !.ord = o, !.next = "refresh"]
            \/ /\ pc' = "refresh" /\ UNCHANGED work
               /\ IF unresolved = {} THEN UNCHANGED fails ELSE Fail
  /\ UNCHANGED <<orders, stream, journal, row, unresolved, recovery, lost, crashes>>

\* A GET that fails leaves a warning and the next order is asked for.
RefreshEntry ==
  /\ pc = "refresh" /\ pc' = "refreshSell"
  /\ \/ Record(Got("entry")) /\ UNCHANGED fails
     \/ Fail /\ UNCHANGED <<journal, row>>
  /\ UNCHANGED <<orders, stream, unresolved, recovery, work, lost, crashes>>

\* Mutant: a pending leg, which has no status yet, is recorded too.
BoundSellPending == Sells \cap row.bound

BoundSell == {o \in Sells \cap row.bound : Exists(o)}

RefreshSell ==
  /\ pc = "refreshSell"
  /\ \/ /\ BoundSell = {} /\ UNCHANGED <<journal, row, fails>>
     \/ \E o \in BoundSell : Record(Got(o)) /\ UNCHANGED fails
     \/ BoundSell # {} /\ Fail /\ UNCHANGED <<journal, row>>
  /\ Replay(row', "refreshed")
  /\ UNCHANGED <<orders, stream, unresolved, recovery, lost, crashes>>

\* An entry past its window is expired, then a partial fill is protected.
Refreshed ==
  /\ pc = "refreshed"
  /\ recovery' = (recovery \/ row.lc = "ENTRY_PARTIALLY_FILLED")
  /\ \/ row.lc = "ENTRY_SUBMITTED" /\ "entry" \in row.bound /\ pc' = "stale"
     \/ recovery' /\ Active /\ "entry" \in row.bound /\ pc' = "protGet"
     \/ ~(recovery' /\ Active /\ "entry" \in row.bound) /\ pc' = "idle"
  /\ UNCHANGED <<orders, stream, journal, row, unresolved, work, lost, fails, crashes>>

-----------------------------------------------------------------------------
(***************************************************************************)
(* A cancellation of the list that the record names.  Its answer may be     *)
(* lost, or the list is no longer open: the handler then gives up.          *)
(***************************************************************************)
ListOrders == IF "protection" \in row.bound THEN {"protection"} ELSE {"entry", "exit"}

ListOpen == \E o \in ListOrders : orders[o].st \in Open

CancelList(step) ==
  \/ /\ ListOpen
     /\ \E o \in ListOrders : orders[o].st \in Open
          /\ orders' = [orders EXCEPT ![o].st = "CANCELED"]
          /\ Emit(<<Told(o, "CANCELED", orders[o].n)>>)
     /\ \/ pc' = step /\ UNCHANGED fails
        \/ pc' = "idle" /\ Fail
  \/ ~ListOpen /\ pc' = "idle" /\ UNCHANGED <<orders, stream, lost, fails>>

GiveUp == pc' = "idle" /\ Fail /\ UNCHANGED <<journal, row, recovery, work>>

-----------------------------------------------------------------------------
(***************************************************************************)
(* _expire_stale_entry.  Its GETs are recorded but nothing is replayed.     *)
(* The second GET, here and in ProtectAgain, follows a confirmed            *)
(* cancellation, so its check that the BUY is terminal passes.              *)
(***************************************************************************)
StaleBegin ==
  /\ pc = "idle" /\ row.lc = "ENTRY_SUBMITTED" /\ "entry" \in row.bound
  /\ pc' = "stale"
  /\ UNCHANGED <<orders, stream, journal, row, unresolved, recovery, work, lost, fails, crashes>>

StaleGet ==
  /\ pc \in {"stale", "staleAgain"}
  /\ \/ /\ orders["entry"].st \in Closed /\ orders["entry"].n > 0
        /\ Record(Got("entry")) /\ recovery' = TRUE /\ pc' = "protGet"
        /\ UNCHANGED <<work, fails>>
     \/ /\ orders["entry"].st \in Closed /\ orders["entry"].n = 0
        /\ journal' = IF Seen(Got("entry")) THEN journal ELSE Append(journal, Got("entry"))
        /\ row' = [row EXCEPT !.lc = "ENTRY_REJECTED"] /\ pc' = "idle"
        /\ UNCHANGED <<recovery, work, fails>>
     \/ /\ orders["entry"].st \in Open /\ pc = "stale"
        /\ Record(Got("entry")) /\ pc' = "staleCancel"
        /\ UNCHANGED <<recovery, work, fails>>
     \/ GiveUp
  /\ UNCHANGED <<orders, stream, unresolved, lost, crashes>>

StaleCancel ==
  /\ pc = "staleCancel" /\ CancelList("staleAgain")
  /\ UNCHANGED <<journal, row, unresolved, recovery, work, crashes>>

-----------------------------------------------------------------------------
(***************************************************************************)
(* _place_partial_protection.                                               *)
(***************************************************************************)
ProtectBegin ==
  /\ pc = "idle" /\ Active /\ "entry" \in row.bound
  /\ recovery \/ row.lc = "ENTRY_PARTIALLY_FILLED"
  /\ pc' = "protGet"
  /\ UNCHANGED <<orders, stream, journal, row, unresolved, recovery, work, lost, fails, crashes>>

ProtectGet ==
  /\ pc = "protGet"
  /\ \/ /\ Record(Got("entry")) /\ UNCHANGED <<recovery, fails>>
        /\ pc' = "replay"
        /\ work' = [work EXCEPT !.k = 1, !.r = row', !.next = "protCheck",
                                !.got = orders["entry"].st]
     \/ GiveUp
  /\ UNCHANGED <<orders, stream, unresolved, lost, crashes>>

\* The status is the one the GET returned, the open lists are read now.
ProtectCheck ==
  /\ pc = "protCheck"
  /\ LET protected == work.got = "FILLED" /\ \E o \in Sells \cap row.bound : orders[o].st \in Open IN
     \/ /\ protected /\ pc' = "idle" /\ recovery' = FALSE
        /\ row' = [row EXCEPT !.lc = "PROTECTION_ACTIVE"]
     \/ /\ ~protected /\ UNCHANGED <<row, recovery>>
        /\ pc' = CASE work.got = "NEW"       -> "idle"
                   [] work.got # "NEW" /\ ListOpen -> "protCancel"
                   [] work.got \in Closed /\ ~ListOpen -> "protPlace"
                   [] OTHER                  -> "idle"
  /\ UNCHANGED <<orders, stream, journal, unresolved, work, lost, fails, crashes>>

ProtectCancel ==
  /\ pc = "protCancel" /\ CancelList("protAgain")
  /\ UNCHANGED <<journal, row, unresolved, recovery, work, crashes>>

ProtectAgain ==
  /\ pc = "protAgain"
  /\ \/ Record(Got("entry")) /\ Replay(row', "protPlace") /\ UNCHANGED <<recovery, fails>>
     \/ GiveUp
  /\ UNCHANGED <<orders, stream, unresolved, lost, crashes>>

\* BTC bought and neither sold nor locked by a SELL.
Held == IF \E o \in Sells : orders[o].st \in Open \cup {"FILLED"} THEN 0 ELSE orders["entry"].n

SellableQty == IF Held < row.filled THEN Held ELSE row.filled

\* The model ends at one protection: another one repeats these steps with a new order.
ProtectPlace ==
  /\ pc = "protPlace" /\ (Exists("protection") => SellableQty = 0)
  /\ \/ /\ SellableQty = 0
        /\ pc' = "idle" /\ UNCHANGED <<orders, stream, unresolved, work, lost, fails>>
     \/ /\ SellableQty > 0 /\ Post("protection", SellableQty)
        /\ \/ /\ pc' = "finish" /\ UNCHANGED fails
              /\ work' = [work EXCEPT !.ord = "protection", !.next = "protDone"]
           \/ Fail /\ pc' = "idle" /\ UNCHANGED work
     \/ /\ SellableQty > 0 /\ Fail
        /\ pc' = "idle" /\ UNCHANGED <<orders, stream, unresolved, work, lost>>
  /\ UNCHANGED <<journal, row, recovery, crashes>>

ProtectDone ==
  /\ pc = "protDone" /\ pc' = "idle" /\ recovery' = FALSE
  /\ UNCHANGED <<orders, stream, journal, row, unresolved, work, lost, fails, crashes>>

-----------------------------------------------------------------------------
Exchange == BuyFills \/ EntryExpires \/ \E o \in Sells : SellFills(o)
Stream   == Deliver \/ Reconnect
Process  == Crash \/ Restart
Binding  == PostEntry \/ Finish \/ Bind \/ Answer \/ ReplayEvent \/ ReplayCommit
Refresh  == Reconcile \/ RefreshEntry \/ RefreshSell \/ Refreshed
Stale    == StaleBegin \/ StaleGet \/ StaleCancel
Protect  == ProtectBegin \/ ProtectGet \/ ProtectCheck \/ ProtectCancel \/ ProtectAgain
            \/ ProtectPlace \/ ProtectDone

Next == Exchange \/ Stream \/ Process \/ Binding \/ Refresh \/ Stale \/ Protect

Spec == Init /\ [][Next]_vars

-----------------------------------------------------------------------------
(***************************************************************************)
(* Properties.                                                              *)
(***************************************************************************)
TypeOK ==
  /\ orders \in [Orders -> [st : {"NONE"} \cup Open \cup Closed, n : Nat]]
  /\ stream \in Seq(Report) /\ journal \in Seq(Report)
  /\ row \in Row /\ unresolved \subseteq Orders /\ recovery \in BOOLEAN
  /\ pc \in Steps /\ work \in Work
  /\ lost \in BOOLEAN /\ fails \in 0 .. MaxFails /\ crashes \in 0 .. MaxCrashes

\* A record moves forward only: no report, replay, GET or recovery lowers the rank of its
\* lifecycle, in whatever order they come.  Only a binding restates it, and not even that
\* reopens a closed record.
LifecycleMonotone ==
  [][/\ Rank(row'.lc) >= Rank(row.lc) \/ pc = "bind"
     /\ row.lc \in Terminal => row'.lc = row.lc]_vars

\* Every report that names an order of the record has had its effect on the lifecycle
\* once the lock is free, also when it was journaled before the order was bound
\* (replay_exchange_events_for_trade), was read by a GET or met a crash in between.
NoReportForgotten ==
  pc = "idle" =>
    \A k \in 1 .. Len(journal) :
      Names(row, journal[k]) /\ Implied(journal[k]) # "none"
        => row.lc \in Terminal \/ Rank(row.lc) >= Rank(Implied(journal[k]))

\* When nothing was lost and nothing is under way the record agrees with the exchange:
\* neither deduplication nor the order of journal and GETs costs an open record a fill, or
\* any record its exit.  (A record that an exit closes between binding and replay may keep
\* the quantity of before.)
SettledRow ==
  pc = "idle" /\ stream = <<>> /\ ~lost /\ "entry" \in row.bound =>
    /\ row.lc \notin Terminal => row.filled = orders["entry"].n
    /\ \A o \in Sells \cap row.bound : orders[o].st = "FILLED" => row.lc = "EXIT_FILLED"

\* The protection of a partial fill covers what was executed
\* (docs/audit/REMAINING_LIMITATIONS.md:36-38).
ProtectsExecuted ==
  Exists("protection") => orders["protection"].n = orders["entry"].n

=============================================================================
