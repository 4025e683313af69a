---------------------------- MODULE SpotExchange ----------------------------
(***************************************************************************)
(* The Binance Spot account as the execution sidecar sees it through        *)
(* services/execution_sidecar/spot_gateway.py.  The exchange is not part of *)
(* the repository: this module states only what the adapter relies on.      *)
(*                                                                          *)
(* Quantities are counted in LOT_SIZE steps.  A request carries the client  *)
(* order ID of the durable intent that produced it, so an order is indexed  *)
(* by the number of that intent.  The take-profit and stop legs of one      *)
(* order list are one SELL: they lock the same BTC and at most one fills.   *)
(***************************************************************************)
EXTENDS Integers

CONSTANTS
  EntryQty,     \* BTC bought by one entry, in lot steps
  MaxIntents,   \* bound: durable operation intents, hence client order IDs
  MaxFaults     \* bound: failed, lost or refused calls in one behaviour

ASSUME ExchangeAssumption ==
  /\ EntryQty \in Nat \ {0}
  /\ MaxIntents \in Nat \ {0}
  /\ MaxFaults \in Nat

VARIABLES
  book,     \* the order accepted for each client ID
  wire,     \* requests sent whose fate their sender does not know
  btc,      \* BTC balance of the account
  bell,     \* entries with an undelivered BUY report that carries a fill
  faults    \* failures spent so far (bounds the model)

exchangeVars == <<book, wire, btc, bell, faults>>

Ids   == 1 .. MaxIntents
Kinds == {"entry", "protection", "emergency"}

(***************************************************************************)
(* "working": an OTO/OTOCO whose BUY is open and whose SELL legs wait;      *)
(* "protecting": the SELL legs are open and lock BTC; "done": terminal.     *)
(***************************************************************************)
NoOrder == [kind |-> "none", ph |-> "none", qty |-> 0, bought |-> 0, sold |-> 0]

Order == [kind : Kinds \cup {"none"}, ph : {"none", "working", "protecting", "done"},
          qty : Nat, bought : Nat, sold : Nat]

Request == [t : {"post", "delete"}, id : Ids, kind : Kinds, qty : Nat]

Exists(i) == book[i].ph # "none"
Live(i)   == book[i].ph \in {"working", "protecting"}

BtcTotal == btc.free + btc.locked

ExchangeTypeOK ==
  /\ book \in [Ids -> Order]
  /\ wire \subseteq Request
  /\ btc \in [free : Int, locked : Int]
  /\ bell \subseteq Ids
  /\ faults \in 0 .. MaxFaults

ExchangeInit ==
  /\ book = [i \in Ids |-> NoOrder]
  /\ wire = {}
  /\ btc = [free |-> 0, locked |-> 0]
  /\ bell = {}
  /\ faults = 0

Fault   == faults < MaxFaults /\ faults' = faults + 1
NoFault == UNCHANGED faults

-----------------------------------------------------------------------------
(***************************************************************************)
(* What a request does when the matching engine executes it.                *)
(***************************************************************************)

\* A SELL is accepted only against free BTC; a client ID is accepted once.
Acceptable(i, kind, q) ==
  /\ ~Exists(i)
  /\ kind # "entry" => 0 < q /\ q <= btc.free

\* The order of request i rests, or is an IOC that executes at once.
Accept(i, kind, q) ==
  \/ /\ kind = "entry"
     /\ book' = [book EXCEPT ![i] = [kind |-> kind, ph |-> "working", qty |-> q,
                                     bought |-> 0, sold |-> 0]]
     /\ UNCHANGED btc
  \/ /\ kind = "protection"
     /\ book' = [book EXCEPT ![i] = [kind |-> kind, ph |-> "protecting", qty |-> q,
                                     bought |-> 0, sold |-> 0]]
     /\ btc' = [free |-> btc.free - q, locked |-> btc.locked + q]
  \/ /\ kind = "emergency"
     /\ \E x \in 0 .. q :
          /\ book' = [book EXCEPT ![i] = [kind |-> kind, ph |-> "done", qty |-> q,
                                          bought |-> 0, sold |-> x]]
          /\ btc' = [btc EXCEPT !.free = @ - x]

\* Order i becomes terminal without a further fill: its SELL legs unlock.
Terminate(i) ==
  /\ book' = [book EXCEPT ![i].ph = "done"]
  /\ btc' = IF book[i].ph = "protecting"
              THEN [free   |-> btc.free + (book[i].qty - book[i].sold),
                    locked |-> btc.locked - (book[i].qty - book[i].sold)]
              ELSE btc
  /\ bell' = IF book[i].ph = "working" /\ book[i].bought > 0 THEN bell \cup {i} ELSE bell

-----------------------------------------------------------------------------
(***************************************************************************)
(* The exchange's own steps.                                                *)
(***************************************************************************)

\* The working BUY fills by one step; a complete fill activates the SELL legs.
BuyFill(i) ==
  /\ book[i].ph = "working"
  /\ IF book[i].bought + 1 = book[i].qty
       THEN /\ book' = [book EXCEPT ![i].bought = @ + 1, ![i].ph = "protecting"]
            /\ btc' = [free   |-> btc.free + 1 - book[i].qty,
                       locked |-> btc.locked + book[i].qty]
            /\ UNCHANGED bell
       ELSE /\ book' = [book EXCEPT ![i].bought = @ + 1]
            /\ btc' = [btc EXCEPT !.free = @ + 1]
            /\ bell' = bell \cup {i}
  /\ UNCHANGED <<wire, faults>>

\* An open SELL leg fills by one step; a complete fill ends the list.
SellFill(i) ==
  /\ book[i].ph = "protecting"
  /\ book' = [book EXCEPT ![i].sold = @ + 1,
                          ![i].ph = IF book[i].sold + 1 = book[i].qty THEN "done" ELSE @]
  /\ btc' = [btc EXCEPT !.locked = @ - 1]
  /\ UNCHANGED <<wire, bell, faults>>

\* The exchange expires the working BUY by itself.
ExpireEntry(i) ==
  /\ book[i].ph = "working"
  /\ Fault
  /\ Terminate(i)
  /\ UNCHANGED wire

\* A request given up on by its sender reaches the matching engine after all.
LandPost(m) ==
  /\ m \in wire
  /\ m.t = "post"
  /\ wire' = wire \ {m}
  /\ IF Acceptable(m.id, m.kind, m.qty)
       THEN Accept(m.id, m.kind, m.qty)
       ELSE UNCHANGED <<book, btc>>
  /\ UNCHANGED <<bell, faults>>

LandDelete(m) ==
  /\ m \in wire
  /\ m.t = "delete"
  /\ wire' = wire \ {m}
  /\ IF Live(m.id) THEN Terminate(m.id) ELSE UNCHANGED <<book, btc, bell>>
  /\ UNCHANGED faults

ExchangeStep ==
  \/ \E i \in Ids : BuyFill(i) \/ SellFill(i) \/ ExpireEntry(i)
  \/ \E m \in wire : LandPost(m) \/ LandDelete(m)

=============================================================================
