----------------------------- MODULE Preflight -----------------------------
(***************************************************************************)
(* How the execution sidecar sizes, prices and validates its orders:         *)
(* OrderRequestFactory (protection_modes.py), the quantity of an entry and   *)
(* the stop of a break-even or profit lock (bitcoin_adapter.py), and the     *)
(* validator of exchange filters with its cache (filters.py), as an entry    *)
(* and a replacement of its protection use them while the exchange moves on: *)
(* validate, cancel the old protection, read the balance, rebuild if it is   *)
(* smaller, validate again, submit.                                          *)
(*                                                                           *)
(* Prices are whole quote units, percentages basis points, quantities        *)
(* multiples of the smallest step.  Unknown outcomes of a request are the    *)
(* subject of SpotExecution; here the exchange accepts or refuses.           *)
(***************************************************************************)
EXTENDS Integers, Sequences, FiniteSets, FiniteSetsExt

CONSTANTS
  RuleSets,     \* filters the symbol may have
  Prices,       \* market prices
  TradeSize,    \* TRADE_SIZE_QUOTE
  TakeProfit, FixedStop, TrailingDelta, FillBuffer, Fee, Slippage, ProfitLock,
                \* the settings of the same names, in basis points
  MaxAge,       \* SPOT_FILTER_MAX_AGE_SECONDS
  MaxTime,      \* bound: the last tick
  MaxOthers,    \* bound: order lists of other programs on the symbol
  MaxChanges    \* bound: changes of the exchange, and failing requests

One == 10000    \* basis points of the whole

ASSUME PreflightAssumption ==
  /\ \A r \in RuleSets : /\ r.tick \in Nat \ {0} /\ r.step \in Nat \ {0}
                       /\ r.trailMin \in Nat /\ r.trailMax \in Nat
  /\ Prices \subseteq Nat \ {0}
  /\ \A p \in Prices, r \in RuleSets : 500 * r.tick <= p
  /\ {TradeSize, TakeProfit, FixedStop, TrailingDelta, FillBuffer, Fee, Slippage, ProfitLock,
      MaxAge, MaxTime, MaxOthers, MaxChanges} \subseteq Nat
  /\ Fee + Slippage < One /\ FillBuffer < One

Modes == {"FIXED_OCO", "TRAILING_ONLY", "OCO_TRAILING"}
Requests == Modes \cup {"BREAK_EVEN", "PROFIT_LOCK"}

VARIABLES
  clock,
  rules,    \* the filters in force
  price,    \* the market price, also the reference price
  others,   \* order lists of other programs, of one stop and one limit order each
  cache,    \* SpotFilterValidator._cache: no row, or one with the time of its request
  held,     \* BTC of the position
  prot,     \* the protection on the exchange and in the trade row: no row or one
  job,      \* the operation in progress
  changes

preflightVars == <<clock, rules, price, others, cache, held, prot, job, changes>>
exchange == <<rules, price, others>>

\* stop, delta: 0 when the leg has none
Leg(side, type, qty, px, stop, delta) ==
  [side |-> side, type |-> type, qty |-> qty, price |-> px, stop |-> stop, delta |-> delta]

\* order_list_id of the record: a list, or what the answer to a single order says,
\* either nothing or the exchange's -1, which the record takes for a list
NoList == 0
NotInList == -1

Idle == [pc |-> "idle"]

(***************************************************************************)
(* Arithmetic                                                              *)
(***************************************************************************)

\* floor_step and ROUND_CEILING of n / d to a multiple of step
FloorStep(n, d, step) == (n \div (d * step)) * step
CeilStep(n, d, step) == ((n + d * step - 1) \div (d * step)) * step

Delta(r) == Max({r.trailMin, Min({TrailingDelta, r.trailMax})})

\* the price a trailing stop-limit gives at least, set below base
TrailFloor(r, base) == FloorStep(base * (One - Delta(r) - FillBuffer), One, r.tick)
StopFloor(r, stop) == FloorStep(stop * (One - FillBuffer), One, r.tick)

\* fee_adjusted_break_even as a fraction, and the stop that covers it: its limit
\* price, FillBuffer below, must not fall under it
BreakEvenNum(entry) == entry * (One + Fee + Slippage)
BreakEvenDen == One - Fee - Slippage

CoveringStop(r, entry, lock) ==
  LET floor == Max({CeilStep(BreakEvenNum(entry), BreakEvenDen, r.tick),
                    CeilStep(entry * (One + lock), One, r.tick)})
  IN CeilStep(floor * One, One - FillBuffer, r.tick)

(***************************************************************************)
(* Requests (OrderRequestFactory and legs_from_request)                    *)
(***************************************************************************)

EntryQty(r, entry) == FloorStep(TradeSize, entry, r.step)
PendingQty(r, qty) == FloorStep(qty * (One - Fee), One, r.step)

Protection(r, mode, qty, above, stop, base) ==
  LET trail == Leg("SELL", "STOP", qty, TrailFloor(r, base), 0, Delta(r))
      tp == Leg("SELL", "LIMIT_MAKER", qty, above, 0, 0)
  IN CASE mode = "TRAILING_ONLY" -> <<trail>>
       [] mode = "OCO_TRAILING" -> <<tp, trail>>
       [] mode = "FIXED_OCO" -> <<tp, Leg("SELL", "STOP", qty, StopFloor(r, stop), stop, 0)>>

EntryLegs(r, mode, qty, entry) ==
  <<Leg("BUY", "LIMIT", qty, entry, 0, 0)>> \o
  Protection(r, mode, PendingQty(r, qty), FloorStep(entry * (One + TakeProfit), One, r.tick),
             FloorStep(entry * (One - FixedStop), One, r.tick), entry)

\* replacement: the take-profit stays 20 basis points above the market
ReplacementLegs(r, mode, qty, entry, stop, current) ==
  Protection(r, mode, qty,
             FloorStep(Max({entry * (One + TakeProfit), current * (One + 20)}), One, r.tick),
             stop, current)

\* the stop of a fixed replacement
StopFor(r, request, entry) ==
  CASE request = "BREAK_EVEN" -> CoveringStop(r, entry, 0)
    [] request = "PROFIT_LOCK" -> CoveringStop(r, entry, ProfitLock)
    [] OTHER -> FloorStep(entry * (One - FixedStop), One, r.tick)
ModeFor(request) == IF request \in Modes THEN request ELSE "FIXED_OCO"

\* what convert and replacement themselves refuse
Buildable(r, request, qty, entry, stop, current) ==
  /\ qty > 0
  /\ ModeFor(request) = "FIXED_OCO" => stop < current
  /\ request \notin Modes => entry < stop

\* _require_mode_capabilities
Capable(r, mode, forEntry) ==
  /\ forEntry => r.oto
  /\ mode \in {"FIXED_OCO", "OCO_TRAILING"} => r.oco
  /\ mode \in {"TRAILING_ONLY", "OCO_TRAILING"} => r.trailing

(***************************************************************************)
(* validate_replacement, against the snapshot s of the exchange's filters    *)
(***************************************************************************)

IsBuy(legs) == \E i \in DOMAIN legs : legs[i].side = "BUY"
Algos(legs) == Cardinality({i \in DOMAIN legs : legs[i].type = "STOP"})

ReferencePrice == price

PriceFits(s, leg, px) ==
  /\ px > 0 /\ px % s.tick = 0
  /\ px >= s.minPrice /\ px <= s.maxPrice
  /\ LET down == IF leg.side = "SELL" THEN s.askDown ELSE s.bidDown
         up == IF leg.side = "SELL" THEN s.askUp ELSE s.bidUp
     IN px * One >= ReferencePrice * down /\ px * One <= ReferencePrice * up

\* PRICE_RANGE, for the price of execution; read afresh, not from the snapshot
RangeFits(leg) ==
  LET down == IF leg.side = "SELL" THEN rules.rangeAskDown ELSE rules.rangeBidDown
      up == IF leg.side = "SELL" THEN rules.rangeAskUp ELSE rules.rangeBidUp
  IN leg.price * One >= ReferencePrice * down /\ leg.price * One <= ReferencePrice * up

LegFits(s, leg) ==
  /\ PriceFits(s, leg, leg.price) /\ RangeFits(leg)
  /\ leg.stop # 0 => PriceFits(s, leg, leg.stop)
  /\ leg.qty % s.step = 0 /\ leg.qty >= s.minQty /\ leg.qty <= s.maxQty
  /\ leg.price * leg.qty >= s.minNotional /\ leg.price * leg.qty <= s.maxNotional
  /\ leg.delta # 0 => s.trailing /\ leg.delta >= s.trailMin /\ leg.delta <= s.trailMax

\* Limits on open orders, without those of the protection that is replaced.
OpenLegs(rows) == IF rows = {} THEN <<>> ELSE (CHOOSE p \in rows : TRUE).legs
OpenLists(rows) == Cardinality({p \in rows : p.list = 1})

OrdersFit(s, legs, replaced) ==
  LET open == OpenLegs(prot \ replaced) IN
  /\ 2 * others + Len(open) + Len(legs) <= s.maxOrders
  /\ others + Algos(open) + Algos(legs) <= s.maxAlgo

\* Mutant: every replaced protection is taken for an order list.
ListsFitOrderAsList(s, legs, replaced) ==
  Len(legs) > 1 =>
    Max({0, others + OpenLists(prot) - Cardinality(replaced)}) + 1 <= s.maxLists

ListsFit(s, legs, replaced) ==
  Len(legs) > 1 =>
    LET one == Cardinality({p \in replaced : p.list # NoList})
    IN Max({0, others + OpenLists(prot) - one}) + 1 <= s.maxLists

\* MAX_POSITION: the balance and every open or new buy
PositionFits(s, legs) ==
  IsBuy(legs) => held + legs[1].qty <= s.maxPosition

Valid(s, legs, replaced) ==
  /\ s.status = "TRADING"
  /\ IsBuy(legs) => s.oto
  /\ Cardinality({i \in DOMAIN legs : legs[i].side = "SELL"}) > 1 => s.oco
  /\ \A i \in DOMAIN legs : LegFits(s, legs[i])
  /\ OrdersFit(s, legs, replaced) /\ ListsFit(s, legs, replaced)
  /\ PositionFits(s, legs)

\* _exchange_snapshot: the cached filters while they are young, else a request
FromCache == {c \in cache : clock - c.at <= MaxAge}
Snapshot == IF FromCache # {} THEN FromCache ELSE {[at |-> clock, rules |-> rules]}
SnapshotRules == (CHOOSE c \in Snapshot : TRUE).rules

(***************************************************************************)
(* The exchange                                                            *)
(***************************************************************************)

\* Its own verdict on the sells of a request: the filters in force now, the balance,
\* a limit maker above and a stop below the market.
Accepted(legs) ==
  LET sells == {legs[i] : i \in {j \in DOMAIN legs : legs[j].side = "SELL"}} IN
  /\ Valid(rules, legs, {})
  /\ ~IsBuy(legs) =>
       \A leg \in sells :
         /\ leg.qty <= held
         /\ leg.type = "LIMIT_MAKER" => leg.price > price
         /\ leg.stop < price

\* Any change after the filters of the operation in progress were read.
Disturbed == IF job.pc = "idle" THEN job ELSE [job EXCEPT !.disturbed = TRUE]
Change == changes < MaxChanges /\ changes' = changes + 1
Moves == Change /\ job.pc \notin {"naked", "blocked"} /\ job' = Disturbed /\ UNCHANGED <<clock, cache>>

NewRules ==
  /\ Moves /\ rules' \in RuleSets \ {rules}
  /\ UNCHANGED <<price, others, held, prot>>

NewPrice ==
  /\ Moves /\ price' \in Prices \ {price}
  /\ UNCHANGED <<rules, others, held, prot>>

OtherLists ==
  /\ Moves /\ others' \in {others - 1, others + 1} \cap (0 .. MaxOthers)
  /\ UNCHANGED <<rules, price, held, prot>>

\* the take-profit is filled in part: half of it
PartialTakeProfit ==
  /\ Moves
  /\ \E p \in prot :
       /\ Len(p.legs) > 1 /\ ~p.sold
       /\ prot' = {[p EXCEPT !.sold = TRUE]}
       /\ held' = held - p.legs[1].qty \div 2
  /\ UNCHANGED exchange

Tick ==
  /\ clock < MaxTime /\ clock' = clock + 1
  /\ UNCHANGED <<exchange, cache, held, prot, job, changes>>

(***************************************************************************)
(* The entry (execute_entry)                                               *)
(***************************************************************************)

Enter(mode) ==
  LET entry == FloorStep(price, 1, rules.tick)
      qty == EntryQty(rules, entry)
      legs == EntryLegs(rules, mode, qty, entry)
  IN
  /\ job.pc = "idle" /\ held = 0
  /\ cache' = Snapshot
  /\ job' = IF /\ qty > 0 /\ PendingQty(rules, qty) > 0 /\ Capable(rules, mode, TRUE)
               /\ Valid(SnapshotRules, legs, {})
            THEN [pc |-> "enter", legs |-> legs, disturbed |-> SnapshotRules # rules]
            ELSE Idle
  /\ UNCHANGED <<clock, exchange, held, prot, changes>>

\* The list is accepted, the buy filled, its commission at most the configured fee.
SubmitEntry ==
  /\ job.pc = "enter"
  /\ \/ /\ Accepted(job.legs)
        /\ \E fee \in {0, Fee} : held' = FloorStep(job.legs[1].qty * (One - fee), One, 1)
        /\ prot' = {[request |-> "ENTRY", entry |-> job.legs[1].price, legs |-> Tail(job.legs),
                     list |-> 1, sold |-> FALSE]}
     \/ ~Accepted(job.legs) /\ UNCHANGED <<held, prot>>
  /\ job' = Idle
  /\ UNCHANGED <<clock, exchange, cache, changes>>

(***************************************************************************)
(* The replacement (convert)                                               *)
(***************************************************************************)

Convert(request) ==
  \E p \in prot :
    LET mode == ModeFor(request)
        qty == FloorStep(p.legs[1].qty, 1, rules.step)
        stop == StopFor(rules, request, p.entry)
        legs == ReplacementLegs(rules, mode, qty, p.entry, stop, price)
    IN
    /\ job.pc = "idle"
    /\ cache' = Snapshot
    /\ job' = IF /\ Buildable(rules, request, qty, p.entry, stop, price)
                 /\ Capable(rules, mode, FALSE)
                 /\ Valid(SnapshotRules, legs, {p})
              THEN [pc |-> "cancel", request |-> request, entry |-> p.entry, stop |-> stop,
                    rules |-> rules, legs |-> legs, disturbed |-> SnapshotRules # rules,
                    sold |-> p.sold]
              ELSE Idle
    /\ UNCHANGED <<clock, exchange, held, prot, changes>>

\* _cancel_protection.  The exchange does not know the list -1: the cancel stays
\* AMBIGUOUS and blocks every later change of the protection.
CancelOld ==
  /\ job.pc = "cancel"
  /\ IF \E p \in prot : p.list = NotInList
     THEN job' = [pc |-> "blocked"] /\ UNCHANGED prot
     ELSE job' = [job EXCEPT !.pc = "rebuild"] /\ prot' = {}
  /\ UNCHANGED <<clock, exchange, cache, held, changes>>

\* The position is left without a protection until it is reconciled.
Naked(j) == [pc |-> "naked", disturbed |-> j.disturbed, sold |-> j.sold]

\* The free balance bounds the quantity; then the second validation.
Rebuild ==
  LET free == FloorStep(held, 1, job.rules.step)
      qty == job.legs[1].qty
      legs == IF free < qty
              THEN ReplacementLegs(job.rules, ModeFor(job.request), free, job.entry, job.stop, price)
              ELSE job.legs
  IN
  /\ job.pc = "rebuild"
  /\ cache' = Snapshot
  /\ job' = IF /\ free < qty => Buildable(job.rules, job.request, free, job.entry, job.stop, price)
               /\ Valid(SnapshotRules, legs, {})
            THEN [job EXCEPT !.pc = "submit", !.legs = legs]
            ELSE Naked(job)
  /\ UNCHANGED <<clock, exchange, held, prot, changes>>

\* a request of either validation fails
Unavailable ==
  /\ job.pc \in {"cancel", "rebuild"} /\ Change
  /\ job' = IF job.pc = "cancel" THEN Idle ELSE Naked(Disturbed)
  /\ UNCHANGED <<clock, exchange, cache, held, prot>>

Submit ==
  /\ job.pc = "submit"
  /\ IF Accepted(job.legs)
     THEN /\ \E list \in IF Len(job.legs) > 1 THEN {1} ELSE {NoList, NotInList} :
               prot' = {[request |-> job.request, entry |-> job.entry, legs |-> job.legs,
                         list |-> list, sold |-> FALSE]}
          /\ job' = Idle
     ELSE job' = Naked(job) /\ UNCHANGED prot
  /\ UNCHANGED <<clock, exchange, cache, held, changes>>

(***************************************************************************)
(* Specification                                                           *)
(***************************************************************************)

PreflightInit ==
  /\ clock = 0 /\ changes = 0 /\ others = 0
  /\ rules \in RuleSets /\ price \in Prices
  /\ cache = {} /\ held = 0 /\ prot = {} /\ job = Idle

PreflightNext ==
  \/ NewRules \/ NewPrice \/ OtherLists \/ PartialTakeProfit \/ Tick
  \/ \E mode \in Modes : Enter(mode)
  \/ \E request \in Requests : Convert(request)
  \/ SubmitEntry \/ CancelOld \/ Rebuild \/ Unavailable \/ Submit

PreflightSpec == PreflightInit /\ [][PreflightNext]_preflightVars

(***************************************************************************)
(* Properties                                                              *)
(***************************************************************************)

\* A conversion whose first validation passed does not leave the position naked by
\* itself: only if rules, price, other orders or the balance changed after the
\* filters it was validated against were read, a request failed, or the protection
\* it replaced had already sold a part.
NoSelfInflictedGap == job.pc = "naked" => job.disturbed \/ job.sold

\* Protective sells never exceed the BTC of the position.
SellsCovered ==
  \A p \in prot : ~p.sold => \A i \in DOMAIN p.legs : p.legs[i].qty <= held

\* The worst fill of a break-even or profit-lock stop pays back the entry with both
\* fees and slippages.
BreakEvenCovered ==
  \A p \in prot :
    p.request \in {"BREAK_EVEN", "PROFIT_LOCK"} =>
      p.legs[2].price * BreakEvenDen >= BreakEvenNum(p.entry)

\* filters.validate_replacement, protection_modes.replacement, bitcoin_adapter.convert
ReplacementSound == NoSelfInflictedGap /\ SellsCovered /\ BreakEvenCovered

\* The architecture: a replacement is validated before the cancel.  It does not
\* hold: the first validation takes the quantity of the record, which a partial
\* sale does not change, and the second one the balance.
ValidatedBeforeCancel == job.pc = "naked" => job.disturbed

\* The architecture: an owner may change the protection of a position.  It does not
\* hold once a single order was answered with the list -1.
CancelNamesProtection == job.pc # "blocked"

\* The comment in convert: every exchange filter is refreshed again immediately
\* before the submission.  It does not hold: both validations may use the cache.
FiltersRefreshed ==
  [][Rebuild /\ job'.pc = "submit" => \A c \in cache' : c.at = clock]_preflightVars
=============================================================================
