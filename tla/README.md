# Formal model of the BTC Spot execution system

This directory holds TLA+ specifications of the services in this repository, the TLC
configurations that check them on small instances, and proofs that TLAPS checks. Paths are
relative to `src/` unless they name a module of this directory.

## 1. Inventory of the system

The system is a set of containers around one Binance Spot account with at most one BTC
position: a Freqtrade strategy emits signals, an execution sidecar turns them into orders, a
Telegram broker carries owner commands, a money-flow service supplies advisory data.

| Component | State it keeps | Operations | What makes it correct |
|---|---|---|---|
| `BitcoinSpotAdapter` (`services/execution_sidecar/bitcoin_adapter.py`) | `enabled`, `partial_recovery`, `lock` | `submit`, `convert`, `emergency_exit`, `tick` (partial and stale entries), `maybe_auto_manage`, `verified_reconcile`, `start`, `set_enabled`, `verify_flat_for_switch`, the callbacks `_on_order_update`, `_on_list_update`, `_on_resync` | a request is sent at most once, never two live orders, no entry beside an uncertain outcome, partial fills get protected |
| `StateStore` (`state_store.py`) | SQLite: `operation_intents`, `trade_records`, `exchange_events`, claims; JSON: entry switch, reconciliation verdict | `prepare_intent`, `mark_intent_submitting`, `finish_intent`, `upsert_trade`, `record_exchange_event`, `replay_exchange_events_for_trade`, `claim_signal`, `record_signal`, `claim_command`, `record_command`, `set_entries`, `backup` | intents are durable before a request leaves; lifecycles do not move backwards; claims are exclusive |
| `OrderManager`, `FreshSignalGuard` (`order_manager.py`, `risk_checks.py`) | signal claims, daily counters, cooldown, global pause | `process_signal`, `reject`; `allow`, `record`, `on_exchange_event`, `record_stopout`, `set_global_pause` | each signal at most once; a pause or a spent budget blocks entries |
| Supervisor (`main.py`) | command inbox, evidence lease, health | `main`, `process_command`, `live_interlock`, `enforce_live_evidence_lease`, `freqtrade_pair_ready` | commands run once; loss of evidence disarms for good |
| `ModernUserDataStream` (`user_data_stream.py`) | socket, reconnect timer and lock | `start`, `_connect`, `_on_open`, `_on_message`, `_on_close`, `_schedule_reconnect`, `stop` | a lost stream always reconnects and triggers reconciliation |
| `PairController` (`pair_control.py`) | pair state with stage, pairlist, Freqtrade configuration, registry | `bootstrap`, `begin_switch`, `complete_switch`, `mark_pair_verified`, `require_resume_ready`, `mark_active_after_resume` | the three files agree whenever entries may be armed; a crash is recoverable |
| Exchange account (Binance, through `spot_gateway.py`) | orders, lists, balances | accept, fill, cancel, lookup | external |
| Telegram broker (`services/telegram_broker/`) | update claims and offset, one-use callbacks | `TelegramUpdateStore.claim`, `complete`; `CallbackStore.issue`, `consume`, `cancel`; `handle_message`, `handle_callback`, `route`, `sidecar_command`, `ft_call` | an owner action is neither lost silently nor executed twice |
| Money-flow (`services/moneyflow/`) | quota rows, stream sample and sequence numbers | `QuotaLedger.reserve`, `mark_success`, `mark_failure`; `ExternalContextManager.snapshot`; `SpotMarketStream.ensure_symbol`, `ingest_trade`, `ingest_book`, `snapshot`; `collect`, `run_once` | paid budget is never exceeded; stale data never counts as fresh |
| Freqtrade strategy (`freqtrade/user_data/strategies/`) | pair heartbeat | `_emit_signal`, `bot_loop_start` | a signal names the pair state it was made for |
| Filters, protection modes (`filters.py`, `protection_modes.py`) | cached filters | `OrderRequestFactory.entry`, `replacement`, `fee_adjusted_break_even`; `validate_replacement` | what passed before a cancel is not refused after it; a break-even stop pays back |
| Evidence, simulation adapter, monitoring, deployment | see `PROJECT.json` | | |

How they interact: the strategy and the broker drop HMAC-signed envelope files into the
inboxes of the sidecar. The sidecar's main thread is a serial loop: commands, then signals,
then `tick`, then automatic protection. It is the only caller of the adapter, except for the user
stream, whose thread calls `_on_order_update`, `_on_list_update` and `_on_resync`. All adapter
entry points share one re-entrant lock, but `submit`'s caller and `set_enabled` run parts
without it. Everything that must survive a crash is in SQLite (`synchronous=FULL`) or in
atomically replaced JSON files.

What is hard here: a response that is lost although the request landed; a request that lands
after its lookup; a crash between two durable commits or between a commit and the network;
stream callbacks between the locked regions; fills during cancel-and-replace; state read
before a network call and used after it; several files that must change together. The list
with lines is `hazards` in `PROJECT.json`.

## 2. Modules

| Module | Models |
|---|---|
| `SpotExchange` | the account (external): orders by client ID, requests whose fate the sender does not know, balances, undelivered fill reports, a budget of failures |
| `SpotExecution` | `bitcoin_adapter.py` with intents and rows of `state_store.py`, the accepted path of `order_manager.py` and the arming commands of `main.py` |
| `OperationLedger` | abstract: what the table of intents promises |
| `MCSpotExecution` | the instance that TLC runs |
| `TradeEvents` | one trade record with the event journal of `state_store.py`: late reports, GETs, binding, replay, and the recovery handlers that rely on them |
| `PairSequence` | abstract: the sequence of a pair change that `README.md` of the repository promises |
| `PairSwitch` | `pair_control.py` with its four files, the switch and arming commands of `main.py`, Freqtrade's reading and heartbeat, signals made for a pair |
| `OwnerCommands` | the Telegram broker (`bot.py`, `callbacks.py`, the recovery of `stable_panel.py`), the command files, and `process_command` |
| `SignalGate` | emission by `IctSmcStrategy`, `OrderManager.process_signal`, the claim table, `FreshSignalGuard`, exits counted from stream and GET |
| `Supervisor` | the sidecar process in live mode: start, main loop, evidence lease, `ModernUserDataStream` with its threads |
| `QuotaLedger` | `QuotaLedger` and its manager of `external_context.py` with cache, answers and crashes |
| `MarketStream` | `spot_stream.py`, a collection of `service.py`, the providers' verdict of `analytics.py`, the flow gate |
| `Preflight`, `MCPreflight` | sizes, prices and requests (`protection_modes.py`), the validator (`filters.py`), and how `submit` and `convert` use them; the filters TLC is given |
| `SpotExecutionProofs`, `SpotExposureProofs` | theorems about `SpotExecution`: its first two inductive invariants with the refinement, and the third |
| `CommandProofs` | theorems about `OwnerCommands` and `Preflight`, the two ends of an owner's command |
| `MoneyFlowProofs` | theorems about `QuotaLedger` and `MarketStream` |
| `TradeEventsProofs`, `PairSwitchProofs`, `SignalGateProofs`, `SupervisorProofs` | theorems about the module each is named after |

`SpotExecution` EXTENDS `SpotExchange` and shares its variables: the exchange moves between any
two steps of the adapter.

**Correspondence.** A handler holds the lock, so it is cut only where something else may happen:
at each network call (the exchange moves, the call may fail) and at each durable commit (the
process may die). `pc` names the cut, `op` holds the handler's locals (`h` who, `t` trade,
`i` intent, `x` target order, `plan`, `q`, `free`), `rec` those of `verified_reconcile`.
`_submit_once` (`mark`, `post`, `lookup`, `confirm`, `bind`) and `_cancel_protection` /
`_cancel_entry_list` (`cancel`, `cmark`, `delete`, `cconfirm`) are procedures shared by their
callers; the outcome steps (`posted`, `rejected`, `ambiguous`, `canceled`, `cancelFailed`)
return to the handler in `op.h`. Definitions keep the names of functions; `map` in
`PROJECT.json` gives each one's lines.

**Abstraction.** Quantities are lot steps, prices and filters are absent (a failing check is a
`Fault`), the take-profit and stop legs of a list are one SELL, and a row names its orders by
the number of the intent that made them. A report of an order carries the status at the moment
it is applied; late reports are the subject of `TradeEvents`. Clock expiry of an entry is a
flag set by `EntryWindowExpires`. Only one account, one pair and the testnet/live adapter are
considered. A start with pre-existing foreign orders or balances is not: the account begins
empty. The consecutive reads of one refresh (`Refresh`, `PartialLookup`) are one step; a
reconciliation recovers one stale row per step; a refused submission raises and leaves its row, which
covers the refusals after which `process_signal` closes it.

**`TradeEvents`.** This module looks at the same record from the other side. `stream` holds the
reports that are sent and not delivered, `journal` the table `exchange_events`; `Record` is
`record_exchange_event` (deduplicate by `EventKey`, journal, apply to the row that names the
order), `Applied` with `Implied` and `Advances` is `_event_updates`, and `ReplayEvent` /
`ReplayCommit` are one replay transaction on the copy `work.r`. Binding is cut where the code
commits: `Finish` (the intent), `Bind` (the identifiers), `Answer` (the events in the POST's
answer), then the replay. `Reconcile` to `Refreshed` are `verified_reconcile`, the `Stale` and
`Protect` groups are `_expire_stale_entry` and `_place_partial_protection`. Abstracted: an intent
is its order in `unresolved`; the SELL legs of the entry list are one order, and there is one
protection of a partial fill; list-status events, which only change `reconciliation_status`, are
left out, and so is the verdict of a reconciliation, which belongs to `SpotExecution`. The answer
of a POST holds what was matched at once; a list found by GET has no order reports.

**`PairSwitch`.** `state`, `pairlist`, `config` and `switch` are the files; each write is a step that
may fail or be the last one of a process. `pc` names the place in `begin_switch`, `complete_switch`,
`mark_pair_verified`, `mark_active_after_resume`. Freqtrade loads whatever the files hold when it
looks. A trade closes, and a signal is written, between the changes. A pair is its symbol and quote; a hash of the state is the pair with its generation.
`PairSequence` has seven phases and the switch of entries; `Phase` maps the stages to them.

**`OwnerCommands`.** `Broker` steps are the poll, the claim, the confirmation and each call of the
panel's sequence; `Sidecar` steps are the claim, the execution, the record of the result and the
file with it. The wait of twelve seconds ends whenever TLC likes, up to `MaxTimeouts`. What must have
happened when success is reported is read from the action that was confirmed (`CommandsOf`), not from
the commands that were sent. The failing write of a command file and of the entry switch in `set_entries`
are left out.

**`SignalGate`.** Time is counted in candles. The main thread is cut at each commit and between the
guard's answer and its use; `Report` and `Count` are the stream's journaling and counting.

**`Supervisor`.** Commands of the owner appear as steps of the main loop. A stream is a record of
its socket, the holder of `_reconnect_lock` and its start event; every callback is a step of its
own. `gap` and `overruled` are history variables. The proof of the pair by Freqtrade's heartbeat,
which an arming also needs, belongs to `PairSwitch` and is left out here.

**`QuotaLedger`.** One provider: the row, the database file with its marker, the cache, a process.
A snapshot takes the time once, and each of its transactions is a step. `Spec` has one process and
a clock that only moves forward; `DeletedSpec` and `SetBackSpec` add what the code does not
survive.

**`MarketStream`.** A trade is its symbol and id, and a row of the sample, or the book, its symbol and the
time it was received; sides, ratios and thresholds become the number of bullish timeframes. A collection
is cut where its requests leave time: `Load` reads the pair, `Sample` follows its symbol and takes the
stream's sample or the trades of the REST request, `Publish` classifies and writes; the pair may change and
old threads may deliver between any two. The answer of a REST request is of the symbol asked for and as old
as its receipt; the depth, also a REST answer, is older than the sample by at most the requests in between
and is left out. A stray frame of another symbol may arrive on a connection. Of the three
windows only the longest is kept, and ping, pong and the time of the last
message are implied by the book ticker. Snapshots that are not bullish are not distinguished. The
two symbols are interchangeable, and the properties are invariants, so `Symmetry` is sound.

**`Preflight`.** Prices are whole units, percentages basis points, quantities multiples of the
smallest step; `FloorStep` and `CeilStep` round as the code does. `Enter` to `SubmitEntry` and
`Convert`, `CancelOld`, `Rebuild`, `Submit` are cut where a request of the network separates what
was read from its use. A position that was sold in whole (`held <= 0` in `convert`) does not occur: the
take-profit of `PartialTakeProfit` sells half. Unknown outcomes of POST and DELETE are left to `SpotExecution`. Limits of the
whole exchange have the form of those of the symbol and are left out; so are malformed answers.

**Faults.** In `SpotExecution`, one unit of `MaxFaults` buys any of: a lost answer (the request may have been
executed, may be executed later, or never), a definite reject without cause, a failing read, an
exchange-side expiry of the entry, a lost user stream, a failing verdict of reconciliation.
`MaxCrashes` bounds process deaths; a death is possible at every step.

## 3. Runs

| Run | Bounds | States | What it shows |
|---|---|---|---|
| `recovery` | 1 trade, 2 lots, 4 intents, 1 fault, 1 crash; convert, emergency, stale, clear | 1.8 M | `TypeOK`; `AtMostOncePost`; `LandedIsDurable`; `ChildClosesPlan`; `UncertainNotTerminal`; `ClosedTradeIsDead`; `ImplementsLedger` |
| `two_trades` | 2 trades, 2 lots, 4 intents, 1 fault, 1 crash; manual, clear; list shape | 2.6 M | `ArmedOwned`; `RejectedNeverFilled`; `EntryNeedsCertainty` |
| `replacement` | 1 trade, 2 lots, 4 intents, 2 faults; convert, auto, emergency, stale, resync; both shapes | 2.0 M | `OneLiveOrder`; `ConfirmedCancelTerminal`; `SellReplaces` |
| `liveness` | 1 trade, 2 lots, 6 intents, no fault | 9 k | `PartialFillEnds`; `StaleEntryEnds` |
| `trade_events` | 3 lots, 1 failure or lost backlog, 1 crash | 5.2 M | `TypeOK`; `NoReportForgotten`; `SettledRow`; `LifecycleMonotone` |
| `pair_switch` | 2 pairs, 3 generations, testnet with 2 failing writes, live with none, 2 crashes | 0.54 M | `ArmedProven`; `TradeOfGeneration`; `LiveArmedEvidence`; `ImplementsSequence` |
| `owner_commands` | 3 messages, the recovery of the panel and pauses, 1 given-up wait, 1 crash or failing call | 0.84 M | `TypeOK`; `AtMostOnce`; `SuccessIsReal`; `ClearAfterReconcile` |
| `signal_gate` | 4 candles over a day boundary, budget 1, 1 fault | 1.3 M | `TypeOK`; `SignalSentOnce`; `StopoutsCounted`; `LossesWithinBudget` |
| `supervisor` | 2 streams, 2 lost connections, 1 crash, 1 failing save, 1 change of evidence | 1.5 M | `TypeOK`; `LatchedOff`; `GapVisible`; `StreamReturns` |
| `quota_ledger` | 10 ticks, months of 5, 2 calls a month, 2 faults | 0.18 M | `TypeOK`; `BudgetKept` |
| `market_stream` | 2 symbols, 2 generations, 3 trades, 2 faults | 5.6 M | `EntryOfPair`; `EntrySupported` |
| `preflight` | 3 prices, 7 sets of filters, 2 foreign lists, 3 changes or failing requests | 4.1 M | `ReplacementSound` |

Why the bounds suffice: two lots allow a partial fill and its completion; four intents hold an
entry, a cancel, a plan and a child, or an entry with two cancel/replace halves; two faults allow
a lost answer followed by a lost cancel or by an expiry; a second trade is what a wrongly closed
record endangers, and what a partial-fill recovery left over from the first one meets; three lots
give two partial fills, so that one report can be overtaken by another. Three generations bring the
first pair back; three messages hold a request, its confirmation and a second press or a pause;
four candles a stop-out before and after midnight and a signal written again; two lost connections a
loss during the reconnection from the first; ten ticks both sides of the turn of a month; three trades
a gap with a trade on each side; three changes a price at which the stop may be raised, the tick at
which the cache expires and the change that the second validation meets. The minute window of
`QuotaLedger` binds only for an interval below a minute, which the settings do not allow.
The runs differ because the product of all commands, both shapes, crashes
and two faults is out of reach; each keeps what its properties need. A property that fails only
beyond these bounds is missed unless it is proved (section 5); every invariant and every action
property above is.

**Fairness** (`FairSpec`). `WF(Proceed)`: a handler under way goes on, because every gateway
call has a timeout and the supervisor is restarted by its container. `SF(TickBegin)`: the main
loop calls `tick` once per cycle, whatever commands or signals arrive in between, so a tick that
is possible again and again happens. Nothing is assumed of the exchange's fills, of the owner or
of the stream. In `Supervisor`, `FairSpec` is weak fairness of the steps of a stream's own threads
(`Client`): the socket's thread runs, timers fire, and a connection is answered or lost. Losses are
bounded; a stream for which a close was swallowed (below) is exempt. `OwnerCommands` has no liveness
property: with a lost answer the owner is told so and nothing more is promised. With faults, progress is not claimed: a refused cancel may leave a partial fill
for the owner, by design.

**Disagreements between the code and its documents.** Each has a configuration that is kept here
beside those of the runs and that TLC refutes (`tlc -config <name>.cfg <module>`):

| Configuration | Module | What the code does |
|---|---|---|
| `blind_second_sell` | `MCSpotExecution` | after an ambiguous `PARTIAL_FILL_PROTECTION`, the next tick sends another |
| `partial_cancels_protection` | `MCSpotExecution` | a protection's list is taken for the entry's list and cancelled |
| `exit_leaves_btc` | `MCSpotExecution` | `emergency_exit` sells the quantity of a row read before the cancel; a fill in between is left behind in a closed record |
| `unknown_outcome_armed` | `MCSpotExecution` | an ambiguous cancel does not pause entries |
| `clear_pause_armed` | `MCSpotExecution` | arming completes over a pause set by a stream callback; clearing the pause leaves entries on although the command answers that they remain off |
| `late_report_protection` | `TradeEvents` | a late report lowers the filled quantity that a GET had raised, and the protection covers less than was executed |
| `live_switch_unlatched` | `PairSwitch` | a failing save after the publication skips the restart latch of live mode |
| `late_resume` | `OwnerCommands` | entries are armed after the owner was told that arming was refused |
| `pause_overtaken` | `OwnerCommands` | an older resume is executed after a later pause: commands run in the order of random names |
| `stream_stranded` | `Supervisor` | a close before the timer's thread gives back the lock schedules nothing; the stream stays down |
| `restart_stream_pauses` | `Supervisor` | a restarted stream takes ordinary balance messages for a reconnection and pauses entries |
| `resync_unsaved` | `Supervisor` | a resynchronisation that cannot save leaves entries armed over the outage |
| `quota_zero_reset` | `QuotaLedger` | a database deleted under the process starts again at zero |
| `quota_clock_back` | `QuotaLedger` | a clock that steps back over the end of a month resets the count |
| `quota_two_processes` | `QuotaLedger` | a refused reservation of a second process restores the old month |
| `warmup_counts_connecting` | `MarketStream` | the warm-up runs while the first connection is still being made |
| `preflight_cached` | `MCPreflight` | the validation before the submission uses cached filters |
| `preflight_sold` | `MCPreflight` | after a partly filled take-profit the first validation uses the old quantity; the second may refuse after the cancel |
| `preflight_single_order` | `MCPreflight` | a single order answered with the list -1 is taken for a list; its cancel is refused and blocks the account |

The passing runs exclude exactly these cases, each by a named disjunct of its property or a named
bound: `GapVisible` and `StreamReturns` the stranded stream and the failing save, `LiveFailures` = 0
the failing save of live mode, `Spec` of `QuotaLedger` deletion, backward clock and second process,
`NoSelfInflictedGap` a change after the filters were read (the cache included) and a part already sold.

## 4. Mutants

Beside a definition whose guard or order matters stands its mutant (`Mutant:` comments in
the component modules), a plausible bug such as retrying a POST, marking an intent only in memory, trusting a
DELETE that failed, counting a quota after the call, or subtracting a list that was none. Each property of a passing run is violated
when the mutant replaces the definition.

## 5. Proofs

`SpotExecutionProofs` proves for every value of the constants, under `ExchangeAssumption` and
`ExecutionAssumption` only:

* `Invariance`: `Spec => []IInv`;
* `TypeCorrect`, `AtMostOnce`, `Durable`, `PlanClosed`: four invariants of the runs;
* `Refinement`: `SpotExecution` implements `OperationLedger`;
* `RowInvariance`: `Spec => [](IInv /\ RInv)`;
* `CancelIsProof` (`ConfirmedCancelTerminal`), `UncertainStaysOpen` (`UncertainNotTerminal`),
  `RejectedBoughtNothing` (`RejectedNeverFilled`).

`SpotExposureProofs` builds on it, under the same assumptions:

* `ExposureInvariance`: `Spec => [](IInv /\ RInv /\ EInv)`;
* `NeverTwoOrders` (`OneLiveOrder`), `ClosedIsDead` (`ClosedTradeIsDead`), `ArmedMeansOwned`
  (`ArmedOwned`): three invariants;
* `SellAlone` (`SellReplaces`), `EntryIsCertain` (`EntryNeedsCertainty`): two action properties.

Why `IInv` is needed: none of the properties is inductive. That a POST step sends nothing twice
depends on the state of the intent at that step, which depends on the program counter, which for
intents handled during reconciliation depends on the work list `rec.todo`. So `IInv` has three
parts: `TypeOK`; `LedgerInv` (per intent: nothing sent while PREPARED, at most once in all,
whatever landed has an admitting state, a child has an aborted parent); and `ControlInv`
(`StepInv`: the state of `op.i` at each step, `PlanInv`: the plan at the steps that hold one,
`TodoInv`: what reconciliation still has to do is unchanged). The proof has one lemma per action
for types, classifies each step by its effect on the ledger (`IntentStep`: it moves one intent
along an allowed edge, inserts one, sends one, or leaves the ledger alone), derives `LedgerInv` and
the refinement from that classification, and proves `ControlInv` component by component.

The last three relate rows and orders to intents, about which `IInv` says nothing; they need `RInv`.
`BookInv`: an order, or a request in flight, is for the quantity and of the kind of its intent.
`ShapeInv`: an unused intent belongs to no trade, and an entry asks for `EntryQty`. `RowInv`: a row
has at most one entry; it names only orders that exist; an entry that may yet land keeps it
nonterminal, `ENTRY_REJECTED` means `Unfilled`, and nothing but the entry is prepared before the row
names an order. `CancelInv`: a cancel names an order that exists, terminal once it is confirmed.
`SubmitInv` and `TargetInv` say what the main thread knows of the intent, the order and the row it
works on, as `StepInv` does for the state of the intent. The proof first says what a step does to
orders (`OrdersStep`: none disappears, a terminal one is frozen) and to intents (`Causes`,
`PreparedFacts`, `SettledFacts`: no step changes both intents and rows), then which of four things
a step does to a row (`RowsStep`), and checks `RowInv` once per kind (`RowStepOf`, `RowsKeptInv`). The same
invariants were checked by TLC on the instances of section 3 before they were proved.

How many orders are live at once is decided by what the thread believes of the account, and a belief
may be as old as the last reconciliation, so the five properties of `SpotExposureProofs` need a third
invariant, `EInv`. `KindInv`, `CurrentInv`: whatever is live or unresolved came with the last entry or
after it, and a sale follows an entry whose BUY is over. `StockInv`, `LimitInv` keep an account of the
BTC: what open SELL legs lock, what a working BUY leaves bare, and that the account holds no more
than the last entry bought less what was sold since; a second sale would be of BTC that is locked
or gone. `HoldInv` says the same of the rows: the quantities a row names cover what the account
holds while its entry is the last one (`Sound`), and a terminal row has nothing live. `KnowInv` is
what the thread has seen and still holds at each step, through the fills and stream callbacks
in between: before an entry is prepared nothing is live, unresolved or held; an emergency sale is
for what is left. `ArmInv` says on what entries are armed: either the account is
empty or an active row covers the last entry, every live order is named by an active row, and only
cancels, or the request that the thread itself has under way, may be unresolved. `TurnInv` separates the handlers that reconciliation calls from those of
the main loop. The proof classifies a step by its cause (the matching engine moved an order, an intent was
prepared, an intent was settled, a row was written), proves `KindInv` to `HoldInv` once per
cause, `KnowInv` and `TurnInv` step by step, and `ArmInv` by showing that what ends a
reconciliation with success (`Ready`) implies it.

`TradeEventsProofs` proves, under `EventsAssumption` only:

* `EventsInvariant`: `Spec => []IInv` for its own `IInv`;
* `EventsTypeCorrect`, `ReportsNotForgotten`: two invariants of `trade_events`;
* `LifecycleMovesForward`: the action property `LifecycleMonotone`;
* `RecordSettles`: the invariant `SettledRow`.

Neither `NoReportForgotten` nor `LifecycleMonotone` follows from the rules of a report alone. A replay works on a copy and
overwrites the row, so `IInv` says that the copy never falls behind the row and has heard the
journal up to its position (`ReplayInv`, `HeardInv`); a closed record must not be reopened by a
binding or by the recovery of a partial fill, so a record's final lifecycle is tied to the final
status of an order at the exchange (`Sound`), which needs every undelivered and journaled report to be
truthful (`TruthInv`) and final orders to stay final (`OrdersMove`). `RowStep` classifies each
step by what it does to record and journal in seven ways; soundness, monotonicity and `HeardInv`
are proved once per way.

`SettledRow` needs a second invariant, `SettledInv`, because the order in which reports reach the
journal is not the order in which the exchange made them: a GET may be journaled before an older
report arrives, which then sets the quantity back until the newer report is delivered too. So the
record follows the last entry report of the journal (`FilledInv`, also for the copy of a replay), the
last news of the exchange is the last entry report of the stream or, once that is drained, of the
journal (`NewsInv`), and that newest report is never dropped as a repetition of an earlier one
(`OnceInv`: each entry report has an event key of its own, because its quantity grows or its status
becomes final). `NewsCases` classifies each step by what it does to stream, journal and orders in five
ways.

`PairSwitchProofs` has no hypothesis but the module's assumption, except where one is named:

* `TypeCorrect`, the type invariant, which its run leaves to the proof;
* `ArmedOnlyProven` (`ArmedProven`), `TradeFollowsPair` (`TradeOfGeneration`);
* `LiveArmedWithEvidence`: `LiveFailures = 0 => (Spec => []LiveArmedEvidence)`. The hypothesis is
  the bound of the run: with a failing save in live mode the property is false
  (`live_switch_unlatched`);
* `Refinement`: `PairSwitch` implements `PairSequence`.

Whether entries may be armed is decided from files that other steps wrote, so `IInv` says what is
on disk at each step of a change (`StageInv`), what a file left behind by a dead process says
(`FileInv`), that the generation about to be published is free and no trade is open (`TargetInv`),
that an arming in progress has been proved by a heartbeat (`ArmingInv`), and that a process in
live mode has verified evidence of the generation on disk or latched itself (`LiveInv`).

`CommandProofs`, about `OwnerCommands`: `TypeCorrect`, `EffectOnce` (`AtMostOnce`), `SuccessTold`
(`SuccessIsReal`), `ReconciledFirst` (`ClearAfterReconcile`). A command is executed long after the
broker has forgotten it, so the order of claims is carried by the files: what has left the broker
belongs to an update below the offset (`UpdateInv`, `IssuedInv`); claim, execution, record and answer
follow each other (`CommandInv`); and while an action that stops at a refusal is under way, every call
before the current one was recorded as successful (`ProgressInv`). `SuccessIsReal` asks for every command
of the action, so `ActionInv` ties the calls under way to the action that was confirmed, through the token
to the question that issued it, and keeps what a report implied (`Done`) while messages are added.
`ClearAfterReconcile` is what
`ProgressInv` leaves behind when `clear` is issued, kept in `IssuedInv` for however long it waits.

`SignalGateProofs`: `TypeCorrect`, `SentOnce` (`SignalSentOnce`), `EveryStopoutCounted`
(`StopoutsCounted`), `DailyBudget` (`LossesWithinBudget`). The budget counts what was journaled, the
property what was lost; between them are a trade that is open, an exit that is being counted and
counts that were cut off. `CountInv` adds these up per day, and `BudgetInv` says how many losses
a trade that is open, or a signal that has passed the guard, still leaves room for; a new day
starts with its own room. `Cardinality` of the lost trades is used through
`FiniteSetTheorems` only.

`SupervisorProofs`, about `Spec` (which `FairSpec` of the run implies): `TypeCorrect`, `LatchHolds`
(`LatchedOff`), `OutageSeen` (`GapVisible`). A resume checks the restart request and arms two steps
later; `LatchInv` says that only the thread busy with it could have set one in between. For an outage
the difficulty is the time before `gap` is set: `OutageInv` says that whenever the stream is not
subscribed something already excuses it (a pause, a callback to come, one of the disagreements of
section 3), and `StreamInv` that only the current stream can be the one that is heard.

`MoneyFlowProofs`, about `QuotaLedger` under `OneProcess` (the service is deployed once; with two the
property is false, `quota_two_processes`): `TypeCorrect`, `Budget` (`BudgetKept`) and `MonthKept`
(no month exceeds its budget). The row never knows less than the history: `SpentInv` relates the
counts of every month to the row, `CallInv` says that a call that was granted is counted before it
leaves, in the month of the time its snapshot took, whatever month it is by then. The failures of a
provider have no bound of their own; that each needs a granted call (`Credit`) gives one. The delay
after a failure is a table of its five powers of two (`Doubled`), because the provers know no `^`.

`CommandProofs`, about `Preflight` under `PreflightAssumption`: `ReplacementIsSound` (`ReplacementSound`) for all
prices, filters and settings. `StopPaysBack` follows a stop through two roundings up and one
down; `MakerAbove` needs that 20 basis points are at least one tick, the assumption
`500 * r.tick <= p`, which holds for BTC by orders of magnitude. That a conversion does not leave the
position naked by itself is `Settled`: while nothing was disturbed the request in hand passes the
validator with the old protection gone (`ValidAfterCancel`), has its prices on the right sides of the
market, and asks for no more than the rounded balance.

`MoneyFlowProofs`, about `MarketStream` under `MarketAssumption`: `EntriesOfPair` (`EntryOfPair`) and
`EntriesSupported` (`EntrySupported`). `Coherent` says that rows and book are of the symbol that the stream follows, which holds because a new
generation starts an empty sample and only the current one is heard, and that the rows are trades without
a hole up to the last one, in the order of their times, which pruning by time keeps; `Sampling`, that the
threads of the current generation listen to its symbol, that a connection which was opened again began a
sample of its own, and that no thread is of a later generation. So a sample that is ready is of the pair
that was loaded (`ReadyShown`) and whole (`ReadyWhole`) when it is taken, and the job, the file and the
gate carry that on (`JobInv`, `FlowInv`).

To be in one module with those of another component, the definitions of two modules have names of
their own where others say `Init`, `Next`, `Spec` and `vars`: `PreflightInit`, `PreflightNext`,
`PreflightSpec`, `preflightVars` and `MarketInit`, `MarketNext`, `MarketSpec`, `marketVars`.

Only model-checked: the liveness properties `PartialFillEnds`, `StaleEntryEnds` and
`StreamReturns`, because fairness and ENABLED are out of the prover's reach, and the
violations of the runs in the second table. Every invariant and action property of the passing runs
is proved.

## 6. Plan

In order of importance; each step keeps what is checked.

1. Done: `SpotExchange`, `SpotExecution`, `OperationLedger` and their proofs; `TradeEvents` with its
   proofs.
2. Done: `PairSwitch` with `PairSequence`, `OwnerCommands`, `SignalGate`, `Supervisor`,
   `QuotaLedger`, `MarketStream`, `Preflight`.
3. Done: the proofs of `PairSwitch` with its refinement, `OwnerCommands`, `SignalGate`, `Supervisor`,
   `QuotaLedger` and `Preflight`.
4. Done: `SettledRow` of `TradeEvents`; the second invariant of `SpotExecution` with `ConfirmedCancelTerminal`,
   `UncertainNotTerminal` and `RejectedNeverFilled`.
5. Done: the third invariant of `SpotExecution` with `OneLiveOrder`, `ClosedTradeIsDead`, `ArmedOwned`,
   `SellReplaces` and `EntryNeedsCertainty`; `EntryOfPair` and `EntrySupported` of `MarketStream`.
6. Open: the hazards of `PROJECT.json` that no property covers; each has a note.

## 7. Not modelled

HTTP, signing and clock synchronisation of the gateway; schema migration, backups and integrity
checks of the store; the reports, menus and signal notifier of the panel; adaptive configuration and
the health file; the content of evidence, signatures and envelope parsing; indicators and ratios;
the simulation adapter; monitoring; deployment. They are data, input and output, or read-only;
`PROJECT.json` gives the reason for each component.
