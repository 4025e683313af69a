---------------------------- MODULE MarketStream ----------------------------
(***************************************************************************)
(* The money-flow service: its market-data socket (moneyflow/spot_stream.py) *)
(* with the rolling sample of aggregate trades, the collection loop          *)
(* (moneyflow/service.py) that classifies a sample and publishes it under    *)
(* the hash of the pair it belongs to, and the reader of that file, the      *)
(* flow gate of the order manager.                                           *)
(*                                                                           *)
(* The service loop and one socket thread per generation share the stream    *)
(* under its lock; a replaced thread lives on until it notices.  Time is     *)
(* counted in ticks, a trade is its symbol and id, and of the three windows  *)
(* only the longest is kept: it alone decides readiness.                     *)
(***************************************************************************)
EXTENDS Integers, Sequences, FiniteSets, FiniteSetsExt, TLC

CONSTANTS
  Symbols,         \* approved BTC symbols
  Window,          \* ticks of max(WINDOW_SECONDS)
  StaleAfter,      \* stale_after_seconds
  MaxFlowAge,      \* MAX_FLOW_AGE_SECONDS
  Providers,       \* configured sources of the external context
  MinProviders,    \* EXTERNAL_CONFLUENCE_MIN_PROVIDERS
  RequireExternal, \* REQUIRE_EXTERNAL_CONFLUENCE
  LastTick,        \* bound: the last tick
  MaxTrades,       \* bound: trades executed
  MaxGen,          \* bound: generations of the active pair
  MaxWire,         \* bound: frames on their way in a connection
  MaxMishaps       \* bound: lost, repeated or stray frames, lost connections, errors, crashes

ASSUME MarketAssumption ==
  /\ Symbols # {} /\ RequireExternal \in BOOLEAN
  /\ {StaleAfter, Window, LastTick, MaxGen} \subseteq Nat \ {0}
  /\ {MaxFlowAge, MinProviders, MaxTrades, MaxWire, MaxMishaps} \subseteq Nat
  /\ StaleAfter <= Window

None == 0 - 1

VARIABLES
  now,
  pair,     \* the active pair of the sidecar: its symbol and generation
  lastTrade, \* the exchange: the id of the last aggregate trade of a symbol
  stream,   \* attributes of SpotMarketStream that its lock guards
  threads,  \* socket threads still running
  job,      \* locals of the collection in progress
  flow,     \* the published snapshot
  mishaps

marketVars == <<now, pair, lastTrade, stream, threads, job, flow, mishaps>>

Fault == mishaps < MaxMishaps /\ mishaps' = mishaps + 1
NoFault == mishaps' = mishaps

NoBook == [sym |-> "", at |-> None]
Fresh == [gen |-> 0, sym |-> "", alive |-> FALSE, connected |-> FALSE, rows |-> {},
          book |-> NoBook, started |-> None, lastId |-> None]
Idle == [pc |-> "idle"]
\* no snapshot, or one that is not ok or not bullish: no other field of it is used
NoFlow == [pair |-> [sym |-> "", gen |-> 0], at |-> 0, ok |-> FALSE, bullish |-> FALSE,
           seen |-> {}]

MarketInit ==
  /\ now = 0 /\ mishaps = 0
  /\ \E s \in Symbols : pair = [sym |-> s, gen |-> 1]
  /\ lastTrade = [s \in Symbols |-> 0]
  /\ stream = Fresh /\ threads = {} /\ job = Idle /\ flow = NoFlow

(***************************************************************************)
(* The sample                                                              *)
(***************************************************************************)

\* _reset_sample
Reset(s) == [s EXCEPT !.rows = {}, !.book = NoBook, !.started = now, !.lastId = None]

\* _prune: rows older than the longest window go
Prune(s) == [s EXCEPT !.rows = {r \in @ : r.at >= now - Window}]

Frame(sym, id) == [sym |-> sym, id |-> id]

\* ingest_trade of the frame f, which the stream takes only if it is new
Take(s, f) ==
  Prune([s EXCEPT !.rows = @ \cup {[sym |-> f.sym, id |-> f.id, at |-> now]}, !.lastId = f.id])
Discarded(s, f) == f.sym # s.sym \/ (s.lastId # None /\ f.id <= s.lastId)

\* Mutant: a gap in the trade ids does not restart the sample.
IngestNoGap(s, f) == IF Discarded(s, f) THEN s ELSE Take(s, f)

Ingest(s, f) ==
  IF Discarded(s, f) THEN s
  ELSE IF s.lastId # None /\ f.id # s.lastId + 1 THEN Take(Reset(s), f)
  ELSE Take(s, f)

\* snapshot: a fresh book, a warm window and at least one trade in it.  A book
\* ticker is a message too, so the age of the last message, and with it the pongs,
\* adds no condition.
IsFresh(s) == s.connected /\ s.book # NoBook /\ now - s.book.at <= StaleAfter
IsReady(s) == IsFresh(s) /\ now - s.started >= Window /\ Prune(s).rows # {}

(***************************************************************************)
(* The socket threads (_run and its callbacks)                             *)
(***************************************************************************)

Current(t) == t.gen = stream.gen
Become(t, u) == threads' = (threads \ {t}) \cup {u}
\* a thread of an old generation ends where a current one goes on as u
GoOn(t, u) == threads' = (threads \ {t}) \cup (IF Current(t) THEN {u} ELSE {})
Callback(t, s) == stream' = IF Current(t) THEN s ELSE stream
OthersOfSocket == <<now, pair, lastTrade, job, flow>>

\* the first attempt, or the backoff is over
Dial(t) ==
  /\ t.st = "wait"
  /\ GoOn(t, [t EXCEPT !.st = "opening"])
  /\ NoFault /\ UNCHANGED <<OthersOfSocket, stream>>

\* _on_open: every connection but a thread's first clears the sample
Open(t) ==
  /\ t.st = "opening"
  /\ Become(t, [t EXCEPT !.st = "open", !.opened = now, !.again = ~t.first, !.wire = <<>>])
  /\ LET s == [stream EXCEPT !.connected = TRUE] IN
       Callback(t, IF t.first THEN s ELSE Reset(s))
  /\ NoFault /\ UNCHANGED OthersOfSocket

\* _on_message with an aggregate trade; one of another symbol is counted as malformed
OnTrade(t) ==
  /\ t.st = "open" /\ t.wire # <<>>
  /\ Become(t, [t EXCEPT !.wire = Tail(@)])
  /\ Callback(t, IF Head(t.wire).sym = t.sym THEN Ingest(stream, Head(t.wire)) ELSE stream)
  /\ NoFault /\ UNCHANGED OthersOfSocket

\* _on_message with a book ticker (ingest_book)
OnBook(t) ==
  /\ t.st = "open"
  /\ Callback(t, [stream EXCEPT !.book = [sym |-> t.sym, at |-> now]])
  /\ NoFault /\ UNCHANGED <<OthersOfSocket, threads>>

\* The connection ends: closed by ensure_symbol, or lost.  run_forever may
\* leave by an exception that no on_close announces.
Drop(t) ==
  /\ t.st \in {"opening", "open"}
  /\ IF Current(t) THEN Fault ELSE NoFault
  /\ GoOn(t, [t EXCEPT !.st = "wait", !.first = FALSE, !.wire = <<>>])
  /\ \E announced \in BOOLEAN :
       Callback(t, [stream EXCEPT !.connected = @ /\ ~announced])
  /\ UNCHANGED OthersOfSocket

Socket ==
  \E t \in threads : Dial(t) \/ Open(t) \/ OnTrade(t) \/ OnBook(t) \/ Drop(t)

\* ensure_symbol: a symbol that is not followed yet gets a new generation and thread
Followed(sym) == stream.alive /\ stream.sym = sym
\* Mutant: the sample of the symbol before is kept.
FollowKeeps(sym) ==
  [stream EXCEPT !.gen = @ + 1, !.sym = sym, !.alive = TRUE, !.connected = FALSE]
Follow(sym) == [Reset([stream EXCEPT !.gen = @ + 1, !.sym = sym, !.alive = TRUE]) EXCEPT
                  !.connected = FALSE]
EnsureSymbol(sym) ==
  IF Followed(sym) THEN [stream |-> stream, threads |-> threads]
  ELSE [stream |-> Follow(sym),
        threads |-> threads \cup {[gen |-> stream.gen + 1, sym |-> sym, st |-> "wait",
                                   first |-> TRUE, opened |-> None, again |-> FALSE, wire |-> <<>>]}]

(***************************************************************************)
(* The exchange, the clock and the sidecar's pair switch                   *)
(***************************************************************************)

\* A trade is executed; the connections to its symbol get a frame, unless it is lost.
Listening(s) == {t \in threads : t.st = "open" /\ t.sym = s}
Send(s, id) ==
  threads' = (threads \ Listening(s)) \cup
               {[t EXCEPT !.wire = Append(@, Frame(s, id))] : t \in Listening(s)}

Execute(s) ==
  /\ \E t \in threads : t.sym = s   \* before, a trade only moves the numbering
  /\ MapThenSumSet(LAMBDA x : lastTrade[x], Symbols) < MaxTrades
  /\ \A t \in Listening(s) : Len(t.wire) < MaxWire
  /\ lastTrade' = [lastTrade EXCEPT ![s] = @ + 1]
  /\ \/ NoFault /\ Send(s, lastTrade[s] + 1)
     \/ Fault /\ Listening(s) # {} /\ UNCHANGED threads
  /\ UNCHANGED <<now, pair, stream, job, flow>>

\* a connection gets a frame a second time, or one of another symbol
Repeat(s) ==
  /\ lastTrade[s] > 0 /\ Fault
  /\ \E t \in threads :
       /\ t.st = "open" /\ Len(t.wire) < MaxWire
       /\ Become(t, [t EXCEPT !.wire = Append(@, Frame(s, lastTrade[s]))])
  /\ UNCHANGED <<now, pair, lastTrade, stream, job, flow>>

PassTime ==
  /\ now < LastTick /\ now' = now + 1
  /\ UNCHANGED <<pair, lastTrade, stream, threads, job, flow, mishaps>>

SwitchPair ==
  /\ pair.gen < MaxGen
  /\ \E s \in Symbols \ {pair.sym} : pair' = [sym |-> s, gen |-> pair.gen + 1]
  /\ UNCHANGED <<now, lastTrade, stream, threads, job, flow, mishaps>>

(***************************************************************************)
(* The collection loop (main, run_once, collect)                           *)
(***************************************************************************)

\* run_once and the beginning of collect: the pair state, then metadata and depth of its symbol
Load ==
  /\ job.pc = "idle" /\ job' = [pc |-> "loaded", pair |-> pair]
  /\ UNCHANGED <<now, pair, lastTrade, stream, threads, flow, mishaps>>

\* What a sample of the stream shows: trades and a book, of which symbol and when received.
Shown(s) == {[sym |-> r.sym, at |-> r.at] : r \in Prune(s).rows} \cup {s.book}

\* For EntrySupported: the sample has no hole, and no reconnection is younger
\* than the window.
NoHole(s) == LET ids == {r.id : r \in Prune(s).rows} IN \A i, j \in ids : i .. j \subseteq ids
Whole(s) ==
  /\ NoHole(s)
  /\ \A t \in threads : t.gen = s.gen /\ t.again => now - t.opened >= Window

\* The sample of the stream, or the trades of the REST request that replaces one that is not
\* ready, and the time of the snapshot.  The stream follows the pair that was loaded, which may
\* have been switched since.
Sample ==
  LET sym == job.pair.sym
      e == EnsureSymbol(sym)
      ready == IsReady(e.stream)
  IN
  /\ job.pc = "loaded"
  /\ stream' = Prune(e.stream) /\ threads' = e.threads
  /\ job' = [pc |-> "sampled", pair |-> job.pair, at |-> now,
              shown |-> IF ready THEN Shown(e.stream) ELSE {[sym |-> sym, at |-> now]},
              whole |-> ready => Whole(e.stream)]
  /\ UNCHANGED <<now, pair, lastTrade, flow, mishaps>>

\* external_confluence over the quotes of the enabled providers
Quotes == [Providers -> {"stale", "confirms", "contradicts"}]
Confluence(q) ==
  LET fresh == {p \in Providers : q[p] # "stale"} IN
  /\ Cardinality(fresh) >= MinProviders
  /\ \A p \in fresh : q[p] = "confirms"

\* what the snapshot comes to; spotOk: taker ratio and depth imbalance reach their minima, up:
\* bullish higher timeframes out of five, failed: timeframes without an answer
Contexts ==
  {[spotOk |-> spotOk, up |-> up, failed |-> failed, confirmed |-> Confluence(q),
    against |-> \E p \in Providers : q[p] = "contradicts"] :
     spotOk \in BOOLEAN, up \in {2, 3}, failed \in {0, 1}, q \in Quotes}

\* classify
Bullish(c) == c.spotOk /\ c.up >= 3 /\ (RequireExternal => c.confirmed)

\* The snapshot is completed, classified and published; anything unavailable makes
\* it not ok, and not bullish.
Published(c) ==
  LET ok == c.failed = 0 /\ (RequireExternal => c.confirmed) IN
  IF ok /\ Bullish(c)
    THEN [pair |-> job.pair, at |-> job.at, ok |-> ok, bullish |-> TRUE,
          seen |-> {[shown |-> job.shown, whole |-> job.whole,
                     up |-> c.up, failed |-> c.failed, against |-> c.against]}]
    ELSE NoFlow
Publish ==
  /\ job.pc = "sampled"
  /\ flow' \in {Published(c) : c \in Contexts} /\ job' = Idle
  /\ UNCHANGED <<now, pair, lastTrade, stream, threads, mishaps>>

\* an exception anywhere in run_once
Fail ==
  /\ Fault
  /\ flow' = NoFlow
  /\ job' = Idle
  /\ UNCHANGED <<now, pair, lastTrade, stream, threads>>

\* stop, or a crash, and the next start of the service: the file stays
RestartService ==
  /\ stream.alive /\ Fault
  /\ stream' = Fresh /\ threads' = {} /\ job' = Idle
  /\ UNCHANGED <<now, pair, lastTrade, flow>>

Service == Load \/ Sample \/ Publish \/ Fail \/ RestartService

MarketNext ==
  \/ Socket \/ Service \/ PassTime \/ SwitchPair
  \/ \E s \in Symbols : Execute(s) \/ Repeat(s)

Symmetry == Permutations(Symbols)

MarketSpec == MarketInit /\ [][MarketNext]_marketVars

(***************************************************************************)
(* The reader: _flow_gate of the order manager                             *)
(***************************************************************************)

GateAccepts ==
  /\ flow.pair = pair
  /\ now - flow.at <= MaxFlowAge
  /\ flow.ok /\ flow.bullish

(***************************************************************************)
(* Properties                                                              *)
(***************************************************************************)

\* What admits an entry shows the active pair: every trade and the book in it came from a
\* connection to that pair's symbol, and was received within the window before a snapshot that
\* is no older than MaxFlowAge, also when the pair changed during the collection, between two,
\* or while the threads of the pair before still ran.  (spot_stream.ensure_symbol, _on_message,
\* ingest_trade and _prune, service.collect, order_manager._flow_gate.)
EntryOfPair ==
  GateAccepts =>
    \E e \in flow.seen :
      /\ e.shown # {}
      /\ \A x \in e.shown : x.sym = pair.sym /\ now - x.at <= MaxFlowAge + Window

\* What admits an entry has every confirmation: a sample without a lost trade,
\* every timeframe fetched and a majority of them bullish, and no fresh provider
\* against it when the external context is required.  (order_manager._flow_gate,
\* spot_stream.ingest_trade and snapshot, service.collect.)
EntrySupported ==
  GateAccepts =>
    \E e \in flow.seen :
      /\ e.whole
      /\ e.up >= 3 /\ e.failed = 0
      /\ RequireExternal => ~e.against

\* The document (docs/SPOT_ONLY_MONEYFLOW_2026-08-23.md): a change of symbol
\* clears the sample and requires a complete 60-second warm-up.  The code counts
\* it from ensure_symbol, before there is a connection.
WarmUpComplete ==
  \A t \in threads : Current(t) /\ t.st = "open" /\ IsReady(stream) => now - t.opened >= Window
=============================================================================
