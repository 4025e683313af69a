----------------------------- MODULE Supervisor -----------------------------
(***************************************************************************)
(* The sidecar process around the execution adapter, in live mode: its     *)
(* start-up interlock, the serial main loop with its two evidence checks,  *)
(* the owner's commands, and the user data stream whose threads call the   *)
(* adapter at any time between the steps of that loop.                     *)
(*                                                                         *)
(* The stream object runs in three threads that share _reconnect_lock:     *)
(* the socket's (run_forever, every callback), and the timer's.  A stream  *)
(* is a record: sock is the state of its WebSocket ("closing": closed, but *)
(* on_close has not run), lock says where the owner of _reconnect_lock is, *)
(* ready is the start-up event with its error, wired is on_account_update. *)
(*                                                                         *)
(* gap is a history variable: something happened on the exchange that no   *)
(* subscription delivered and no reconciliation has looked at since.       *)
(* overruled says that the owner lifted the risk pause over such an        *)
(* outage; it is the only excuse the properties know.                      *)
(***************************************************************************)
EXTENDS Naturals, FiniteSets

CONSTANTS
  MaxStreams,     \* stream objects of one process (restart_stream makes one)
  MaxDrops,       \* connections that are lost or refused
  MaxCrashes,     \* process deaths
  SaveFailures,   \* writes of sidecar_state.json that fail in _on_resync
  MaxRenewals     \* evidence documents the owner signs and installs

ASSUME BoundsAssumption ==
  /\ MaxStreams \in Nat \ {0}
  /\ {MaxDrops, MaxCrashes, SaveFailures, MaxRenewals} \subseteq Nat

VARIABLES
  pc,         \* step of the main thread; "down" when there is no process
  enabled,    \* adapter.enabled, in memory
  entries,    \* entries_enabled of the durable state
  pause,      \* global_pause of the risk guard, durable
  latched,    \* live_evidence_failure_latched
  restartReq, \* live_restart_required
  lease,      \* remaining life of the evidence the process verified
  file,       \* the evidence file now: as verified, or other bytes
  stream,     \* the stream objects
  cur,        \* the adapter's stream
  dirty,      \* _account_dirty_since is set
  gap, overruled,
  drops, crashes, failures, renewals

streams == <<stream, cur>>
evidence == <<latched, restartReq, lease, file>>
switches == <<enabled, entries, pause>>
bounds == <<drops, crashes, failures, renewals>>
vars == <<pc, switches, evidence, streams, dirty, gap, overruled, bounds>>

Streams == 1 .. MaxStreams
Idle == [running |-> FALSE, sock |-> "none", lock |-> "free", ready |-> "no", wired |-> FALSE]

Armed == enabled /\ entries
On(s) == stream[s].sock = "on"
Delivered == \E s \in Streams : On(s)

Init ==
  /\ pc = "down" /\ enabled = FALSE /\ entries = FALSE /\ pause = FALSE
  /\ latched = FALSE /\ restartReq = FALSE
  /\ lease = "long" /\ file = "verified"
  /\ stream = [s \in Streams |-> Idle] /\ cur = 0 /\ dirty = FALSE
  /\ gap = FALSE /\ overruled = FALSE
  /\ drops = 0 /\ crashes = 0 /\ failures = 0 /\ renewals = 0

-----------------------------------------------------------------------------
(* What every handler is made of. *)

Set(s, f, v) == stream' = [stream EXCEPT ![s][f] = v]

\* _disarm: the durable switch, then the adapter's.
Disarm == entries' = FALSE /\ enabled' = FALSE

\* BitcoinSpotAdapter._pause.
Pauses == Disarm /\ pause' = TRUE

\* verified_reconcile: under the adapter's lock it asks the exchange for all
\* there is to know; ok is its verdict.
Reconciles(ok) ==
  /\ gap' = IF ok THEN FALSE ELSE gap
  /\ overruled' = (overruled /\ ~(ok /\ Delivered))

\* _connect of stream s, by the main thread in start or by the timer.
Connecting(r) == [r EXCEPT !.sock = "connecting", !.ready = "no"]

\* stream_factory(...) and stream.start() up to the wait for the answer.
NewStream(s, w) ==
  Connecting([Idle EXCEPT !.running = TRUE, !.wired = w])

-----------------------------------------------------------------------------
(* Start-up. *)

\* live_interlock: entries go off first; without valid evidence the process
\* ends.  adapter.start then opens the stream before it reconciles.
EvidenceValid == file = "verified" /\ lease # "expired"

Boot ==
  /\ pc = "down" /\ EvidenceValid
  /\ latched' = FALSE /\ restartReq' = FALSE
  /\ Disarm
  /\ cur' = 1
  /\ stream' = [stream EXCEPT ![1] = NewStream(1, TRUE)]
  /\ pc' = "starting"
  /\ UNCHANGED <<pause, lease, file, dirty, gap, overruled, bounds>>

\* start returned: verified_reconcile, then the disarm that ends start-up.
Started ==
  /\ pc = "starting" /\ stream[cur].ready = "ok"
  /\ Reconciles(TRUE) /\ Disarm
  /\ pc' = "lease"
  /\ UNCHANGED <<pause, evidence, streams, dirty, bounds>>

\* The process ends, by an error of start or at any other point.
Ends ==
  /\ pc' = "down" /\ enabled' = FALSE /\ dirty' = FALSE
  /\ stream' = [s \in Streams |-> Idle] /\ cur' = 0
  /\ UNCHANGED <<entries, evidence, gap, overruled, drops, failures, renewals>>

\* start raises: no subscription, or the reconciliation (which pauses) failed.
StartFails ==
  /\ pc = "starting" /\ Ends
  /\ pause' = (pause \/ stream[cur].ready = "ok")
  /\ crashes < MaxCrashes /\ crashes' = crashes + 1

Crash ==
  /\ pc # "down" /\ Ends /\ UNCHANGED pause
  /\ crashes < MaxCrashes /\ crashes' = crashes + 1

-----------------------------------------------------------------------------
(* The main loop. *)

\* enforce_live_evidence_lease: due asks for the bytes and the signature as
\* well, with some life left.
LeaseHolds(due) ==
  /\ ~latched
  /\ lease # "expired"
  /\ due => file = "verified" /\ lease = "long"

\* Mutant: the failure is latched, but no restart is asked for.
EnforceLatchOnly(due) ==
  IF LeaseHolds(due) THEN UNCHANGED <<enabled, entries, latched, restartReq>>
  ELSE Disarm /\ latched' = TRUE /\ UNCHANGED restartReq

Enforce(due) ==
  IF LeaseHolds(due) THEN UNCHANGED <<enabled, entries, latched, restartReq>>
  ELSE Disarm /\ latched' = TRUE /\ restartReq' = TRUE

LeaseCheck ==
  /\ pc = "lease" /\ pc' = "command"
  /\ \E due \in BOOLEAN : Enforce(due)
  /\ UNCHANGED <<pause, lease, file, streams, dirty, gap, overruled, bounds>>

SecondLeaseCheck ==
  /\ pc = "recheck" /\ pc' = "tick"
  /\ Enforce(FALSE)
  /\ UNCHANGED <<pause, lease, file, streams, dirty, gap, overruled, bounds>>

NoCommand ==
  /\ pc = "command" /\ pc' = "recheck"
  /\ UNCHANGED <<switches, evidence, streams, dirty, gap, overruled, bounds>>

OwnerPauses ==
  /\ pc = "command" /\ pc' = "recheck" /\ Disarm
  /\ UNCHANGED <<pause, evidence, streams, dirty, gap, overruled, bounds>>

\* entries {enabled: true}: refused under a risk pause or a pending restart;
\* the pause is read here, the reconciliation and the two switches follow.
\* (The proof of the pair is PairSwitch's.)
MayResume == ~pause /\ ~restartReq

ResumeReconciles ==
  /\ pc = "command" /\ MayResume
  /\ \E ok \in BOOLEAN :
       /\ Reconciles(ok)
       /\ IF ok THEN pc' = "enable" /\ UNCHANGED switches
                ELSE pc' = "recheck" /\ Pauses
  /\ UNCHANGED <<evidence, streams, dirty, bounds>>

ResumeEnables ==
  /\ pc = "enable" /\ pc' = "arm" /\ enabled' = TRUE
  /\ UNCHANGED <<entries, pause, evidence, streams, dirty, gap, overruled, bounds>>

ResumeArms ==
  /\ pc = "arm" /\ pc' = "recheck" /\ entries' = TRUE
  /\ UNCHANGED <<enabled, pause, evidence, streams, dirty, gap, overruled, bounds>>

ReconcileCommand ==
  /\ pc = "command" /\ pc' = "recheck"
  /\ \E ok \in BOOLEAN : Reconciles(ok) /\ IF ok THEN UNCHANGED switches ELSE Pauses
  /\ UNCHANGED <<evidence, streams, dirty, bounds>>

\* clear_risk_pause asks for nothing; the owner answers for what it hides.
ClearPause ==
  /\ pc = "command" /\ pc' = "recheck" /\ pause' = FALSE
  /\ overruled' = (gap \/ ~Delivered)
  /\ UNCHANGED <<enabled, entries, evidence, streams, dirty, gap, bounds>>

\* restart_user_stream: pause, stop the old object, start a new one, which
\* is not given on_account_update.
RestartStream ==
  /\ pc = "command" /\ cur < MaxStreams
  /\ Pauses
  /\ stream' = [stream EXCEPT
       ![cur].running = FALSE,
       ![cur].sock = IF @ = "none" THEN "none" ELSE "closing",
       ![cur + 1] = NewStream(cur + 1, FALSE)]
  /\ cur' = cur + 1
  /\ pc' = "restarting"
  /\ UNCHANGED <<evidence, dirty, gap, overruled, bounds>>

Restarted ==
  /\ pc = "restarting" /\ stream[cur].ready = "ok" /\ pc' = "recheck"
  /\ \E ok \in BOOLEAN : Reconciles(ok) /\ IF ok THEN UNCHANGED switches ELSE Pauses
  /\ UNCHANGED <<evidence, streams, dirty, bounds>>

\* The start-up error, or no answer within 15 s: the command fails, the new
\* object stays and goes on reconnecting.
RestartFails ==
  /\ pc = "restarting" /\ stream[cur].ready # "ok" /\ pc' = "recheck"
  /\ IF stream[cur].ready = "no" THEN Set(cur, "sock", "closing") ELSE UNCHANGED stream
  /\ UNCHANGED <<cur, switches, evidence, dirty, gap, overruled, bounds>>

\* tick: five seconds after an account event the adapter reconciles.
Tick ==
  /\ pc = "tick" /\ pc' = "lease"
  /\ IF dirty
     THEN \E ok \in BOOLEAN : /\ Reconciles(ok) /\ dirty' = FALSE
                              /\ IF ok THEN UNCHANGED switches ELSE Pauses
     ELSE UNCHANGED <<switches, dirty, gap, overruled>>
  /\ UNCHANGED <<evidence, streams, bounds>>

-----------------------------------------------------------------------------
(* The stream's threads. *)

Quiet == UNCHANGED <<pc, evidence, dirty, overruled, cur>>

\* Mutant: an answer is taken although the subscription is still to come.
AckedEarly(s) ==
  /\ stream[s].sock = "connecting"
  /\ stream' = [stream EXCEPT ![s].sock = "on", ![s].ready = "subscribed"]
  /\ Quiet /\ UNCHANGED <<switches, gap, bounds>>

\* on_open sends the subscription; its answer is status 200.
Acked(s) ==
  /\ stream[s].sock = "connecting"
  /\ stream' = [stream EXCEPT ![s].sock = "on", ![s].ready = "ok"]
  /\ Quiet /\ UNCHANGED <<switches, gap, bounds>>

\* A refused connection or subscription, an error, a missed pong, the
\* server's eventStreamTerminated or serverShutdown: the socket closes.
Lost(s) ==
  /\ stream[s].sock \in {"connecting", "on"} /\ Set(s, "sock", "closing")
  /\ drops < MaxDrops /\ drops' = drops + 1
  /\ Quiet /\ UNCHANGED <<switches, gap, crashes, failures, renewals>>

\* _on_close: who finds the lock taken schedules nothing.
Closed(s) ==
  /\ stream[s].sock = "closing"
  /\ stream' = [stream EXCEPT
       ![s].sock = "none",
       ![s].ready = IF @ = "no" THEN "error" ELSE @,
       ![s].lock = IF stream[s].running /\ @ = "free" THEN "resync" ELSE @]
  /\ Quiet /\ UNCHANGED <<switches, gap, bounds>>

\* Mutant: the reconciliation is asked for and entries go off, without a pause.
ResyncWithoutPause(s) ==
  /\ stream[s].lock = "resync" /\ Set(s, "lock", "timer") /\ Disarm
  /\ Quiet /\ UNCHANGED <<pause, gap, bounds>>

\* adapter._on_resync, called before the reconnection is scheduled.
Resync(s) ==
  /\ stream[s].lock = "resync" /\ Set(s, "lock", "timer")
  /\ Pauses
  /\ Quiet /\ UNCHANGED <<gap, bounds>>

\* Its first save fails: the exception is logged and the reconnection goes on.
ResyncFails(s) ==
  /\ stream[s].lock = "resync" /\ Set(s, "lock", "timer")
  /\ failures < SaveFailures /\ failures' = failures + 1
  /\ Quiet /\ UNCHANGED <<switches, gap, drops, crashes, renewals>>

\* The timer: connect if still running, and only then give the lock back.
Reconnect(s) ==
  /\ stream[s].lock = "timer"
  /\ stream' = [stream EXCEPT ![s] =
       IF @.running THEN [Connecting(@) EXCEPT !.lock = "connect"] ELSE [@ EXCEPT !.lock = "free"]]
  /\ Quiet /\ UNCHANGED <<switches, gap, bounds>>

\* Mutant: the lock is kept by a timer that has connected.
ReleaseNever(s) ==
  /\ stream[s].lock = "connect" /\ ~stream[s].running /\ Set(s, "lock", "free")
  /\ Quiet /\ UNCHANGED <<switches, gap, bounds>>

Release(s) ==
  /\ stream[s].lock = "connect" /\ Set(s, "lock", "free")
  /\ Quiet /\ UNCHANGED <<switches, gap, bounds>>

\* outboundAccountPosition and its like: noted, or, on a stream without the
\* callback, taken for a reconnection.
AccountEvent(s) ==
  /\ On(s)
  /\ IF stream[s].wired THEN dirty' = TRUE /\ UNCHANGED switches
                        ELSE Pauses /\ UNCHANGED dirty
  /\ UNCHANGED <<pc, evidence, streams, gap, overruled, bounds>>

-----------------------------------------------------------------------------
(* The world outside. *)

\* The exchange executes something; without a subscription nobody hears.
ExchangeMoves ==
  /\ ~Delivered /\ gap' = TRUE
  /\ UNCHANGED <<pc, switches, evidence, streams, dirty, overruled, bounds>>

LeaseAges ==
  /\ lease # "expired" /\ lease' = IF lease = "long" THEN "short" ELSE "expired"
  /\ UNCHANGED <<pc, switches, latched, restartReq, file, streams, dirty, gap, overruled, bounds>>

\* Other bytes appear in the evidence file, or the old ones come back.
FileChanges ==
  /\ file' = IF file = "verified" THEN "other" ELSE "verified"
  /\ renewals < MaxRenewals /\ renewals' = renewals + 1
  /\ UNCHANGED <<pc, switches, latched, restartReq, lease, streams, dirty, gap, overruled,
                 drops, crashes, failures>>

\* Fresh evidence counts only for the next process.
Renew ==
  /\ pc = "down" /\ lease' = "long" /\ file' = "verified"
  /\ renewals < MaxRenewals /\ renewals' = renewals + 1
  /\ UNCHANGED <<pc, switches, latched, restartReq, streams, dirty, gap, overruled,
                 drops, crashes, failures>>

Main == \/ Boot \/ Started \/ LeaseCheck \/ SecondLeaseCheck \/ NoCommand \/ OwnerPauses
        \/ ResumeReconciles \/ ResumeEnables \/ ResumeArms \/ ReconcileCommand \/ ClearPause
        \/ RestartStream \/ Restarted \/ RestartFails \/ Tick

Client(s) == \/ Acked(s) \/ Closed(s) \/ Resync(s) \/ Reconnect(s) \/ Release(s)

World == \/ StartFails \/ Crash \/ ExchangeMoves \/ LeaseAges \/ FileChanges \/ Renew
         \/ \E s \in Streams : Lost(s) \/ AccountEvent(s) \/ ResyncFails(s)

Next == Main \/ World \/ \E s \in Streams : Client(s)

Spec == Init /\ [][Next]_vars

\* Threads and timers run, and a connection that is not dropped is answered.
FairSpec == Spec /\ \A s \in Streams : WF_vars(Client(s))

-----------------------------------------------------------------------------
(* Properties. *)

\* The type invariant of the process, its durable switches and its streams.
TypeOK ==
  /\ pc \in {"down", "starting", "lease", "command", "enable", "arm", "restarting",
             "recheck", "tick"}
  /\ {enabled, entries, pause, latched, restartReq, dirty, gap, overruled} \subseteq BOOLEAN
  /\ lease \in {"long", "short", "expired"} /\ file \in {"verified", "other"}
  /\ stream \in [Streams -> [running : BOOLEAN, wired : BOOLEAN,
                             sock : {"none", "connecting", "on", "closing"},
                             lock : {"free", "resync", "timer", "connect"},
                             ready : {"no", "ok", "error"}]]
  /\ cur \in 0 .. MaxStreams /\ (cur = 0 <=> pc = "down")

\* Evidence that failed one check stays failed for this process, although the
\* next check would accept it: entries are off and only a process that has
\* verified fresh evidence may switch them on (enforce_live_evidence_lease,
\* set_enabled, live_interlock).
LatchedOff == latched => ~enabled /\ ~entries /\ restartReq

\* Whatever the exchange did during an outage of the stream is noticed: until
\* a reconciliation has looked, the risk pause stands, unless the owner lifted
\* it over that very outage, on_close has not run yet or found the lock taken
\* (NeverStranded, below), or the durable file could not be written.  It holds through the resume that reconciled
\* just before the outage and arms just after.
Unheard(s) == stream[s].sock = "closing" \/ stream[s].lock = "resync"

Stranded(s) == stream[s].running /\ stream[s].sock = "none" /\ stream[s].lock = "free"

ToBeStranded(s) == stream[s].running /\ stream[s].sock = "none" /\ stream[s].lock = "connect"

GapVisible ==
  gap /\ pc \notin {"down", "starting"} =>
    pause \/ overruled \/ failures > 0 \/ \E s \in Streams : Unheard(s) \/ Stranded(s) \/ ToBeStranded(s)

\* A running stream is subscribed again and again, however often it is lost,
\* except after the event of the next property.
StreamReturns == \A s \in Streams : []<>(stream[s].running => On(s) \/ Stranded(s))

\* "Closing it drives the existing bounded reconnect loop instead of reporting
\* a permanently idle connection" (user_data_stream.py:186-188).  It does not
\* hold: a connection that ends before the timer's thread has given back the
\* lock is never tried again.
NeverStranded == \A s \in Streams : ~Stranded(s)

\* Ordinary balance events do not pause ("without falsely pausing after
\* ordinary fills/commissions", user_data_stream.py:147-150).  It does not
\* hold after restart_user_stream.
BalanceNeverPauses == [][\A s \in Streams : AccountEvent(s) => UNCHANGED switches]_vars

\* "User-data stream reconnects also disarm entries until reconciliation"
\* (ARCHITECTURE.md:59).  It does not hold when _on_resync cannot save: the
\* exception is logged, entries stay on and the reconnection goes its way.
ReconnectsDisarm ==
  [][\A s \in Streams : stream[s].lock = "resync" /\ stream'[s].lock = "timer" => ~Armed']_vars

=============================================================================
