-------------------------- MODULE SupervisorProofs --------------------------
(***************************************************************************)
(* Proofs about Supervisor: its types, the latch of a failed evidence check *)
(* and the visibility of an outage of the user data stream.                 *)
(***************************************************************************)
EXTENDS Supervisor, TLAPS

-----------------------------------------------------------------------------
(***************************************************************************)
(* The inductive invariant.                                                 *)
(***************************************************************************)

\* A resume that has passed its check finds no pending restart: the latch is set only by the
\* main thread, which is busy with the resume.
LatchInv ==
  /\ latched => restartReq /\ ~enabled /\ ~entries
  /\ pc \in {"enable", "arm"} => ~restartReq

\* Only the stream in use may be subscribed; who holds the lock to reconnect has lost its socket,
\* and the socket had answered or failed.
StreamInv ==
  \A s \in Streams :
    /\ stream[s].running => s = cur
    /\ ~stream[s].running => stream[s].sock \in {"none", "closing"}
    /\ stream[s].lock \in {"resync", "timer"} =>
         stream[s].sock = "none" /\ stream[s].ready # "no"

\* What excuses entries that stay on over an outage, with only the running stream counted.
Lapsing(s) == stream[s].running /\ (Unheard(s) \/ Stranded(s) \/ ToBeStranded(s))
Excused == pause \/ overruled \/ failures > 0 \/ \E s \in Streams : Lapsing(s)

\* From the answer to the subscription on, an outage is excused, and what happened during one is,
\* also after the stream has returned, until a reconciliation has looked.
OutageInv ==
  /\ pc # "down" /\ (pc = "starting" => stream[cur].ready = "ok") /\ ~Delivered => Excused
  /\ pc \notin {"down", "starting"} /\ gap => Excused
  /\ pc = "restarting" => pause

IInv == TypeOK /\ failures \in Nat /\ LatchInv /\ StreamInv /\ OutageInv

-----------------------------------------------------------------------------
(***************************************************************************)
(* Types.                                                                   *)
(***************************************************************************)
Object == [running : BOOLEAN, wired : BOOLEAN,
           sock : {"none", "connecting", "on", "closing"},
           lock : {"free", "resync", "timer", "connect"},
           ready : {"no", "ok", "error"}]

LEMMA ObjectTypes ==
  ASSUME TypeOK, NEW s \in Streams
  PROVE  stream[s] \in Object
BY DEF TypeOK, Object

LEMMA NewObject ==
  ASSUME NEW s, NEW w \in BOOLEAN PROVE Idle \in Object /\ NewStream(s, w) \in Object
BY DEF Idle, NewStream, Connecting, Object

LEMMA CurFacts ==
  ASSUME TypeOK, pc # "down" PROVE cur \in Streams
BY BoundsAssumption DEF TypeOK, Streams

LEMMA TypesMain == ASSUME TypeOK, Main PROVE TypeOK'
<1> USE DEF switches, evidence, streams, bounds, Disarm, Pauses, Reconciles
<1>1. CASE Boot
  <2>0. NewStream(1, TRUE) \in Object
    BY NewObject
  <2>1. stream' \in [Streams -> Object]
    BY <1>1, <2>0 DEF Boot, TypeOK, Object
  <2>2. cur' \in 0 .. MaxStreams /\ cur' # 0
    BY <1>1, BoundsAssumption DEF Boot
  <2> QED
    BY <1>1, <2>1, <2>2 DEF Boot, TypeOK, Object
<1>2. CASE Started \/ NoCommand \/ OwnerPauses \/ ClearPause
  BY <1>2 DEF Started, NoCommand, OwnerPauses, ClearPause, TypeOK
<1>3. CASE LeaseCheck \/ SecondLeaseCheck
  BY <1>3 DEF LeaseCheck, SecondLeaseCheck, Enforce, TypeOK
<1>4. CASE ResumeReconciles \/ ResumeEnables \/ ResumeArms
  BY <1>4 DEF ResumeReconciles, ResumeEnables, ResumeArms, TypeOK
<1>5. CASE ReconcileCommand \/ Restarted \/ Tick
  BY <1>5 DEF ReconcileCommand, Restarted, Tick, TypeOK
<1>6. CASE RestartStream
  <2>1. cur \in Streams /\ cur + 1 \in Streams /\ cur' \in 0 .. MaxStreams /\ cur' # 0
    BY <1>6, CurFacts, BoundsAssumption DEF RestartStream, TypeOK, Streams
  <2> DEFINE old == [stream[cur] EXCEPT !.running = FALSE,
                                        !.sock = IF @ = "none" THEN "none" ELSE "closing"]
  <2>2. old \in Object
    BY <2>1, ObjectTypes DEF Object
  <2>3. stream' = [stream EXCEPT ![cur] = old, ![cur + 1] = NewStream(cur + 1, FALSE)]
    BY <1>6, <2>1 DEF RestartStream, TypeOK
  <2>4. stream' \in [Streams -> Object]
    BY <2>1, <2>2, <2>3, NewObject DEF TypeOK, Object
  <2> QED
    BY <1>6, <2>1, <2>4 DEF RestartStream, TypeOK, Object
<1>7. CASE RestartFails
  BY <1>7 DEF RestartFails, TypeOK, Set
<1> QED
  BY <1>1, <1>2, <1>3, <1>4, <1>5, <1>6, <1>7 DEF Main

\* A step that sets the lock or the socket of one stream object leaves an object.
LEMMA LockSet ==
  ASSUME TypeOK, NEW s \in Streams, NEW v \in {"free", "resync", "timer", "connect"},
         Set(s, "lock", v)
  PROVE  stream' \in [Streams -> Object]
<1>1. stream \in [Streams -> Object] /\ stream[s] \in Object
  BY ObjectTypes DEF TypeOK, Object
<1>2. [stream[s] EXCEPT !.lock = v] \in Object
  BY <1>1 DEF Object
<1>3. stream' = [stream EXCEPT ![s] = [stream[s] EXCEPT !.lock = v]]
  BY <1>1 DEF Set, Object
<1> QED
  BY <1>1, <1>2, <1>3

LEMMA SockSet ==
  ASSUME TypeOK, NEW s \in Streams, Set(s, "sock", "closing")
  PROVE  stream' \in [Streams -> Object]
<1>1. stream \in [Streams -> Object] /\ stream[s] \in Object
  BY ObjectTypes DEF TypeOK, Object
<1>2. [stream[s] EXCEPT !.sock = "closing"] \in Object
  BY <1>1 DEF Object
<1>3. stream' = [stream EXCEPT ![s] = [stream[s] EXCEPT !.sock = "closing"]]
  BY <1>1 DEF Set, Object
<1> QED
  BY <1>1, <1>2, <1>3

LEMMA TypesClient == ASSUME TypeOK, NEW s \in Streams, Client(s) PROVE TypeOK'
<1> USE DEF switches, evidence, bounds, Quiet, Disarm, Pauses
<1>1. CASE Acked(s) \/ Closed(s)
  BY <1>1 DEF Acked, Closed, TypeOK
<1>2. CASE Resync(s)
  <2>1. stream' \in [Streams -> Object]
    BY <1>2, LockSet DEF Resync
  <2>2. enabled' \in BOOLEAN /\ entries' \in BOOLEAN /\ pause' \in BOOLEAN
    BY <1>2 DEF Resync
  <2>3. UNCHANGED <<pc, latched, restartReq, lease, file, dirty, overruled, cur, gap>>
    BY <1>2 DEF Resync
  <2> QED
    BY <2>1, <2>2, <2>3 DEF TypeOK, Object
<1>3. CASE Reconnect(s)
  <2> DEFINE new == IF stream[s].running THEN [Connecting(stream[s]) EXCEPT !.lock = "connect"]
                                         ELSE [stream[s] EXCEPT !.lock = "free"]
  <2>1. stream' \in [Streams -> Object]
    <3>1. stream \in [Streams -> Object] /\ stream[s] \in Object
      BY ObjectTypes DEF TypeOK, Object
    <3>2. [Connecting(stream[s]) EXCEPT !.lock = "connect"] \in Object
      BY <3>1 DEF Connecting, Object
    <3>3. [stream[s] EXCEPT !.lock = "free"] \in Object
      BY <3>1 DEF Object
    <3>4. new \in Object
      BY <3>2, <3>3
    <3>5. stream' = [stream EXCEPT ![s] = new]
      BY <1>3 DEF Reconnect
    <3> HIDE DEF new
    <3> QED
      BY <3>1, <3>4, <3>5
  <2>2. UNCHANGED <<pc, enabled, entries, pause, latched, restartReq, lease, file, dirty, gap,
                    overruled, cur>>
    BY <1>3 DEF Reconnect
  <2> QED
    BY <2>1, <2>2 DEF TypeOK, Object
<1>4. CASE Release(s)
  <2>1. stream' \in [Streams -> Object]
    BY <1>4, LockSet DEF Release
  <2> QED
    BY <1>4, <2>1 DEF Release, TypeOK, Object
<1> QED
  BY <1>1, <1>2, <1>3, <1>4 DEF Client

LEMMA TypesWorld == ASSUME TypeOK, World PROVE TypeOK'
<1> USE DEF switches, evidence, streams, bounds, Quiet, Disarm, Pauses
<1>1. CASE StartFails \/ Crash
  <2>1. Ends /\ pause' \in BOOLEAN
    BY <1>1 DEF StartFails, Crash, TypeOK
  <2>2. stream' \in [Streams -> Object] /\ pc' = "down" /\ cur' = 0 /\ 0 \in 0 .. MaxStreams
    BY <2>1, NewObject, BoundsAssumption DEF Ends
  <2> QED
    BY <2>1, <2>2 DEF Ends, TypeOK, Object
<1>2. CASE ExchangeMoves \/ LeaseAges \/ FileChanges \/ Renew
  BY <1>2 DEF ExchangeMoves, LeaseAges, FileChanges, Renew, TypeOK
<1>3. ASSUME NEW s \in Streams, Lost(s) \/ AccountEvent(s) \/ ResyncFails(s) PROVE TypeOK'
  <2>1. CASE Lost(s)
    <3>1. stream' \in [Streams -> Object]
      BY <2>1, SockSet DEF Lost
    <3>2. UNCHANGED <<pc, enabled, entries, pause, latched, restartReq, lease, file, dirty, gap,
                      overruled, cur>>
      BY <2>1 DEF Lost
    <3> QED
      BY <3>1, <3>2 DEF TypeOK, Object
  <2>2. CASE AccountEvent(s)
    <3>1. /\ enabled' \in BOOLEAN /\ entries' \in BOOLEAN /\ pause' \in BOOLEAN
          /\ dirty' \in BOOLEAN
      BY <2>2 DEF AccountEvent, TypeOK
    <3>2. UNCHANGED <<pc, latched, restartReq, lease, file, stream, cur, gap, overruled>>
      BY <2>2 DEF AccountEvent
    <3> QED
      BY <3>1, <3>2 DEF TypeOK
  <2>3. CASE ResyncFails(s)
    <3>1. stream' \in [Streams -> Object]
      BY <2>3, LockSet DEF ResyncFails
    <3>2. UNCHANGED <<pc, enabled, entries, pause, latched, restartReq, lease, file, dirty, gap,
                      overruled, cur>>
      BY <2>3 DEF ResyncFails
    <3> QED
      BY <3>1, <3>2 DEF TypeOK, Object
  <2> QED
    BY <1>3, <2>1, <2>2, <2>3
<1> QED
  BY <1>1, <1>2, <1>3 DEF World

-----------------------------------------------------------------------------
(***************************************************************************)
(* The latch.                                                               *)
(***************************************************************************)
LEMMA LatchNext == ASSUME TypeOK, LatchInv, Next PROVE LatchInv'
<1> USE DEF LatchInv, switches, evidence, streams, bounds, Disarm, Pauses, Quiet
<1>1. CASE Main
  <2>0. CASE Boot
    BY <2>0 DEF Boot
  <2>1. CASE Started
    BY <2>1 DEF Started
  <2>6. CASE NoCommand \/ OwnerPauses
    BY <2>6 DEF NoCommand, OwnerPauses
  <2>7. CASE ClearPause
    BY <2>7 DEF ClearPause
  <2>2. CASE LeaseCheck \/ SecondLeaseCheck
    BY <2>2 DEF LeaseCheck, SecondLeaseCheck, Enforce
  <2>3. CASE ResumeReconciles \/ ResumeEnables \/ ResumeArms
    BY <2>3 DEF ResumeReconciles, ResumeEnables, ResumeArms, MayResume
  <2>4. CASE ReconcileCommand \/ Restarted \/ Tick
    BY <2>4 DEF ReconcileCommand, Restarted, Tick
  <2>5. CASE RestartStream
    BY <2>5 DEF RestartStream
  <2>8. CASE RestartFails
    BY <2>8 DEF RestartFails
  <2> QED
    BY <1>1, <2>0, <2>1, <2>2, <2>3, <2>4, <2>5, <2>6, <2>7, <2>8 DEF Main
<1>2. CASE World
  BY <1>2 DEF World, StartFails, Crash, Ends, ExchangeMoves, LeaseAges, FileChanges, Renew,
              Lost, AccountEvent, ResyncFails
<1>3. ASSUME NEW s \in Streams, Client(s) PROVE LatchInv'
  BY <1>3 DEF Client, Acked, Closed, Resync, Reconnect, Release
<1> QED
  BY <1>1, <1>2, <1>3 DEF Next

-----------------------------------------------------------------------------
(***************************************************************************)
(* The stream objects.                                                      *)
(***************************************************************************)

\* What StreamInv says of one object.
ObjectInv(r, current) ==
  /\ r.running => current
  /\ ~r.running => r.sock \in {"none", "closing"}
  /\ r.lock \in {"resync", "timer"} => r.sock = "none" /\ r.ready # "no"

\* A step of the threads of stream s changes that object alone, and keeps what is said of it.
LEMMA ThreadStep ==
  ASSUME TypeOK, StreamInv, NEW s \in Streams,
         Client(s) \/ Lost(s) \/ AccountEvent(s) \/ ResyncFails(s)
  PROVE  /\ \A x \in Streams \ {s} : stream'[x] = stream[x]
         /\ stream'[s].running = stream[s].running
         /\ ObjectInv(stream'[s], s = cur)
         /\ UNCHANGED <<pc, cur>>
<1>1. stream[s] \in Object /\ ObjectInv(stream[s], s = cur)
  BY ObjectTypes DEF StreamInv, ObjectInv
<1> USE <1>1 DEF ObjectInv, Object, TypeOK, Quiet, Set, streams
<1>2. CASE Acked(s)
  BY <1>2 DEF Acked
<1>3. CASE Closed(s)
  BY <1>3 DEF Closed
<1>4. CASE Resync(s) \/ ResyncFails(s)
  BY <1>4 DEF Resync, ResyncFails
<1>5. CASE Reconnect(s)
  BY <1>5 DEF Reconnect, Connecting
<1>6. CASE Release(s)
  BY <1>6 DEF Release
<1>7. CASE Lost(s) \/ AccountEvent(s)
  BY <1>7 DEF Lost, AccountEvent
<1> QED
  BY <1>2, <1>3, <1>4, <1>5, <1>6, <1>7 DEF Client

LEMMA StreamNext == ASSUME TypeOK, StreamInv, Next PROVE StreamInv'
<1>1. CASE Main
  <2>1. CASE Boot
    <3>1. cur' = 1 /\ 1 \in Streams /\ stream' = [stream EXCEPT ![1] = NewStream(1, TRUE)]
      BY <2>1, BoundsAssumption DEF Boot, Streams
    <3>2. \A s \in Streams : ~stream[s].running
      BY <2>1 DEF Boot, TypeOK, StreamInv, Streams
    <3>3. NewStream(1, TRUE).lock = "free" /\ NewStream(1, TRUE).running
      BY DEF NewStream, Connecting, Idle
    <3> QED
      BY <3>1, <3>2, <3>3 DEF StreamInv, TypeOK
  <2>2. CASE RestartStream
    BY <2>2, CurFacts DEF RestartStream, StreamInv, TypeOK, NewStream, Connecting, Idle, Streams
  <2>3. CASE RestartFails
    BY <2>3, CurFacts DEF RestartFails, StreamInv, TypeOK, Set
  <2>4. CASE ~(Boot \/ RestartStream \/ RestartFails)
    <3>1. UNCHANGED <<stream, cur>>
      BY <1>1, <2>4 DEF Main, Started, LeaseCheck, SecondLeaseCheck, NoCommand, OwnerPauses, ResumeReconciles,
         ResumeEnables, ResumeArms, ReconcileCommand, ClearPause, Restarted, Tick, streams
    <3> QED
      BY <3>1 DEF StreamInv
  <2> QED
    BY <2>1, <2>2, <2>3, <2>4
<1>2. CASE StartFails \/ Crash
  BY <1>2 DEF StartFails, Crash, Ends, StreamInv, Idle
<1>3. CASE ExchangeMoves \/ LeaseAges \/ FileChanges \/ Renew
  BY <1>3 DEF ExchangeMoves, LeaseAges, FileChanges, Renew, streams, StreamInv
<1>4. ASSUME NEW s \in Streams, Client(s) \/ Lost(s) \/ AccountEvent(s) \/ ResyncFails(s)
      PROVE  StreamInv'
  BY <1>4, ThreadStep DEF StreamInv, ObjectInv
<1> QED
  BY <1>1, <1>2, <1>3, <1>4 DEF Next, World

-----------------------------------------------------------------------------
(***************************************************************************)
(* The visibility of an outage.                                             *)
(***************************************************************************)

\* A step that leaves the streams alone, takes no pause away and lifts the excuse of an outage
\* only by a reconciliation under a live subscription keeps the invariant.
LEMMA CalmStep ==
  ASSUME OutageInv, UNCHANGED <<stream, cur, failures>>,
         pause => pause', gap' => gap,
         overruled => overruled' \/ (Delivered /\ ~gap'),
         pc # "down", pc' \notin {"down", "starting", "restarting"},
         pc = "starting" => stream[cur].ready = "ok" /\ ~gap'
  PROVE  OutageInv'
<1>1. Delivered' <=> Delivered
  BY DEF Delivered, On
<1>2. \A s \in Streams : Lapsing(s)' <=> Lapsing(s)
  BY DEF Lapsing, Unheard, Stranded, ToBeStranded
<1>3. Excused => Excused' \/ (Delivered /\ ~gap')
  BY <1>2 DEF Excused
<1> QED
  BY <1>1, <1>3 DEF OutageInv

LEMMA OutageMain == ASSUME TypeOK, StreamInv, OutageInv, Main PROVE OutageInv'
<1> USE DEF switches, evidence, streams, bounds, Disarm, Pauses, Reconciles
<1>1. CASE Boot
  BY <1>1, BoundsAssumption DEF Boot, OutageInv, NewStream, Connecting, Idle, TypeOK, Streams
<1>2. CASE Started
  BY <1>2, CalmStep DEF Started
<1>3. CASE LeaseCheck \/ SecondLeaseCheck
  <2>1. UNCHANGED <<stream, cur, failures, pause, gap, overruled>>
    BY <1>3 DEF LeaseCheck, SecondLeaseCheck
  <2>2. pc \in {"lease", "recheck"} /\ pc' \in {"command", "tick"}
    BY <1>3 DEF LeaseCheck, SecondLeaseCheck
  <2> QED
    BY <2>1, <2>2, CalmStep
<1>4. CASE NoCommand \/ OwnerPauses
  BY <1>4, CalmStep DEF NoCommand, OwnerPauses
<1>5. CASE ResumeReconciles
  BY <1>5, CalmStep DEF ResumeReconciles
<1>6. CASE ResumeEnables \/ ResumeArms
  BY <1>6, CalmStep DEF ResumeEnables, ResumeArms
<1>7. CASE ReconcileCommand
  BY <1>7, CalmStep DEF ReconcileCommand
<1>8. CASE Restarted
  BY <1>8, CalmStep DEF Restarted
<1>9. CASE Tick
  BY <1>9, CalmStep DEF Tick
<1>10. CASE ClearPause
  <2>1. Delivered' <=> Delivered
    BY <1>10 DEF ClearPause, Delivered, On
  <2>2. gap' \/ ~Delivered' => Excused'
    BY <1>10, <2>1 DEF ClearPause, Excused
  <2> QED
    BY <1>10, <2>2 DEF ClearPause, OutageInv
<1>11. CASE RestartStream
  BY <1>11 DEF RestartStream, OutageInv, Excused
<1>12. CASE RestartFails
  BY <1>12 DEF RestartFails, OutageInv, Excused
<1> QED
  BY <1>1, <1>2, <1>3, <1>4, <1>5, <1>6, <1>7, <1>8, <1>9, <1>10, <1>11, <1>12 DEF Main

\* Whoever is subscribed, or lapses, is the stream in use.
LEMMA OneStream ==
  ASSUME TypeOK, StreamInv, NEW s \in Streams, On(s) \/ Lapsing(s) \/ stream[s].sock = "connecting"
  PROVE  stream[s].running /\ s = cur
BY DEF StreamInv, On, Lapsing

\* An excuse that is not the state of a stream outlives every step of the threads.
LEMMA ThreadExcuse ==
  ASSUME TypeOK, failures \in Nat, NEW s \in Streams,
         Client(s) \/ Lost(s) \/ AccountEvent(s) \/ ResyncFails(s),
         pause \/ overruled \/ failures > 0
  PROVE  pause' \/ overruled' \/ failures' > 0
<1> USE DEF switches, bounds, Pauses, Quiet
<1>1. CASE Client(s)
  BY <1>1 DEF Client, Acked, Closed, Resync, Reconnect, Release
<1>2. CASE Lost(s) \/ AccountEvent(s) \/ ResyncFails(s)
  BY <1>2 DEF Lost, AccountEvent, ResyncFails
<1> QED
  BY <1>1, <1>2

LEMMA OutageThread ==
  ASSUME TypeOK, failures \in Nat, StreamInv, OutageInv, NEW s \in Streams,
         Client(s) \/ Lost(s) \/ AccountEvent(s) \/ ResyncFails(s)
  PROVE  OutageInv'
<1> DEFINE Plain == pause \/ overruled \/ failures > 0
<1>1. stream[s] \in Object /\ TypeOK
  BY ObjectTypes
<1>2. /\ \A x \in Streams \ {s} : stream'[x] = stream[x]
      /\ stream'[s].running = stream[s].running
      /\ UNCHANGED <<pc, cur>>
  BY ThreadStep
<1>3. gap' = gap /\ (pause => pause')
  BY DEF Client, Acked, Closed, Resync, Reconnect, Release, Lost, AccountEvent, ResyncFails, Pauses, Quiet,
         switches
<1>4. Plain => Excused'
  BY ThreadExcuse DEF Excused
<1>5. \A x \in Streams \ {s} : Lapsing(x) => Lapsing(x)'
  BY <1>2 DEF Lapsing, Unheard, Stranded, ToBeStranded
<1>6. (Lapsing(s) => Excused') => (Excused => Excused')
  BY <1>4, <1>5 DEF Excused
<1>7. SUFFICES /\ pc \notin {"down", "starting"} /\ gap => Excused'
               /\ pc # "down" /\ (pc = "starting" => stream'[cur].ready = "ok") /\ ~Delivered' => Excused'
  BY <1>2, <1>3 DEF OutageInv
<1>8. CASE Acked(s)
  <2>1. Delivered' /\ ~Lapsing(s)
    BY <1>8, <1>1 DEF Acked, Delivered, On, Lapsing, Unheard, Stranded, ToBeStranded, StreamInv, TypeOK
  <2> QED
    BY <2>1, <1>6 DEF OutageInv
<1>9. CASE Lost(s)
  <2>1. stream[s].running
    BY <1>9, OneStream DEF Lost, On
  <2>2. Lapsing(s)'
    BY <1>9, <1>2, <2>1 DEF Lost, Set, Lapsing, Unheard, TypeOK
  <2> QED
    BY <2>2 DEF Excused
<1>10. CASE Closed(s)
  <2>1. CASE stream[s].running
    <3>1. stream'[s].lock \in {"resync", "connect"} /\ stream'[s].sock = "none"
      BY <1>10, <1>1, <2>1 DEF Closed, StreamInv, Object, TypeOK
    <3>2. Lapsing(s)'
      BY <1>2, <2>1, <3>1 DEF Lapsing, Unheard, ToBeStranded
    <3> QED
      BY <3>2 DEF Excused
  <2>2. CASE ~stream[s].running
    <3>1. ~Lapsing(s)
      BY <2>2 DEF Lapsing
    <3>2. Delivered => Delivered'
      BY <1>10, <1>2 DEF Closed, Delivered, On
    <3>3. stream'[cur].ready = "ok" /\ pc # "down" => stream[cur].ready = "ok"
      BY <1>10, <1>2, CurFacts DEF Closed, TypeOK
    <3> QED
      BY <1>6, <3>1, <3>2, <3>3 DEF OutageInv
  <2> QED
    BY <2>1, <2>2
<1>11. CASE Resync(s)
  BY <1>11 DEF Resync, Pauses, Excused
<1>12. CASE ResyncFails(s)
  BY <1>12 DEF ResyncFails, Excused
<1>13. CASE Reconnect(s)
  <2>1. ~Lapsing(s) /\ ~On(s)
    BY <1>13, <1>1 DEF Reconnect, Lapsing, Unheard, Stranded, ToBeStranded, StreamInv, On
  <2>2. Excused => Excused'
    BY <1>6, <2>1
  <2>3. CASE stream[s].running
    <3>1. ~Delivered /\ s = cur
      BY <2>1, <2>3, OneStream DEF Delivered, StreamInv
    <3>2. stream'[s].ready = "no"
      BY <1>13, <1>1, <2>3 DEF Reconnect, Connecting, Object, TypeOK
    <3> QED
      BY <2>2, <3>1, <3>2 DEF OutageInv
  <2>4. CASE ~stream[s].running
    <3>1. stream'[s].ready = stream[s].ready /\ stream'[s].sock = stream[s].sock
      BY <1>13, <1>1, <2>4 DEF Reconnect, Object, TypeOK
    <3>2. Delivered => Delivered'
      BY <1>2, <3>1 DEF Delivered, On
    <3>3. stream'[cur].ready = "ok" /\ pc # "down" => stream[cur].ready = "ok"
      BY <1>2, <3>1, CurFacts
    <3> QED
      BY <2>2, <3>2, <3>3 DEF OutageInv
  <2> QED
    BY <2>3, <2>4
<1>14. CASE Release(s)
  <2>1. /\ stream'[s].ready = stream[s].ready /\ stream'[s].sock = stream[s].sock
        /\ stream[s].lock = "connect" /\ stream'[s].lock = "free"
    BY <1>14, <1>1 DEF Release, Set, Object, TypeOK
  <2>2. Lapsing(s) => Lapsing(s)'
    BY <1>2, <2>1 DEF Lapsing, Unheard, Stranded, ToBeStranded
  <2>3. Delivered => Delivered'
    BY <1>2, <2>1 DEF Delivered, On
  <2>4. stream'[cur].ready = "ok" /\ pc # "down" => stream[cur].ready = "ok"
    BY <1>2, <2>1, CurFacts
  <2>5. Lapsing(s) => Excused'
    BY <2>2 DEF Excused
  <2> QED
    BY <1>6, <2>3, <2>4, <2>5 DEF OutageInv
<1>15. CASE AccountEvent(s)
  <2>1. stream' = stream
    BY <1>15 DEF AccountEvent, streams
  <2>2. (Lapsing(s) => Excused') /\ (Delivered' <=> Delivered)
    BY <2>1 DEF Lapsing, Unheard, Stranded, ToBeStranded, Excused, Delivered, On
  <2> QED
    BY <1>6, <2>1, <2>2 DEF OutageInv
<1> QED
  BY <1>8, <1>9, <1>10, <1>11, <1>12, <1>13, <1>14, <1>15 DEF Client

LEMMA OutageWorld ==
  ASSUME TypeOK, OutageInv, StartFails \/ Crash \/ ExchangeMoves \/ LeaseAges \/ FileChanges \/ Renew
  PROVE  OutageInv'
<1>1. CASE StartFails \/ Crash
  BY <1>1 DEF StartFails, Crash, Ends, OutageInv
<1>2. CASE ExchangeMoves \/ LeaseAges \/ FileChanges \/ Renew
  <2>1. UNCHANGED <<stream, cur, pc, pause, overruled, failures>> /\ (gap' => gap \/ ~Delivered)
    BY <1>2 DEF ExchangeMoves, LeaseAges, FileChanges, Renew, switches, streams, bounds
  <2>2. (Delivered' <=> Delivered) /\ (Excused' <=> Excused)
    BY <2>1 DEF Delivered, On, Excused, Lapsing, Unheard, Stranded, ToBeStranded
  <2> QED
    BY <2>1, <2>2 DEF OutageInv
<1> QED
  BY <1>1, <1>2

-----------------------------------------------------------------------------
(***************************************************************************)
(* The theorems.                                                            *)
(***************************************************************************)
LEMMA InitIInv == Init => IInv
<1> SUFFICES ASSUME Init PROVE IInv
  OBVIOUS
<1>1. TypeOK
  <2>1. stream \in [Streams -> Object] /\ 0 \in 0 .. MaxStreams
    BY BoundsAssumption DEF Init, Idle, Object
  <2> QED
    BY <2>1 DEF Init, TypeOK, Object
<1>2. LatchInv /\ OutageInv
  BY DEF Init, LatchInv, OutageInv
<1>3. StreamInv
  BY DEF Init, StreamInv, Idle
<1> QED
  BY <1>1, <1>2, <1>3 DEF IInv, Init

LEMMA FailuresNext == ASSUME TypeOK, failures \in Nat, Next PROVE failures' \in Nat
<1> USE DEF bounds, Quiet
<1>1. CASE Main
  BY <1>1 DEF Main, Boot, Started, LeaseCheck, SecondLeaseCheck, NoCommand, OwnerPauses, ResumeReconciles,
     ResumeEnables, ResumeArms, ReconcileCommand, ClearPause, RestartStream, Restarted, RestartFails, Tick
<1>2. CASE World
  BY <1>2 DEF World, StartFails, Crash, Ends, ExchangeMoves, LeaseAges, FileChanges, Renew,
              Lost, AccountEvent, ResyncFails
<1>3. ASSUME NEW s \in Streams, Client(s) PROVE failures' \in Nat
  BY <1>3 DEF Client, Acked, Closed, Resync, Reconnect, Release
<1> QED
  BY <1>1, <1>2, <1>3 DEF Next

LEMMA NextIInv == IInv /\ [Next]_vars => IInv'
<1> SUFFICES ASSUME IInv, [Next]_vars PROVE IInv'
  OBVIOUS
<1>1. CASE Next
  <2> USE <1>1 DEF IInv
  <2>1. TypeOK'
    <3>1. ASSUME NEW s \in Streams, Client(s) PROVE TypeOK'
      BY <3>1, TypesClient
    <3> QED
      BY <3>1, TypesMain, TypesWorld DEF Next
  <2>2. LatchInv' /\ StreamInv' /\ failures' \in Nat
    BY LatchNext, StreamNext, FailuresNext
  <2>3. OutageInv'
    <3>1. ASSUME NEW s \in Streams, Client(s) \/ Lost(s) \/ AccountEvent(s) \/ ResyncFails(s)
          PROVE  OutageInv'
      BY <3>1, OutageThread
    <3> QED
      BY <3>1, OutageMain, OutageWorld DEF Next, World
  <2> QED
    BY <2>1, <2>2, <2>3
<1>2. CASE UNCHANGED vars
  <2>1. TypeOK' /\ LatchInv' /\ StreamInv' /\ failures' \in Nat
    BY <1>2 DEF IInv, vars, switches, evidence, streams, bounds, TypeOK, LatchInv, StreamInv
  <2>2. OutageInv'
    BY <1>2 DEF IInv, vars, switches, evidence, streams, bounds, OutageInv, Excused, Delivered, On,
                Lapsing, Unheard, Stranded, ToBeStranded
  <2> QED
    BY <2>1, <2>2 DEF IInv
<1> QED
  BY <1>1, <1>2

\* The invariant holds of every behaviour of the supervisor, whatever is scheduled when.
THEOREM Invariance == Spec => []IInv
<1>1. Init => IInv
  BY InitIInv
<1>2. IInv /\ [Next]_vars => IInv'
  BY NextIInv
<1> QED
  BY <1>1, <1>2, PTL DEF Spec

\* The state of the process, the durable switches and the stream objects keep their types for any
\* number of streams, drops, crashes and renewals (main.py, user_data_stream.py).
THEOREM TypeCorrect == Spec => []TypeOK
<1>1. IInv => TypeOK
  BY DEF IInv
<1> QED
  BY <1>1, Invariance, PTL

\* A failed evidence check keeps entries off until a process has verified fresh evidence: neither a
\* resume that was under way nor a later check that would pass switches them on
\* (enforce_live_evidence_lease, set_enabled, live_interlock in main.py).
THEOREM LatchHolds == Spec => []LatchedOff
<1>1. IInv => LatchedOff
  BY DEF IInv, LatchInv, LatchedOff
<1> QED
  BY <1>1, Invariance, PTL

\* What the exchange did while no subscription delivered it is never forgotten in silence: until a
\* reconciliation has looked, the risk pause stands or one of the named excuses holds
\* (BitcoinSpotAdapter._on_resync, verified_reconcile, UserDataStream._on_close).
THEOREM OutageSeen == Spec => []GapVisible
<1>1. IInv => GapVisible
  BY DEF IInv, OutageInv, Excused, Lapsing, GapVisible
<1> QED
  BY <1>1, Invariance, PTL

=============================================================================
