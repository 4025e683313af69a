---------------------------- MODULE CommandProofs ----------------------------
(***************************************************************************)
(* Proofs about the two ends of an owner's command.                          *)
(*                                                                           *)
(* OwnerCommands, how it travels from the chat to the sidecar: its types,    *)
(* that nothing the owner asks for takes effect twice, that a reported       *)
(* success is one, and that a recovery clears the risk pause only after its  *)
(* reconciliation.                                                           *)
(*                                                                           *)
(* Preflight, the orders a conversion asks for, for every market price,      *)
(* every set of filters and all settings: a break-even or profit-lock stop   *)
(* pays back after rounding, protective sells are covered by the position,   *)
(* and a replacement whose first validation passed is accepted unless        *)
(* something changed in between.                                             *)
(***************************************************************************)
EXTENDS OwnerCommands, Preflight, FiniteSetTheorems, TLAPS

-----------------------------------------------------------------------------
(***************************************************************************)
(* The inductive invariant of OwnerCommands.                                *)
(***************************************************************************)

\* A command that has left the broker: its file waits, or the sidecar has claimed it.
Issued(c) == c \in inbox \/ claims[c] # "none"
Busy == bpc \in {"call", "wait"}

\* An update from the offset on is untouched, so whatever it leads to is its first effect.
UpdateInv ==
  /\ tg \in Seq(Update) /\ offset <= Len(tg) + 1
  /\ \A u \in Updates : u >= offset => tokens[u] = "none" /\ handled[u] = 0
  /\ \A u \in Updates : handled[u] <= 1

\* A token that was spent is "used" for ever, and only a question issues one.
TokenInv ==
  \A t \in Updates :
    /\ spent[t] <= 1 /\ (tokens[t] # "used" => spent[t] = 0)
    /\ tokens[t] # "none" => t \in DOMAIN tg /\ tg[t].kind = "ask"

\* The claim precedes the execution, the record follows it, and no answer says "ok" before the record.
CommandInv ==
  /\ \A c \in Cids :
       /\ runs[c] <= 1
       /\ claims[c] = "none" => runs[c] = 0
       /\ claims[c] = "ok" => runs[c] = 1
       /\ results[c] = "ok" => claims[c] = "ok"
  /\ spc \notin {"down", "idle"} => cmd \in Cids
  /\ spc \in {"execute", "record"} => claims[cmd] = "IN_PROGRESS"
  /\ spc = "execute" => runs[cmd] = 0
  /\ spc = "record" /\ outcome = "ok" => runs[cmd] = 1
  /\ spc = "answer" => claims[cmd] = outcome

\* Where the broker is in the calls of the update it handles.
FlowInv ==
  /\ Busy => k \in 1 .. Len(flow)
  /\ bpc = "wait" => Call \in Commands
  /\ bpc \in {"call", "wait", "complete"} => cur \in Updates /\ cur < offset
  /\ Busy /\ flow = PauseFlow => tg[cur].kind = "pause"

\* In an action that stops at the first refusal every earlier command was recorded as successful,
\* and nothing was issued beyond the call that is next.
ProgressInv ==
  Busy /\ StopsAt =>
    /\ \A i \in 1 .. k - 1 : flow[i] \in Commands => claims[<<cur, flow[i]>>] = "ok"
    /\ \A c \in Cids : Issued(c) /\ c[1] = cur =>
         \E i \in 1 .. k : flow[i] = c[2] /\ (i = k => bpc = "wait")

\* What is known of every command that has left the broker, however late it is executed.
IssuedInv ==
  \A c \in Cids : Issued(c) =>
    /\ c[1] < offset
    /\ c[2] = "clear" => claims[<<c[1], "reconcile">>] = "ok"

\* The calls that are gone through are those of the confirmed action, and a reported success had
\* every one of its commands recorded as successful.
Confirmed(u) == tg[u].kind = "confirm" /\ tg[u].what \in DOMAIN tg
Done(u) ==
  /\ u \in DOMAIN tg /\ (tg[u].kind = "confirm" => tg[u].what \in DOMAIN tg)
  /\ \A c \in CommandsOf(u) : claims[c] = "ok"
ActionInv ==
  /\ Busy /\ StopsAt => Confirmed(cur) /\ flow = Flow[ActionOf(cur)]
  /\ \A u \in Updates : told[u] = "ok" => Done(u)

IInv ==
  TypeOK /\ UpdateInv /\ TokenInv /\ CommandInv /\ FlowInv /\ ProgressInv /\ IssuedInv /\ ActionInv

-----------------------------------------------------------------------------
(***************************************************************************)
(* The flows.                                                               *)
(***************************************************************************)
LEMMA FlowDomain == DOMAIN Flow = {"resume", "recover", "sell", "pause"}
BY DEF Flow

LEMMA FlowValues ==
  {Flow[a] : a \in DOMAIN Flow} = {ResumeFlow, RecoverFlow, <<"sell">>, PauseFlow}
BY FlowDomain DEF Flow

LEMMA ActionFlow ==
  ASSUME NEW a \in Actions
  PROVE  /\ Flow[a] \in {ResumeFlow, RecoverFlow, <<"sell">>}
         /\ Flow[a] # PauseFlow /\ Flow[a] # <<>> /\ Flow[a] # <<"halt">>
         /\ Len(Flow[a]) \in 1 .. 5
<1>1. a \in {"resume", "recover", "sell"}
  BY CommandAssumption, FlowDomain
<1> QED
  BY <1>1 DEF Flow, ResumeFlow, RecoverFlow, PauseFlow

LEMMA FlowTypes ==
  ASSUME TypeOK
  PROVE  /\ flow \in {ResumeFlow, RecoverFlow, <<"sell">>, PauseFlow, <<>>, <<"halt">>}
         /\ Len(flow) \in 0 .. 5
<1>1. flow \in {ResumeFlow, RecoverFlow, <<"sell">>, PauseFlow, <<>>, <<"halt">>}
  BY FlowValues DEF TypeOK
<1> QED
  BY <1>1 DEF ResumeFlow, RecoverFlow, PauseFlow

\* The flow that clears the pause has the reconciliation before it.
LEMMA ClearPosition ==
  ASSUME TypeOK, NEW i \in 1 .. Len(flow), flow[i] = "clear"
  PROVE  StopsAt /\ i = 3 /\ flow[2] = "reconcile"
BY FlowTypes DEF ResumeFlow, RecoverFlow, PauseFlow, StopsAt

\* "off" and "halt" are calls of a pause, or of the one that follows a refusal.
LEMMA PausePosition ==
  ASSUME TypeOK, NEW i \in 1 .. Len(flow)
  PROVE  /\ flow[i] = "off" => flow = PauseFlow
         /\ ~StopsAt => flow = PauseFlow \/ (flow = <<"halt">> /\ flow[i] \notin Commands)
         /\ ~StopsAt /\ i = Len(flow) => flow[i] = "halt"
<1>1. CASE flow \in {PauseFlow, <<"halt">>, <<>>}
  <2>1. CASE flow = PauseFlow
    BY <2>1 DEF PauseFlow
  <2>2. CASE flow = <<"halt">>
    BY <2>2 DEF Commands
  <2>3. CASE flow = <<>>
    BY <2>3
  <2> QED
    BY <1>1, <2>1, <2>2, <2>3
<1>2. CASE flow \in {ResumeFlow, RecoverFlow, <<"sell">>}
  <2>1. flow \notin {PauseFlow, <<"halt">>}
    BY <1>2 DEF ResumeFlow, RecoverFlow, PauseFlow
  <2>2. flow[i] # "off"
    BY <1>2 DEF ResumeFlow, RecoverFlow
  <2> QED
    BY <2>1, <2>2 DEF StopsAt
<1> QED
  BY <1>1, <1>2, FlowTypes

-----------------------------------------------------------------------------
(***************************************************************************)
(* Types.                                                                   *)
(***************************************************************************)
LEMMA Bounds == MaxUpdates \in Nat /\ MaxFaults \in Nat /\ MaxTimeouts \in Nat
BY CommandAssumption

LEMMA FaultTypes == ASSUME TypeOK, Fault PROVE faults' \in 0 .. MaxFaults
BY Bounds DEF Fault, TypeOK

LEMMA UpdateTypes ==
  ASSUME NEW u \in Update
  PROVE  /\ u.kind \in {"ask", "confirm", "cancel", "pause"}
         /\ u.kind = "ask" => u.what \in Actions
         /\ u.kind \in {"confirm", "cancel"} => u.what \in Updates
BY DEF Update

LEMMA TakenUpdate ==
  ASSUME TypeOK, UpdateInv, NEW u \in Updates, Take(u)
  PROVE  u = offset /\ u \in DOMAIN tg /\ tg[u] \in Update /\ u \in Nat
BY DEF TypeOK, UpdateInv, Take, MayClaim, Updates

\* What an update does to the tokens, and the flow it leads to.
LEMMA TakenFlow ==
  ASSUME TypeOK, UpdateInv, TokenInv, NEW u \in Updates, Take(u)
  PROVE  /\ tokens' \in [Updates -> {"none", "live", "used", "canceled", "gone"}]
         /\ spent' \in [Updates -> Nat]
         /\ flow' \in {Flow[a] : a \in DOMAIN Flow} \cup {<<>>}
         /\ flow' # <<"halt">>
         /\ flow' = PauseFlow => tg[u].kind = "pause"
         /\ flow' # <<>> => 1 \in 1 .. Len(flow')
         /\ flow' \notin {<<>>, PauseFlow} => Confirmed(u) /\ flow' = Flow[ActionOf(u)]
<1>1. tg[u] \in Update /\ cur' = u
  BY TakenUpdate DEF Take
<1>2. CASE Asks(tg[u])
  BY <1>1, <1>2 DEF Asks, TypeOK, PauseFlow
<1>3. CASE Pauses(tg[u])
  BY <1>3, FlowDomain DEF Pauses, TypeOK, PauseFlow, Flow
<1>4. CASE Presses(tg[u])
  <2>1. CASE tg[u].kind = "confirm" /\ tokens[tg[u].what] = "live" /\ flow' = Flow[tg[tg[u].what].what]
             /\ tokens' = Spend(tg[u].what, "used") /\ spent' = [spent EXCEPT ![tg[u].what] = @ + 1]
    <3>1. tg[u].what \in Updates
      BY <1>1, <2>1, UpdateTypes
    <3>2. tg[tg[u].what] \in Update /\ tg[tg[u].what].kind = "ask"
      BY <2>1, <3>1 DEF TokenInv, TypeOK
    <3>3. tg[tg[u].what].what \in Actions
      BY <3>2, UpdateTypes
    <3>4. flow' \in {Flow[a] : a \in DOMAIN Flow} /\ flow' # PauseFlow /\ flow' # <<"halt">>
          /\ Len(flow') \in 1 .. 5
      BY <2>1, <3>3, ActionFlow, CommandAssumption
    <3>5. tokens' \in [Updates -> {"none", "live", "used", "canceled", "gone"}] /\ spent' \in [Updates -> Nat]
      <4>1. tokens' \in [Updates -> {"none", "live", "used", "canceled", "gone"}]
        BY <2>1, <3>1 DEF Spend, TypeOK
      <4>2. spent[tg[u].what] + 1 \in Nat
        BY <3>1 DEF TypeOK
      <4>3. spent' = [spent EXCEPT ![tg[u].what] = spent[tg[u].what] + 1]
        BY <2>1
      <4>4. spent' \in [Updates -> Nat]
        BY <4>2, <4>3 DEF TypeOK
      <4> QED
        BY <4>1, <4>4
    <3>6. Confirmed(u) /\ flow' = Flow[ActionOf(u)]
      BY <2>1, <3>1 DEF TokenInv, Confirmed, ActionOf
    <3> QED
      BY <3>4, <3>5, <3>6
  <2>2. CASE flow' = <<>> /\ tokens' = Spend(tg[u].what, "canceled") /\ UNCHANGED spent
    BY <2>2 DEF Spend, TypeOK, PauseFlow
  <2>3. CASE flow' = <<>> /\ tokens' = [tokens EXCEPT ![tg[u].what] = IF @ = "live" THEN "gone" ELSE @]
             /\ UNCHANGED spent
    BY <2>3 DEF TypeOK, PauseFlow
  <2> QED
    BY <1>4, <2>1, <2>2, <2>3 DEF Presses
<1> QED
  BY <1>2, <1>3, <1>4 DEF Take

LEMMA TypesAdvance ==
  ASSUME TypeOK, FlowInv, Busy, NEW ok \in BOOLEAN, Advance(ok)
  PROVE  /\ k' \in 0 .. 6 /\ bpc' \in {"call", "complete"}
         /\ flow' \in {Flow[a] : a \in DOMAIN Flow} \cup {<<>>, <<"halt">>}
         /\ told' \in [Updates -> {"none", "ok", "failed"}]
<1>1. k \in 1 .. 5
  <2> DEFINE n == Len(flow)
  <2>1. k \in 1 .. n /\ n \in 0 .. 5
    BY FlowTypes DEF FlowInv
  <2> HIDE DEF n
  <2> QED
    BY <2>1
<1>2. k' \in 0 .. 6 /\ bpc' \in {"call", "complete"}
  BY <1>1 DEF Advance, Proceed
<1>3. flow' \in {flow, <<"halt">>}
  BY DEF Advance
<1>4. told' \in [Updates -> {"none", "ok", "failed"}]
  BY DEF Advance, Tell, TypeOK
<1> QED
  BY <1>2, <1>3, <1>4 DEF TypeOK

LEMMA TypesBroker ==
  ASSUME TypeOK, UpdateInv, TokenInv, FlowInv, Broker \/ BrokerDies
  PROVE  TypeOK'
<1> USE DEF sidecar, bus
<1>1. ASSUME NEW u \in Updates, Take(u) PROVE TypeOK'
  <2>1. offset' \in 1 .. MaxUpdates + 1 /\ cur' \in 0 .. MaxUpdates
    BY <1>1, TakenUpdate, CommandAssumption DEF Take, TypeOK, Updates
  <2>2. /\ table' \in [Updates -> {"none", "claimed", "handled", "failed", "uncertain"}]
        /\ handled' \in [Updates -> Nat] /\ k' \in 0 .. 6 /\ bpc' \in {"call", "complete"}
    BY <1>1 DEF Take, TypeOK
  <2>3. /\ tokens' \in [Updates -> {"none", "live", "used", "canceled", "gone"}]
        /\ spent' \in [Updates -> Nat]
        /\ flow' \in {Flow[a] : a \in DOMAIN Flow} \cup {<<>>, <<"halt">>}
    BY <1>1, TakenFlow
  <2>4. /\ UNCHANGED <<tg, told, timeouts, claims, spc, cmd, outcome, armed, runs>>
        /\ UNCHANGED <<inbox, stale, results, running, faults>>
    BY <1>1 DEF Take
  <2> QED
    BY <2>1, <2>2, <2>3, <2>4 DEF TypeOK
<1>2. CASE CallFreqtrade
  <2>1. \E ok \in BOOLEAN : Advance(ok) /\ Busy
    BY <1>2 DEF CallFreqtrade, Calls, Busy
  <2>2. faults' \in 0 .. MaxFaults
    BY <1>2, FaultTypes DEF CallFreqtrade, TypeOK
  <2>3. running' \in BOOLEAN
    BY <1>2 DEF CallFreqtrade, TypeOK
  <2> QED
    BY <1>2, <2>1, <2>2, <2>3, TypesAdvance DEF CallFreqtrade, TypeOK
<1>3. CASE Enqueue
  <2>1. <<cur, Call>> \in Cids
    BY <1>3 DEF Enqueue, Calls, FlowInv, Cids
  <2> QED
    BY <1>3, <2>1 DEF Enqueue, TypeOK
<1>4. CASE Answered
  <2>1. (results[<<cur, Call>>] = "ok") \in BOOLEAN /\ Busy
    BY <1>4 DEF Answered, Busy
  <2>2. results' \in [Cids -> Verdicts \cup {"none"}]
    BY <1>4 DEF Answered, TypeOK
  <2> QED
    BY <1>4, <2>1, <2>2, TypesAdvance DEF Answered, TypeOK
<1>5. CASE TimesOut
  <2>1. timeouts' \in 0 .. MaxTimeouts
    BY <1>5, Bounds DEF TimesOut, TypeOK
  <2>2. Busy /\ Advance(FALSE)
    BY <1>5 DEF TimesOut, Busy
  <2> QED
    BY <1>5, <2>1, <2>2, TypesAdvance DEF TimesOut, TypeOK
<1>6. CASE Complete
  <2>1. table' \in [Updates -> {"none", "claimed", "handled", "failed", "uncertain"}]
    BY <1>6 DEF Complete, TypeOK
  <2> QED
    BY <1>6, <2>1, CommandAssumption DEF Complete, TypeOK
<1>7. CASE BrokerStarts
  BY <1>7 DEF BrokerStarts, Recover, TypeOK
<1>8. CASE BrokerDies
  <2>1. faults' \in 0 .. MaxFaults /\ 0 \in 0 .. MaxUpdates
    BY <1>8, FaultTypes, Bounds DEF BrokerDies
  <2>2. tokens' \in [Updates -> {"none", "live", "used", "canceled", "gone"}]
    BY <1>8 DEF BrokerDies, TypeOK
  <2> QED
    BY <1>8, <2>1, <2>2 DEF BrokerDies, TypeOK
<1> QED
  BY <1>1, <1>2, <1>3, <1>4, <1>5, <1>6, <1>7, <1>8 DEF Broker

LEMMA TypesSidecar ==
  ASSUME TypeOK, CommandInv, Sidecar \/ SidecarDies
  PROVE  TypeOK'
<1> USE DEF broker, bus, Removed
<1>1. ASSUME NEW c \in Cids, Claim(c) PROVE TypeOK'
  BY <1>1 DEF Claim, TypeOK
<1>2. ASSUME NEW c \in Cids, Repeat(c) PROVE TypeOK'
  <2>1. results' \in [Cids -> Verdicts \cup {"none"}] /\ armed' \in BOOLEAN
    <3>1. PriorAnswer(c) \in Verdicts \cup {"none"}
      BY DEF PriorAnswer, Verdicts, TypeOK
    <3>2. results' = results \/ results' = [results EXCEPT ![c] = PriorAnswer(c)]
      BY <1>2 DEF Repeat
    <3>3. armed' \in BOOLEAN
      BY <1>2 DEF Repeat, TypeOK
    <3> QED
      BY <3>1, <3>2, <3>3 DEF TypeOK
  <2>2. inbox' \subseteq Cids /\ stale' \subseteq Cids
    BY <1>2 DEF Repeat, TypeOK
  <2>3. /\ UNCHANGED <<tg, offset, table, tokens, bpc, cur, flow, k, told, timeouts, handled, spent>>
        /\ UNCHANGED <<claims, spc, cmd, outcome, runs, running, faults>>
    BY <1>2 DEF Repeat
  <2> QED
    BY <2>1, <2>2, <2>3 DEF TypeOK
<1>3. CASE Execute
  <2>1. armed' \in BOOLEAN
    BY <1>3 DEF Execute, TypeOK
  <2>2. runs' \in [Cids -> Nat]
    BY <1>3 DEF Execute, CommandInv, TypeOK
  <2> QED
    BY <1>3, <2>1, <2>2 DEF Execute, TypeOK
<1>4. CASE Record
  BY <1>4 DEF Record, TypeOK
<1>5. CASE Answer
  BY <1>5 DEF Answer, AnswerOf, Verdicts, TypeOK
<1>6. CASE Unlink
  BY <1>6 DEF Unlink, TypeOK
<1>7. CASE SidecarStarts
  BY <1>7 DEF SidecarStarts, TypeOK
<1>8. CASE SidecarDies
  BY <1>8, FaultTypes DEF SidecarDies, TypeOK
<1> QED
  BY <1>1, <1>2, <1>3, <1>4, <1>5, <1>6, <1>7, <1>8 DEF Sidecar

LEMMA TypesOwner ==
  ASSUME TypeOK, UpdateInv, Writes \/ Ages
  PROVE  TypeOK'
<1>1. CASE Writes
  <2>1. \A i \in DOMAIN tg' : tg'[i] \in Update
    BY <1>1 DEF Writes, UpdateInv
  <2>2. Len(tg') <= MaxUpdates
    BY <1>1, CommandAssumption DEF Writes, UpdateInv
  <2> QED
    BY <1>1, <2>1, <2>2 DEF Writes, TypeOK, broker, sidecar, bus
<1>2. CASE Ages
  BY <1>2 DEF Ages, TypeOK, broker, sidecar
<1> QED
  BY <1>1, <1>2

-----------------------------------------------------------------------------
(***************************************************************************)
(* Updates and their tokens.                                                *)
(***************************************************************************)

\* What a step of a call may change for the update that is being handled.
LEMMA AdvanceFrame ==
  ASSUME TypeOK, FlowInv, Busy, NEW ok \in BOOLEAN, Advance(ok)
  PROVE  /\ \A u \in Updates \ {cur} : told'[u] = told[u]
         /\ flow' \in {flow, <<"halt">>}
         /\ bpc' \in {"call", "complete"}
         /\ bpc' = "call" => k' \in 1 .. Len(flow')
<1> DEFINE n == Len(flow)
<1>1. k \in 1 .. n /\ n \in 0 .. 5
  BY FlowTypes DEF FlowInv
<1>2. \A u \in Updates \ {cur} : told'[u] = told[u]
  BY DEF Advance, Tell, TypeOK
<1>3. flow' \in {flow, <<"halt">>} /\ bpc' \in {"call", "complete"}
  BY DEF Advance, Proceed
<1>4. CASE flow' = <<"halt">> /\ k' = 1
  BY <1>2, <1>3, <1>4
<1>5. CASE flow' = flow /\ Proceed
  <2>1. bpc' = "call" => k # n /\ k' = k + 1
    BY <1>5 DEF Proceed, Last
  <2> HIDE DEF n
  <2>2. bpc' = "call" => k' \in 1 .. n
    BY <1>1, <2>1
  <2> QED
    BY <1>2, <1>3, <1>5, <2>2 DEF n
<1>6. CASE bpc' = "complete"
  BY <1>2, <1>3, <1>6
<1> QED
  BY <1>4, <1>5, <1>6 DEF Advance

\* The steps of the broker that go through the calls of an action.
Calling == CallFreqtrade \/ Answered \/ TimesOut

LEMMA CallingSteps ==
  ASSUME TypeOK, CommandInv, FlowInv, Calling
  PROVE  /\ Busy
         /\ \E ok \in BOOLEAN :
              /\ Advance(ok)
              /\ bpc = "call" => Call \notin Commands
              /\ ok /\ bpc = "wait" => claims[<<cur, Call>>] = "ok"
         /\ UNCHANGED <<tg, offset, tokens, cur, handled, spent, inbox, claims, runs, spc, cmd, outcome>>
         /\ \A c \in Cids : results'[c] \in {results[c], "none"}
<1>1. CASE CallFreqtrade
  BY <1>1 DEF CallFreqtrade, Calls, Commands, Busy, sidecar, bus
<1>2. CASE Answered
  <2>1. <<cur, Call>> \in Cids
    BY <1>2 DEF Answered, FlowInv, Cids
  <2>2. results[<<cur, Call>>] = "ok" => claims[<<cur, Call>>] = "ok"
    BY <2>1 DEF CommandInv
  <2>3. \A c \in Cids : results'[c] \in {results[c], "none"}
    BY <1>2 DEF Answered, TypeOK
  <2>4. (results[<<cur, Call>>] = "ok") \in BOOLEAN /\ Advance(results[<<cur, Call>>] = "ok") /\ bpc = "wait"
    BY <1>2 DEF Answered
  <2>5. UNCHANGED <<tg, offset, tokens, cur, handled, spent, inbox, claims, runs, spc, cmd, outcome>>
    BY <1>2 DEF Answered, sidecar
  <2> QED
    BY <2>2, <2>3, <2>4, <2>5 DEF Busy
<1>3. CASE TimesOut
  BY <1>3 DEF TimesOut, Busy, sidecar, bus
<1> QED
  BY <1>1, <1>2, <1>3 DEF Calling

LEMMA UpdateNext ==
  ASSUME TypeOK, UpdateInv, TokenInv, CommandInv, FlowInv, Next
  PROVE  UpdateInv'
<1> USE DEF UpdateInv
<1>1. CASE Writes
  <2>1. tg' \in Seq(Update) /\ Len(tg') = Len(tg) + 1
    BY <1>1 DEF Writes
  <2>2. UNCHANGED <<offset, tokens, handled, told>> /\ offset \in Int
    BY <1>1 DEF Writes, broker, TypeOK
  <2> QED
    BY <2>1, <2>2
<1>2. ASSUME NEW u \in Updates, Take(u) PROVE UpdateInv'
  <2>1. /\ u = offset /\ u \in DOMAIN tg /\ tg[u] \in Update /\ u \in Nat
        /\ offset' = u + 1 /\ tg' = tg /\ told' = told /\ handled' = [handled EXCEPT ![u] = @ + 1] /\ cur' = u
    BY <1>2, TakenUpdate DEF Take
  <2>2. \A x \in Updates : x # u => handled'[x] = handled[x]
    BY <2>1 DEF TypeOK
  <2>3. handled'[u] = 1
    BY <2>1 DEF TypeOK
  <2>4. \A x \in Updates : tokens[x] = "none" /\ x # u => tokens'[x] = "none"
    <3>1. CASE Asks(tg[u])
      BY <2>1, <3>1 DEF Asks, TypeOK
    <3>2. CASE Pauses(tg[u])
      BY <3>2 DEF Pauses
    <3>3. CASE Presses(tg[u])
      BY <3>3 DEF Presses, Spend, TypeOK
    <3> QED
      BY <1>2, <3>1, <3>2, <3>3 DEF Take
  <2>5. offset' <= Len(tg') + 1
    BY <2>1
  <2> QED
    BY <2>1, <2>2, <2>3, <2>4, <2>5 DEF Updates
<1>3. CASE Calling
  <2>1. PICK ok \in BOOLEAN : Advance(ok)
    BY <1>3, CallingSteps
  <2>2. \A u \in Updates \ {cur} : told'[u] = told[u]
    BY <1>3, <2>1, CallingSteps, AdvanceFrame
  <2>3. cur < offset /\ UNCHANGED <<tg, offset, tokens, handled>>
    BY <1>3, CallingSteps DEF FlowInv, Busy
  <2> QED
    BY <2>2, <2>3 DEF TypeOK
<1>4. CASE Enqueue \/ Complete \/ BrokerStarts
  BY <1>4 DEF Enqueue, Complete, BrokerStarts
<1>5. CASE BrokerDies
  BY <1>5 DEF BrokerDies
<1>6. CASE Sidecar \/ Ages \/ SidecarDies
  BY <1>6 DEF Sidecar, Claim, Repeat, Execute, Record, Answer, Unlink, SidecarStarts, SidecarDies, Ages, broker
<1> QED
  BY <1>1, <1>2, <1>3, <1>4, <1>5, <1>6 DEF Next, Broker, Calling

LEMMA TokenNext ==
  ASSUME TypeOK, UpdateInv, TokenInv, CommandInv, FlowInv, Next
  PROVE  TokenInv'
<1> USE DEF TokenInv
<1>1. CASE Writes
  <2>1. \A t \in DOMAIN tg : t \in DOMAIN tg' /\ tg'[t] = tg[t]
    BY <1>1 DEF Writes, UpdateInv
  <2> QED
    BY <1>1, <2>1 DEF Writes, broker
<1>2. ASSUME NEW u \in Updates, Take(u) PROVE TokenInv'
  <2>1. u = offset /\ u \in DOMAIN tg /\ tg[u] \in Update /\ tg' = tg /\ cur' = u
    BY <1>2, TakenUpdate DEF Take
  <2>2. CASE Asks(tg[u])
    <3>1. spent[u] = 0
      BY <2>1 DEF UpdateInv
    <3> QED
      BY <2>1, <2>2, <3>1 DEF Asks, TypeOK
  <2>3. CASE Pauses(tg[u])
    BY <2>1, <2>3 DEF Pauses
  <2>4. CASE Presses(tg[u])
    <3> DEFINE t == tg[u].what
    <3>1. t \in Updates
      BY <2>1, <2>4, UpdateTypes DEF Presses
    <3>2. tokens \in [Updates -> {"none", "live", "used", "canceled", "gone"}] /\ spent \in [Updates -> Nat]
      BY DEF TypeOK
    <3>3. /\ \A x \in Updates \ {t} : tokens'[x] = tokens[x] /\ spent'[x] = spent[x]
          /\ \/ tokens[t] = "live" /\ tokens'[t] = "used" /\ spent'[t] = spent[t] + 1
             \/ tokens[t] = "live" /\ tokens'[t] \in {"canceled", "gone"} /\ spent'[t] = spent[t]
             \/ tokens'[t] = tokens[t] /\ spent'[t] = spent[t]
      BY <2>4, <3>1, <3>2 DEF Presses, Spend
    <3> HIDE DEF t
    <3>4. ASSUME NEW x \in Updates \ {t}
          PROVE  /\ spent'[x] <= 1 /\ (tokens'[x] # "used" => spent'[x] = 0)
                 /\ tokens'[x] # "none" => x \in DOMAIN tg' /\ tg'[x].kind = "ask"
      BY <2>1, <3>3
    <3>5. /\ spent'[t] <= 1 /\ (tokens'[t] # "used" => spent'[t] = 0)
          /\ tokens'[t] # "none" => t \in DOMAIN tg' /\ tg'[t].kind = "ask"
      BY <2>1, <3>1, <3>2, <3>3
    <3> QED
      BY <3>4, <3>5
  <2> QED
    BY <1>2, <2>2, <2>3, <2>4 DEF Take
<1>3. CASE Calling
  BY <1>3, CallingSteps
<1>4. CASE Enqueue \/ Complete \/ BrokerStarts
  BY <1>4 DEF Enqueue, Complete, BrokerStarts
<1>5. CASE BrokerDies
  BY <1>5 DEF BrokerDies, TypeOK
<1>6. CASE Sidecar \/ Ages \/ SidecarDies
  BY <1>6 DEF Sidecar, Claim, Repeat, Execute, Record, Answer, Unlink, SidecarStarts, SidecarDies, Ages, broker
<1> QED
  BY <1>1, <1>2, <1>3, <1>4, <1>5, <1>6 DEF Next, Broker, Calling

-----------------------------------------------------------------------------
(***************************************************************************)
(* Claims, executions and answers.                                          *)
(***************************************************************************)
LEMMA CommandFrame ==
  ASSUME CommandInv, UNCHANGED <<runs, claims, spc, cmd, outcome>>,
         \A c \in Cids : results'[c] \in {results[c], "none"}
  PROVE  CommandInv'
BY DEF CommandInv

LEMMA CommandSidecar ==
  ASSUME TypeOK, CommandInv, Sidecar \/ SidecarDies
  PROVE  CommandInv'
<1> USE DEF CommandInv, TypeOK
<1>1. ASSUME NEW c \in Cids, Claim(c) PROVE CommandInv'
  BY <1>1 DEF Claim, Fresh, bus
<1>2. ASSUME NEW c \in Cids, Repeat(c) PROVE CommandInv'
  BY <1>2 DEF Repeat, PriorAnswer
<1>3. CASE Execute
  BY <1>3 DEF Execute, bus
<1>4. CASE Record
  BY <1>4 DEF Record, bus
<1>5. CASE Answer
  BY <1>5 DEF Answer, AnswerOf
<1>6. CASE Unlink \/ SidecarStarts \/ SidecarDies
  BY <1>6 DEF Unlink, SidecarStarts, SidecarDies, bus
<1> QED
  BY <1>1, <1>2, <1>3, <1>4, <1>5, <1>6 DEF Sidecar

LEMMA CommandNext ==
  ASSUME TypeOK, UpdateInv, CommandInv, FlowInv, Next
  PROVE  CommandInv'
<1>1. CASE Calling
  BY <1>1, CallingSteps, CommandFrame
<1>2. CASE Writes \/ Ages \/ Enqueue \/ Complete \/ BrokerStarts \/ BrokerDies \/ \E u \in Updates : Take(u)
  <2>1. UNCHANGED <<runs, claims, spc, cmd, outcome, results>>
    BY <1>2 DEF Writes, Ages, Enqueue, Complete, BrokerStarts, BrokerDies, Take, sidecar, bus
  <2> QED
    BY <2>1, CommandFrame
<1> QED
  BY <1>1, <1>2, CommandSidecar DEF Next, Broker, Calling

\* The sidecar takes no command but those that were issued, and a recorded success stays.
LEMMA SidecarFrame ==
  ASSUME TypeOK, CommandInv, Sidecar \/ SidecarDies \/ Ages
  PROVE  /\ UNCHANGED <<tg, broker>>
         /\ \A c \in Cids : /\ Issued(c)' => Issued(c)
                            /\ claims[c] = "ok" => claims'[c] = "ok"
<1> USE DEF Issued, TypeOK
<1>1. ASSUME NEW c \in Cids, Claim(c)
      PROVE  /\ UNCHANGED <<tg, broker>> /\ inbox' = inbox /\ Issued(c) /\ claims[c] = "none"
             /\ \A x \in Cids \ {c} : claims'[x] = claims[x]
  BY <1>1 DEF Claim, Fresh, bus
<1>2. ASSUME NEW c \in Cids, Repeat(c) PROVE UNCHANGED <<tg, broker, claims>> /\ inbox' \subseteq inbox
  BY <1>2 DEF Repeat, Removed
<1>3. CASE Record
  BY <1>3 DEF Record, CommandInv, bus
<1>4. CASE Execute \/ Answer \/ Unlink \/ SidecarStarts \/ SidecarDies \/ Ages
  BY <1>4 DEF Execute, Answer, Unlink, Removed, SidecarStarts, SidecarDies, Ages, bus, sidecar
<1> QED
  BY <1>1, <1>2, <1>3, <1>4 DEF Sidecar

-----------------------------------------------------------------------------
(***************************************************************************)
(* The calls of an action.                                                  *)
(***************************************************************************)
LEMMA FlowNext ==
  ASSUME TypeOK, UpdateInv, TokenInv, CommandInv, FlowInv, Next
  PROVE  FlowInv'
<1>1. CASE Writes
  <2>1. UNCHANGED broker
    BY <1>1 DEF Writes
  <2>2. Busy => tg'[cur] = tg[cur]
    BY <1>1 DEF Writes, Busy, FlowInv, UpdateInv, Updates, TypeOK
  <2> QED
    BY <2>1, <2>2 DEF FlowInv, Busy, Call, broker
<1>2. ASSUME NEW u \in Updates, Take(u) PROVE FlowInv'
  <2>1. u = offset /\ offset' = u + 1 /\ cur' = u /\ k' = 1 /\ tg' = tg /\ u \in Nat
    BY <1>2, TakenUpdate DEF Take
  <2>2. bpc' \in {"call", "complete"} /\ (bpc' = "call" => flow' # <<>>)
    BY <1>2 DEF Take
  <2>3. (flow' = PauseFlow => tg[u].kind = "pause") /\ (flow' # <<>> => 1 \in 1 .. Len(flow'))
    BY <1>2, TakenFlow
  <2> QED
    BY <2>1, <2>2, <2>3 DEF FlowInv, Busy
<1>3. CASE Calling
  <2>1. PICK ok \in BOOLEAN : Advance(ok)
    BY <1>3, CallingSteps
  <2>2. UNCHANGED <<tg, cur, offset>> /\ Busy
    BY <1>3, CallingSteps
  <2>3. flow' \in {flow, <<"halt">>} /\ bpc' \in {"call", "complete"} /\ (bpc' = "call" => k' \in 1 .. Len(flow'))
    BY <2>1, <2>2, AdvanceFrame
  <2>4. <<"halt">> # PauseFlow
    BY DEF PauseFlow
  <2> QED
    BY <2>2, <2>3, <2>4 DEF FlowInv, Busy
<1>4. CASE Enqueue
  BY <1>4 DEF Enqueue, Calls, FlowInv, Busy, Call
<1>5. CASE Complete \/ BrokerStarts \/ BrokerDies
  BY <1>5 DEF Complete, BrokerStarts, BrokerDies, FlowInv, Busy
<1>6. CASE Sidecar \/ Ages \/ SidecarDies
  BY <1>6, SidecarFrame DEF broker, FlowInv, Busy, Call
<1> QED
  BY <1>1, <1>2, <1>3, <1>4, <1>5, <1>6 DEF Next, Broker, Calling

LEMMA CidParts == \A c \in Cids : c[1] \in Updates /\ c[2] \in Commands /\ c = <<c[1], c[2]>>
BY DEF Cids

LEMMA CidPairs == \A u \in Updates, x \in Commands : <<u, x>> \in Cids
BY DEF Cids

\* An answer, or the failure of a call, with what is known of the commands before it.
LEMMA ProgressAdvance ==
  ASSUME TypeOK, CommandInv, FlowInv, ProgressInv, IssuedInv, Calling
  PROVE  ProgressInv' /\ IssuedInv'
<1>1. PICK ok \in BOOLEAN : /\ Advance(ok)
                            /\ bpc = "call" => Call \notin Commands
                            /\ ok /\ bpc = "wait" => claims[<<cur, Call>>] = "ok"
  BY CallingSteps
<1>2. UNCHANGED <<tg, offset, cur, inbox, claims>> /\ Busy
  BY CallingSteps
<1>3. \A c \in Cids : Issued(c)' <=> Issued(c)
  BY <1>2 DEF Issued
<1> DEFINE n == Len(flow)
<1>5. k \in 1 .. n /\ n \in 0 .. 5
  BY <1>2, FlowTypes DEF FlowInv
<1>6. CASE ~StopsAt
  <2>1. /\ Call = "off" => flow = PauseFlow
        /\ k = n => Call = "halt"
        /\ flow = PauseFlow \/ flow = <<"halt">>
    BY <1>5, <1>6, PausePosition DEF Call
  <2>2. flow' = flow
    BY <1>1, <1>6, <2>1 DEF Advance, Last
  <2> QED
    BY <1>2, <1>3, <1>6, <2>2, CidParts DEF ProgressInv, IssuedInv, StopsAt
<1>7. CASE StopsAt /\ ~ok
  <2>1. flow' = <<"halt">> \/ bpc' = "complete"
    BY <1>1, <1>7 DEF Advance
  <2> QED
    BY <1>2, <1>3, <2>1, CidParts DEF ProgressInv, IssuedInv, StopsAt, Busy
<1>8. CASE StopsAt /\ ok
  <2>2. flow' = flow /\ Proceed
    BY <1>1, <1>8 DEF Advance
  <2>3. \A i \in 1 .. k : flow[i] \in Commands => claims[<<cur, flow[i]>>] = "ok"
    <3>1. Call \in Commands => claims[<<cur, Call>>] = "ok"
      BY <1>1, <1>2, <1>8 DEF Busy
    <3>2. \A i \in 1 .. k - 1 : flow[i] \in Commands => claims[<<cur, flow[i]>>] = "ok"
      BY <1>2, <1>8 DEF ProgressInv
    <3> HIDE DEF n
    <3> QED
      BY <1>5, <3>1, <3>2 DEF Call
  <2>4. \A c \in Cids : Issued(c) /\ c[1] = cur => \E i \in 1 .. k : flow[i] = c[2]
    BY <1>2, <1>8 DEF ProgressInv
  <2>6. IssuedInv'
    BY <1>2, <1>3, CidParts DEF IssuedInv
  <2>7. CASE k = n
    BY <2>2, <2>6, <2>7 DEF Proceed, Last, ProgressInv, Busy
  <2>8. CASE k # n
    <3>1. k' = k + 1 /\ k \in Int
      BY <1>5, <2>2 DEF Proceed
    <3>2. \A i \in 1 .. k : i \in 1 .. k' /\ i # k'
      BY <3>1
    <3>3. \A c \in Cids : Issued(c) /\ c[1] = cur => \E i \in 1 .. k' : flow[i] = c[2] /\ i # k'
      BY <2>4, <3>2
    <3>4. 1 .. k' - 1 = 1 .. k
      BY <3>1
    <3> QED
      BY <1>2, <1>3, <2>2, <2>3, <2>6, <3>1, <3>3, <3>4 DEF ProgressInv
  <2> QED
    BY <2>7, <2>8
<1> QED
  BY <1>6, <1>7, <1>8

\* A new command: the earlier ones of its action succeeded.
LEMMA ProgressEnqueue ==
  ASSUME TypeOK, CommandInv, FlowInv, ProgressInv, IssuedInv, Enqueue
  PROVE  ProgressInv' /\ IssuedInv'
<1>1. /\ bpc = "call" /\ Call \in Commands /\ inbox' = inbox \cup {<<cur, Call>>} /\ bpc' = "wait"
      /\ UNCHANGED <<tg, offset, cur, flow, k, told, claims>>
  BY DEF Enqueue, Calls, sidecar
<1>2. cur \in Updates /\ cur < offset /\ Busy /\ k \in 1 .. Len(flow) /\ flow[k] = Call
  BY <1>1 DEF FlowInv, Busy, Call
<1>3. \A c \in Cids : Issued(c)' <=> Issued(c) \/ c = <<cur, Call>>
  BY <1>1 DEF Issued
<1>4. ProgressInv'
  <2> SUFFICES ASSUME StopsAt PROVE ProgressInv'
    BY <1>1 DEF ProgressInv, StopsAt
  <2>1. k \in 1 .. k
    BY <1>2
  <2>2. \A c \in Cids : Issued(c)' /\ c[1] = cur => \E i \in 1 .. k : flow[i] = c[2]
    BY <1>2, <1>3, <2>1 DEF ProgressInv
  <2> QED
    BY <1>1, <1>2, <2>2 DEF ProgressInv
<1>5. IssuedInv'
  <2>1. Call = "clear" => claims[<<cur, "reconcile">>] = "ok"
    <3> SUFFICES ASSUME flow[k] = "clear" PROVE claims[<<cur, "reconcile">>] = "ok"
      BY <1>2
    <3>1. StopsAt /\ k = 3 /\ flow[2] = "reconcile"
      BY <1>2, ClearPosition
    <3>2. 2 \in 1 .. k - 1 /\ "reconcile" \in Commands
      BY <3>1 DEF Commands
    <3> QED
      BY <1>2, <3>1, <3>2 DEF ProgressInv
  <2>2. \A c \in Cids : c = <<cur, Call>> => c[1] = cur /\ c[2] = Call
    OBVIOUS
  <2> QED
    BY <1>1, <1>2, <1>3, <2>1, <2>2 DEF IssuedInv
<1> QED
  BY <1>4, <1>5

LEMMA ProgressNext ==
  ASSUME TypeOK, UpdateInv, TokenInv, CommandInv, FlowInv, ProgressInv, IssuedInv, Next
  PROVE  ProgressInv' /\ IssuedInv'
<1>1. CASE Writes
  <2>1. UNCHANGED <<broker, inbox, claims>>
    BY <1>1 DEF Writes, sidecar, bus
  <2>3. ProgressInv'
    BY <2>1 DEF ProgressInv, Busy, StopsAt, Issued, broker
  <2>4. IssuedInv'
    BY <2>1, CidParts DEF IssuedInv, Issued, broker
  <2> QED
    BY <2>3, <2>4
<1>2. ASSUME NEW u \in Updates, Take(u) PROVE ProgressInv' /\ IssuedInv'
  <2>1. /\ u = offset /\ offset' = u + 1 /\ cur' = u /\ k' = 1 /\ bpc' # "wait" /\ u \in Nat
        /\ UNCHANGED <<inbox, claims>>
    BY <1>2, TakenUpdate DEF Take, sidecar, bus
  <2>2. \A c \in Cids : Issued(c)' <=> Issued(c)
    BY <2>1 DEF Issued
  <2>3. ASSUME NEW c \in Cids, Issued(c) PROVE c[1] # u
    <3>1. c[1] < u
      BY <2>1, <2>3 DEF IssuedInv
    <3>2. c[1] \in 1 .. MaxUpdates
      BY CidParts DEF Updates
    <3> QED
      BY <2>1, <3>1, <3>2, Bounds
  <2>4. ProgressInv'
    BY <2>1, <2>2, <2>3 DEF ProgressInv
  <2>5. IssuedInv'
    BY <2>1, <2>2, CidParts DEF IssuedInv, Updates
  <2> QED
    BY <2>4, <2>5
<1>3. CASE Complete \/ BrokerStarts \/ BrokerDies
  <2>1. UNCHANGED <<offset, inbox, claims>> /\ bpc' \in {"poll", "down"}
    BY <1>3 DEF Complete, BrokerStarts, BrokerDies, sidecar, bus
  <2> QED
    BY <2>1 DEF ProgressInv, IssuedInv, Issued, Busy
<1>4. CASE Sidecar \/ Ages \/ SidecarDies
  <2>1. /\ UNCHANGED <<tg, broker>>
        /\ \A c \in Cids : /\ Issued(c)' => Issued(c)
                           /\ claims[c] = "ok" => claims'[c] = "ok"
    BY <1>4, SidecarFrame
  <2>2. ProgressInv'
    <3> SUFFICES ASSUME Busy, StopsAt PROVE ProgressInv'
      BY <2>1 DEF ProgressInv, Busy, StopsAt, broker
    <3>1. cur \in Updates
      BY DEF FlowInv, Busy
    <3> QED
      BY <2>1, <3>1, CidPairs DEF ProgressInv, Busy, StopsAt, broker
  <2>3. "reconcile" \in Commands
    BY DEF Commands
  <2>4. IssuedInv'
    BY <2>1, <2>3, CidParts, CidPairs DEF IssuedInv, broker
  <2> QED
    BY <2>2, <2>4
<1> QED
  BY <1>1, <1>2, <1>3, <1>4, ProgressAdvance, ProgressEnqueue DEF Next, Broker, Calling

-----------------------------------------------------------------------------
(***************************************************************************)
(* What the owner is told.                                                  *)
(***************************************************************************)

\* Updates are only added, and a recorded success stays.
LEMMA DoneStays ==
  ASSUME \A i \in DOMAIN tg : i \in DOMAIN tg' /\ tg'[i] = tg[i],
         \A c \in Cids : claims[c] = "ok" => claims'[c] = "ok",
         NEW u \in Updates
  PROVE  /\ u \in DOMAIN tg /\ Confirmed(u) => Confirmed(u)' /\ ActionOf(u)' = ActionOf(u)
         /\ Done(u) => Done(u)'
<1>1. u \in DOMAIN tg /\ (tg[u].kind = "confirm" => tg[u].what \in DOMAIN tg) =>
        ActionOf(u)' = ActionOf(u)
  BY DEF ActionOf
<1>2. u \in DOMAIN tg /\ Confirmed(u) => Confirmed(u)'
  BY DEF Confirmed
<1>3. CommandsOf(u) \subseteq Cids
  BY DEF CommandsOf, Cids
<1>4. ActionOf(u)' = ActionOf(u) => CommandsOf(u)' = CommandsOf(u)
  BY DEF CommandsOf
<1>5. Done(u) => Done(u)'
  BY <1>1, <1>3, <1>4 DEF Done
<1> QED
  BY <1>1, <1>2, <1>5 DEF Confirmed

LEMMA CurrentKnown ==
  ASSUME TypeOK, UpdateInv, FlowInv, Busy
  PROVE  cur \in Updates /\ cur \in DOMAIN tg
<1>1. cur \in Updates /\ cur < offset /\ offset <= Len(tg) + 1 /\ offset \in Int /\ tg \in Seq(Update)
  BY DEF TypeOK, UpdateInv, FlowInv, Busy
<1>2. cur \in Nat /\ cur >= 1
  BY <1>1, Bounds DEF Updates
<1> QED
  BY <1>1, <1>2

LEMMA ActionFrame ==
  ASSUME TypeOK, UpdateInv, FlowInv, ActionInv,
         \A i \in DOMAIN tg : i \in DOMAIN tg' /\ tg'[i] = tg[i],
         \A c \in Cids : claims[c] = "ok" => claims'[c] = "ok",
         told' = told,
         Busy' /\ StopsAt' => Busy /\ StopsAt /\ cur' = cur /\ flow' = flow
  PROVE  ActionInv'
<1>1. \A u \in Updates : told'[u] = "ok" => Done(u)'
  BY DoneStays DEF ActionInv
<1>2. Busy => cur \in Updates /\ cur \in DOMAIN tg
  BY CurrentKnown
<1>3. Busy' /\ StopsAt' => Confirmed(cur)' /\ flow' = Flow[ActionOf(cur)']
  <2> SUFFICES ASSUME Busy', StopsAt' PROVE Confirmed(cur)' /\ flow' = Flow[ActionOf(cur)']
    OBVIOUS
  <2>1. Confirmed(cur) /\ flow = Flow[ActionOf(cur)]
    BY DEF ActionInv
  <2>2. PICK u \in Updates : u = cur
    BY <1>2
  <2>3. Confirmed(u)' /\ ActionOf(u)' = ActionOf(u)
    BY <1>2, <2>1, <2>2, DoneStays
  <2>4. u = cur'
    BY <2>2
  <2> QED
    BY <2>1, <2>2, <2>3, <2>4 DEF Confirmed, ActionOf
<1> QED
  BY <1>1, <1>3 DEF ActionInv

\* The report follows the last answer; in a pause, the answer to "off".
LEMMA ActionCalling ==
  ASSUME TypeOK, UpdateInv, CommandInv, FlowInv, ProgressInv, ActionInv, Calling
  PROVE  ActionInv'
<1>1. PICK ok \in BOOLEAN : /\ Advance(ok)
                            /\ bpc = "call" => Call \notin Commands
                            /\ ok /\ bpc = "wait" => claims[<<cur, Call>>] = "ok"
  BY CallingSteps
<1>2. UNCHANGED <<tg, offset, cur, claims>> /\ Busy
  BY CallingSteps
<1>3. cur \in Updates /\ cur \in DOMAIN tg /\ \A u \in Updates \ {cur} : told'[u] = told[u]
  BY <1>1, <1>2, AdvanceFrame, CurrentKnown
<1>4. \A u \in Updates : Done(u)' <=> Done(u)
  BY <1>2 DEF Done, CommandsOf, ActionOf
<1>5. \A u \in Updates : told[u] = "ok" => Done(u)
  BY DEF ActionInv
<1> DEFINE n == Len(flow)
<1>6. k \in 1 .. n /\ n \in 0 .. 5
  BY <1>2, FlowTypes DEF FlowInv
<1>7. told'[cur] = "ok" => Done(cur)
  <2> SUFFICES ASSUME told'[cur] = "ok", told[cur] # "ok" PROVE Done(cur)
    BY <1>3, <1>5
  <2>1. ok /\ (Call = "off" \/ (k = n /\ Call # "halt"))
    BY <1>1, <1>3 DEF Advance, Tell, Last, TypeOK
  <2>2. CASE Call = "off"
    <3>1. flow = PauseFlow /\ tg[cur].kind = "pause"
      BY <1>2, <1>6, <2>2, PausePosition DEF FlowInv, Call
    <3>2. tg[cur].what = "pause"
      BY <1>3, <3>1 DEF TypeOK, Update
    <3>3. ActionOf(cur) = "pause" /\ Flow["pause"] = PauseFlow
      BY <3>1, <3>2 DEF ActionOf, Flow
    <3>4. \A c \in CommandsOf(cur) : c = <<cur, "off">>
      BY <3>3 DEF CommandsOf, Commands, PauseFlow
    <3>5. claims[<<cur, "off">>] = "ok"
      BY <1>1, <1>2, <2>1, <2>2 DEF Busy, Commands
    <3> QED
      BY <1>3, <3>1, <3>4, <3>5 DEF Done
  <2>3. CASE k = n /\ Call # "halt"
    <3>1. StopsAt
      BY <1>6, <2>3, PausePosition DEF Call
    <3>2. Confirmed(cur) /\ flow = Flow[ActionOf(cur)]
      BY <1>2, <3>1 DEF ActionInv
    <3>3. \A i \in 1 .. n : flow[i] \in Commands => claims[<<cur, flow[i]>>] = "ok"
      <4>1. Call \in Commands => claims[<<cur, Call>>] = "ok"
        BY <1>1, <1>2, <2>1 DEF Busy
      <4>2. \A i \in 1 .. k - 1 : flow[i] \in Commands => claims[<<cur, flow[i]>>] = "ok"
        BY <1>2, <3>1 DEF ProgressInv
      <4> HIDE DEF n
      <4> QED
        BY <1>6, <2>3, <4>1, <4>2 DEF Call
    <3>4. \A i \in DOMAIN flow : i \in 1 .. n
      BY FlowTypes DEF ResumeFlow, RecoverFlow, PauseFlow
    <3>5. \A c \in CommandsOf(cur) : claims[c] = "ok"
      BY <3>2, <3>3, <3>4 DEF CommandsOf
    <3> QED
      BY <1>3, <3>2, <3>5 DEF Done, Confirmed
  <2> QED
    BY <2>1, <2>2, <2>3
<1>8. Busy' /\ StopsAt' => StopsAt /\ flow' = flow
  <2>1. flow' \in {flow, <<"halt">>}
    BY <1>1, <1>2, AdvanceFrame
  <2> QED
    BY <2>1 DEF StopsAt
<1>9. Busy' /\ StopsAt' => Confirmed(cur)' /\ flow' = Flow[ActionOf(cur)']
  BY <1>2, <1>8 DEF ActionInv, Confirmed, ActionOf
<1> QED
  BY <1>3, <1>4, <1>5, <1>7, <1>9 DEF ActionInv

LEMMA ActionNext ==
  ASSUME TypeOK, UpdateInv, TokenInv, CommandInv, FlowInv, ProgressInv, ActionInv, Next
  PROVE  ActionInv'
<1>1. CASE Writes
  <2>1. \A i \in DOMAIN tg : i \in DOMAIN tg' /\ tg'[i] = tg[i]
    BY <1>1 DEF Writes, UpdateInv
  <2>2. UNCHANGED <<broker, claims>>
    BY <1>1 DEF Writes, sidecar
  <2> QED
    BY <2>1, <2>2, ActionFrame DEF broker, Busy, StopsAt
<1>2. ASSUME NEW u \in Updates, Take(u) PROVE ActionInv'
  <2>1. UNCHANGED <<tg, told, claims>> /\ cur' = u /\ bpc' \in {"call", "complete"}
        /\ (bpc' = "call" => flow' # <<>>)
    BY <1>2 DEF Take, sidecar
  <2>2. flow' \notin {<<>>, PauseFlow} => Confirmed(u) /\ flow' = Flow[ActionOf(u)]
    BY <1>2, TakenFlow
  <2>3. Busy' /\ StopsAt' => flow' \notin {<<>>, PauseFlow}
    BY <2>1 DEF Busy, StopsAt
  <2>4. \A x \in Updates : Done(x)' <=> Done(x)
    BY <2>1 DEF Done, CommandsOf, ActionOf
  <2>5. Busy' /\ StopsAt' => Confirmed(cur)' /\ flow' = Flow[ActionOf(cur)']
    BY <2>1, <2>2, <2>3 DEF Confirmed, ActionOf
  <2> QED
    BY <2>1, <2>4, <2>5 DEF ActionInv
<1>3. CASE Enqueue
  BY <1>3, ActionFrame DEF Enqueue, Calls, Busy, StopsAt, sidecar
<1>4. CASE Complete \/ BrokerStarts \/ BrokerDies
  <2>1. UNCHANGED <<tg, told, claims>> /\ ~Busy'
    BY <1>4 DEF Complete, BrokerStarts, BrokerDies, sidecar, Busy
  <2> QED
    BY <2>1, ActionFrame
<1>5. CASE Sidecar \/ Ages \/ SidecarDies
  <2>1. UNCHANGED <<tg, broker>> /\ \A c \in Cids : claims[c] = "ok" => claims'[c] = "ok"
    BY <1>5, SidecarFrame
  <2> QED
    BY <2>1, ActionFrame DEF broker, Busy, StopsAt
<1> QED
  BY <1>1, <1>2, <1>3, <1>4, <1>5, ActionCalling DEF Next, Broker, Calling

-----------------------------------------------------------------------------
(***************************************************************************)
(* The theorems.                                                            *)
(***************************************************************************)
LEMMA InitIInv == Init => IInv
<1> SUFFICES ASSUME Init PROVE IInv
  OBVIOUS
<1>1. TypeOK
  <2>1. /\ Len(tg) <= MaxUpdates /\ \A i \in DOMAIN tg : tg[i] \in Update
        /\ offset \in 1 .. MaxUpdates + 1 /\ cur \in 0 .. MaxUpdates
        /\ faults \in 0 .. MaxFaults /\ timeouts \in 0 .. MaxTimeouts
    BY Bounds DEF Init
  <2>2. /\ handled \in [Updates -> Nat] /\ spent \in [Updates -> Nat] /\ runs \in [Cids -> Nat]
        /\ results \in [Cids -> Verdicts \cup {"none"}]
    BY DEF Init
  <2>3. /\ table \in [Updates -> {"none", "claimed", "handled", "failed", "uncertain"}]
        /\ tokens \in [Updates -> {"none", "live", "used", "canceled", "gone"}]
        /\ told \in [Updates -> {"none", "ok", "failed"}]
        /\ claims \in [Cids -> {"none", "IN_PROGRESS", "ok", "failed"}]
    BY DEF Init
  <2>4. cmd \in Cids \cup {NoCid} /\ flow = <<>> /\ inbox = {} /\ stale = {}
    BY DEF Init
  <2>5. bpc = "poll" /\ k \in 0 .. 6 /\ spc = "idle" /\ outcome = "ok"
    BY DEF Init
  <2>6. armed \in BOOLEAN /\ running \in BOOLEAN
    BY Zenon DEF Init
  <2> QED
    BY <2>1, <2>2, <2>3, <2>4, <2>5, <2>6 DEF TypeOK
<1>2. UpdateInv /\ TokenInv
  BY DEF Init, UpdateInv, TokenInv
<1>3. CommandInv
  BY DEF Init, CommandInv
<1>4. FlowInv /\ ProgressInv /\ IssuedInv /\ ActionInv
  BY DEF Init, FlowInv, ProgressInv, IssuedInv, ActionInv, Issued, Busy
<1> QED
  BY <1>1, <1>2, <1>3, <1>4 DEF IInv

LEMMA NextIInv == IInv /\ [Next]_vars => IInv'
<1> SUFFICES ASSUME IInv, [Next]_vars PROVE IInv'
  OBVIOUS
<1> USE DEF IInv
<1>1. CASE Next
  <2>1. TypeOK'
    BY <1>1, TypesBroker, TypesSidecar, TypesOwner DEF Next
  <2> QED
    BY <1>1, <2>1, UpdateNext, TokenNext, CommandNext, FlowNext, ProgressNext, ActionNext
<1>2. CASE UNCHANGED vars
  <2> USE <1>2 DEF vars, broker, sidecar, bus
  <2>1. TypeOK'
    BY DEF TypeOK
  <2>2. UpdateInv' /\ TokenInv' /\ CommandInv'
    BY DEF UpdateInv, TokenInv, CommandInv
  <2>3. FlowInv' /\ ProgressInv' /\ IssuedInv'
    BY DEF FlowInv, ProgressInv, IssuedInv, Issued, Busy, StopsAt, Call
  <2>4. ActionInv'
    BY ActionFrame DEF Busy, StopsAt
  <2> QED
    BY <2>1, <2>2, <2>3, <2>4
<1> QED
  BY <1>1, <1>2

\* The invariant holds of every behaviour of the two processes.
THEOREM Invariance == Spec => []IInv
<1>1. Init => IInv
  BY InitIInv
<1>2. IInv /\ [Next]_vars => IInv'
  BY NextIInv
<1> QED
  BY <1>1, <1>2, PTL DEF Spec

\* The tables of the broker and the sidecar, and the files between them, keep their types for any
\* number of updates, deaths and timeouts (bot.py, main.py, state_store.py).
THEOREM TypeCorrect == Spec => []TypeOK
<1>1. IInv => TypeOK
  BY DEF IInv
<1> QED
  BY <1>1, Invariance, PTL

\* No update is handled twice, no confirmation is spent twice or after it was canceled, and no
\* command is executed twice, whatever Telegram repeats and whichever process dies when
\* (TelegramUpdateStore.claim, CallbackStore.consume, claim_command).
THEOREM EffectOnce == Spec => []AtMostOnce
<1>1. IInv => AtMostOnce
  BY DEF IInv, UpdateInv, TokenInv, CommandInv, AtMostOnce
<1> QED
  BY <1>1, Invariance, PTL

\* An owner who is told that an action succeeded has had every command of that action, whether it
\* was sent or should have been, executed once and recorded as successful (sidecar_command,
\* _write_command_result; stable_panel.py, recover and confirm_action).
THEOREM SuccessTold == Spec => []SuccessIsReal
<1>1. IInv => SuccessIsReal
  <2> SUFFICES ASSUME IInv, NEW u \in DOMAIN tg, told[u] = "ok", NEW c \in CommandsOf(u)
               PROVE  claims[c] = "ok" /\ runs[c] = 1
    BY DEF SuccessIsReal
  <2>1. u \in Updates
    BY CommandAssumption DEF IInv, TypeOK, UpdateInv, Updates
  <2>2. claims[c] = "ok"
    BY <2>1 DEF IInv, ActionInv, Done
  <2>3. c \in Cids
    BY <2>1 DEF CommandsOf, Cids
  <2> QED
    BY <2>2, <2>3 DEF IInv, CommandInv
<1> QED
  BY <1>1, Invariance, PTL

\* clear_risk_pause runs only after the reconciliation of the same recovery passed, however late
\* the command file is found (stable_panel.py, recover; process_command).
THEOREM ReconciledFirst == Spec => []ClearAfterReconcile
<1>1. IInv => ClearAfterReconcile
  <2> SUFFICES ASSUME IInv, NEW u \in Updates, runs[<<u, "clear">>] > 0
               PROVE  claims[<<u, "reconcile">>] = "ok"
    BY DEF ClearAfterReconcile
  <2>1. <<u, "clear">> \in Cids
    BY DEF Cids, Commands
  <2>2. Issued(<<u, "clear">>)
    BY <2>1 DEF IInv, CommandInv, Issued
  <2> QED
    BY <2>1, <2>2 DEF IInv, IssuedInv
<1> QED
  BY <1>1, Invariance, PTL

-----------------------------------------------------------------------------
(***************************************************************************)
(* The inductive invariant of Preflight.                                    *)
(***************************************************************************)
Replacing == {"cancel", "rebuild", "submit"}

LegType == [side : {"BUY", "SELL"}, type : {"LIMIT", "LIMIT_MAKER", "STOP"}, qty : Nat,
            price : Int, stop : Int, delta : Nat]

ProtType == [request : Requests \cup {"ENTRY"}, entry : Nat, legs : Seq(LegType),
             list : {NoList, NotInList, 1}, sold : BOOLEAN]

JobType ==
  {Idle, [pc |-> "blocked"]}
    \cup [pc : {"naked"}, disturbed : BOOLEAN, sold : BOOLEAN]
    \cup [pc : {"enter"}, legs : Seq(LegType), disturbed : BOOLEAN]
    \cup [pc : Replacing, request : Requests, entry : Nat, stop : Int, rules : RuleSets,
          legs : Seq(LegType), disturbed : BOOLEAN, sold : BOOLEAN]

TypesInv ==
  /\ clock \in Nat /\ rules \in RuleSets /\ price \in Prices /\ others \in Nat /\ held \in Nat
  /\ cache \subseteq [at : Nat, rules : RuleSets] /\ \A c, d \in cache : c = d
  /\ prot \subseteq ProtType /\ \A p, q \in prot : p = q
  /\ job \in JobType

\* A request that protects: one sell, or two of the same quantity.
Protective(legs) ==
  /\ Len(legs) \in {1, 2}
  /\ \A i \in DOMAIN legs : legs[i].side = "SELL" /\ legs[i].qty = legs[1].qty

\* Its stop pays back an entry at this price, if it was requested for that.
Pays(request, entry, legs) ==
  request \in {"BREAK_EVEN", "PROFIT_LOCK"} =>
    legs[2].price * BreakEvenDen >= BreakEvenNum(entry)

\* It stands on the right sides of the market.
Placed(legs) ==
  \A i \in DOMAIN legs :
    /\ legs[i].type = "LIMIT_MAKER" => legs[i].price > price
    /\ legs[i].stop < price

ProtInv ==
  \A p \in prot :
    /\ Protective(p.legs) /\ Pays(p.request, p.entry, p.legs)
    /\ ~p.sold => p.legs[1].qty <= held

\* The sells that wait in an entry are covered by what its buy leaves after the fee.
EntryInv ==
  job.pc = "enter" =>
    /\ Len(job.legs) \in {2, 3} /\ job.legs[1].price \in Nat
    /\ \A i \in 2 .. Len(job.legs) :
         /\ job.legs[i].side = "SELL" /\ job.legs[i].qty = job.legs[2].qty
         /\ job.legs[i].qty * One <= job.legs[1].qty * (One - Fee)

RequestInv ==
  job.pc \in Replacing =>
    /\ Protective(job.legs) /\ Pays(job.request, job.entry, job.legs)
    /\ job.stop = StopFor(job.rules, job.request, job.entry)
    /\ job.pc # "cancel" => prot = {}

\* While nothing has changed since the filters were read, the request passes every check again
\* and the exchange accepts it.
Settled ==
  job.pc \in Replacing /\ ~job.disturbed /\ ~job.sold =>
    /\ job.rules = rules /\ \A c \in cache : c.rules = rules
    /\ Valid(rules, job.legs, prot) /\ Placed(job.legs)
    /\ job.legs[1].qty <= FloorStep(held, 1, rules.step)

PreflightIInv == TypesInv /\ ProtInv /\ EntryInv /\ RequestInv /\ Settled /\ NoSelfInflictedGap

-----------------------------------------------------------------------------
(***************************************************************************)
(* Rounding.                                                                *)
(***************************************************************************)

LEMMA Settings ==
  /\ One = 10000 /\ One \in Nat \ {0}
  /\ TradeSize \in Nat /\ TakeProfit \in Nat /\ FixedStop \in Nat /\ TrailingDelta \in Nat
  /\ FillBuffer \in Nat /\ Fee \in Nat /\ Slippage \in Nat /\ ProfitLock \in Nat
  /\ Fee + Slippage < One /\ FillBuffer < One
  /\ MaxOthers \in Nat
BY PreflightAssumption DEF One

LEMMA OneType == One \in Nat \ {0}
BY DEF One

LEMMA RuleFacts ==
  ASSUME NEW r \in RuleSets
  PROVE  /\ r.tick \in Nat \ {0} /\ r.step \in Nat \ {0}
         /\ r.trailMin \in Nat /\ r.trailMax \in Nat
BY PreflightAssumption

LEMMA MaxOfTwo ==
  ASSUME NEW a \in Int, NEW b \in Int
  PROVE  Max({a, b}) \in {a, b} /\ Max({a, b}) >= a /\ Max({a, b}) >= b
<1>1. \E x \in {a, b} : \A y \in {a, b} : x >= y
  OBVIOUS
<1>2. Max({a, b}) \in {a, b} /\ \A y \in {a, b} : Max({a, b}) >= y
  BY <1>1 DEF Max
<1> QED
  BY <1>2

LEMMA MinOfTwo ==
  ASSUME NEW a \in Int, NEW b \in Int
  PROVE  Min({a, b}) \in {a, b}
<1>1. \E x \in {a, b} : \A y \in {a, b} : x <= y
  OBVIOUS
<1> QED
  BY <1>1 DEF Min

LEMMA ScaleLess ==
  ASSUME NEW a \in Int, NEW b \in Int, NEW m \in Nat \ {0}, a * m < b * m
  PROVE  a < b
<1> SUFFICES ASSUME b <= a PROVE FALSE
  OBVIOUS
<1>1. b * m <= a * m
  OBVIOUS
<1> QED
  BY <1>1

LEMMA Quotient ==
  ASSUME NEW n \in Int, NEW m \in Nat \ {0}
  PROVE  n \div m \in Int /\ (n \div m) * m <= n /\ n < (n \div m) * m + m
OBVIOUS

\* A floor is the largest multiple of the step that is not above the value.
LEMMA FloorFacts ==
  ASSUME NEW n \in Int, NEW d \in Nat \ {0}, NEW s \in Nat \ {0}
  PROVE  /\ FloorStep(n, d, s) \in Int
         /\ \E w \in Int : FloorStep(n, d, s) = w * s
         /\ FloorStep(n, d, s) * d <= n /\ n < FloorStep(n, d, s) * d + d * s
<1> DEFINE m == d * s
           w == n \div m
<1>1. m \in Nat \ {0}
  OBVIOUS
<1>2. w \in Int /\ w * m <= n /\ n < w * m + m
  BY <1>1, Quotient
<1>3. FloorStep(n, d, s) = w * s
  BY DEF FloorStep
<1> HIDE DEF w
<1>4. w * m = (w * s) * d
  BY <1>2
<1> QED
  BY <1>1, <1>2, <1>3, <1>4

LEMMA FloorGreatest ==
  ASSUME NEW n \in Int, NEW d \in Nat \ {0}, NEW s \in Nat \ {0}, NEW w \in Int,
         (w * s) * d <= n
  PROVE  w * s <= FloorStep(n, d, s)
<1>1. PICK j \in Int : FloorStep(n, d, s) = j * s
  BY FloorFacts
<1>2. n < (j * s) * d + d * s
  BY <1>1, FloorFacts
<1>3. (w * s) * d < (j * s) * d + d * s
  BY <1>2
<1>4. w * (s * d) < (j + 1) * (s * d)
  BY <1>3
<1>5. s * d \in Nat \ {0}
  OBVIOUS
<1>6. w < j + 1
  BY <1>4, <1>5, ScaleLess
<1>7. w <= j /\ s \in Nat
  BY <1>6
<1>8. w * s <= j * s
  BY <1>7
<1> QED
  BY <1>1, <1>8

LEMMA FloorNat ==
  ASSUME NEW n \in Nat, NEW d \in Nat \ {0}, NEW s \in Nat \ {0}
  PROVE  FloorStep(n, d, s) \in Nat
<1>1. 0 * s <= FloorStep(n, d, s)
  BY FloorGreatest
<1> QED
  BY <1>1, FloorFacts

\* A ceiling is a multiple of the step that is not below the value.
LEMMA CeilFacts ==
  ASSUME NEW n \in Int, NEW d \in Nat \ {0}, NEW s \in Nat \ {0}
  PROVE  /\ CeilStep(n, d, s) \in Int
         /\ \E w \in Int : CeilStep(n, d, s) = w * s
         /\ CeilStep(n, d, s) * d >= n
<1> DEFINE c == n + d * s - 1
<1>1. d * s \in Nat /\ c \in Int
  OBVIOUS
<1>2. CeilStep(n, d, s) = FloorStep(c, d, s)
  BY DEF CeilStep, FloorStep
<1>3. c < FloorStep(c, d, s) * d + d * s /\ FloorStep(c, d, s) \in Int
  BY <1>1, FloorFacts
<1>4. FloorStep(c, d, s) * d >= n
  BY <1>1, <1>3
<1>5. \E w \in Int : FloorStep(c, d, s) = w * s
  BY <1>1, FloorFacts
<1> QED
  BY <1>2, <1>3, <1>4, <1>5

\* A floor does not fall when its value rises.
LEMMA FloorMonotone ==
  ASSUME NEW a \in Int, NEW b \in Int, NEW d \in Nat \ {0}, NEW s \in Nat \ {0}, a <= b
  PROVE  FloorStep(a, d, s) <= FloorStep(b, d, s)
<1>1. PICK w \in Int : FloorStep(a, d, s) = w * s
  BY FloorFacts
<1>2. (w * s) * d <= a
  BY <1>1, FloorFacts
<1>3. (w * s) * d <= b
  BY <1>2
<1> QED
  BY <1>1, <1>3, FloorGreatest

LEMMA BreakEvenTypes ==
  ASSUME NEW entry \in Nat
  PROVE  BreakEvenNum(entry) \in Nat /\ BreakEvenDen \in Nat \ {0}
BY Settings DEF BreakEvenNum, BreakEvenDen

LEMMA Floors ==
  ASSUME NEW r \in RuleSets, NEW entry \in Nat, NEW lock \in Nat
  PROVE  LET a == CeilStep(BreakEvenNum(entry), BreakEvenDen, r.tick)
             b == CeilStep(entry * (One + lock), One, r.tick)
         IN /\ a \in Int /\ b \in Int /\ a * BreakEvenDen >= BreakEvenNum(entry)
            /\ (\E w \in Int : a = w * r.tick) /\ (\E w \in Int : b = w * r.tick)
<1> DEFINE n == BreakEvenNum(entry)
           den == BreakEvenDen
           m == entry * (One + lock)
           t == r.tick
<1>1. n \in Int /\ den \in Nat \ {0} /\ t \in Nat \ {0}
  BY BreakEvenTypes, RuleFacts
<1>2. m \in Int
  BY Settings
<1> HIDE DEF n, den, m, t
<1>3. /\ CeilStep(n, den, t) \in Int /\ CeilStep(n, den, t) * den >= n
      /\ \E w \in Int : CeilStep(n, den, t) = w * t
  BY <1>1, CeilFacts
<1>4. CeilStep(m, One, t) \in Int /\ \E w \in Int : CeilStep(m, One, t) = w * t
  BY <1>1, <1>2, OneType, CeilFacts
<1> QED
  BY <1>3, <1>4 DEF n, den, m, t

LEMMA CoveringType ==
  ASSUME NEW r \in RuleSets, NEW entry \in Nat, NEW lock \in Nat
  PROVE  CoveringStop(r, entry, lock) \in Int
<1> DEFINE a == CeilStep(BreakEvenNum(entry), BreakEvenDen, r.tick)
           b == CeilStep(entry * (One + lock), One, r.tick)
<1>1. a \in Int /\ b \in Int
  BY Floors
<1> HIDE DEF a, b
<1>2. Max({a, b}) * One \in Int
  <2>1. Max({a, b}) \in Int
    BY <1>1, MaxOfTwo
  <2> QED
    BY <2>1, OneType
<1>3. One - FillBuffer \in Nat \ {0}
  BY Settings
<1>4. CeilStep(Max({a, b}) * One, One - FillBuffer, r.tick) \in Int
  BY <1>2, <1>3, RuleFacts, CeilFacts
<1> QED
  BY <1>4 DEF CoveringStop, a, b

\* The limit price of a covering stop, rounded down from the stop by the buffer, pays back the
\* entry with fees and slippage (fee_adjusted_break_even, convert).
LEMMA StopPaysBack ==
  ASSUME NEW r \in RuleSets, NEW entry \in Nat, NEW lock \in Nat
  PROVE  StopFloor(r, CoveringStop(r, entry, lock)) * BreakEvenDen >= BreakEvenNum(entry)
<1> DEFINE a == CeilStep(BreakEvenNum(entry), BreakEvenDen, r.tick)
           b == CeilStep(entry * (One + lock), One, r.tick)
           floor == Max({a, b})
           keep == One - FillBuffer
           stop == CoveringStop(r, entry, lock)
           limit == StopFloor(r, stop)
           t == r.tick
           den == BreakEvenDen
           num == BreakEvenNum(entry)
<1>1. /\ a \in Int /\ b \in Int /\ a * den >= num
      /\ (\E w \in Int : a = w * t) /\ (\E w \in Int : b = w * t)
  BY Floors
<1>2. t \in Nat \ {0} /\ keep \in Nat \ {0} /\ den \in Nat \ {0} /\ num \in Nat /\ One \in Nat \ {0}
  BY Settings, RuleFacts, BreakEvenTypes
<1>3. stop \in Int
  BY CoveringType
<1>4. stop = CeilStep(floor * One, keep, t) /\ limit = FloorStep(stop * keep, One, t)
  BY DEF CoveringStop, StopFloor
<1>5. floor \in {a, b} /\ floor >= a
  BY <1>1, MaxOfTwo
<1> HIDE DEF a, b, floor, keep, stop, limit, t, den, num
<1>6. PICK w \in Int : floor = w * t
  BY <1>1, <1>5
<1>7. floor \in Int /\ floor * One \in Int
  BY <1>1, <1>2, <1>5
<1>8. stop * keep >= floor * One
  BY <1>2, <1>4, <1>7, CeilFacts
<1>9. (w * t) * One <= stop * keep /\ stop * keep \in Int
  BY <1>2, <1>3, <1>6, <1>8
<1>10. floor <= limit /\ limit \in Int
  BY <1>2, <1>4, <1>6, <1>9, FloorGreatest, FloorFacts
<1>11. a <= limit
  BY <1>1, <1>5, <1>7, <1>10
<1>12. a * den <= limit * den
  BY <1>1, <1>2, <1>10, <1>11
<1> QED
  <2>1. num <= limit * den
    BY <1>1, <1>2, <1>10, <1>12
  <2> QED
    BY <2>1, <1>2, <1>10 DEF limit, stop, den, num

LEMMA StopType ==
  ASSUME NEW r \in RuleSets, NEW request \in Requests, NEW entry \in Nat
  PROVE  StopFor(r, request, entry) \in Int
<1>1. CoveringStop(r, entry, 0) \in Int /\ CoveringStop(r, entry, ProfitLock) \in Int
  BY CoveringType, Settings
<1>2. entry * (One - FixedStop) \in Int
  BY Settings
<1>3. FloorStep(entry * (One - FixedStop), One, r.tick) \in Int
  BY <1>2, OneType, RuleFacts, FloorFacts
<1> QED
  BY <1>1, <1>3 DEF StopFor

\* A replaced take-profit stays above the market, however coarse the tick: 20 basis points are
\* at least one tick (OrderRequestFactory.replacement).
LEMMA MakerAbove ==
  ASSUME NEW r \in RuleSets, NEW entry \in Nat, NEW current \in Prices
  PROVE  FloorStep(Max({entry * (One + TakeProfit), current * (One + 20)}), One, r.tick) > current
<1> DEFINE n == Max({entry * (One + TakeProfit), current * (One + 20)})
           x == FloorStep(n, One, r.tick)
           t == r.tick
<1>1. current \in Nat /\ t \in Nat \ {0} /\ 500 * t <= current
  BY PreflightAssumption
<1>2. entry * (One + TakeProfit) \in Int /\ current * (One + 20) \in Int
  BY <1>1, Settings
<1>3. n \in Int /\ n >= current * (One + 20)
  BY <1>2, MaxOfTwo
<1>4. x \in Int /\ n < x * One + One * t
  BY <1>1, <1>3, OneType, FloorFacts
<1> HIDE DEF n, x, t
<1>5. n >= current * 10020 /\ n < x * 10000 + 10000 * t
  BY <1>3, <1>4, Settings
<1>6. x > current
  BY <1>1, <1>3, <1>4, <1>5
<1> QED
  BY <1>6 DEF x, n, t

-----------------------------------------------------------------------------
(***************************************************************************)
(* Requests.                                                                *)
(***************************************************************************)

LEMMA PriceTypes ==
  ASSUME NEW p \in Prices
  PROVE  p \in Nat \ {0}
BY PreflightAssumption

LEMMA ScaledFloor ==
  ASSUME NEW r \in RuleSets, NEW a \in Int, NEW b \in Int
  PROVE  FloorStep(a * b, One, r.tick) \in Int
<1>1. a * b \in Int
  OBVIOUS
<1> QED
  BY <1>1, OneType, RuleFacts, FloorFacts

LEMMA DeltaType ==
  ASSUME NEW r \in RuleSets
  PROVE  Delta(r) \in Nat
<1>1. TrailingDelta \in Nat /\ r.trailMin \in Nat /\ r.trailMax \in Nat
  BY Settings, RuleFacts
<1> DEFINE m == Min({TrailingDelta, r.trailMax})
           a == r.trailMin
<1>2. m \in Nat /\ a \in Nat
  BY <1>1, MinOfTwo
<1> HIDE DEF m, a
<1>3. Max({a, m}) \in Nat
  BY <1>1, <1>2, MaxOfTwo
<1> QED
  BY <1>3 DEF Delta, m, a

\* The take-profit and the stop are at the prices asked for.
LegsAt(legs, mode, above, stop) ==
  \A i \in DOMAIN legs :
    /\ legs[i].type = "LIMIT_MAKER" => legs[i].price = above
    /\ legs[i].stop # 0 => mode = "FIXED_OCO" /\ legs[i].stop = stop

\* The legs that protect: their number, sides and quantity, and the prices that matter.
LEMMA ProtectionFacts ==
  ASSUME NEW r \in RuleSets, NEW mode \in Modes, NEW qty \in Nat, NEW above \in Int,
         NEW stop \in Int, NEW base \in Nat,
         NEW legs, legs = Protection(r, mode, qty, above, stop, base)
  PROVE  /\ legs \in Seq(LegType) /\ Protective(legs) /\ legs[1].qty = qty
         /\ mode = "FIXED_OCO" => legs[2].price = StopFloor(r, stop)
         /\ LegsAt(legs, mode, above, stop)
<1> DEFINE trail == Leg("SELL", "STOP", qty, TrailFloor(r, base), 0, Delta(r))
           tp == Leg("SELL", "LIMIT_MAKER", qty, above, 0, 0)
           low == Leg("SELL", "STOP", qty, StopFloor(r, stop), stop, 0)
<1>1. TrailFloor(r, base) \in Int /\ StopFloor(r, stop) \in Int /\ Delta(r) \in Nat
  <2>1. Delta(r) \in Nat
    BY DeltaType
  <2>2. One - Delta(r) - FillBuffer \in Int /\ One - FillBuffer \in Int
    BY <2>1, Settings
  <2> QED
    BY <2>1, <2>2, ScaledFloor DEF TrailFloor, StopFloor
<1>2. trail \in LegType /\ tp \in LegType /\ low \in LegType
  BY <1>1 DEF Leg, LegType
<1>3. /\ trail.side = "SELL" /\ trail.qty = qty /\ trail.type # "LIMIT_MAKER" /\ trail.stop = 0
      /\ tp.side = "SELL" /\ tp.qty = qty /\ tp.price = above /\ tp.stop = 0
      /\ low.side = "SELL" /\ low.qty = qty /\ low.type # "LIMIT_MAKER" /\ low.stop = stop
      /\ low.price = StopFloor(r, stop)
  BY DEF Leg
<1>4. /\ mode = "TRAILING_ONLY" => legs = <<trail>>
      /\ mode = "OCO_TRAILING" => legs = <<tp, trail>>
      /\ mode = "FIXED_OCO" => legs = <<tp, low>>
  BY DEF Protection
<1> HIDE DEF trail, tp, low
<1>5. CASE mode = "TRAILING_ONLY"
  <2>1. legs = <<trail>>
    BY <1>4, <1>5
  <2>2. legs \in Seq(LegType) /\ Len(legs) = 1 /\ DOMAIN legs = {1} /\ legs[1] = trail
    BY <1>2, <2>1
  <2> QED
    BY <1>3, <1>5, <2>2 DEF Protective, LegsAt
<1>6. CASE mode \in {"OCO_TRAILING", "FIXED_OCO"}
  <2> DEFINE second == IF mode = "FIXED_OCO" THEN low ELSE trail
  <2>1. legs = <<tp, second>>
    BY <1>4, <1>6
  <2>2. second \in LegType
    BY <1>2
  <2> HIDE DEF second
  <2>3. /\ legs \in Seq(LegType) /\ Len(legs) = 2 /\ DOMAIN legs = {1, 2}
        /\ legs[1] = tp /\ legs[2] = second
    BY <1>2, <2>1, <2>2
  <2>4. /\ second.side = "SELL" /\ second.qty = qty /\ second.type # "LIMIT_MAKER"
        /\ mode = "FIXED_OCO" => second.price = StopFloor(r, stop) /\ second.stop = stop
        /\ mode # "FIXED_OCO" => second.stop = 0
    BY <1>3 DEF second
  <2> QED
    BY <1>3, <2>3, <2>4 DEF Protective, LegsAt
<1> QED
  BY <1>5, <1>6 DEF Modes

\* Every replacement is a protection whose stop pays back where it was asked to; at the market
\* it was built for, with its stop below, it stands on the right sides.
LEMMA ReplacementFacts ==
  ASSUME NEW r \in RuleSets, NEW request \in Requests, NEW qty \in Nat, NEW entry \in Nat,
         NEW current \in Prices, NEW stop, stop = StopFor(r, request, entry),
         NEW legs, legs = ReplacementLegs(r, ModeFor(request), qty, entry, stop, current)
  PROVE  /\ legs \in Seq(LegType) /\ Protective(legs) /\ legs[1].qty = qty
         /\ Pays(request, entry, legs)
         /\ (ModeFor(request) = "FIXED_OCO" => stop < current) /\ current = price => Placed(legs)
<1> DEFINE mode == ModeFor(request)
           above == FloorStep(Max({entry * (One + TakeProfit), current * (One + 20)}), One, r.tick)
<1>1. mode \in Modes /\ stop \in Int /\ current \in Nat \ {0}
  BY StopType, PriceTypes DEF ModeFor, Modes
<1>2. above \in Int /\ above > current
  <2>1. entry * (One + TakeProfit) \in Int /\ current * (One + 20) \in Int
    BY <1>1, Settings
  <2>2. Max({entry * (One + TakeProfit), current * (One + 20)}) \in Int
    BY <2>1, MaxOfTwo
  <2>3. above \in Int
    BY <2>2, OneType, RuleFacts, FloorFacts
  <2> QED
    BY <2>3, MakerAbove
<1>3. legs = Protection(r, mode, qty, above, stop, current)
  BY DEF ReplacementLegs
<1> HIDE DEF mode, above
<1>4. /\ legs \in Seq(LegType) /\ Protective(legs) /\ legs[1].qty = qty
      /\ mode = "FIXED_OCO" => legs[2].price = StopFloor(r, stop)
      /\ LegsAt(legs, mode, above, stop)
  <2>1. mode \in Modes /\ stop \in Int /\ current \in Nat /\ above \in Int
    BY <1>1, <1>2
  <2> QED
    BY <2>1, <1>3, ProtectionFacts
<1>5. Pays(request, entry, legs)
  <2>1. CASE request = "BREAK_EVEN"
    <3>1. mode = "FIXED_OCO" /\ stop = CoveringStop(r, entry, 0)
      BY <2>1 DEF StopFor, ModeFor, Modes, mode
    <3>2. StopFloor(r, stop) * BreakEvenDen >= BreakEvenNum(entry)
      BY <3>1, StopPaysBack
    <3> QED
      BY <1>4, <3>1, <3>2 DEF Pays
  <2>2. CASE request = "PROFIT_LOCK"
    <3>1. mode = "FIXED_OCO" /\ stop = CoveringStop(r, entry, ProfitLock)
      BY <2>2 DEF StopFor, ModeFor, Modes, mode
    <3>2. StopFloor(r, stop) * BreakEvenDen >= BreakEvenNum(entry)
      BY <3>1, StopPaysBack, Settings
    <3> QED
      BY <1>4, <3>1, <3>2 DEF Pays
  <2> QED
    BY <2>1, <2>2 DEF Pays
<1>6. (mode = "FIXED_OCO" => stop < current) /\ current = price => Placed(legs)
  <2> SUFFICES ASSUME mode = "FIXED_OCO" => stop < current, current = price,
                      NEW i \in DOMAIN legs
               PROVE  /\ legs[i].type = "LIMIT_MAKER" => legs[i].price > price
                      /\ legs[i].stop < price
    BY DEF Placed
  <2>1. legs[i].type = "LIMIT_MAKER" => legs[i].price = above
    BY <1>4 DEF LegsAt
  <2>2. legs[i].stop # 0 => mode = "FIXED_OCO" /\ legs[i].stop = stop
    BY <1>4 DEF LegsAt
  <2> QED
    BY <1>1, <1>2, <2>1, <2>2
<1> QED
  BY <1>4, <1>5, <1>6 DEF mode

\* The list of an entry: a buy, and sells that its buy covers after the fee.
LEMMA EntryFacts ==
  ASSUME NEW r \in RuleSets, NEW mode \in Modes, NEW qty \in Nat, NEW entry \in Nat,
         NEW legs, legs = EntryLegs(r, mode, qty, entry)
  PROVE  /\ legs \in Seq(LegType) /\ Len(legs) \in {2, 3} /\ legs[1].price = entry
         /\ \A i \in 2 .. Len(legs) :
              /\ legs[i].side = "SELL" /\ legs[i].qty = legs[2].qty
              /\ legs[i].qty * One <= legs[1].qty * (One - Fee)
<1> DEFINE buy == Leg("BUY", "LIMIT", qty, entry, 0, 0)
           pending == PendingQty(r, qty)
           above == FloorStep(entry * (One + TakeProfit), One, r.tick)
           stop == FloorStep(entry * (One - FixedStop), One, r.tick)
           sells == Protection(r, mode, pending, above, stop, entry)
<1>1. above \in Int /\ stop \in Int
  <2>1. One + TakeProfit \in Int /\ One - FixedStop \in Int
    BY Settings
  <2> QED
    BY <2>1, ScaledFloor
<1>2. pending \in Nat /\ pending * One <= qty * (One - Fee)
  <2>1. qty * (One - Fee) \in Nat
    <3>1. One - Fee \in Nat
      BY Settings
    <3> QED
      BY <3>1
  <2> DEFINE n == qty * (One - Fee)
             s == r.step
  <2> HIDE DEF n, s
  <2>2. s \in Nat \ {0} /\ n \in Nat /\ n \in Int
    BY <2>1, RuleFacts DEF n, s
  <2>3. FloorStep(n, One, s) \in Nat
    BY <2>2, OneType, FloorNat
  <2>4. FloorStep(n, One, s) * One <= n
    BY <2>2, OneType, FloorFacts
  <2> QED
    BY <2>3, <2>4 DEF PendingQty, n, s
<1>3. buy \in LegType /\ buy.qty = qty /\ buy.price = entry
  BY DEF Leg, LegType
<1>4. legs = <<buy>> \o sells
  BY DEF EntryLegs
<1> HIDE DEF above, stop, pending, buy
<1>5. sells \in Seq(LegType) /\ Protective(sells) /\ sells[1].qty = pending
  BY <1>1, <1>2, ProtectionFacts
<1> HIDE DEF sells
<1>6. legs \in Seq(LegType) /\ Len(legs) = 1 + Len(sells) /\ legs[1] = buy
  BY <1>3, <1>4, <1>5
<1>7. ASSUME NEW i \in 2 .. Len(legs) PROVE legs[i] = sells[i - 1] /\ i - 1 \in DOMAIN sells
  BY <1>4, <1>5, <1>6, <1>7
<1>8. Len(legs) \in {2, 3}
  BY <1>5, <1>6 DEF Protective
<1>9. 2 \in 2 .. Len(legs)
  BY <1>8
<1>10. ASSUME NEW i \in 2 .. Len(legs) PROVE legs[i].side = "SELL" /\ legs[i].qty = pending
  BY <1>5, <1>7 DEF Protective
<1> QED
  BY <1>2, <1>3, <1>6, <1>8, <1>9, <1>10

-----------------------------------------------------------------------------
(***************************************************************************)
(* The validator and the operation in progress.                             *)
(***************************************************************************)

\* A request that passed passes again while the exchange does not change.
LEMMA ValidStays ==
  ASSUME NEW legs, Valid(rules, legs, prot), job'.legs = legs,
         UNCHANGED <<rules, price, others, held, prot>>
  PROVE  Valid(rules, job.legs, prot)'
BY DEF Valid, IsBuy, LegFits, PriceFits, RangeFits, ReferencePrice, OrdersFit, ListsFit, OpenLists,
       OpenLegs, Algos, PositionFits

\* No protective request buys.
LEMMA NoBuy ==
  ASSUME NEW legs, Protective(legs)
  PROVE  ~IsBuy(legs)
BY DEF Protective, IsBuy

\* The limits on open orders and lists allowed for the cancel of the old protection, unless its
\* single order is taken for a list.
LEMMA ValidAfterCancel ==
  ASSUME NEW legs, Protective(legs), Valid(rules, legs, prot), job'.legs = legs,
         NEW p, prot = {p}, p.list \in {NoList, 1}, others \in Nat,
         UNCHANGED <<rules, price, others, held>>, prot' = {}
  PROVE  Valid(rules, job.legs, prot)'
<1>1. ~IsBuy(legs) /\ ~IsBuy(job.legs)'
  <2>1. ~IsBuy(legs)
    BY NoBuy
  <2> QED
    BY <2>1 DEF IsBuy
<1>2. (\A i \in DOMAIN job.legs : LegFits(rules, job.legs[i]))'
  BY DEF Valid, LegFits, PriceFits, RangeFits, ReferencePrice
<1>3. OrdersFit(rules, job.legs, prot)'
  <2>1. prot \ prot = prot' \ prot'
    OBVIOUS
  <2> QED
    BY <2>1 DEF Valid, OrdersFit, OpenLegs, Algos
<1>4. ListsFit(rules, job.legs, prot)'
  <2> DEFINE lists(rows) == {q \in rows : q.list = 1}
             named(rows) == {q \in rows : q.list # NoList}
  <2>1. Cardinality({}) = 0 /\ Cardinality({p}) = 1
    BY FS_EmptySet, FS_Singleton
  <2>2. \/ lists(prot) = {p} /\ named(prot) = {p}
        \/ lists(prot) = {} /\ named(prot) = {}
    BY DEF NoList
  <2>3. lists(prot') = {} /\ named(prot') = {}
    OBVIOUS
  <2>4. others + Cardinality(lists(prot)) - Cardinality(named(prot)) = others
    <3> HIDE DEF lists, named
    <3>1. /\ Cardinality(lists(prot)) = Cardinality(named(prot))
          /\ Cardinality(lists(prot)) \in {0, 1}
      BY <2>1, <2>2
    <3> DEFINE a == Cardinality(lists(prot))
               b == Cardinality(named(prot))
    <3>2. a = b /\ a \in Int
      BY <3>1
    <3> HIDE DEF a, b
    <3>3. others + a - b = others
      BY <3>2
    <3> QED
      BY <3>3 DEF a, b
  <2>5. others' + Cardinality(lists(prot')) - Cardinality(named(prot')) = others
    <3>1. lists(prot') = {} /\ named(prot') = {}
      BY <2>3
    <3> HIDE DEF lists, named
    <3> QED
      BY <3>1, <2>1
  <2>6. Len(legs) > 1 =>
          Max({0, others + Cardinality(lists(prot)) - Cardinality(named(prot))}) + 1
            <= rules.maxLists
    BY DEF Valid, ListsFit, OpenLists
  <2> HIDE DEF lists, named
  <2>7. Len(job'.legs) > 1 =>
          Max({0, others' + Cardinality(lists(prot')) - Cardinality(named(prot'))}) + 1
            <= rules'.maxLists
    BY <2>4, <2>5, <2>6
  <2> QED
    BY <2>7 DEF ListsFit, OpenLists, lists, named
<1>5. PositionFits(rules, job.legs)'
  BY <1>1 DEF PositionFits
<1>6. (rules.status = "TRADING")'
  BY DEF Valid
<1>7. (Cardinality({i \in DOMAIN job.legs : job.legs[i].side = "SELL"}) > 1 => rules.oco)'
  BY DEF Valid
<1> QED
  BY <1>1, <1>2, <1>3, <1>4, <1>5, <1>6, <1>7 DEF Valid

\* The operation in progress has the fields of its kind.
LEMMA JobCases ==
  ASSUME TypesInv
  PROVE  \/ job = Idle
         \/ job = [pc |-> "blocked"]
         \/ job \in [pc : {"naked"}, disturbed : BOOLEAN, sold : BOOLEAN] /\ job.pc = "naked"
         \/ /\ job \in [pc : {"enter"}, legs : Seq(LegType), disturbed : BOOLEAN]
            /\ job.pc = "enter"
         \/ /\ job \in [pc : Replacing, request : Requests, entry : Nat, stop : Int,
                        rules : RuleSets, legs : Seq(LegType), disturbed : BOOLEAN,
                        sold : BOOLEAN]
            /\ job.pc \in Replacing
BY DEF TypesInv, JobType

LEMMA ReplacingJob ==
  ASSUME TypesInv, job.pc \in Replacing
  PROVE  /\ job \in [pc : Replacing, request : Requests, entry : Nat, stop : Int,
                     rules : RuleSets, legs : Seq(LegType), disturbed : BOOLEAN, sold : BOOLEAN]
         /\ job.request \in Requests /\ job.entry \in Nat /\ job.rules \in RuleSets
         /\ job.legs \in Seq(LegType) /\ job.disturbed \in BOOLEAN /\ job.sold \in BOOLEAN
<1>1. job \in [pc : Replacing, request : Requests, entry : Nat, stop : Int,
               rules : RuleSets, legs : Seq(LegType), disturbed : BOOLEAN, sold : BOOLEAN]
  BY JobCases DEF Idle, Replacing
<1> QED
  BY <1>1

\* The first leg of a protective request.
LEMMA FirstLeg ==
  ASSUME NEW legs \in Seq(LegType), Len(legs) \in {1, 2, 3}
  PROVE  1 \in DOMAIN legs /\ legs[1] \in LegType /\ legs[1].qty \in Nat /\ legs[1].price \in Int
<1>1. 1 \in DOMAIN legs /\ legs[1] \in LegType
  OBVIOUS
<1> QED
  BY <1>1 DEF LegType

\* The filters that a validation uses are those it leaves in the cache.
LEMMA SnapshotFacts ==
  ASSUME TypesInv
  PROVE  /\ Snapshot \subseteq [at : Nat, rules : RuleSets]
         /\ \A c, d \in Snapshot : c = d
         /\ \A c \in Snapshot : c.rules = SnapshotRules
         /\ SnapshotRules \in RuleSets
         /\ (\A c \in cache : c.rules = rules) => SnapshotRules = rules
<1>1. (Snapshot = FromCache /\ FromCache # {}) \/ Snapshot = {[at |-> clock, rules |-> rules]}
  BY DEF Snapshot
<1>2. FromCache \subseteq cache
  BY DEF FromCache
<1>3. /\ Snapshot \subseteq [at : Nat, rules : RuleSets] /\ Snapshot # {}
      /\ \A c, d \in Snapshot : c = d
      /\ (\A c \in cache : c.rules = rules) => \A c \in Snapshot : c.rules = rules
  <2>1. CASE Snapshot = FromCache /\ FromCache # {}
    BY <1>2, <2>1 DEF TypesInv
  <2>2. CASE Snapshot = {[at |-> clock, rules |-> rules]}
    BY <2>2 DEF TypesInv
  <2> QED
    BY <1>1, <2>1, <2>2
<1> DEFINE s == CHOOSE c \in Snapshot : TRUE
<1>4. s \in Snapshot
  BY <1>3
<1>5. SnapshotRules = s.rules
  BY DEF SnapshotRules
<1> HIDE DEF s
<1> QED
  BY <1>3, <1>4, <1>5

-----------------------------------------------------------------------------
(***************************************************************************)
(* The steps of the exchange.                                               *)
(***************************************************************************)

\* Whatever the exchange changes is remembered by the operation in progress.
LEMMA MovesStep ==
  ASSUME PreflightIInv, Moves, rules' \in RuleSets, price' \in Prices, others' \in Nat, held' \in Nat,
         prot' \subseteq ProtType, \A p, q \in prot' : p = q, ProtInv',
         prot = {} => prot' = {}
  PROVE  PreflightIInv'
<1> USE DEF PreflightIInv
<1>1. job' = Disturbed /\ job.pc \notin {"naked", "blocked"} /\ UNCHANGED <<clock, cache>>
  BY DEF Moves
<1>2. CASE job = Idle
  <2>1. job' = Idle
    BY <1>1, <1>2 DEF Disturbed, Idle
  <2> QED
    BY <1>1, <2>1 DEF TypesInv, JobType, EntryInv, RequestInv, Settled, NoSelfInflictedGap, Idle,
                      Replacing
<1>3. CASE job \in [pc : {"enter"}, legs : Seq(LegType), disturbed : BOOLEAN] /\ job.pc = "enter"
  <2>1. job' = [job EXCEPT !.disturbed = TRUE]
    BY <1>1, <1>3 DEF Disturbed
  <2>2. /\ job' \in [pc : {"enter"}, legs : Seq(LegType), disturbed : BOOLEAN]
        /\ job'.pc = "enter" /\ job'.legs = job.legs
    BY <1>3, <2>1
  <2>3. TypesInv'
    BY <1>1, <2>2 DEF TypesInv, JobType
  <2> QED
    BY <1>3, <2>2, <2>3 DEF EntryInv, RequestInv, Settled, NoSelfInflictedGap, Replacing
<1>4. CASE /\ job \in [pc : Replacing, request : Requests, entry : Nat, stop : Int,
                       rules : RuleSets, legs : Seq(LegType), disturbed : BOOLEAN,
                       sold : BOOLEAN]
           /\ job.pc \in Replacing
  <2>1. job' = [job EXCEPT !.disturbed = TRUE]
    BY <1>1, <1>4 DEF Disturbed, Replacing
  <2>2. /\ job' \in [pc : Replacing, request : Requests, entry : Nat, stop : Int,
                     rules : RuleSets, legs : Seq(LegType), disturbed : BOOLEAN, sold : BOOLEAN]
        /\ job'.pc = job.pc /\ job'.legs = job.legs /\ job'.disturbed = TRUE
        /\ job'.request = job.request /\ job'.entry = job.entry /\ job'.stop = job.stop
        /\ job'.rules = job.rules
    BY <1>4, <2>1
  <2>3. TypesInv'
    BY <1>1, <2>2 DEF TypesInv, JobType
  <2>4. RequestInv'
    BY <1>4, <2>2 DEF RequestInv, Protective, Pays
  <2> QED
    BY <1>4, <2>2, <2>3, <2>4 DEF EntryInv, Settled, NoSelfInflictedGap, Replacing
<1> QED
  BY <1>1, <1>2, <1>3, <1>4, JobCases

LEMMA ProtStays ==
  ASSUME ProtInv, UNCHANGED <<held, prot>>
  PROVE  ProtInv'
BY DEF ProtInv

LEMMA NewRulesStep == ASSUME PreflightIInv, NewRules PROVE PreflightIInv'
<1>1. Moves /\ rules' \in RuleSets /\ UNCHANGED <<price, others, held, prot>>
  BY DEF NewRules
<1> QED
  BY <1>1, MovesStep, ProtStays DEF PreflightIInv, TypesInv

LEMMA NewPriceStep == ASSUME PreflightIInv, NewPrice PROVE PreflightIInv'
<1>1. Moves /\ price' \in Prices /\ UNCHANGED <<rules, others, held, prot>>
  BY DEF NewPrice
<1> QED
  BY <1>1, MovesStep, ProtStays DEF PreflightIInv, TypesInv

LEMMA OtherListsStep == ASSUME PreflightIInv, OtherLists PROVE PreflightIInv'
<1>1. Moves /\ others' \in 0 .. MaxOthers /\ UNCHANGED <<rules, price, held, prot>>
  BY DEF OtherLists
<1>2. others' \in Nat
  BY <1>1, Settings
<1> QED
  BY <1>1, <1>2, MovesStep, ProtStays DEF PreflightIInv, TypesInv

LEMMA PartialTakeProfitStep == ASSUME PreflightIInv, PartialTakeProfit PROVE PreflightIInv'
<1>1. PICK p \in prot : /\ Len(p.legs) > 1 /\ ~p.sold
                        /\ prot' = {[p EXCEPT !.sold = TRUE]}
                        /\ held' = held - p.legs[1].qty \div 2
  BY DEF PartialTakeProfit
<1>2. p \in ProtType /\ Protective(p.legs) /\ Pays(p.request, p.entry, p.legs)
      /\ p.legs[1].qty <= held /\ held \in Nat
  BY <1>1 DEF PreflightIInv, TypesInv, ProtInv
<1>3. p.legs[1].qty \in Nat
  <2>1. p.legs \in Seq(LegType) /\ Len(p.legs) \in {1, 2}
    BY <1>2 DEF ProtType, Protective
  <2> QED
    BY <2>1, FirstLeg
<1>4. held' \in Nat
  BY <1>1, <1>2, <1>3
<1> DEFINE q == [p EXCEPT !.sold = TRUE]
<1>5. /\ q \in ProtType /\ q.legs = p.legs /\ q.request = p.request /\ q.entry = p.entry
      /\ q.sold = TRUE
  BY <1>2 DEF ProtType
<1> HIDE DEF q
<1>6. prot' = {q}
  BY <1>1 DEF q
<1>7. ProtInv'
  BY <1>2, <1>5, <1>6 DEF ProtInv, Protective, Pays
<1>8. Moves /\ UNCHANGED <<rules, price, others>>
  BY DEF PartialTakeProfit, exchange
<1>9. prot' \subseteq ProtType /\ (\A a, b \in prot' : a = b) /\ (prot = {} => prot' = {})
  BY <1>1, <1>5, <1>6
<1> QED
  BY <1>4, <1>7, <1>8, <1>9, MovesStep DEF PreflightIInv, TypesInv

LEMMA TickStep == ASSUME PreflightIInv, Tick PROVE PreflightIInv'
<1>1. /\ UNCHANGED <<rules, price, others, cache, held, prot, job>>
      /\ clock' = clock + 1
  BY DEF Tick, exchange
<1>2. TypesInv'
  BY <1>1 DEF PreflightIInv, TypesInv
<1>3. Valid(rules, job.legs, prot) => Valid(rules, job.legs, prot)'
  BY <1>1, ValidStays
<1>4. Settled'
  BY <1>1, <1>3 DEF PreflightIInv, Settled, Placed
<1> QED
  BY <1>1, <1>2, <1>4, ProtStays
     DEF PreflightIInv, EntryInv, RequestInv, NoSelfInflictedGap

-----------------------------------------------------------------------------
(***************************************************************************)
(* The steps of an entry.                                                   *)
(***************************************************************************)

\* Back at rest, or left to be reconciled, an operation promises nothing more.
LEMMA EndStep ==
  ASSUME TypesInv', ProtInv', job'.pc \notin Replacing \cup {"enter"},
         job'.pc = "naked" => job'.disturbed \/ job'.sold
  PROVE  PreflightIInv'
BY DEF PreflightIInv, EntryInv, RequestInv, Settled, NoSelfInflictedGap

LEMMA CacheStays ==
  ASSUME TypesInv, cache' = Snapshot
  PROVE  cache' \subseteq [at : Nat, rules : RuleSets] /\ \A c, d \in cache' : c = d
BY SnapshotFacts

LEMMA EnterStep == ASSUME PreflightIInv, NEW mode \in Modes, Enter(mode) PROVE PreflightIInv'
<1> DEFINE entry == FloorStep(price, 1, rules.tick)
           qty == EntryQty(rules, entry)
           legs == EntryLegs(rules, mode, qty, entry)
<1>1. TypesInv /\ ProtInv
  BY DEF PreflightIInv
<1>2. /\ cache' = Snapshot /\ UNCHANGED <<clock, rules, price, others, held, prot>>
      /\ \/ job' = [pc |-> "enter", legs |-> legs, disturbed |-> SnapshotRules # rules]
         \/ job' = Idle
  BY DEF Enter, exchange
<1>3. ProtInv'
  BY <1>1, <1>2, ProtStays
<1>4. job' \in JobType => TypesInv'
  BY <1>1, <1>2, CacheStays DEF TypesInv
<1>5. CASE job' = Idle
  BY <1>3, <1>4, <1>5, EndStep DEF JobType, Idle, Replacing
<1>6. CASE job' = [pc |-> "enter", legs |-> legs, disturbed |-> SnapshotRules # rules]
  <2>1. rules \in RuleSets /\ price \in Nat \ {0} /\ 500 * rules.tick <= price
        /\ rules.tick \in Nat \ {0} /\ rules.step \in Nat \ {0}
    BY <1>1, PreflightAssumption DEF TypesInv
  <2>2. entry \in Nat \ {0}
    <3> DEFINE t == rules.tick
    <3>1. t \in Nat \ {0} /\ 500 * t <= price /\ price \in Int /\ price \in Nat
      BY <2>1
    <3> HIDE DEF t
    <3>2. FloorStep(price, 1, t) \in Nat
      BY <3>1, FloorNat
    <3>3. price < FloorStep(price, 1, t) * 1 + 1 * t
      BY <3>1, FloorFacts
    <3>4. FloorStep(price, 1, t) # 0
      BY <3>1, <3>2, <3>3
    <3> QED
      BY <3>2, <3>4 DEF t
  <2> HIDE DEF entry
  <2>3. qty \in Nat
    BY <2>1, <2>2, Settings, FloorNat DEF EntryQty
  <2> HIDE DEF qty
  <2>4. /\ legs \in Seq(LegType) /\ Len(legs) \in {2, 3} /\ legs[1].price \in Nat
        /\ \A i \in 2 .. Len(legs) :
             /\ legs[i].side = "SELL" /\ legs[i].qty = legs[2].qty
             /\ legs[i].qty * One <= legs[1].qty * (One - Fee)
    BY <2>1, <2>2, <2>3, EntryFacts
  <2> HIDE DEF legs
  <2>5. job' \in [pc : {"enter"}, legs : Seq(LegType), disturbed : BOOLEAN]
        /\ job'.pc = "enter" /\ job'.legs = legs
    BY <1>6, <2>4
  <2>6. TypesInv'
    BY <1>4, <2>5 DEF JobType
  <2>7. EntryInv'
    BY <2>4, <2>5 DEF EntryInv
  <2> QED
    BY <1>3, <2>5, <2>6, <2>7
       DEF PreflightIInv, RequestInv, Settled, NoSelfInflictedGap, Replacing
<1> QED
  BY <1>2, <1>5, <1>6

LEMMA SubmitEntryStep == ASSUME PreflightIInv, SubmitEntry PROVE PreflightIInv'
<1>1. TypesInv /\ ProtInv /\ EntryInv
  BY DEF PreflightIInv
<1>2. job.pc = "enter" /\ job' = Idle /\ UNCHANGED <<clock, rules, price, others, cache>>
  BY DEF SubmitEntry, exchange
<1>3. job.legs \in Seq(LegType) /\ Len(job.legs) \in {2, 3}
  <2>1. job \in [pc : {"enter"}, legs : Seq(LegType), disturbed : BOOLEAN]
    BY <1>1, <1>2, JobCases DEF Idle, Replacing
  <2> QED
    BY <1>1, <1>2, <2>1 DEF EntryInv
<1>4. CASE UNCHANGED <<held, prot>>
  <2>1. TypesInv'
    BY <1>1, <1>2, <1>4 DEF TypesInv, JobType
  <2>2. ProtInv'
    BY <1>1, <1>4, ProtStays
  <2> QED
    BY <1>2, <2>1, <2>2, EndStep DEF Idle, Replacing
<1>5. CASE ~UNCHANGED <<held, prot>>
  <2> DEFINE p == [request |-> "ENTRY", entry |-> job.legs[1].price, legs |-> Tail(job.legs),
                   list |-> 1, sold |-> FALSE]
  <2>1. PICK fee \in {0, Fee} :
          held' = FloorStep(job.legs[1].qty * (One - fee), One, 1)
    BY <1>5 DEF SubmitEntry
  <2>2. prot' = {p} /\ Accepted(job.legs)
    BY <1>5 DEF SubmitEntry
  <2>3. job.legs[1].qty \in Nat /\ job.legs[1] \in LegType
    BY <1>3, FirstLeg
  <2> DEFINE bought == job.legs[1].qty
             pending == job.legs[2].qty
             n == bought * (One - fee)
  <2>4. n \in Nat /\ bought * (One - Fee) <= n
    <3>1. One - fee \in Nat /\ One - Fee \in Nat /\ One - Fee <= One - fee
      BY Settings
    <3> HIDE DEF bought
    <3>2. bought \in Nat
      BY <2>3 DEF bought
    <3>3. bought * (One - Fee) <= bought * (One - fee) /\ bought * (One - fee) \in Nat
      BY <3>1, <3>2
    <3> QED
      BY <3>3
  <2>5. /\ Tail(job.legs) \in Seq(LegType) /\ Len(Tail(job.legs)) \in {1, 2}
        /\ \A i \in DOMAIN Tail(job.legs) : Tail(job.legs)[i] = job.legs[i + 1]
                                            /\ i + 1 \in 2 .. Len(job.legs)
        /\ Tail(job.legs)[1] = job.legs[2] /\ 2 \in 2 .. Len(job.legs)
    BY <1>3
  <2>6. /\ pending * One <= bought * (One - Fee)
        /\ \A i \in 2 .. Len(job.legs) : job.legs[i].side = "SELL" /\ job.legs[i].qty = pending
    BY <1>1, <1>2, <2>5 DEF EntryInv
  <2>7. pending \in Nat
    <3>1. job.legs[2] \in LegType
      BY <1>3, <2>5
    <3> QED
      BY <3>1 DEF LegType
  <2> HIDE DEF n, bought, pending
  <2>8. held' = FloorStep(n, One, 1)
    BY <2>1 DEF n, bought
  <2>9. held' \in Nat
    BY <2>4, <2>8, OneType, FloorNat
  <2>10. pending <= held'
    <3>1. bought \in Nat /\ One - Fee \in Nat /\ One \in Nat \ {0}
      BY <2>3, Settings DEF bought
    <3>2. bought * (One - Fee) \in Int
      BY <3>1
    <3>3. (pending * 1) * One <= n
      BY <2>4, <2>6, <2>7, <3>1, <3>2
    <3>4. n \in Int /\ pending \in Int /\ 1 \in Nat \ {0}
      BY <2>4, <2>7
    <3>5. pending * 1 <= FloorStep(n, One, 1)
      BY <3>1, <3>3, <3>4, FloorGreatest, Zenon
    <3> QED
      BY <2>7, <2>8, <3>5
  <2>11. Protective(Tail(job.legs)) /\ Tail(job.legs)[1].qty = pending
    BY <2>5, <2>6 DEF Protective, pending
  <2>12. /\ p \in ProtType /\ p.legs = Tail(job.legs) /\ p.request = "ENTRY" /\ p.sold = FALSE
    <3>1. job.legs[1].price \in Nat
      BY <1>1, <1>2 DEF EntryInv
    <3> QED
      BY <2>5, <3>1 DEF ProtType
  <2> HIDE DEF p
  <2>13. ProtInv'
    BY <2>2, <2>10, <2>11, <2>12 DEF ProtInv, Pays
  <2>14. TypesInv'
    BY <1>1, <1>2, <2>2, <2>9, <2>12 DEF TypesInv, JobType
  <2> QED
    BY <1>2, <2>13, <2>14, EndStep DEF Idle, Replacing
<1> QED
  BY <1>4, <1>5

-----------------------------------------------------------------------------
(***************************************************************************)
(* The steps of a replacement.                                              *)
(***************************************************************************)

LEMMA ConvertStep == ASSUME PreflightIInv, NEW request \in Requests, Convert(request) PROVE PreflightIInv'
<1>1. TypesInv /\ ProtInv
  BY DEF PreflightIInv
<1>2. PICK p \in prot :
        LET mode == ModeFor(request)
            qty == FloorStep(p.legs[1].qty, 1, rules.step)
            stop == StopFor(rules, request, p.entry)
            legs == ReplacementLegs(rules, mode, qty, p.entry, stop, price)
        IN /\ cache' = Snapshot
           /\ job' = IF /\ Buildable(rules, request, qty, p.entry, stop, price)
                        /\ Capable(rules, mode, FALSE)
                        /\ Valid(SnapshotRules, legs, {p})
                     THEN [pc |-> "cancel", request |-> request, entry |-> p.entry, stop |-> stop,
                           rules |-> rules, legs |-> legs, disturbed |-> SnapshotRules # rules,
                           sold |-> p.sold]
                     ELSE Idle
           /\ UNCHANGED <<clock, exchange, held, prot, changes>>
  BY DEF Convert
<1> DEFINE qty == FloorStep(p.legs[1].qty, 1, rules.step)
           stop == StopFor(rules, request, p.entry)
           legs == ReplacementLegs(rules, ModeFor(request), qty, p.entry, stop, price)
           asked == [pc |-> "cancel", request |-> request, entry |-> p.entry, stop |-> stop,
                     rules |-> rules, legs |-> legs, disturbed |-> SnapshotRules # rules,
                     sold |-> p.sold]
<1>3. /\ cache' = Snapshot /\ UNCHANGED <<clock, rules, price, others, held, prot>>
      /\ \/ /\ job' = asked /\ Buildable(rules, request, qty, p.entry, stop, price)
            /\ Valid(SnapshotRules, legs, {p})
         \/ job' = Idle
  BY <1>2 DEF exchange
<1>4. ProtInv'
  BY <1>1, <1>3, ProtStays
<1>5. job' \in JobType => TypesInv'
  BY <1>1, <1>3, CacheStays DEF TypesInv
<1>6. CASE job' = Idle
  BY <1>4, <1>5, <1>6, EndStep DEF JobType, Idle, Replacing
<1>7. CASE job' = asked /\ Buildable(rules, request, qty, p.entry, stop, price)
           /\ Valid(SnapshotRules, legs, {p})
  <2>1. /\ p \in ProtType /\ p.entry \in Nat /\ p.legs \in Seq(LegType) /\ p.sold \in BOOLEAN
        /\ Protective(p.legs) /\ prot = {p} /\ (~p.sold => p.legs[1].qty <= held)
        /\ rules \in RuleSets /\ price \in Prices /\ held \in Nat
        /\ rules.step \in Nat \ {0}
    BY <1>1, RuleFacts DEF TypesInv, ProtType, ProtInv
  <2>2. p.legs[1].qty \in Nat
    BY <2>1, FirstLeg DEF Protective
  <2> DEFINE old == p.legs[1].qty
             step == rules.step
  <2>3. qty \in Nat /\ (~p.sold => qty <= FloorStep(held, 1, step))
    <3>1. old \in Nat /\ old \in Int /\ held \in Int /\ step \in Nat \ {0} /\ 1 \in Nat \ {0}
      BY <2>1, <2>2
    <3>2. ~p.sold => old <= held
      BY <2>1
    <3> HIDE DEF old, step
    <3>3. FloorStep(old, 1, step) \in Nat
      BY <3>1, FloorNat
    <3>4. ~p.sold => FloorStep(old, 1, step) <= FloorStep(held, 1, step)
      BY <3>1, <3>2, FloorMonotone
    <3> QED
      BY <3>3, <3>4 DEF old, step
  <2> HIDE DEF qty
  <2>4. stop \in Int
    BY <2>1, StopType
  <2>5. /\ legs \in Seq(LegType) /\ Protective(legs) /\ legs[1].qty = qty
        /\ Pays(request, p.entry, legs)
        /\ (ModeFor(request) = "FIXED_OCO" => stop < price) => Placed(legs)
    <3> DEFINE entry == p.entry
               r == rules
               current == price
    <3>1. /\ stop = StopFor(r, request, entry) /\ entry \in Nat
          /\ r \in RuleSets /\ current \in Prices
          /\ legs = ReplacementLegs(r, ModeFor(request), qty, entry, stop, current)
      BY <2>1
    <3> HIDE DEF stop, legs, asked, old, step, entry, r, current
    <3>2. /\ legs \in Seq(LegType) /\ Protective(legs) /\ legs[1].qty = qty
          /\ Pays(request, entry, legs)
          /\ (ModeFor(request) = "FIXED_OCO" => stop < current) /\ current = price
               => Placed(legs)
      <4>1. qty \in Nat
        BY <2>3
      <4>2. request \in Requests
        OBVIOUS
      <4> HIDE DEF qty
      <4>3. legs = ReplacementLegs(r, ModeFor(request), qty, entry, stop, current)
        BY <3>1
      <4>4. r \in RuleSets /\ entry \in Nat /\ current \in Prices /\ stop = StopFor(r, request, entry)
        BY <3>1
      <4>5. legs \in Seq(LegType) /\ Protective(legs)
        BY <4>1, <4>2, <4>3, <4>4, ReplacementFacts, SMTT(30)
      <4>6. legs[1].qty = qty
        BY <4>1, <4>2, <4>3, <4>4, ReplacementFacts, SMTT(30)
      <4>7. Pays(request, entry, legs)
        BY <4>1, <4>2, <4>3, <4>4, ReplacementFacts, SMTT(30)
      <4>8. (ModeFor(request) = "FIXED_OCO" => stop < current) /\ current = price => Placed(legs)
        BY <4>1, <4>2, <4>3, <4>4, ReplacementFacts, SMTT(30)
      <4> QED
        BY <4>5, <4>6, <4>7, <4>8
    <3> QED
      BY <3>2 DEF entry, current
  <2>6. Placed(legs)
    BY <1>7, <2>5 DEF Buildable
  <2> HIDE DEF legs
  <2>7. /\ job' \in [pc : Replacing, request : Requests, entry : Nat, stop : Int,
                     rules : RuleSets, legs : Seq(LegType), disturbed : BOOLEAN, sold : BOOLEAN]
        /\ job'.pc = "cancel" /\ job'.legs = legs /\ job'.request = request
        /\ job'.entry = p.entry /\ job'.stop = stop /\ job'.rules = rules
        /\ job'.disturbed = (SnapshotRules # rules) /\ job'.sold = p.sold
    BY <1>7, <2>1, <2>4, <2>5 DEF Replacing
  <2> HIDE DEF asked, stop
  <2>8. TypesInv'
    BY <1>5, <2>7 DEF JobType
  <2>9. RequestInv'
    <3>1. stop = StopFor(rules, request, p.entry)
      BY DEF stop
    <3> QED
      BY <1>3, <2>5, <2>7, <3>1 DEF RequestInv, Protective, Pays
  <2>10. Settled'
    <3> SUFFICES ASSUME ~job'.disturbed, ~job'.sold
                 PROVE  /\ job'.rules = rules' /\ \A c \in cache' : c.rules = rules'
                        /\ Valid(rules, job.legs, prot)' /\ Placed(job.legs)'
                        /\ job'.legs[1].qty <= FloorStep(held', 1, rules'.step)
      BY DEF Settled
    <3>1. SnapshotRules = rules
      BY <2>7
    <3>2. \A c \in cache' : c.rules = rules'
      BY <1>1, <1>3, <3>1, SnapshotFacts
    <3>3. Valid(rules, legs, prot)
      BY <1>7, <2>1, <3>1
    <3>4. Valid(rules, job.legs, prot)'
      BY <1>3, <2>7, <3>3, ValidStays
    <3>5. Placed(job.legs)'
      BY <1>3, <2>6, <2>7 DEF Placed
    <3> QED
      BY <1>3, <2>3, <2>5, <2>7, <3>2, <3>4, <3>5
  <2> QED
    BY <1>4, <2>7, <2>8, <2>9, <2>10 DEF PreflightIInv, EntryInv, NoSelfInflictedGap
<1> QED
  BY <1>3, <1>6, <1>7

LEMMA CancelOldStep == ASSUME PreflightIInv, CancelOld PROVE PreflightIInv'
<1>1. TypesInv /\ ProtInv /\ RequestInv /\ Settled
  BY DEF PreflightIInv
<1>2. job.pc = "cancel" /\ UNCHANGED <<clock, rules, price, others, cache, held>>
  BY DEF CancelOld, exchange
<1>3. CASE \E p \in prot : p.list = NotInList
  <2>1. job' = [pc |-> "blocked"] /\ prot' = prot
    BY <1>3 DEF CancelOld
  <2>2. ProtInv'
    BY <1>1, <1>2, <2>1, ProtStays
  <2>3. TypesInv'
    BY <1>1, <1>2, <2>1 DEF TypesInv, JobType
  <2> QED
    BY <2>1, <2>2, <2>3, EndStep DEF Replacing
<1>4. CASE ~\E p \in prot : p.list = NotInList
  <2>1. job' = [job EXCEPT !.pc = "rebuild"] /\ prot' = {}
    BY <1>4 DEF CancelOld
  <2>2. job.pc \in Replacing
    BY <1>2 DEF Replacing
  <2>3. /\ job \in [pc : Replacing, request : Requests, entry : Nat, stop : Int,
                    rules : RuleSets, legs : Seq(LegType), disturbed : BOOLEAN, sold : BOOLEAN]
        /\ Protective(job.legs)
    BY <1>1, <2>2, ReplacingJob DEF RequestInv
  <2>4. /\ job' \in [pc : Replacing, request : Requests, entry : Nat, stop : Int,
                     rules : RuleSets, legs : Seq(LegType), disturbed : BOOLEAN, sold : BOOLEAN]
        /\ job'.pc = "rebuild" /\ job'.legs = job.legs /\ job'.request = job.request
        /\ job'.entry = job.entry /\ job'.stop = job.stop /\ job'.rules = job.rules
        /\ job'.disturbed = job.disturbed /\ job'.sold = job.sold
    BY <2>1, <2>3 DEF Replacing
  <2>5. TypesInv'
    BY <1>1, <1>2, <2>1, <2>4 DEF TypesInv, JobType
  <2>6. ProtInv'
    BY <2>1 DEF ProtInv
  <2>7. RequestInv'
    BY <1>1, <2>1, <2>2, <2>4 DEF RequestInv, Protective, Pays
  <2>8. Valid(rules, job.legs, prot) => Valid(rules, job.legs, prot)'
    <3>1. CASE prot = {}
      BY <1>2, <2>1, <2>4, <3>1, ValidStays
    <3>2. CASE prot # {}
      <4>1. PICK p \in prot : TRUE
        BY <3>2
      <4>2. prot = {p} /\ p.list \in {NoList, 1} /\ others \in Nat
        BY <1>1, <1>4, <4>1 DEF TypesInv, ProtType
      <4> QED
        BY <1>2, <2>1, <2>3, <2>4, <4>2, ValidAfterCancel
    <3> QED
      BY <3>1, <3>2
  <2>9. Settled'
    BY <1>1, <1>2, <2>2, <2>4, <2>8 DEF Settled, Placed
  <2> QED
    BY <2>4, <2>5, <2>6, <2>7, <2>9 DEF PreflightIInv, EntryInv, NoSelfInflictedGap
<1> QED
  BY <1>3, <1>4

\* Undisturbed, the balance covers the quantity and the second validation passes.
LEMMA RebuildStep == ASSUME PreflightIInv, Rebuild PROVE PreflightIInv'
<1> DEFINE free == FloorStep(held, 1, job.rules.step)
           qty == job.legs[1].qty
           less == ReplacementLegs(job.rules, ModeFor(job.request), free, job.entry, job.stop, price)
           legs == IF free < qty THEN less ELSE job.legs
           sure == [job EXCEPT !.pc = "submit", !.legs = legs]
           passes == /\ free < qty => Buildable(job.rules, job.request, free, job.entry, job.stop, price)
                     /\ Valid(SnapshotRules, legs, {})
<1>1. TypesInv /\ ProtInv /\ RequestInv /\ Settled
  BY DEF PreflightIInv
<1>2. /\ job.pc = "rebuild" /\ cache' = Snapshot
      /\ UNCHANGED <<clock, rules, price, others, held, prot>>
      /\ job' = IF passes THEN sure ELSE Naked(job)
  BY DEF Rebuild, exchange
<1>3. job.pc \in Replacing
  BY <1>2 DEF Replacing
<1>4. /\ job \in [pc : Replacing, request : Requests, entry : Nat, stop : Int,
                  rules : RuleSets, legs : Seq(LegType), disturbed : BOOLEAN, sold : BOOLEAN]
      /\ job.request \in Requests /\ job.entry \in Nat /\ job.rules \in RuleSets
      /\ job.legs \in Seq(LegType) /\ job.disturbed \in BOOLEAN /\ job.sold \in BOOLEAN
  BY <1>1, <1>3, ReplacingJob
<1>5. /\ Protective(job.legs) /\ Pays(job.request, job.entry, job.legs)
      /\ job.stop = StopFor(job.rules, job.request, job.entry) /\ prot = {}
  BY <1>1, <1>2, <1>3 DEF RequestInv
<1>6. qty \in Nat
  BY <1>4, <1>5, FirstLeg DEF Protective
<1>7. free \in Nat
  <2> DEFINE s == job.rules.step
  <2>1. s \in Nat \ {0} /\ held \in Nat /\ 1 \in Nat \ {0}
    BY <1>1, <1>4, RuleFacts DEF TypesInv
  <2> HIDE DEF s
  <2>2. FloorStep(held, 1, s) \in Nat
    BY <2>1, FloorNat
  <2> QED
    BY <2>2 DEF s
<1>8. ASSUME ~job.disturbed, ~job.sold
      PROVE  /\ passes /\ legs = job.legs /\ SnapshotRules = rules /\ job.rules = rules
             /\ Valid(rules, legs, prot) /\ Placed(legs)
             /\ qty <= FloorStep(held, 1, rules.step)
  <2>1. /\ job.rules = rules /\ \A c \in cache : c.rules = rules
        /\ Valid(rules, job.legs, prot) /\ Placed(job.legs)
        /\ qty <= FloorStep(held, 1, rules.step)
    BY <1>1, <1>3, <1>8 DEF Settled
  <2>2. SnapshotRules = rules
    BY <1>1, <2>1, SnapshotFacts
  <2>3. qty <= free
    BY <2>1
  <2> HIDE DEF free, qty
  <2>4. ~(free < qty)
    BY <1>6, <1>7, <2>3
  <2>5. legs = job.legs
    BY <2>4
  <2> HIDE DEF legs
  <2>6. Valid(SnapshotRules, legs, {})
    BY <1>5, <2>1, <2>2, <2>5
  <2> QED
    BY <2>1, <2>2, <2>4, <2>5, <2>6
<1>9. ProtInv'
  BY <1>1, <1>2, ProtStays
<1>10. job' \in JobType => TypesInv'
  BY <1>1, <1>2, CacheStays DEF TypesInv
<1>11. CASE ~passes
  <2> HIDE DEF passes, sure
  <2>1. job' = Naked(job)
    BY <1>2, <1>11
  <2>2. job.disturbed \/ job.sold
    BY <1>8, <1>11
  <2>3. /\ job' \in [pc : {"naked"}, disturbed : BOOLEAN, sold : BOOLEAN]
        /\ job'.pc = "naked" /\ job'.disturbed = job.disturbed /\ job'.sold = job.sold
    BY <1>4, <2>1 DEF Naked
  <2> QED
    BY <1>9, <1>10, <2>2, <2>3, EndStep DEF JobType, Replacing
<1>12. CASE passes
  <2>1. /\ less \in Seq(LegType) /\ Protective(less) /\ Pays(job.request, job.entry, less)
    <3>1. price \in Prices
      BY <1>1 DEF TypesInv
    <3> DEFINE stop == job.stop
               entry == job.entry
               r == job.rules
               request == job.request
    <3>2. /\ stop = StopFor(r, request, entry) /\ r \in RuleSets /\ request \in Requests
          /\ entry \in Nat
          /\ less = ReplacementLegs(r, ModeFor(request), free, entry, stop, price)
      BY <1>4, <1>5
    <3> HIDE DEF free, less, stop, entry, r, request
    <3>3. less \in Seq(LegType) /\ Protective(less) /\ Pays(request, entry, less)
      BY <1>7, <3>1, <3>2, ReplacementFacts
    <3> QED
      BY <3>3 DEF request, entry
  <2>2. legs \in Seq(LegType) /\ Protective(legs) /\ Pays(job.request, job.entry, legs)
    <3> HIDE DEF less, free, qty
    <3> QED
      BY <1>4, <1>5, <2>1
  <2>3. job' = sure
    <3> HIDE DEF passes, sure
    <3> QED
      BY <1>2, <1>12
  <2> HIDE DEF legs, passes
  <2>4. /\ job' \in [pc : Replacing, request : Requests, entry : Nat, stop : Int,
                     rules : RuleSets, legs : Seq(LegType), disturbed : BOOLEAN, sold : BOOLEAN]
        /\ job'.pc = "submit" /\ job'.legs = legs /\ job'.request = job.request
        /\ job'.entry = job.entry /\ job'.stop = job.stop /\ job'.rules = job.rules
        /\ job'.disturbed = job.disturbed /\ job'.sold = job.sold
    BY <1>4, <2>2, <2>3 DEF Replacing
  <2> HIDE DEF sure
  <2>5. TypesInv'
    BY <1>10, <2>4 DEF JobType
  <2>6. RequestInv'
    BY <1>2, <1>5, <2>2, <2>4 DEF RequestInv, Protective, Pays
  <2>7. Settled'
    <3> SUFFICES ASSUME ~job'.disturbed, ~job'.sold
                 PROVE  /\ job'.rules = rules' /\ \A c \in cache' : c.rules = rules'
                        /\ Valid(rules, job.legs, prot)' /\ Placed(job.legs)'
                        /\ job'.legs[1].qty <= FloorStep(held', 1, rules'.step)
      BY DEF Settled
    <3>1. /\ legs = job.legs /\ SnapshotRules = rules /\ job.rules = rules
          /\ Valid(rules, legs, prot) /\ Placed(legs)
          /\ qty <= FloorStep(held, 1, rules.step)
      BY <1>8, <2>4
    <3>2. \A c \in cache' : c.rules = rules'
      BY <1>1, <1>2, <3>1, SnapshotFacts
    <3>3. Valid(rules, job.legs, prot)'
      BY <1>2, <2>4, <3>1, ValidStays
    <3>4. Placed(job.legs)'
      BY <1>2, <2>4, <3>1 DEF Placed
    <3> QED
      BY <1>2, <2>4, <3>1, <3>2, <3>3, <3>4
  <2> QED
    BY <1>9, <2>4, <2>5, <2>6, <2>7 DEF PreflightIInv, EntryInv, NoSelfInflictedGap
<1> QED
  BY <1>11, <1>12

LEMMA UnavailableStep == ASSUME PreflightIInv, Unavailable PROVE PreflightIInv'
<1>1. TypesInv /\ ProtInv
  BY DEF PreflightIInv
<1>2. /\ job.pc \in {"cancel", "rebuild"} /\ UNCHANGED <<clock, rules, price, others, cache, held, prot>>
      /\ job' = IF job.pc = "cancel" THEN Idle ELSE Naked(Disturbed)
  BY DEF Unavailable, exchange
<1>3. ProtInv'
  BY <1>1, <1>2, ProtStays
<1>4. job' \in JobType => TypesInv'
  BY <1>1, <1>2 DEF TypesInv
<1>5. CASE job' = Idle
  BY <1>3, <1>4, <1>5, EndStep DEF JobType, Idle, Replacing
<1>6. CASE job' = Naked(Disturbed)
  <2>1. job.pc \in Replacing /\ job.pc # "idle"
    BY <1>2 DEF Replacing
  <2>2. job \in [pc : Replacing, request : Requests, entry : Nat, stop : Int,
                 rules : RuleSets, legs : Seq(LegType), disturbed : BOOLEAN, sold : BOOLEAN]
    BY <1>1, <2>1, ReplacingJob
  <2>3. Disturbed.disturbed = TRUE /\ Disturbed.sold = job.sold
    BY <2>1, <2>2 DEF Disturbed
  <2>4. /\ job' \in [pc : {"naked"}, disturbed : BOOLEAN, sold : BOOLEAN]
        /\ job'.pc = "naked" /\ job'.disturbed = TRUE
    BY <1>6, <2>2, <2>3 DEF Naked
  <2> QED
    BY <1>3, <1>4, <2>4, EndStep DEF JobType, Replacing
<1> QED
  BY <1>2, <1>5, <1>6

\* The exchange refuses only what changed, or what was sold before.
LEMMA SubmitStep == ASSUME PreflightIInv, Submit PROVE PreflightIInv'
<1>1. TypesInv /\ ProtInv /\ RequestInv /\ Settled
  BY DEF PreflightIInv
<1>2. job.pc = "submit" /\ UNCHANGED <<clock, rules, price, others, cache, held>>
  BY DEF Submit, exchange
<1>3. job.pc \in Replacing /\ job.pc # "cancel"
  BY <1>2 DEF Replacing
<1>4. /\ job \in [pc : Replacing, request : Requests, entry : Nat, stop : Int,
                  rules : RuleSets, legs : Seq(LegType), disturbed : BOOLEAN, sold : BOOLEAN]
      /\ job.request \in Requests /\ job.entry \in Nat
      /\ job.legs \in Seq(LegType) /\ job.disturbed \in BOOLEAN /\ job.sold \in BOOLEAN
  BY <1>1, <1>3, ReplacingJob
<1>5. Protective(job.legs) /\ Pays(job.request, job.entry, job.legs) /\ prot = {}
  BY <1>1, <1>3 DEF RequestInv
<1>6. /\ 1 \in DOMAIN job.legs /\ job.legs[1].qty \in Nat
      /\ job.legs[1].side = "SELL"
  BY <1>4, <1>5, FirstLeg DEF Protective
<1>7. ~IsBuy(job.legs)
  BY <1>5, NoBuy
<1>8. CASE Accepted(job.legs)
  <2>1. PICK list \in {1, NoList, NotInList} :
          prot' = {[request |-> job.request, entry |-> job.entry, legs |-> job.legs,
                    list |-> list, sold |-> FALSE]}
    BY <1>8 DEF Submit
  <2>2. job' = Idle
    BY <1>8 DEF Submit
  <2>3. job.legs[1].qty <= held
    BY <1>6, <1>7, <1>8 DEF Accepted
  <2> DEFINE p == [request |-> job.request, entry |-> job.entry, legs |-> job.legs,
                   list |-> list, sold |-> FALSE]
  <2>4. /\ p \in ProtType /\ p.legs = job.legs /\ p.request = job.request
        /\ p.entry = job.entry
    BY <1>4 DEF ProtType
  <2>5. prot' = {p}
    BY <2>1
  <2> HIDE DEF p
  <2>6. ProtInv'
    BY <1>2, <1>5, <2>3, <2>4, <2>5 DEF ProtInv, Pays, Protective
  <2>7. TypesInv'
    BY <1>1, <1>2, <2>2, <2>4, <2>5 DEF TypesInv, JobType
  <2> QED
    BY <2>2, <2>6, <2>7, EndStep DEF Idle, Replacing
<1>9. CASE ~Accepted(job.legs)
  <2>1. job' = Naked(job) /\ prot' = prot
    BY <1>9 DEF Submit
  <2>2. job.disturbed \/ job.sold
    <3> SUFFICES ASSUME ~job.disturbed, ~job.sold PROVE FALSE
      BY <1>4
    <3>1. /\ Valid(rules, job.legs, prot) /\ Placed(job.legs) /\ job.rules = rules
          /\ job.legs[1].qty <= FloorStep(held, 1, rules.step)
      BY <1>1, <1>3 DEF Settled
    <3> DEFINE s == rules.step
               q == job.legs[1].qty
    <3>2. s \in Nat \ {0} /\ held \in Nat /\ held \in Int /\ 1 \in Nat \ {0} /\ q \in Nat
      BY <1>1, <1>6, RuleFacts DEF TypesInv
    <3>3. q <= FloorStep(held, 1, s)
      BY <3>1
    <3>4. \A i \in DOMAIN job.legs : job.legs[i].qty = q
      BY <1>5 DEF Protective
    <3> HIDE DEF s, q
    <3>5. FloorStep(held, 1, s) * 1 <= held /\ FloorStep(held, 1, s) \in Int
      BY <3>2, FloorFacts
    <3>6. q <= held
      BY <3>2, <3>3, <3>5
    <3>7. \A i \in DOMAIN job.legs : job.legs[i].qty <= held
      BY <3>4, <3>6
    <3>8. Valid(rules, job.legs, {})
      BY <1>5, <3>1
    <3> QED
      BY <1>9, <3>1, <3>7, <3>8 DEF Accepted, Placed
  <2>3. /\ job' \in [pc : {"naked"}, disturbed : BOOLEAN, sold : BOOLEAN]
        /\ job'.pc = "naked" /\ job'.disturbed = job.disturbed /\ job'.sold = job.sold
    BY <1>4, <2>1 DEF Naked
  <2>4. ProtInv'
    BY <1>1, <1>2, <2>1, ProtStays
  <2>5. TypesInv'
    BY <1>1, <1>2, <2>1, <2>3 DEF TypesInv, JobType
  <2> QED
    BY <2>2, <2>3, <2>4, <2>5, EndStep DEF Replacing
<1> QED
  BY <1>8, <1>9

-----------------------------------------------------------------------------
(***************************************************************************)
(* The theorems.                                                            *)
(***************************************************************************)

LEMMA PreflightInitIInv == PreflightInit => PreflightIInv
<1> SUFFICES ASSUME PreflightInit PROVE PreflightIInv
  OBVIOUS
<1>1. TypesInv
  BY DEF PreflightInit, TypesInv, JobType
<1>2. prot = {} /\ job.pc = "idle"
  BY DEF PreflightInit, Idle
<1> QED
  BY <1>1, <1>2 DEF PreflightIInv, ProtInv, EntryInv, RequestInv, Settled, NoSelfInflictedGap, Replacing

LEMMA PreflightStutter == ASSUME PreflightIInv, UNCHANGED preflightVars PROVE PreflightIInv'
<1>1. UNCHANGED <<clock, rules, price, others, cache, held, prot, job>>
  BY DEF preflightVars
<1>2. TypesInv'
  BY <1>1 DEF PreflightIInv, TypesInv
<1>3. Valid(rules, job.legs, prot) => Valid(rules, job.legs, prot)'
  BY <1>1, ValidStays
<1>4. Settled'
  BY <1>1, <1>3 DEF PreflightIInv, Settled, Placed
<1> QED
  BY <1>1, <1>2, <1>4, ProtStays DEF PreflightIInv, EntryInv, RequestInv, NoSelfInflictedGap

\* The inductive invariant: what was read before a request is still true after it unless the
\* operation is marked, whichever request, rounding or change of filters it meets (convert,
\* execute_entry).
THEOREM PreflightInvariance == PreflightSpec => []PreflightIInv
<1>1. PreflightIInv /\ [PreflightNext]_preflightVars => PreflightIInv'
  <2> SUFFICES ASSUME PreflightIInv, [PreflightNext]_preflightVars PROVE PreflightIInv'
    OBVIOUS
  <2>1. CASE NewRules \/ NewPrice \/ OtherLists \/ PartialTakeProfit \/ Tick
    BY <2>1, NewRulesStep, NewPriceStep, OtherListsStep, PartialTakeProfitStep, TickStep
  <2>2. CASE \E mode \in Modes : Enter(mode)
    BY <2>2, EnterStep
  <2>3. CASE \E request \in Requests : Convert(request)
    BY <2>3, ConvertStep
  <2>4. CASE SubmitEntry \/ CancelOld \/ Rebuild \/ Unavailable \/ Submit
    BY <2>4, SubmitEntryStep, CancelOldStep, RebuildStep, UnavailableStep, SubmitStep
  <2>5. CASE UNCHANGED preflightVars
    BY <2>5, PreflightStutter
  <2> QED
    BY <2>1, <2>2, <2>3, <2>4, <2>5 DEF PreflightNext
<1> QED
  BY <1>1, PreflightInitIInv, PTL DEF PreflightSpec

\* For all prices, filters and settings: a conversion that passed its first validation does not
\* leave the position naked by itself, protective sells never exceed the position, and a
\* break-even or profit-lock stop pays back what the entry cost (validate_replacement, convert,
\* OrderRequestFactory.replacement).
THEOREM ReplacementIsSound == PreflightSpec => []ReplacementSound
<1>1. PreflightIInv => ReplacementSound
  <2> SUFFICES ASSUME PreflightIInv PROVE ReplacementSound
    OBVIOUS
  <2>1. NoSelfInflictedGap
    BY DEF PreflightIInv
  <2>2. SellsCovered
    BY DEF PreflightIInv, ProtInv, Protective, SellsCovered
  <2>3. BreakEvenCovered
    BY DEF PreflightIInv, ProtInv, Pays, BreakEvenCovered
  <2> QED
    BY <2>1, <2>2, <2>3 DEF ReplacementSound
<1> QED
  BY <1>1, PreflightInvariance, PTL

=============================================================================
