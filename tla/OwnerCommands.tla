---------------------------- MODULE OwnerCommands ----------------------------
(***************************************************************************)
(* From an owner's message to an executed command and back to the report:   *)
(* the Telegram broker (bot.py, stable_panel.py, callbacks.py), the command *)
(* files between the processes, and process_command of the sidecar (main.py,*)
(* state_store.py).                                                         *)
(*                                                                          *)
(* Both processes may die between any two steps.  The sidecar takes the     *)
(* files of its inbox in the order of their names, which are random, so any *)
(* file may be next.  The broker waits twelve seconds for an answer, less   *)
(* than the 120 seconds a command stays valid.                              *)
(***************************************************************************)
EXTENDS Integers, Sequences

CONSTANTS
  Actions,     \* confirmed actions considered, a subset of the domain of Flow
  MaxUpdates,  \* bound: messages and button presses of the owner
  MaxFaults,   \* bound: process deaths and refused Freqtrade calls
  MaxTimeouts  \* bound: answers the broker gives up on

\* What an action does, call by call.  start and halt go to Freqtrade, the rest to the sidecar.
ResumeFlow  == <<"start", "on">>
RecoverFlow == <<"restart", "reconcile", "clear", "start", "on">>
PauseFlow   == <<"off", "halt">>
Flow == [resume |-> ResumeFlow, recover |-> RecoverFlow, sell |-> <<"sell">>, pause |-> PauseFlow]

ASSUME CommandAssumption ==
  /\ Actions \subseteq DOMAIN Flow \ {"pause"}
  /\ {MaxUpdates, MaxFaults, MaxTimeouts} \subseteq Nat

Updates  == 1..MaxUpdates
Commands == {"on", "off", "restart", "reconcile", "clear", "sell"}
Cids     == Updates \X Commands            \* one command_id per call of sidecar_command
NoCid    == <<0, "on">>
Verdicts == {"ok", "failed", "uncertain"}

VARIABLES
  tg,        \* Telegram: the owner's updates, in order
  offset,    \* telegram_update_meta: the next update
  table,     \* telegram_updates: state of an update
  tokens,    \* CallbackStore: the confirmation issued by an update
  bpc, cur,  \* broker: step and update
  flow, k,   \* broker: calls of the action, and the one that is next
  told,      \* the report the owner got for an update
  inbox,     \* command files
  stale,     \* commands older than COMMAND_MAX_AGE_SECONDS
  results,   \* command_result files
  claims,    \* table processed_commands
  spc, cmd,  \* sidecar: step and command
  outcome,   \* sidecar: result of the command
  armed,     \* entries_enabled and adapter.enabled
  running,   \* Freqtrade trades
  handled,   \* history: how often an update was handled
  spent,     \* history: how often a token was confirmed
  runs,      \* history: how often a command was executed
  faults, timeouts

broker  == <<offset, table, tokens, bpc, cur, flow, k, told, handled, spent, timeouts>>
sidecar == <<claims, spc, cmd, outcome, armed, runs>>
bus     == <<inbox, stale, results>>
vars    == <<tg, broker, sidecar, bus, running, faults>>

Update == [kind : {"ask"}, what : Actions] \cup [kind : {"confirm", "cancel"}, what : Updates]
          \cup {[kind |-> "pause", what |-> "pause"]}

TypeOK ==
  /\ Len(tg) <= MaxUpdates /\ \A i \in DOMAIN tg : tg[i] \in Update
  /\ offset \in 1..MaxUpdates + 1
  /\ table \in [Updates -> {"none", "claimed", "handled", "failed", "uncertain"}]
  /\ tokens \in [Updates -> {"none", "live", "used", "canceled", "gone"}]
  /\ bpc \in {"down", "poll", "call", "wait", "complete"}
  /\ cur \in 0..MaxUpdates
  /\ flow \in {Flow[a] : a \in DOMAIN Flow} \cup {<<>>, <<"halt">>}
  /\ k \in 0..6
  /\ told \in [Updates -> {"none", "ok", "failed"}]
  /\ inbox \subseteq Cids /\ stale \subseteq Cids
  /\ results \in [Cids -> Verdicts \cup {"none"}]
  /\ claims \in [Cids -> {"none", "IN_PROGRESS", "ok", "failed"}]
  /\ spc \in {"down", "idle", "execute", "record", "answer", "unlink"}
  /\ cmd \in Cids \cup {NoCid}
  /\ outcome \in {"ok", "failed"}
  /\ armed \in BOOLEAN /\ running \in BOOLEAN
  /\ handled \in [Updates -> Nat] /\ spent \in [Updates -> Nat] /\ runs \in [Cids -> Nat]
  /\ faults \in 0..MaxFaults /\ timeouts \in 0..MaxTimeouts

Init ==
  /\ tg = <<>> /\ offset = 1
  /\ table = [u \in Updates |-> "none"] /\ tokens = [u \in Updates |-> "none"]
  /\ bpc = "poll" /\ cur = 0 /\ flow = <<>> /\ k = 0
  /\ told = [u \in Updates |-> "none"]
  /\ inbox = {} /\ stale = {} /\ results = [c \in Cids |-> "none"]
  /\ claims = [c \in Cids |-> "none"]
  /\ spc = "idle" /\ cmd = NoCid /\ outcome = "ok"
  /\ armed = FALSE /\ running = FALSE
  /\ handled = [u \in Updates |-> 0] /\ spent = [u \in Updates |-> 0]
  /\ runs = [c \in Cids |-> 0]
  /\ faults = 0 /\ timeouts = 0

Fault == faults < MaxFaults /\ faults' = faults + 1

-----------------------------------------------------------------------------
(* The owner *)

\* A button can be pressed as soon as it was issued, twice, and after it is spent.  Messages wait
\* until the broker polls, so those written meanwhile are added then.
Writes ==
  /\ bpc = "poll" /\ Len(tg) < MaxUpdates
  /\ \E u \in Update : /\ u.kind \in {"confirm", "cancel"} => tokens[u.what] # "none"
                       /\ tg' = Append(tg, u)
  /\ UNCHANGED <<broker, sidecar, bus, running, faults>>

-----------------------------------------------------------------------------
(* The broker *)

\* TelegramUpdateStore.claim: what is below the offset was claimed before.
MayClaim(u) == u >= offset

\* CallbackStore.consume and cancel.
Spend(t, as) == [tokens EXCEPT ![t] = as]

\* _ask_confirm issues a confirmation; a pause needs none.
Asks(u) ==
  /\ u.kind = "ask" /\ tokens' = [tokens EXCEPT ![cur'] = "live"]
  /\ flow' = <<>> /\ UNCHANGED spent
Pauses(u) == u.kind = "pause" /\ flow' = PauseFlow /\ UNCHANGED <<tokens, spent>>

\* handle_callback: the calls a button leads to.  A token may have expired.
Presses(u) ==
  \/ /\ u.kind = "confirm" /\ tokens[u.what] = "live"
     /\ tokens' = Spend(u.what, "used") /\ spent' = [spent EXCEPT ![u.what] = @ + 1]
     /\ flow' = Flow[tg[u.what].what]
  \/ /\ u.kind = "cancel" /\ tokens[u.what] = "live"
     /\ tokens' = Spend(u.what, "canceled") /\ flow' = <<>> /\ UNCHANGED spent
  \/ /\ u.kind \in {"confirm", "cancel"}
     /\ tokens' = [tokens EXCEPT ![u.what] = IF @ = "live" THEN "gone" ELSE @]
     /\ flow' = <<>> /\ UNCHANGED spent

\* getUpdates may hand out an update again; only a claimed one is handled.
Take(u) ==
  /\ bpc = "poll" /\ u \in DOMAIN tg /\ u <= offset
  /\ MayClaim(u)
  /\ table' = [table EXCEPT ![u] = "claimed"]
  /\ offset' = IF u >= offset THEN u + 1 ELSE offset
  /\ cur' = u /\ handled' = [handled EXCEPT ![u] = @ + 1]
  /\ Asks(tg[u]) \/ Pauses(tg[u]) \/ Presses(tg[u])
  /\ k' = 1 /\ bpc' = IF flow' = <<>> THEN "complete" ELSE "call"
  /\ UNCHANGED <<tg, told, timeouts, sidecar, bus, running, faults>>

Call == flow[k]
\* Mutant: the report is made before the last call.
LastButOne == k >= Len(flow) - 1
Last == k = Len(flow)
Calls(set) == bpc = "call" /\ Call \in set

Proceed == k' = k + 1 /\ bpc' = IF Last THEN "complete" ELSE "call"
Tell(what) == told' = [told EXCEPT ![cur] = what]

\* Mutant: the answer to restart_stream and reconcile is not looked at.
StopsAtSteps == Call \in {"on", "start", "clear", "sell"}
\* A pause goes on after a refusal, as the pause of Freqtrade after a refused resume does.
StopsAt == flow \notin {PauseFlow, <<"halt">>}

\* Where an answer leads: to the next call, or to the end with the first refusal; when the sidecar
\* refuses to arm, Freqtrade is paused again.
Advance(ok) ==
  \/ /\ ok \/ ~StopsAt
     /\ Proceed /\ UNCHANGED flow
     /\ IF Call = "off" THEN Tell(IF ok THEN "ok" ELSE "failed")
        ELSE IF ok /\ Last /\ Call # "halt" THEN Tell("ok") ELSE UNCHANGED told
  \/ /\ ~ok /\ StopsAt
     /\ Tell("failed")
     /\ IF Call = "on" THEN flow' = <<"halt">> /\ k' = 1 /\ bpc' = "call"
                       ELSE bpc' = "complete" /\ UNCHANGED <<flow, k>>

\* ft_call; a call that fails may have had its effect.
CallFreqtrade ==
  /\ Calls({"start", "halt"})
  /\ \/ running' = (Call = "start") /\ Advance(TRUE) /\ UNCHANGED faults
     \/ Fault /\ running' \in {running, Call = "start"} /\ Advance(FALSE)
  /\ UNCHANGED <<tg, offset, table, tokens, cur, handled, spent, timeouts, sidecar, bus>>

\* sidecar_command writes the file and waits.
Enqueue ==
  /\ Calls(Commands)
  /\ inbox' = inbox \cup {<<cur, Call>>} /\ bpc' = "wait"
  /\ UNCHANGED <<tg, offset, table, tokens, cur, flow, k, told, handled, spent, timeouts, sidecar,
                 stale, results, running, faults>>

\* The answer is read and its file removed; no answer in twelve seconds counts as a failure.
Answered ==
  /\ bpc = "wait" /\ results[<<cur, Call>>] # "none"
  /\ results' = [results EXCEPT ![<<cur, Call>>] = "none"]
  /\ Advance(results[<<cur, Call>>] = "ok")
  /\ UNCHANGED <<tg, offset, table, tokens, cur, handled, spent, timeouts, sidecar, inbox, stale,
                 running, faults>>
TimesOut ==
  /\ bpc = "wait" /\ timeouts < MaxTimeouts /\ timeouts' = timeouts + 1
  /\ Advance(FALSE)
  /\ UNCHANGED <<tg, offset, table, tokens, cur, handled, spent, sidecar, bus, running, faults>>

\* The report is sent, which may raise; the update is complete either way.
Complete ==
  /\ bpc = "complete" /\ bpc' = "poll"
  /\ \E s \in {"handled", "failed"} : table' = [table EXCEPT ![cur] = s]
  /\ cur' = 0 /\ flow' = <<>> /\ k' = 0
  /\ UNCHANGED <<tg, offset, tokens, told, handled, spent, timeouts, sidecar, bus, running, faults>>

\* Confirmations live in memory; claims that were not completed become uncertain at the start.
BrokerDies ==
  /\ bpc # "down" /\ Fault
  /\ bpc' = "down" /\ cur' = 0 /\ flow' = <<>> /\ k' = 0
  /\ tokens' = [t \in Updates |-> IF tokens[t] = "live" THEN "gone" ELSE tokens[t]]
  /\ UNCHANGED <<tg, offset, table, told, handled, spent, timeouts, sidecar, bus, running>>

Recover == [u \in Updates |-> IF table[u] = "claimed" THEN "uncertain" ELSE table[u]]

BrokerStarts ==
  /\ bpc = "down" /\ bpc' = "poll"
  /\ table' = Recover
  /\ UNCHANGED <<tg, offset, tokens, cur, flow, k, told, handled, spent, timeouts, sidecar, bus,
                 running, faults>>

-----------------------------------------------------------------------------
(* The sidecar *)

\* A command ages while nobody waits for it.
Ages ==
  /\ \E c \in inbox \ stale : /\ ~(bpc = "wait" /\ c = <<cur, Call>>)
                              /\ stale' = stale \cup {c}
  /\ UNCHANGED <<tg, broker, sidecar, inbox, results, running, faults>>

\* Mutant: a command without a recorded result is executed.
FreshUnrecorded(c) == c \notin stale /\ claims[c] \in {"none", "IN_PROGRESS"}
Fresh(c) == c \notin stale /\ claims[c] = "none"

\* The claim commits before anything is done.  A stale command gets a refusal.
Claim(c) ==
  /\ spc = "idle" /\ c \in inbox
  /\ Fresh(c) \/ (c \in stale /\ claims[c] = "none")
  /\ claims' = [claims EXCEPT ![c] = "IN_PROGRESS"]
  /\ cmd' = c /\ outcome' = "failed" /\ spc' = IF Fresh(c) THEN "execute" ELSE "record"
  /\ UNCHANGED <<tg, broker, bus, armed, runs, running, faults>>

\* path.unlink.
Removed(c) == inbox' = inbox \ {c} /\ stale' = stale \ {c}

\* Mutant: the row is passed on as it is.
PriorAnswerRaw(c) == claims[c]
PriorAnswer(c) == IF claims[c] = "IN_PROGRESS" THEN "uncertain" ELSE claims[c]

\* A claimed command is answered from the claim, and nothing is executed; one whose outcome is
\* unknown also stops entries.  A stale one is only removed.
Repeat(c) ==
  /\ spc = "idle" /\ c \in inbox /\ claims[c] # "none"
  /\ Removed(c)
  /\ IF c \in stale \/ results[c] # "none"
       THEN UNCHANGED <<results, armed>>
       ELSE /\ results' = [results EXCEPT ![c] = PriorAnswer(c)]
            /\ armed' = (armed /\ claims[c] # "IN_PROGRESS")
  /\ UNCHANGED <<tg, broker, claims, spc, cmd, outcome, runs, running, faults>>

\* The handler of the command; any of them may be refused.
Execute ==
  /\ spc = "execute" /\ spc' = "record"
  /\ outcome' \in {"ok", "failed"}
  /\ runs' = [runs EXCEPT ![cmd] = @ + 1]
  /\ armed' = CASE cmd[2] = "on" /\ outcome' = "ok" -> TRUE
                [] cmd[2] \in {"off", "sell", "reconcile"} -> FALSE
                [] OTHER -> armed
  /\ UNCHANGED <<tg, broker, claims, cmd, bus, running, faults>>

\* Mutant: a handler that refuses without raising is answered with success.
AnswerOk == "ok"
AnswerOf == outcome

\* _write_command_result: the row, then the file; then the command file is removed.
Record ==
  /\ spc = "record" /\ spc' = "answer"
  /\ claims' = [claims EXCEPT ![cmd] = outcome]
  /\ UNCHANGED <<tg, broker, cmd, outcome, armed, runs, bus, running, faults>>
Answer ==
  /\ spc = "answer" /\ spc' = "unlink"
  /\ results' = [results EXCEPT ![cmd] = AnswerOf]
  /\ UNCHANGED <<tg, broker, claims, cmd, outcome, armed, runs, inbox, stale, running, faults>>
Unlink ==
  /\ spc = "unlink" /\ spc' = "idle"
  /\ Removed(cmd) /\ cmd' = NoCid /\ outcome' = "ok"
  /\ UNCHANGED <<tg, broker, claims, armed, runs, results, running, faults>>

SidecarDies ==
  /\ spc # "down" /\ Fault
  /\ spc' = "down" /\ cmd' = NoCid /\ outcome' = "ok" /\ armed' = FALSE
  /\ UNCHANGED <<tg, broker, claims, runs, bus, running>>
SidecarStarts ==
  /\ spc = "down" /\ spc' = "idle"
  /\ UNCHANGED <<tg, broker, claims, cmd, outcome, armed, runs, bus, running, faults>>

-----------------------------------------------------------------------------
Broker  == (\E u \in Updates : Take(u)) \/ CallFreqtrade \/ Enqueue \/ Answered \/ TimesOut
           \/ Complete \/ BrokerStarts
Sidecar == (\E c \in Cids : Claim(c) \/ Repeat(c)) \/ Execute \/ Record \/ Answer \/ Unlink
           \/ SidecarStarts

Next == Writes \/ Broker \/ Sidecar \/ Ages \/ BrokerDies \/ SidecarDies

Spec == Init /\ [][Next]_vars

-----------------------------------------------------------------------------
(* Properties *)

\* Nothing the owner asks for takes effect twice.  An update is handled once, whatever Telegram
\* delivers again; a confirmation is good for one action, and for none after it was canceled; a
\* command is executed once, also when its file is found again after a crash
\* (TelegramUpdateStore.claim, CallbackStore.consume, claim_command).
AtMostOnce ==
  /\ \A u \in Updates : handled[u] <= 1
  /\ \A t \in Updates : spent[t] <= 1 /\ (tokens[t] = "canceled" => spent[t] = 0)
  /\ \A c \in Cids : runs[c] <= 1

\* When the owner is told that an action succeeded, every command that belongs to it ran, once, and
\* was recorded as successful: none was skipped, refused, or left without an answer
\* (sidecar_command, _write_command_result; stable_panel.py, recover and confirm_action).
ActionOf(u) == IF tg[u].kind = "confirm" THEN tg[tg[u].what].what ELSE tg[u].what
CommandsOf(u) == {<<u, c>> : c \in Commands \cap {Flow[ActionOf(u)][i] : i \in DOMAIN Flow[ActionOf(u)]}}
SuccessIsReal ==
  \A u \in DOMAIN tg : told[u] = "ok" => \A c \in CommandsOf(u) : claims[c] = "ok" /\ runs[c] = 1

\* "clear the reconnect risk pause only after reconciliation": also when answers come late and
\* processes die, clear_risk_pause runs only after the reconcile of the same recovery passed
\* (stable_panel.py, recover).
ClearAfterReconcile ==
  \A u \in Updates : runs[<<u, "clear">>] > 0 => claims[<<u, "reconcile">>] = "ok"

-----------------------------------------------------------------------------
(* What the owner is told and what the code does *)

\* After "Sidecar refused arming" the entries of that action stay off (stable_panel.py:1990).
RefusedStaysOff ==
  [][\A u \in Updates : told[u] = "failed" /\ cmd = <<u, "on">> /\ armed' => armed]_vars

\* Entries that were switched off by a later message are not switched on by an earlier one
\* (bot.py, entries_off; main.py, sorted(COMMAND_INBOX.glob)).
PauseHolds ==
  [][~armed /\ armed' => \A c \in Cids : c[2] = "off" /\ claims[c] = "ok" => c[1] < cmd[1]]_vars

=============================================================================
