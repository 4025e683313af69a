----------------------------- MODULE PairSwitch -----------------------------
(***************************************************************************)
(* The active pair: PairController of pair_control.py with its four files,  *)
(* the commands of main.py that drive it, the heartbeat by which Freqtrade  *)
(* proves that it has loaded the pair, and the signals made for a pair.     *)
(*                                                                          *)
(* The sidecar's main thread is serial; it is cut at every durable write,   *)
(* where the write may fail or the process may die, and at the network      *)
(* calls.  Freqtrade runs beside it and reads the files whenever it likes.  *)
(* A pair stands for its symbol and its quote; a state_hash is the pair     *)
(* with its generation.                                                     *)
(***************************************************************************)
EXTENDS Integers

CONSTANTS
  Pairs,            \* the BTC pairs of the registry
  Modes,            \* execution modes considered, of {"testnet", "live"}
  MaxGen,           \* bound: the last generation a change may publish
  TestnetFailures,  \* bound: failing writes in testnet mode
  LiveFailures,     \* bound: failing writes in live mode
  MaxCrashes        \* bound: process deaths

ASSUME PairAssumption ==
  /\ Pairs # {} /\ Modes # {} /\ Modes \subseteq {"testnet", "live"}
  /\ MaxGen \in Nat \ {0} /\ TestnetFailures \in Nat /\ LiveFailures \in Nat
  /\ MaxCrashes \in Nat

Generations == 1..MaxGen
State == [pair : Pairs, gen : Generations]      \* active_pair.json

Stages == {"ACTIVE", "PAUSING", "RECONCILING", "WAITING_MANUAL_SWAP",
           "APPLYING_PAIR", "VERIFYING_PAIR", "PAUSED_READY", "BLOCKED"}
NoPair   == "none"
NoSwitch == [stage |-> "ACTIVE", active |-> NoPair, target |-> NoPair, checked |-> FALSE]
\* checked: the evidence holds the first flat_verification.
Switch   == [stage : Stages, active : Pairs \cup {NoPair}, target : Pairs \cup {NoPair},
             checked : BOOLEAN]

NoTrade == [pair |-> NoPair, gen |-> 0]
NoBeat  == [seen |-> NoTrade, one |-> FALSE, fresh |-> FALSE]
NoSeen  == NoTrade

VARIABLES
  mode,        \* EXECUTION_MODE
  state,       \* file active_pair.json, the authority
  pairlist,    \* file pairlist: the state it was written for
  overlay,     \* file Freqtrade configuration: the pair with its stake currency
  switch,      \* file pair_switch_state.json; NoSwitch when it is missing
  pause,       \* the global risk pause of the guard
  restart,     \* live_restart_required
  evidence,    \* the generation the running process verified evidence for
  armed,       \* adapter.enabled and the entry switch
  pc, target,  \* step of the main thread, and the pair its command is about
  ft,          \* Freqtrade: loaded whitelist, loaded stake pair, state read by the loop
  beat,        \* file signal_seam_heartbeat.json
  inbox,       \* signals not processed yet: the state each was made for
  trade,       \* the nonterminal trade record: the state its signal was made for
  proven,      \* history: generations under which Freqtrade ran with exactly their pair
  fails, crashes

files == <<state, pairlist, overlay>>
freq  == <<ft, beat, inbox, proven>>
vars  == <<mode, files, switch, pause, restart, evidence, armed, pc, target, freq, trade,
           fails, crashes>>

Steps == {"down", "idle", "pausing", "reconciling", "verify", "blocked", "waiting",
          "recheck", "verify2", "applying", "publish1", "publish2", "publish3",
          "verifying", "register", "latch", "pause", "reconcile", "arm", "activate"}

TypeOK ==
  /\ mode \in Modes
  /\ state \in State /\ pairlist \in State /\ overlay \in Pairs
  /\ switch \in Switch
  /\ pause \in BOOLEAN /\ restart \in BOOLEAN /\ armed \in BOOLEAN
  /\ evidence \in 0..MaxGen
  /\ pc \in Steps /\ target \in Pairs \cup {NoPair}
  /\ ft \in [list : Pairs, stake : Pairs, seen : State \cup {NoSeen}]
  /\ beat \in [seen : State \cup {NoSeen}, one : BOOLEAN, fresh : BOOLEAN]
  /\ inbox \subseteq State
  /\ trade \in State \cup {NoTrade}
  /\ proven \subseteq Generations
  /\ fails \in Nat /\ crashes \in 0..MaxCrashes

\* The files as bootstrap leaves them on a first start.
Init ==
  /\ mode \in Modes
  /\ \E p \in Pairs :
       /\ state = [pair |-> p, gen |-> 1]
       /\ ft = [list |-> p, stake |-> p, seen |-> NoSeen]
       /\ overlay = p
  /\ pairlist = state
  /\ switch = NoSwitch
  /\ pause = FALSE /\ restart = FALSE /\ armed = FALSE /\ evidence = 0
  /\ pc = "down" /\ target = NoPair
  /\ beat = NoBeat /\ inbox = {} /\ trade = NoTrade /\ proven = {}
  /\ fails = IF mode = "live" THEN LiveFailures ELSE TestnetFailures
  /\ crashes = 0

-----------------------------------------------------------------------------
(* What the controller reads *)

Agree == pairlist = state /\ overlay = state.pair

\* switch_status raises PairStateError.
StatusRaises == /\ switch # NoSwitch
                /\ switch.active # state.pair
                /\ switch.stage \notin {"VERIFYING_PAIR", "PAUSED_READY", "ACTIVE"}

MayBegin     == ~StatusRaises /\ switch.stage \in {"ACTIVE", "PAUSED_READY", "BLOCKED"}
ResumeReady  == ~StatusRaises /\ switch.stage \in {"ACTIVE", "PAUSED_READY"}
\* Mutant: the whitelist counts of the heartbeat are not looked at.
PairReadyAnyList == beat.fresh /\ beat.seen = state
\* freqtrade_pair_ready: a fresh heartbeat with the exact pair and generation.
PairReady == beat.fresh /\ beat.one /\ beat.seen = state
\* Mutant: only a trade in the target pair counts.
FlatTarget == trade.pair # target
\* verify_flat_for_switch answers ok only without a nonterminal record.
Flat == trade = NoTrade

-----------------------------------------------------------------------------
(* Durable writes *)

Go(to) == pc' = to

Stage(stage, tgt) ==
  switch' = [stage |-> stage, active |-> state.pair, target |-> tgt,
             checked |-> \/ stage = "WAITING_MANUAL_SWAP"
                         \/ switch.checked /\ stage \notin {"ACTIVE", "PAUSING"}]

\* A write that fails raises; the handler goes on at step onError.
WriteFails(onError) == /\ fails > 0 /\ fails' = fails - 1 /\ Go(onError)

Disarmed == armed' = FALSE

-----------------------------------------------------------------------------
(* switch_pair: begin_switch *)

\* Mutant: the command does not disarm first.
SwitchPairArmed(t) ==
  /\ pc = "idle" /\ MayBegin /\ t # state.pair /\ Go("pausing") /\ target' = t
  /\ UNCHANGED <<mode, files, switch, pause, restart, evidence, armed, freq, trade, fails, crashes>>

SwitchPair(t) ==
  /\ pc = "idle"
  /\ Disarmed
  /\ \/ MayBegin /\ t # state.pair /\ Go("pausing") /\ target' = t /\ UNCHANGED switch
     \/ MayBegin /\ t = state.pair /\ Go("idle") /\ Stage("ACTIVE", NoPair) /\ UNCHANGED target
     \/ Go("idle") /\ UNCHANGED <<switch, target>>     \* refused, or a failing read or write
  /\ UNCHANGED <<mode, files, pause, restart, evidence, freq, trade, fails, crashes>>
\* _switch_state at the step of a handler: at pc, write stage, then go to next.
SwitchWrite(at, stage, next, onError) ==
  /\ pc = at
  /\ \/ Stage(stage, target) /\ Go(next) /\ UNCHANGED fails
     \/ WriteFails(onError) /\ UNCHANGED switch
  /\ UNCHANGED <<mode, files, pause, restart, evidence, armed, target, freq, trade, crashes>>

Pausing     == SwitchWrite("pausing", "PAUSING", "reconciling", "idle")
Reconciling == SwitchWrite("reconciling", "RECONCILING", "verify", "idle")

\* The adapter pauses entries and the guard, looks at records, intents, orders and lists.
VerifyFlat(at, next) ==
  /\ pc = at
  /\ Disarmed /\ pause' = TRUE
  /\ \/ Flat /\ Go(next)
     \/ Go("blocked")            \* not flat, an enumeration that fails, a target that is refused
  /\ UNCHANGED <<mode, files, switch, restart, evidence, target, freq, trade, fails, crashes>>

Verify == VerifyFlat("verify", "waiting")
Block  == SwitchWrite("blocked", "BLOCKED", "idle", "idle")
Await  == SwitchWrite("waiting", "WAITING_MANUAL_SWAP", "idle", "idle")

-----------------------------------------------------------------------------
(* complete_pair_switch: complete_switch, then the restart latch *)

CompletePairSwitch ==
  /\ pc = "idle"
  /\ Disarmed
  /\ IF ~StatusRaises /\ switch.stage = "WAITING_MANUAL_SWAP" /\ state.gen < MaxGen
     THEN Go("recheck") /\ target' = switch.target
     ELSE UNCHANGED <<pc, target>>
  /\ UNCHANGED <<mode, files, switch, pause, restart, evidence, freq, trade, fails, crashes>>

Recheck  == SwitchWrite("recheck", "RECONCILING", "verify2", "idle")
Verify2  == VerifyFlat("verify2", "applying")
Applying == SwitchWrite("applying", "APPLYING_PAIR", "publish1", "idle")

NextState == [pair |-> target, gen |-> state.gen + 1]

\* _publish: the projections first, the authority last.
Publish1 ==
  /\ pc = "publish1"
  /\ \/ pairlist' = NextState /\ Go("publish2") /\ UNCHANGED fails
     \/ WriteFails("blocked") /\ UNCHANGED pairlist
  /\ UNCHANGED <<mode, state, overlay, switch, pause, restart, evidence, armed, target, freq,
                 trade, crashes>>
Publish2 ==
  /\ pc = "publish2"
  /\ \/ overlay' = target /\ Go("publish3") /\ UNCHANGED fails
     \/ WriteFails("blocked") /\ UNCHANGED overlay
  /\ UNCHANGED <<mode, state, pairlist, switch, pause, restart, evidence, armed, target, freq,
                 trade, crashes>>
Publish3 ==
  /\ pc = "publish3"
  /\ \/ state' = NextState /\ Go("verifying") /\ UNCHANGED fails
     \/ WriteFails("blocked") /\ UNCHANGED state
  /\ UNCHANGED <<mode, pairlist, overlay, switch, pause, restart, evidence, armed, target, freq,
                 trade, crashes>>
Verifying == SwitchWrite("verifying", "VERIFYING_PAIR", "register", "idle")

\* register_symbol_pair; in live mode then live_restart_required and the risk pause.
Register ==
  /\ pc = "register"
  /\ \/ Go(IF mode = "live" THEN "latch" ELSE "idle") /\ UNCHANGED fails
     \/ WriteFails("idle")
  /\ UNCHANGED <<mode, files, switch, pause, restart, evidence, armed, target, freq, trade, crashes>>
\* Mutant: only the risk pause is set, which the owner may clear.
LatchPauseOnly ==
  /\ pc = "latch" /\ Go("pause")
  /\ UNCHANGED <<mode, files, switch, pause, restart, evidence, armed, target, freq, trade, fails,
                 crashes>>
\* state.data is changed before it is saved, so the latch holds in this process in any case.
Latch ==
  /\ pc = "latch"
  /\ restart' = TRUE
  /\ \/ Go("pause") /\ UNCHANGED fails
     \/ WriteFails("idle")
  /\ UNCHANGED <<mode, files, switch, pause, evidence, armed, target, freq, trade, crashes>>
PauseLive ==
  /\ pc = "pause" /\ pause' = TRUE /\ Go("idle")
  /\ UNCHANGED <<mode, files, switch, restart, evidence, armed, target, freq, trade, fails, crashes>>

-----------------------------------------------------------------------------
(* verify_pair_switch, entries on and off, clear_risk_pause, emergency *)

\* mark_pair_verified on the proof of freqtrade_pair_ready.
VerifyPairSwitch ==
  /\ pc = "idle"
  /\ PairReady /\ ~StatusRaises /\ switch.stage = "VERIFYING_PAIR" /\ switch.target = state.pair
  /\ \/ Stage("PAUSED_READY", state.pair) /\ UNCHANGED <<pc, fails>>
     \/ WriteFails("idle") /\ UNCHANGED switch
  /\ UNCHANGED <<mode, files, pause, restart, evidence, armed, target, freq, trade, crashes>>

\* entries on: the checks, then adapter.set_enabled with its reconciliation, then the entry
\* switch, then the stage.
EntriesOn ==
  /\ pc = "idle"
  /\ ResumeReady /\ PairReady /\ ~pause
  /\ ~(mode = "live" /\ restart)
  /\ Go("reconcile")
  /\ UNCHANGED <<mode, files, switch, pause, restart, evidence, armed, target, freq, trade, fails,
                 crashes>>
Reconcile ==
  /\ pc = "reconcile"
  /\ \/ Go("arm") /\ UNCHANGED pause
     \/ Go("idle") /\ pause' = TRUE
  /\ UNCHANGED <<mode, files, switch, restart, evidence, armed, target, freq, trade, fails, crashes>>
\* set_entries changes the switch in memory and then saves it: a failing save leaves it on.
Arm ==
  /\ pc = "arm"
  /\ armed' = TRUE
  /\ \/ Go(IF switch.stage = "ACTIVE" THEN "idle" ELSE "activate") /\ UNCHANGED fails
     \/ WriteFails("idle")
  /\ UNCHANGED <<mode, files, switch, pause, restart, evidence, target, freq, trade, crashes>>
\* mark_active_after_resume; when its write fails the sidecar disarms.
Activate ==
  /\ pc = "activate"
  /\ Go("idle")
  /\ \/ Stage("ACTIVE", NoPair) /\ UNCHANGED <<armed, fails>>
     \/ WriteFails("idle") /\ Disarmed /\ UNCHANGED switch
  /\ UNCHANGED <<mode, files, pause, restart, evidence, target, freq, trade, crashes>>

EntriesOff ==
  /\ pc = "idle" /\ armed /\ Disarmed
  /\ UNCHANGED <<mode, files, switch, pause, restart, evidence, pc, target, freq, trade, fails,
                 crashes>>

ClearRiskPause ==
  /\ pc = "idle" /\ pause /\ pause' = FALSE
  /\ UNCHANGED <<mode, files, switch, restart, evidence, armed, pc, target, freq, trade, fails,
                 crashes>>

-----------------------------------------------------------------------------
(* The main loop: signals, the check at the end of a cycle, start and death *)

\* process_signal and submit: the signal's pair and hash are those of the active state.
Admissible(s) == s = state

ProcessSignal(s) ==
  /\ pc = "idle" /\ s \in inbox
  /\ inbox' = inbox \ {s}
  /\ trade' = IF armed /\ Admissible(s) /\ ~pause /\ trade = NoTrade THEN s ELSE trade
  /\ UNCHANGED <<mode, files, switch, pause, restart, evidence, armed, pc, target, ft, beat, proven,
                 fails, crashes>>

TradeCloses ==
  /\ trade # NoTrade /\ pc = "idle" /\ trade' = NoTrade
  /\ UNCHANGED <<mode, files, switch, pause, restart, evidence, armed, pc, target, freq, fails,
                 crashes>>

\* The end of a cycle: a lost proof disarms; switch_status raising ends the process.
LoopEnds ==
  /\ pc = "idle"
  /\ \/ ~StatusRaises /\ armed /\ ~PairReady /\ Disarmed /\ UNCHANGED pc
     \/ StatusRaises /\ Disarmed /\ Go("down")
  /\ UNCHANGED <<mode, files, switch, pause, restart, evidence, target, freq, trade, fails, crashes>>

\* bootstrap, live_interlock and start of the adapter; entries are off.
Boot ==
  /\ pc = "down" /\ Agree
  /\ Go("idle") /\ Disarmed
  /\ evidence' = IF mode = "live" THEN state.gen ELSE 0
  /\ restart' = (restart /\ mode # "live")
  /\ UNCHANGED <<mode, files, switch, pause, target, freq, trade, fails, crashes>>

Crash ==
  /\ pc # "down" /\ crashes < MaxCrashes
  /\ crashes' = crashes + 1 /\ Go("down") /\ Disarmed
  /\ UNCHANGED <<mode, files, switch, pause, restart, evidence, target, freq, trade, fails>>

-----------------------------------------------------------------------------
(* Freqtrade *)

\* The pairlist is read again every refresh_period; the configuration only by a reload,
\* which the broker asks for after a completed change.  A whitelisted pair must have the
\* stake currency.
FtRefresh ==
  /\ ft.list # pairlist.pair
  /\ ft' = [ft EXCEPT !.list = pairlist.pair]
  /\ UNCHANGED <<mode, files, switch, pause, restart, evidence, armed, pc, target, beat, inbox,
                 proven, trade, fails, crashes>>
FtReload ==
  /\ ft' = [list |-> pairlist.pair, stake |-> overlay, seen |-> NoSeen]
  /\ ft' # ft
  /\ UNCHANGED <<mode, files, switch, pause, restart, evidence, armed, pc, target, beat, inbox,
                 proven, trade, fails, crashes>>

\* bot_loop_start reads the pair state, then the whitelist, emits and writes the heartbeat.
FtRead ==
  /\ ft.seen = NoSeen
  /\ ft' = [ft EXCEPT !.seen = state]
  /\ UNCHANGED <<mode, files, switch, pause, restart, evidence, armed, pc, target, beat, inbox,
                 proven, trade, fails, crashes>>
OnlyActive == ft.list = ft.stake /\ ft.list = ft.seen.pair
FtBeat ==
  /\ ft.seen # NoSeen
  /\ beat' = [seen |-> ft.seen, one |-> OnlyActive, fresh |-> TRUE]
  /\ proven' = IF ft.list = ft.stake /\ ft.list = ft.seen.pair THEN proven \cup {ft.seen.gen}
               ELSE proven
  /\ ft' = [ft EXCEPT !.seen = NoSeen]
  /\ UNCHANGED <<mode, files, switch, pause, restart, evidence, armed, pc, target, inbox, trade,
                 fails, crashes>>
\* _emit_signal reads the state once more.
FtEmit ==
  /\ ft.seen # NoSeen /\ OnlyActive /\ state.pair = ft.list
  /\ inbox = {} /\ inbox' = {state}
  /\ UNCHANGED <<mode, files, switch, pause, restart, evidence, armed, pc, target, ft, beat, proven,
                 trade, fails, crashes>>
HeartbeatAges ==
  /\ beat.fresh /\ beat' = [beat EXCEPT !.fresh = FALSE]
  /\ UNCHANGED <<mode, files, switch, pause, restart, evidence, armed, pc, target, ft, inbox, proven,
                 trade, fails, crashes>>

-----------------------------------------------------------------------------
Begin     == (\E t \in Pairs : SwitchPair(t)) \/ Pausing \/ Reconciling \/ Verify \/ Block \/ Await
Complete  == \/ CompletePairSwitch \/ Recheck \/ Verify2 \/ Applying \/ Publish1 \/ Publish2
             \/ Publish3 \/ Verifying \/ Register \/ Latch \/ PauseLive
Arming    == VerifyPairSwitch \/ EntriesOn \/ Reconcile \/ Arm \/ Activate \/ EntriesOff \/ ClearRiskPause
Loop      == (\E s \in State : ProcessSignal(s)) \/ TradeCloses \/ LoopEnds \/ Boot \/ Crash
Freqtrade == FtRefresh \/ FtReload \/ FtRead \/ FtBeat \/ FtEmit \/ HeartbeatAges

Next == Begin \/ Complete \/ Arming \/ Loop \/ Freqtrade

Spec == Init /\ [][Next]_vars

-----------------------------------------------------------------------------
(* Properties *)

\* README.md:123-125: entries are armed only for a generation under which Freqtrade has run
\* with exactly that pair, and only in a settled or verified stage (freqtrade_pair_ready,
\* require_resume_ready), whatever writes failed and whichever files disagree; a verified
\* change has been proved under the generation it published, also when the pair returns to an
\* earlier one (mark_pair_verified).
ArmedProven ==
  /\ armed => /\ state.gen \in proven
              /\ switch.stage \in {"ACTIVE", "PAUSED_READY"} /\ ~StatusRaises
  /\ switch.stage = "PAUSED_READY" => state.gen \in proven

\* The nonterminal trade always belongs to the active pair and generation: no change strands
\* it, and no signal of an earlier generation opens one (begin_switch, complete_switch,
\* process_signal).
TradeOfGeneration == trade # NoTrade => trade = state

\* README.md:125-128: in live mode entries are armed only under evidence of the active
\* generation (the restart latch of complete_pair_switch, live_interlock).
LiveArmedEvidence == armed /\ mode = "live" => evidence = state.gen

\* README.md:114-128: the sidecar follows the documented sequence of a pair change, across
\* failing writes and process deaths.
Phase ==
  CASE switch.stage = "ACTIVE"              -> "settled"
    [] switch.stage = "WAITING_MANUAL_SWAP" -> "waiting"
    [] switch.stage = "VERIFYING_PAIR"      -> "applied"
    [] switch.stage = "PAUSED_READY"        -> "verified"
    [] switch.stage = "BLOCKED"             -> "blocked"
    [] switch.stage = "PAUSING"             -> "chosen"
    [] switch.stage = "RECONCILING"   -> IF switch.checked THEN "confirmed" ELSE "chosen"
    [] switch.stage = "APPLYING_PAIR" -> IF switch.active = state.pair THEN "confirmed" ELSE "applied"

Sequence == INSTANCE PairSequence WITH active <- state, step <- Phase, on <- armed
ImplementsSequence == Sequence!ASpec

=============================================================================
