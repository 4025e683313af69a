-------------------------- MODULE PairSwitchProofs --------------------------
(***************************************************************************)
(* Proofs about PairSwitch: its types, what the sidecar knows at each step  *)
(* of a change, the safety of arming, and the refinement of PairSequence.   *)
(***************************************************************************)
EXTENDS PairSwitch, TLAPS

-----------------------------------------------------------------------------
(***************************************************************************)
(* The inductive invariant.                                                 *)
(***************************************************************************)

\* Steps of a change that still has to publish its target.
Changing == {"pausing", "reconciling", "verify", "waiting",
             "recheck", "verify2", "applying", "publish1", "publish2", "publish3"}
Publishing == {"publish1", "publish2", "publish3"}

\* The stage on disk at each step that depends on it.
StageInv ==
  /\ pc = "pausing" => switch.stage \in {"ACTIVE", "PAUSED_READY", "BLOCKED"}
  /\ pc = "reconciling" => switch.stage = "PAUSING"
  /\ pc \in {"verify", "waiting"} => switch.stage = "RECONCILING" /\ ~switch.checked
  /\ pc = "recheck" => switch.stage = "WAITING_MANUAL_SWAP"
  /\ pc \in {"verify2", "applying"} => switch.stage = "RECONCILING" /\ switch.checked
  /\ pc \in Publishing => switch.stage = "APPLYING_PAIR" /\ switch.active = state.pair
  /\ pc = "blocked" => \/ switch.stage = "RECONCILING"
                       \/ switch.stage = "APPLYING_PAIR" /\ switch.active = state.pair
  /\ pc = "verifying" => switch.stage = "APPLYING_PAIR" /\ switch.active # state.pair
  /\ pc = "activate" => switch.stage = "PAUSED_READY"

\* Whatever step the process died at, the file of a change says what was checked and for
\* which pair.
FileInv ==
  /\ switch.stage \in {"ACTIVE", "PAUSING"} => ~switch.checked
  /\ switch.stage = "WAITING_MANUAL_SWAP" =>
       switch.checked /\ switch.target \in Pairs \ {state.pair}

\* The target of a change that is under way is another pair, its generation is free, and
\* from the second verification on there is no trade.
TargetInv ==
  /\ pc \in Changing => target \in Pairs \ {state.pair}
  /\ pc \in {"recheck", "verify2", "applying"} \cup Publishing => state.gen < MaxGen
  /\ pc \in {"applying"} \cup Publishing => trade = NoTrade

\* Entries are on only between commands and while they are switched on.
ArmingInv ==
  /\ armed => pc \in {"idle", "reconcile", "arm", "activate"}
  /\ pc \in {"reconcile", "arm"} =>
       switch.stage \in {"ACTIVE", "PAUSED_READY"} /\ state.gen \in proven
  /\ beat.one => beat.seen.gen \in proven

\* Live mode without failing writes: until the latch of a published pair is set, or evidence of
\* its generation is verified, the process does not take commands.
LiveInv ==
  mode = "live" /\ LiveFailures = 0 =>
    /\ fails = 0
    /\ pc \notin {"down", "verifying", "register", "latch"} => restart \/ evidence = state.gen
    /\ armed \/ pc \in {"reconcile", "arm"} => evidence = state.gen

IInv == /\ TypeOK /\ StageInv /\ FileInv /\ TargetInv /\ ArmingInv /\ LiveInv
        /\ ArmedProven /\ TradeOfGeneration

-----------------------------------------------------------------------------
(***************************************************************************)
(* Types.                                                                   *)
(***************************************************************************)
LEMMA StageType ==
  ASSUME TypeOK, NEW stage \in Stages, NEW t \in Pairs \cup {NoPair}, Stage(stage, t)
  PROVE  /\ switch' \in Switch
         /\ switch'.stage = stage /\ switch'.active = state.pair /\ switch'.target = t
         /\ switch'.checked = \/ stage = "WAITING_MANUAL_SWAP"
                              \/ switch.checked /\ stage \notin {"ACTIVE", "PAUSING"}
BY DEF Stage, TypeOK, Switch, State

LEMMA StateType ==
  ASSUME TypeOK
  PROVE  /\ state.pair \in Pairs /\ state.gen \in Generations
         /\ switch.target \in Pairs \cup {NoPair}
BY DEF TypeOK, State, Switch

\* A write of the switch file leaves it and the failures well typed.
LEMMA SwitchWriteType ==
  ASSUME TypeOK, NEW at, NEW stage \in Stages, NEW next \in Steps, NEW onError \in Steps,
         SwitchWrite(at, stage, next, onError)
  PROVE  TypeOK'
<1>1. UNCHANGED <<mode, files, pause, restart, evidence, armed, target, freq, trade, crashes>>
  BY DEF SwitchWrite
<1>2. CASE Stage(stage, target) /\ Go(next) /\ UNCHANGED fails
  <2>1. switch' \in Switch
    BY <1>2, StageType DEF TypeOK
  <2> QED
    BY <1>1, <1>2, <2>1 DEF TypeOK, Go, files, freq
<1>3. CASE WriteFails(onError) /\ UNCHANGED switch
  BY <1>1, <1>3 DEF TypeOK, WriteFails, Go, files, freq
<1> QED
  BY <1>2, <1>3 DEF SwitchWrite

LEMMA TypesBegin == ASSUME TypeOK, Begin PROVE TypeOK'
<1> USE DEF files, freq, Go, Disarmed, Steps, Stages
<1>1. ASSUME NEW t \in Pairs, SwitchPair(t) PROVE TypeOK'
  <2>1. switch' \in Switch
    <3>1. CASE Stage("ACTIVE", NoPair)
      BY <3>1, StageType
    <3>2. CASE switch' = switch
      BY <3>2 DEF TypeOK
    <3> QED BY <1>1, <3>1, <3>2 DEF SwitchPair
  <2>2. target' \in Pairs \cup {NoPair} /\ pc' \in {"idle", "pausing"} /\ armed' = FALSE
    BY <1>1 DEF SwitchPair, TypeOK
  <2>3. UNCHANGED <<mode, files, pause, restart, evidence, freq, trade, fails, crashes>>
    BY <1>1 DEF SwitchPair
  <2> QED BY <2>1, <2>2, <2>3 DEF TypeOK
<1>2. CASE Pausing \/ Reconciling \/ Block \/ Await
  <2>1. CASE Pausing
    BY <2>1, SwitchWriteType DEF Pausing
  <2>2. CASE Reconciling
    BY <2>2, SwitchWriteType DEF Reconciling
  <2>3. CASE Block
    BY <2>3, SwitchWriteType DEF Block
  <2>4. CASE Await
    BY <2>4, SwitchWriteType DEF Await
  <2> QED BY <1>2, <2>1, <2>2, <2>3, <2>4
<1>3. CASE Verify
  BY <1>3 DEF Verify, VerifyFlat, TypeOK
<1> QED
  BY <1>1, <1>2, <1>3 DEF Begin

LEMMA TypesComplete == ASSUME TypeOK, TargetInv, Complete PROVE TypeOK'
<1> USE DEF files, freq, Go, Disarmed, Steps, Stages
<1>1. CASE CompletePairSwitch
  BY <1>1, StateType DEF CompletePairSwitch, TypeOK
<1>2. CASE Recheck \/ Applying \/ Verifying
  BY <1>2, SwitchWriteType DEF Recheck, Applying, Verifying
<1>3. CASE Verify2
  BY <1>3 DEF Verify2, VerifyFlat, TypeOK
<1>4. CASE Publish1 \/ Publish2 \/ Publish3
  <2>1. NextState \in State /\ target \in Pairs
    BY <1>4, StateType, PairAssumption
       DEF Publish1, Publish2, Publish3, TargetInv, Changing, Publishing, NextState, State, Generations
  <2> QED
    BY <1>4, <2>1 DEF Publish1, Publish2, Publish3, WriteFails, TypeOK
<1>5. CASE Register
  BY <1>5 DEF Register, WriteFails, TypeOK
<1>6. CASE Latch
  <2>1. pc' \in Steps /\ fails' \in Nat
    BY <1>6 DEF Latch, WriteFails, TypeOK
  <2> QED
    BY <1>6, <2>1 DEF Latch, TypeOK
<1>7. CASE PauseLive
  BY <1>7 DEF PauseLive, TypeOK
<1> QED
  BY <1>1, <1>2, <1>3, <1>4, <1>5, <1>6, <1>7 DEF Complete

LEMMA TypesArming == ASSUME TypeOK, Arming PROVE TypeOK'
<1> USE DEF files, freq, Go, Disarmed, Steps, Stages
<1>1. CASE VerifyPairSwitch
  <2>1. switch' \in Switch
    BY <1>1, StateType, StageType DEF VerifyPairSwitch, TypeOK
  <2> QED
    BY <1>1, <2>1 DEF VerifyPairSwitch, WriteFails, TypeOK
<1>2. CASE Activate
  <2>1. switch' \in Switch
    BY <1>2, StageType DEF Activate, TypeOK
  <2>2. fails' \in Nat
    BY <1>2 DEF Activate, WriteFails, TypeOK
  <2>3. armed' = armed \/ armed' = FALSE
    BY <1>2 DEF Activate
  <2>4. armed' \in BOOLEAN
    BY <2>3 DEF TypeOK
  <2> QED
    BY <1>2, <2>1, <2>2, <2>4 DEF Activate, TypeOK
<1>3. CASE EntriesOn \/ Reconcile \/ EntriesOff \/ ClearRiskPause
  BY <1>3 DEF EntriesOn, Reconcile, EntriesOff, ClearRiskPause, TypeOK
<1>4. CASE Arm
  BY <1>4 DEF Arm, WriteFails, TypeOK
<1> QED
  BY <1>1, <1>2, <1>3, <1>4 DEF Arming

LEMMA TypesLoop == ASSUME TypeOK, Loop PROVE TypeOK'
<1> USE DEF files, freq, Go, Disarmed, Steps
<1>1. ASSUME NEW s \in State, ProcessSignal(s) PROVE TypeOK'
  BY <1>1 DEF ProcessSignal, TypeOK
<1>2. CASE TradeCloses \/ LoopEnds
  BY <1>2 DEF TradeCloses, LoopEnds, TypeOK
<1>3. CASE Boot
  <2>1. restart' \in BOOLEAN /\ evidence' \in 0..MaxGen
    BY <1>3, StateType, PairAssumption DEF Boot, Generations
  <2> QED
    BY <1>3, <2>1 DEF Boot, TypeOK
<1>4. CASE Crash
  <2>1. crashes' \in 0..MaxCrashes
    BY <1>4, PairAssumption DEF Crash, TypeOK
  <2> QED
    BY <1>4, <2>1 DEF Crash, TypeOK
<1> QED
  BY <1>1, <1>2, <1>3, <1>4 DEF Loop

LEMMA TypesFreqtrade == ASSUME TypeOK, Freqtrade PROVE TypeOK'
<1> USE DEF files, freq
<1> DEFINE Ft == [list : Pairs, stake : Pairs, seen : State \cup {NoSeen}]
           Beat == [seen : State \cup {NoSeen}, one : BOOLEAN, fresh : BOOLEAN]
<1>1. /\ ft.list \in Pairs /\ ft.stake \in Pairs /\ ft.seen \in State \cup {NoSeen}
      /\ beat.seen \in State \cup {NoSeen} /\ beat.one \in BOOLEAN /\ beat.fresh \in BOOLEAN
      /\ pairlist.pair \in Pairs /\ overlay \in Pairs
  BY DEF TypeOK, State
<1>2. CASE FtRefresh \/ FtReload \/ FtRead
  BY <1>1, <1>2 DEF FtRefresh, FtReload, FtRead, TypeOK
<1>3. CASE FtBeat
  <2>1. ft.seen \in State /\ ft.seen.gen \in Generations /\ OnlyActive \in BOOLEAN
    BY <1>1, <1>3 DEF FtBeat, State, OnlyActive
  <2> QED
    BY <1>1, <1>3, <2>1 DEF FtBeat, TypeOK
<1>4. CASE FtEmit \/ HeartbeatAges
  BY <1>1, <1>4 DEF FtEmit, HeartbeatAges, TypeOK
<1> QED
  BY <1>2, <1>3, <1>4 DEF Freqtrade

LEMMA TypesNext == ASSUME IInv, [Next]_vars PROVE TypeOK'
<1>1. CASE Next
  BY <1>1, TypesBegin, TypesComplete, TypesArming, TypesLoop, TypesFreqtrade DEF IInv, Next
<1>2. CASE UNCHANGED vars
  BY <1>2 DEF IInv, vars, files, freq, TypeOK
<1> QED
  BY <1>1, <1>2

-----------------------------------------------------------------------------
(***************************************************************************)
(* The steps of a change.                                                   *)
(***************************************************************************)

\* Freqtrade writes nothing that the sidecar decides on, except its heartbeat.
LEMMA FreqtradeFrame ==
  ASSUME Freqtrade
  PROVE  UNCHANGED <<mode, files, switch, pause, restart, evidence, armed, pc, target, trade,
                     fails, crashes>>
BY DEF Freqtrade, FtRefresh, FtReload, FtRead, FtBeat, FtEmit, HeartbeatAges

LEMMA StageNext == ASSUME IInv, Next PROVE StageInv'
<1> USE DEF IInv, StageInv, Publishing, files, Go, Disarmed, WriteFails, SwitchWrite, Stage
<1>1. CASE Begin
  <2>1. ASSUME NEW t \in Pairs, SwitchPair(t) PROVE StageInv'
    BY <2>1 DEF SwitchPair, MayBegin
  <2>2. CASE Pausing \/ Reconciling
    BY <2>2, StateType DEF Pausing, Reconciling, FileInv
  <2>3. CASE Verify
    BY <2>3 DEF Verify, VerifyFlat
  <2>4. CASE Block \/ Await
    BY <2>4 DEF Block, Await
  <2> QED
    BY <1>1, <2>1, <2>2, <2>3, <2>4 DEF Begin
<1>2. CASE Complete
  <2>1. CASE CompletePairSwitch \/ Recheck \/ Verify2 \/ Applying
    BY <2>1, StateType DEF CompletePairSwitch, Recheck, Verify2, VerifyFlat, Applying, FileInv
  <2>2. CASE Publish1 \/ Publish2 \/ Publish3
    BY <2>2 DEF Publish1, Publish2, Publish3, NextState, TargetInv, Changing
  <2>3. CASE Verifying \/ Register \/ Latch \/ PauseLive
    BY <2>3 DEF Verifying, Register, Latch, PauseLive
  <2> QED
    BY <1>2, <2>1, <2>2, <2>3 DEF Complete
<1>3. CASE Arming
  <2>1. CASE VerifyPairSwitch
    BY <2>1 DEF VerifyPairSwitch
  <2>2. CASE EntriesOn \/ Reconcile
    BY <2>2 DEF EntriesOn, Reconcile
  <2>3. CASE Arm \/ Activate \/ EntriesOff \/ ClearRiskPause
    BY <2>3 DEF Arm, Activate, EntriesOff, ClearRiskPause, ArmingInv
  <2> QED
    BY <1>3, <2>1, <2>2, <2>3 DEF Arming
<1>4. CASE Loop
  BY <1>4 DEF Loop, ProcessSignal, TradeCloses, LoopEnds, Boot, Crash
<1>5. CASE Freqtrade
  BY <1>5, FreqtradeFrame
<1> QED
  BY <1>1, <1>2, <1>3, <1>4, <1>5 DEF Next

LEMMA FileNext == ASSUME IInv, Next PROVE FileInv'
<1> USE DEF IInv, FileInv, files, Go, Disarmed, WriteFails, SwitchWrite, Stage
<1>1. CASE Begin
  BY <1>1 DEF Begin, SwitchPair, Pausing, Reconciling, Verify, VerifyFlat, Block, Await,
              StageInv, TargetInv, Changing
<1>2. CASE Complete
  <2>1. CASE CompletePairSwitch \/ Recheck \/ Verify2 \/ Applying
    BY <2>1 DEF CompletePairSwitch, Recheck, Verify2, VerifyFlat, Applying
  <2>2. CASE Publish1 \/ Publish2 \/ Publish3
    BY <2>2 DEF Publish1, Publish2, Publish3, StageInv, Publishing
  <2>3. CASE Verifying \/ Register \/ Latch \/ PauseLive
    BY <2>3 DEF Verifying, Register, Latch, PauseLive
  <2> QED
    BY <1>2, <2>1, <2>2, <2>3 DEF Complete
<1>3. CASE Arming
  BY <1>3 DEF Arming, VerifyPairSwitch, EntriesOn, Reconcile, Arm, Activate, EntriesOff, ClearRiskPause
<1>4. CASE Loop
  BY <1>4 DEF Loop, ProcessSignal, TradeCloses, LoopEnds, Boot, Crash
<1>5. CASE Freqtrade
  BY <1>5, FreqtradeFrame
<1> QED
  BY <1>1, <1>2, <1>3, <1>4, <1>5 DEF Next

LEMMA TargetNext == ASSUME IInv, Next PROVE TargetInv' /\ TradeOfGeneration'
<1> USE DEF IInv, TargetInv, TradeOfGeneration, Changing, Publishing, files, freq, Go, Disarmed,
            WriteFails, SwitchWrite
<1>1. CASE Begin
  <2>1. UNCHANGED <<state, trade>>
    BY <1>1 DEF Begin, SwitchPair, Pausing, Reconciling, Verify, VerifyFlat, Block, Await
  <2> QED
    BY <1>1, <2>1 DEF Begin, SwitchPair, Pausing, Reconciling, Verify, VerifyFlat, Block, Await
<1>2. CASE Complete
  <2>1. CASE CompletePairSwitch
    BY <2>1 DEF CompletePairSwitch, FileInv
  <2>2. CASE Recheck \/ Verify2 \/ Applying
    BY <2>2 DEF Recheck, Verify2, VerifyFlat, Flat, Applying
  <2>3. CASE Publish1 \/ Publish2 \/ Publish3
    BY <2>3 DEF Publish1, Publish2, Publish3
  <2>4. CASE Verifying \/ Register \/ Latch \/ PauseLive
    BY <2>4 DEF Verifying, Register, Latch, PauseLive
  <2> QED
    BY <1>2, <2>1, <2>2, <2>3, <2>4 DEF Complete
<1>3. CASE Arming
  BY <1>3 DEF Arming, VerifyPairSwitch, EntriesOn, Reconcile, Arm, Activate, EntriesOff, ClearRiskPause
<1>4. CASE Loop
  BY <1>4 DEF Loop, ProcessSignal, Admissible, TradeCloses, LoopEnds, Boot, Crash
<1>5. CASE Freqtrade
  BY <1>5, FreqtradeFrame
<1> QED
  BY <1>1, <1>2, <1>3, <1>4, <1>5 DEF Next

-----------------------------------------------------------------------------
(***************************************************************************)
(* Arming.                                                                  *)
(***************************************************************************)

\* A heartbeat that names only the active pair is written by a Freqtrade that runs with it.
LEMMA BeatProven ==
  ASSUME TypeOK, ArmingInv, Freqtrade
  PROVE  proven \subseteq proven' /\ (beat'.one => beat'.seen.gen \in proven')
<1>1. CASE FtBeat
  BY <1>1 DEF FtBeat, OnlyActive
<1>2. CASE FtRefresh \/ FtReload \/ FtRead \/ FtEmit
  BY <1>2 DEF FtRefresh, FtReload, FtRead, FtEmit, ArmingInv
<1>3. CASE HeartbeatAges
  BY <1>3 DEF HeartbeatAges, ArmingInv, TypeOK
<1> QED
  BY <1>1, <1>2, <1>3 DEF Freqtrade

LEMMA ArmingNext == ASSUME IInv, Next PROVE ArmingInv' /\ ArmedProven'
<1> USE DEF IInv, ArmingInv, ArmedProven, StatusRaises, files, freq, Go, Disarmed, WriteFails,
            SwitchWrite, Stage
<1>1. CASE Begin
  BY <1>1 DEF Begin, SwitchPair, MayBegin, Pausing, Reconciling, Verify, VerifyFlat, Block, Await
<1>2. CASE Complete
  <2>1. CASE CompletePairSwitch \/ Recheck \/ Verify2 \/ Applying
    BY <2>1 DEF CompletePairSwitch, Recheck, Verify2, VerifyFlat, Applying
  <2>2. CASE Publish1 \/ Publish2 \/ Publish3
    BY <2>2 DEF Publish1, Publish2, Publish3, StageInv, Publishing
  <2>3. CASE Verifying \/ Register \/ Latch \/ PauseLive
    BY <2>3 DEF Verifying, Register, Latch, PauseLive
  <2> QED
    BY <1>2, <2>1, <2>2, <2>3 DEF Complete
<1>3. CASE Arming
  <2>1. CASE VerifyPairSwitch
    BY <2>1 DEF VerifyPairSwitch, PairReady
  <2>2. CASE EntriesOn \/ Reconcile
    BY <2>2 DEF EntriesOn, Reconcile, ResumeReady, PairReady
  <2>3. CASE Arm \/ Activate
    BY <2>3 DEF Arm, Activate, StageInv
  <2>4. CASE EntriesOff \/ ClearRiskPause
    BY <2>4 DEF EntriesOff, ClearRiskPause
  <2> QED
    BY <1>3, <2>1, <2>2, <2>3, <2>4 DEF Arming
<1>4. CASE Loop
  BY <1>4 DEF Loop, ProcessSignal, TradeCloses, LoopEnds, Boot, Crash
<1>5. CASE Freqtrade
  BY <1>5, FreqtradeFrame, BeatProven
<1> QED
  BY <1>1, <1>2, <1>3, <1>4, <1>5 DEF Next

LEMMA LiveNext == ASSUME IInv, Next PROVE LiveInv'
<1> SUFFICES ASSUME mode = "live", LiveFailures = 0, mode' = "live"
             PROVE  LiveInv'
  BY DEF LiveInv, Next, Begin, SwitchPair, Pausing, Reconciling, Verify, VerifyFlat, Block, Await, SwitchWrite,
         Complete, CompletePairSwitch, Recheck, Verify2, Applying, Publish1, Publish2, Publish3, Verifying, Register,
         Latch, PauseLive, Arming, VerifyPairSwitch, EntriesOn, Reconcile, Arm, Activate,
         EntriesOff, ClearRiskPause, Loop, ProcessSignal, TradeCloses, LoopEnds, Boot, Crash, Freqtrade,
         FtRefresh, FtReload, FtRead, FtBeat, FtEmit, HeartbeatAges
<1>0. fails = 0
  BY DEF IInv, LiveInv
<1> USE <1>0 DEF IInv, LiveInv, files, freq, Go, Disarmed, WriteFails, SwitchWrite
<1>1. CASE Begin
  BY <1>1 DEF Begin, SwitchPair, Pausing, Reconciling, Verify, VerifyFlat, Block, Await, ArmingInv
<1>2. CASE Complete
  <2>1. CASE CompletePairSwitch \/ Recheck \/ Verify2 \/ Applying
    BY <2>1 DEF CompletePairSwitch, Recheck, Verify2, VerifyFlat, Applying, ArmingInv
  <2>2. CASE Publish1 \/ Publish2 \/ Publish3
    BY <2>2 DEF Publish1, Publish2, Publish3, ArmingInv
  <2>3. CASE Verifying \/ Register \/ Latch \/ PauseLive
    BY <2>3 DEF Verifying, Register, Latch, PauseLive, ArmingInv
  <2> QED
    BY <1>2, <2>1, <2>2, <2>3 DEF Complete
<1>3. CASE Arming
  <2>1. CASE VerifyPairSwitch \/ EntriesOn \/ Reconcile
    BY <2>1 DEF VerifyPairSwitch, EntriesOn, Reconcile
  <2>2. CASE Arm \/ Activate \/ EntriesOff \/ ClearRiskPause
    BY <2>2 DEF Arm, Activate, EntriesOff, ClearRiskPause
  <2> QED
    BY <1>3, <2>1, <2>2 DEF Arming
<1>4. CASE Loop
  BY <1>4 DEF Loop, ProcessSignal, TradeCloses, LoopEnds, Boot, Crash, ArmingInv
<1>5. CASE Freqtrade
  BY <1>5, FreqtradeFrame
<1> QED
  BY <1>1, <1>2, <1>3, <1>4, <1>5 DEF Next

-----------------------------------------------------------------------------
(***************************************************************************)
(* The theorems.                                                            *)
(***************************************************************************)
LEMMA InitIInv == Init => IInv
<1> SUFFICES ASSUME Init PROVE IInv
  OBVIOUS
<1>1. TypeOK
  <2>1. fails \in Nat /\ 1 \in Generations
    BY PairAssumption DEF Init, Generations
  <2>2. /\ state \in State /\ overlay \in Pairs /\ pairlist \in State
        /\ ft \in [list : Pairs, stake : Pairs, seen : State \cup {NoSeen}]
    BY <2>1 DEF Init, State
  <2>3. switch \in Switch /\ beat \in [seen : State \cup {NoSeen}, one : BOOLEAN, fresh : BOOLEAN]
    BY DEF Init, Switch, NoSwitch, Stages, NoBeat, NoSeen
  <2>4. evidence \in 0..MaxGen /\ crashes \in 0..MaxCrashes /\ pc \in Steps
    BY PairAssumption DEF Init, Steps
  <2> QED
    BY <2>1, <2>2, <2>3, <2>4 DEF Init, TypeOK
<1>2. StageInv /\ FileInv /\ TargetInv /\ ArmingInv /\ ArmedProven /\ TradeOfGeneration
  BY DEF Init, NoSwitch, NoBeat, StageInv, FileInv, TargetInv, ArmingInv, ArmedProven, TradeOfGeneration,
         Changing, Publishing
<1>3. LiveInv
  BY DEF Init, LiveInv
<1> QED
  BY <1>1, <1>2, <1>3 DEF IInv

LEMMA NextIInv == IInv /\ [Next]_vars => IInv'
<1> SUFFICES ASSUME IInv, [Next]_vars PROVE IInv'
  OBVIOUS
<1>1. CASE Next
  BY <1>1, TypesNext, StageNext, FileNext, TargetNext, ArmingNext, LiveNext DEF IInv
<1>2. CASE UNCHANGED vars
  BY <1>2, TypesNext
     DEF IInv, vars, files, freq, StageInv, FileInv, TargetInv, ArmingInv, ArmedProven, StatusRaises,
         TradeOfGeneration, LiveInv
<1> QED
  BY <1>1, <1>2

\* What holds at every step of the sidecar and of Freqtrade.
THEOREM Invariance == Spec => []IInv
BY InitIInv, NextIInv, PTL DEF Spec

\* The types of PairSwitch.
THEOREM TypeCorrect == Spec => []TypeOK
<1>1. IInv => TypeOK
  BY DEF IInv
<1> QED
  BY <1>1, Invariance, PTL

\* Entries are armed only for a generation that Freqtrade has proved (freqtrade_pair_ready,
\* require_resume_ready), for any number of pairs, generations, failing writes and deaths.
THEOREM ArmedOnlyProven == Spec => []ArmedProven
<1>1. IInv => ArmedProven
  BY DEF IInv
<1> QED
  BY <1>1, Invariance, PTL

\* No change strands a trade, and no signal of an earlier generation opens one
\* (verify_flat_for_switch before the publication, process_signal).
THEOREM TradeFollowsPair == Spec => []TradeOfGeneration
<1>1. IInv => TradeOfGeneration
  BY DEF IInv
<1> QED
  BY <1>1, Invariance, PTL

\* In live mode entries are armed only under evidence of the active generation, if no durable
\* write of the sidecar fails; with a failing one it does not hold (live_switch_unlatched.cfg).
THEOREM LiveArmedWithEvidence == LiveFailures = 0 => (Spec => []LiveArmedEvidence)
<1> SUFFICES ASSUME LiveFailures = 0 PROVE Spec => []LiveArmedEvidence
  OBVIOUS
<1>1. IInv => LiveArmedEvidence
  BY DEF IInv, LiveInv, LiveArmedEvidence
<1> QED
  BY <1>1, Invariance, PTL

-----------------------------------------------------------------------------
(***************************************************************************)
(* Refinement: what each step is in the documented sequence.                *)
(***************************************************************************)

LEMMA PhaseFrame == ASSUME UNCHANGED <<switch, state>> PROVE Phase' = Phase
BY DEF Phase

\* A step that changes no file of the change only switches entries off, or nothing.
LEMMA MapsQuiet ==
  ASSUME UNCHANGED <<switch, state>>, armed' = armed \/ armed' = FALSE
  PROVE  Sequence!ANext \/ UNCHANGED <<state, Phase, armed>>
BY PhaseFrame DEF Sequence!ANext, Sequence!Disarm

LEMMA MapsBegin ==
  ASSUME IInv, Begin PROVE Sequence!ANext \/ UNCHANGED <<state, Phase, armed>>
<1> USE DEF IInv, StageInv, FileInv, files, freq, Go, Disarmed, WriteFails
<1>1. ASSUME NEW t \in Pairs, SwitchPair(t) PROVE Sequence!ANext \/ UNCHANGED <<state, Phase, armed>>
  <2>1. CASE UNCHANGED switch
    BY <1>1, <2>1, MapsQuiet DEF SwitchPair
  <2>2. CASE MayBegin /\ Stage("ACTIVE", NoPair)
    <3>1. Phase \in {"settled", "verified", "blocked"} /\ Phase' = "settled"
      BY <2>2 DEF MayBegin, Phase, Stage
    <3>2. armed' = FALSE /\ UNCHANGED state
      BY <1>1 DEF SwitchPair
    <3> QED
      BY <3>1, <3>2 DEF Sequence!ANext, Sequence!Drop, Sequence!Keep, Sequence!Disarm
  <2> QED
    BY <1>1, <2>1, <2>2 DEF SwitchPair
<1>2. CASE Verify
  BY <1>2, MapsQuiet DEF Verify, VerifyFlat
<1>3. CASE Pausing \/ Reconciling \/ Block \/ Await
  <2>1. ~armed /\ ~armed' /\ UNCHANGED <<state, armed>>
    BY <1>3 DEF Pausing, Reconciling, Block, Await, SwitchWrite, ArmingInv
  <2>2. CASE UNCHANGED switch
    BY <2>1, <2>2, PhaseFrame
  <2>3. CASE Pausing /\ ~UNCHANGED switch
    <3>1. Phase \in {"settled", "verified", "blocked"} /\ Phase' = "chosen"
      BY <2>3 DEF Pausing, SwitchWrite, Stage, Phase
    <3> QED
      BY <2>1, <3>1 DEF Sequence!ANext, Sequence!Choose, Sequence!Keep
  <2>4. CASE Reconciling /\ ~UNCHANGED switch
    <3>1. Phase = "chosen" /\ Phase' = "chosen"
      BY <2>4 DEF Reconciling, SwitchWrite, Stage, Phase
    <3> QED
      BY <2>1, <3>1
  <2>5. CASE Block /\ ~UNCHANGED switch
    <3>1. Phase \in {"chosen", "confirmed"} /\ Phase' = "blocked"
      BY <2>5 DEF Block, SwitchWrite, Stage, Phase
    <3> QED
      BY <2>1, <3>1 DEF Sequence!ANext, Sequence!Block, Sequence!Keep
  <2>6. CASE Await /\ ~UNCHANGED switch
    <3>1. Phase = "chosen" /\ Phase' = "waiting"
      BY <2>6 DEF Await, SwitchWrite, Stage, Phase
    <3> QED
      BY <2>1, <3>1 DEF Sequence!ANext, Sequence!Wait, Sequence!Keep
  <2> QED
    BY <1>3, <2>2, <2>3, <2>4, <2>5, <2>6
<1> QED
  BY <1>1, <1>2, <1>3 DEF Begin

LEMMA MapsComplete ==
  ASSUME IInv, Complete PROVE Sequence!ANext \/ UNCHANGED <<state, Phase, armed>>
<1> USE DEF IInv, StageInv, FileInv, Publishing, files, freq, Go, Disarmed, WriteFails
<1>1. CASE CompletePairSwitch \/ Verify2 \/ Register \/ Latch \/ PauseLive
  BY <1>1, MapsQuiet DEF CompletePairSwitch, Verify2, VerifyFlat, Register, Latch, PauseLive
<1>2. CASE Publish1 \/ Publish2
  BY <1>2, MapsQuiet DEF Publish1, Publish2
<1>3. CASE Publish3
  <2>1. ~armed /\ ~armed'
    BY <1>3 DEF Publish3, ArmingInv
  <2>2. CASE UNCHANGED state
    BY <1>3, <2>1, <2>2, MapsQuiet DEF Publish3
  <2>3. CASE state' = NextState /\ UNCHANGED switch
    <3>1. target \in Pairs \ {state.pair}
      BY <1>3 DEF Publish3, TargetInv, Changing
    <3>2. Phase = "confirmed" /\ Phase' = "applied"
      BY <1>3, <2>3, <3>1 DEF Publish3, NextState, Phase
    <3> QED
      BY <2>1, <2>3, <3>1, <3>2 DEF NextState, Sequence!ANext, Sequence!Apply
  <2> QED
    BY <1>3, <2>2, <2>3 DEF Publish3
<1>4. CASE Recheck \/ Applying \/ Verifying
  <2>1. ~armed /\ ~armed' /\ UNCHANGED <<state, armed>>
    BY <1>4 DEF Recheck, Applying, Verifying, SwitchWrite, ArmingInv
  <2>2. CASE UNCHANGED switch
    BY <2>1, <2>2, PhaseFrame
  <2>3. CASE Recheck /\ ~UNCHANGED switch
    <3>1. Phase = "waiting" /\ Phase' = "confirmed"
      BY <2>3 DEF Recheck, SwitchWrite, Stage, Phase
    <3> QED
      BY <2>1, <3>1 DEF Sequence!ANext, Sequence!Confirm, Sequence!Keep
  <2>4. CASE Applying /\ ~UNCHANGED switch
    <3>1. Phase = "confirmed" /\ Phase' = "confirmed"
      BY <2>1, <2>4 DEF Applying, SwitchWrite, Stage, Phase
    <3> QED
      BY <2>1, <3>1
  <2>5. CASE Verifying /\ ~UNCHANGED switch
    <3>1. Phase = "applied" /\ Phase' = "applied"
      BY <2>5 DEF Verifying, SwitchWrite, Stage, Phase
    <3> QED
      BY <2>1, <3>1
  <2> QED
    BY <1>4, <2>2, <2>3, <2>4, <2>5
<1> QED
  BY <1>1, <1>2, <1>3, <1>4 DEF Complete

LEMMA MapsArming ==
  ASSUME IInv, Arming PROVE Sequence!ANext \/ UNCHANGED <<state, Phase, armed>>
<1> USE DEF IInv, StageInv, ArmingInv, files, freq, Go, Disarmed, WriteFails
<1>1. CASE EntriesOn \/ Reconcile \/ EntriesOff \/ ClearRiskPause
  BY <1>1, MapsQuiet DEF EntriesOn, Reconcile, EntriesOff, ClearRiskPause
<1>2. CASE VerifyPairSwitch
  <2>1. CASE UNCHANGED switch
    BY <1>2, <2>1, MapsQuiet DEF VerifyPairSwitch
  <2>2. CASE Stage("PAUSED_READY", state.pair)
    <3>1. Phase = "applied" /\ Phase' = "verified"
      BY <1>2, <2>2 DEF VerifyPairSwitch, Stage, Phase
    <3>2. ~armed /\ ~armed' /\ UNCHANGED state
      BY <1>2 DEF VerifyPairSwitch, ArmedProven
    <3> QED
      BY <3>1, <3>2 DEF Sequence!ANext, Sequence!Verify, Sequence!Keep
  <2> QED
    BY <1>2, <2>1, <2>2 DEF VerifyPairSwitch
<1>3. CASE Arm
  <2>1. Phase \in {"settled", "verified"} /\ armed' /\ UNCHANGED <<state, switch>>
    BY <1>3 DEF Arm, Phase
  <2> QED
    BY <2>1, PhaseFrame DEF Sequence!ANext, Sequence!Resume
<1>4. CASE Activate
  <2>1. CASE Stage("ACTIVE", NoPair) /\ UNCHANGED armed
    <3>1. Phase = "verified" /\ Phase' = "settled" /\ UNCHANGED state
      BY <1>4, <2>1 DEF Activate, Stage, Phase
    <3> QED
      BY <2>1, <3>1 DEF Sequence!ANext, Sequence!Settle
  <2>2. CASE armed' = FALSE /\ UNCHANGED switch
    BY <1>4, <2>2, MapsQuiet DEF Activate
  <2> QED
    BY <1>4, <2>1, <2>2 DEF Activate
<1> QED
  BY <1>1, <1>2, <1>3, <1>4 DEF Arming

\* Whatever write fails and wherever the process dies, the sidecar follows the documented
\* sequence of a pair change (README.md, Pair changes).
THEOREM Refinement == Spec => ImplementsSequence
<1>1. Init => Sequence!AInit
  <2> SUFFICES ASSUME Init PROVE Sequence!AInit
    OBVIOUS
  <2>1. Phase = "settled"
    BY DEF Init, Phase, NoSwitch
  <2> QED
    BY <2>1 DEF Init, Sequence!AInit
<1>2. ASSUME IInv, [Next]_vars PROVE [Sequence!ANext]_(Sequence!avars)
  <2> USE DEF Sequence!avars, files, freq
  <2>1. CASE Loop
    BY <2>1, MapsQuiet DEF Loop, ProcessSignal, TradeCloses, LoopEnds, Boot, Crash, Disarmed
  <2>2. CASE Freqtrade
    BY <2>2, FreqtradeFrame, MapsQuiet
  <2>3. CASE UNCHANGED vars
    BY <2>3, MapsQuiet DEF vars
  <2> QED
    BY <1>2, <2>1, <2>2, <2>3, MapsBegin, MapsComplete, MapsArming DEF Next
<1> QED
  BY <1>1, <1>2, Invariance, PTL DEF Spec, ImplementsSequence, Sequence!ASpec

=============================================================================
