---------------------------- MODULE PairSequence ----------------------------
(***************************************************************************)
(* What README.md (Pair changes) promises of a change of the active pair:   *)
(* entries are disarmed, flatness is checked, the pair stays what it is     *)
(* until the owner confirms and flatness is checked again, the new pair is  *)
(* published once, Freqtrade proves it, and entries stay off until a        *)
(* separate start.  PairSwitch is shown to implement this.                  *)
(***************************************************************************)
EXTENDS Naturals

CONSTANT Pairs

VARIABLES
  active,   \* the authoritative pair with its generation
  step,     \* where the change stands
  on        \* entries are armed

avars == <<active, step, on>>

Phases == {"settled", "chosen", "waiting", "confirmed", "applied", "verified", "blocked"}

AInit == /\ active \in [pair : Pairs, gen : {1}]
         /\ step = "settled"
         /\ on = FALSE

Keep == UNCHANGED active

\* Entries go off for any reason at any time.
Disarm == on' = FALSE /\ UNCHANGED <<active, step>>

\* A new choice needs a change that is not under way.
Choose  == /\ step \in {"settled", "verified", "blocked"}
           /\ step' = "chosen" /\ ~on /\ ~on' /\ Keep

\* Choosing the active pair again drops the change.
Drop    == step \in {"verified", "blocked"} /\ step' = "settled" /\ ~on' /\ Keep

Wait    == step = "chosen" /\ step' = "waiting" /\ ~on /\ ~on' /\ Keep
Confirm == step = "waiting" /\ step' = "confirmed" /\ ~on /\ ~on' /\ Keep
Block   == step \in {"chosen", "confirmed"} /\ step' = "blocked" /\ ~on /\ ~on' /\ Keep

Apply   == /\ step = "confirmed" /\ step' = "applied" /\ ~on /\ ~on'
           /\ \E p \in Pairs \ {active.pair} : active' = [pair |-> p, gen |-> active.gen + 1]

Verify  == step = "applied" /\ step' = "verified" /\ ~on /\ ~on' /\ Keep
Resume  == step \in {"settled", "verified"} /\ on' /\ UNCHANGED <<active, step>>
Settle  == step = "verified" /\ step' = "settled" /\ UNCHANGED <<active, on>>

ANext == \/ Disarm \/ Choose \/ Drop \/ Wait \/ Confirm \/ Block
         \/ Apply \/ Verify \/ Resume \/ Settle

ASpec == AInit /\ [][ANext]_avars
=============================================================================
