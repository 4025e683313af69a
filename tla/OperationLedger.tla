--------------------------- MODULE OperationLedger ---------------------------
(***************************************************************************)
(* What the table operation_intents of                                      *)
(* services/execution_sidecar/state_store.py promises: a request is durable *)
(* before it may leave, it leaves at most once, and its outcome is never    *)
(* rewritten.  The adapter keeps the promise only through the order of its  *)
(* calls, since finish_intent itself accepts an intent in any state.        *)
(***************************************************************************)
EXTENDS Naturals

CONSTANT Intents

VARIABLES
  status,   \* operation_intents.state
  sent      \* how often the request was transmitted

ledgerVars == <<status, sent>>

LedgerInit ==
  /\ status = [i \in Intents |-> "NONE"]
  /\ sent = [i \in Intents |-> 0]

Move(i, from, to) ==
  /\ status[i] \in from
  /\ status' = [status EXCEPT ![i] = to]
  /\ UNCHANGED sent

\* prepare_intent
Insert(i) == Move(i, {"NONE"}, "PREPARED")

\* prepare_intent with close_parent_intent_id: the child takes over from its parent.
InsertChild(i, p) ==
  /\ status[i] = "NONE" /\ status[p] = "PREPARED"
  /\ status' = [status EXCEPT ![i] = "PREPARED", ![p] = "ABORTED"]
  /\ UNCHANGED sent

\* mark_intent_submitting
Mark(i) == Move(i, {"PREPARED"}, "SUBMITTING")

\* The request leaves; a definite reject answers it within the call.
Send(i) ==
  /\ status[i] = "SUBMITTING" /\ sent[i] = 0
  /\ sent' = [sent EXCEPT ![i] = 1]
  /\ \E to \in {"SUBMITTING", "DEFINITE_REJECT"} : status' = [status EXCEPT ![i] = to]

\* finish_intent
Abort(i)   == Move(i, {"PREPARED"}, "ABORTED")
Doubt(i)   == Move(i, {"SUBMITTING"}, "AMBIGUOUS")
Confirm(i) == Move(i, {"SUBMITTING", "AMBIGUOUS"}, "CONFIRMED")

LedgerNext ==
  \/ \E i \in Intents : \/ Insert(i) \/ Mark(i) \/ Send(i)
                        \/ Abort(i) \/ Doubt(i) \/ Confirm(i)
  \/ \E i, p \in Intents : InsertChild(i, p)

LedgerSpec == LedgerInit /\ [][LedgerNext]_ledgerVars

=============================================================================
