----------------------------- MODULE SignalGate -----------------------------
(***************************************************************************)
(* From a signal file to a submission, and from a stopped-out trade to the  *)
(* risk budget: OrderManager.process_signal (order_manager.py), the claim   *)
(* table of state_store.py, FreshSignalGuard (risk_checks.py) and the       *)
(* emission of IctSmcStrategy.                                              *)
(*                                                                          *)
(* The main thread is cut at every commit and between the guard's answer    *)
(* and what is done with it: the guard has a lock of its own, so stream     *)
(* reports close trades and count stop-outs in between.  adapter.lock makes *)
(* journaling and counting one step for submit, not for the guard and not   *)
(* for a crash.  Time is counted in candles; the signal of a candle has the *)
(* candle as its token, so a file written again has the same token.         *)
(***************************************************************************)
EXTENDS Integers, FiniteSets

CONSTANTS
  MaxTime,      \* bound: the last candle considered
  DayLength,    \* candles per UTC day
  MaxAge,       \* MAX_SIGNAL_AGE_SECONDS, MAX_CANDLE_AGE_SECONDS
  Cooldown,     \* PAIR_COOLDOWN_SECONDS
  MaxStopouts,  \* MAX_STOPOUTS_PER_PAIR_DAY, MAX_STOPOUTS_GLOBAL_DAY
  MaxFiles,     \* bound: files in the inbox
  MaxFaults     \* bound: exceptions, failing commits and process deaths

ASSUME GateAssumption ==
  /\ {MaxTime, DayLength, MaxStopouts, MaxFiles} \subseteq Nat \ {0}
  /\ {MaxAge, Cooldown, MaxFaults} \subseteq Nat

Candles == 1..MaxTime
Times   == 0..MaxTime
DayOf(t) == t \div DayLength
Days == 0..DayOf(MaxTime)

VARIABLES
  now,       \* the last closed candle
  inbox,     \* signal files to process
  claims,    \* table processed_signals
  guard,     \* risk_guard_state: last candle, last stop-out, stop-outs per day
  armed,     \* entry switch on and no global risk pause
  row,       \* the nonterminal trade record
  pc, cur,   \* main thread: step and signal
  callback,  \* time of the journaled stop-out that is not counted yet, or -1
  filled,    \* history: the time a trade's stop filled at a loss, or -1
  journal,   \* exchange_events: source and trade of journaled loss exits
  sent,      \* history: submissions that left the process, per signal
  lost,      \* history: stop-outs journaled and never counted
  faults

vars == <<now, inbox, claims, guard, armed, row, pc, cur, callback, filled, journal, sent, lost,
          faults>>
files   == <<now, inbox>>
market  == <<callback, filled, journal, lost>>

NoRow == [id |-> 0, lc |-> "none"]
Row   == [id : Candles, lc : {"SIGNAL_APPROVED", "open"}]
Results == {"none", "IN_PROGRESS", "done"}     \* done: accepted or rejected
Sources == {"stream", "rest"}
Steps == {"down", "idle", "allowed", "claimed", "approved", "record", "result", "move"}

TypeOK ==
  /\ now \in Times /\ inbox \subseteq Candles
  /\ claims \in [Candles -> Results]
  /\ guard \in [candle : Times, stopped : -1..MaxTime, daily : [Days -> Nat]]
  /\ armed \in BOOLEAN
  /\ row \in Row \cup {NoRow}
  /\ pc \in Steps /\ cur \in Times
  /\ callback \in -1..MaxTime
  /\ filled \in [Candles -> -1..MaxTime]
  /\ journal \subseteq Sources \X Candles
  /\ sent \in [Candles -> Nat]
  /\ lost \in Nat /\ faults \in 0..MaxFaults

Init ==
  /\ now = 0 /\ inbox = {}
  /\ claims = [c \in Candles |-> "none"]
  /\ guard = [candle |-> 0, stopped |-> -1, daily |-> [d \in Days |-> 0]]
  /\ armed = FALSE
  /\ row = NoRow /\ pc = "down" /\ cur = 0 /\ callback = -1
  /\ filled = [c \in Candles |-> -1] /\ journal = {}
  /\ sent = [c \in Candles |-> 0] /\ lost = 0 /\ faults = 0

Fault == faults < MaxFaults /\ faults' = faults + 1

-----------------------------------------------------------------------------
(* The strategy and the clock *)

CandleCloses ==
  /\ now < MaxTime /\ now' = now + 1
  /\ UNCHANGED <<inbox, claims, guard, armed, row, pc, cur, market, sent, faults>>

\* _emit_signal: the last closed candle, when no directory has its file.  A file is missing from
\* the archives before it is moved there and after prune_files or an operator removed it.
Emit ==
  /\ now > 0 /\ now \notin inbox /\ Cardinality(inbox) < MaxFiles
  /\ inbox' = inbox \cup {now}
  /\ UNCHANGED <<now, claims, guard, armed, row, pc, cur, market, sent, faults>>

-----------------------------------------------------------------------------
(* process_signal *)

\* FreshSignalGuard.allow.  A stop-out at t lies in [t, t + 1), a candle c opened at c - 1.
Fresh(c)        == now - c <= MaxAge
NewerThanStop(c) == c - 1 > guard.stopped
CooledDown      == guard.stopped # -1 => now > guard.stopped + Cooldown
BudgetLeft      == guard.daily[DayOf(now)] < MaxStopouts
\* Mutant: the daily counter is not looked at.
AllowedNoBudget(c) == Fresh(c) /\ guard.candle # c /\ NewerThanStop(c) /\ CooledDown
Allowed(c) ==
  /\ Fresh(c)
  /\ guard.candle # c
  /\ NewerThanStop(c)
  /\ CooledDown
  /\ BudgetLeft

\* reject(record=True) writes the result and moves the file.
Refuse(c) == claims' = [claims EXCEPT ![c] = "done"] /\ pc' = "move"

\* Mutant: a signal in progress is taken up again.
KnownRetries(c) ==
  /\ claims[c] # "none"
  /\ pc' = IF claims[c] = "IN_PROGRESS" THEN "claimed" ELSE "move"
  /\ UNCHANGED <<armed, claims>>
\* A signal with a result is a duplicate; one IN_PROGRESS was interrupted and halts entries.
Known(c) ==
  /\ claims[c] # "none"
  /\ armed' = (armed /\ claims[c] # "IN_PROGRESS")
  /\ pc' = "move" /\ UNCHANGED claims

\* The envelope, the fields and the flow gate may refuse too.
Check(c) ==
  /\ claims[c] = "none"
  /\ \/ Allowed(c) /\ pc' = "allowed" /\ UNCHANGED claims
     \/ Refuse(c)
  /\ UNCHANGED armed

Take(c) ==
  /\ pc = "idle" /\ c \in inbox /\ cur' = c
  /\ Known(c) \/ Check(c)
  /\ UNCHANGED <<files, guard, row, market, sent, faults>>

\* entries() and claim_signal.
Claim ==
  /\ pc = "allowed"
  /\ IF armed THEN claims' = [claims EXCEPT ![cur] = "IN_PROGRESS"] /\ pc' = "claimed"
              ELSE Refuse(cur)
  /\ UNCHANGED <<files, guard, armed, row, cur, market, sent, faults>>

\* upsert_trade; beside another nonterminal record the new one is refused by submit and closed.
Approve ==
  /\ pc = "claimed" /\ pc' = "approved"
  /\ row' = IF row = NoRow THEN [id |-> cur, lc |-> "SIGNAL_APPROVED"] ELSE row
  /\ UNCHANGED <<files, claims, guard, armed, cur, market, sent, faults>>

\* Mutant: the nonterminal records are not looked at.
MaySubmitBeside == armed
\* submit holds adapter.lock, as a report does from its journal entry to its count.
MaySubmit == armed /\ row = [id |-> cur, lc |-> "SIGNAL_APPROVED"]
Sends == sent' = [sent EXCEPT ![cur] = @ + 1]
Opens == row' = [row EXCEPT !.lc = "open"]

\* adapter.submit: confirmed, definitely rejected, ambiguous, or refused before anything is sent.
Submit ==
  /\ pc = "approved" /\ callback = -1 /\ pc' = "record"
  /\ \/ MaySubmit /\ Sends /\ Opens /\ armed' \in {TRUE, FALSE}
     \/ MaySubmit /\ Sends /\ row' = NoRow /\ UNCHANGED armed
     \/ UNCHANGED <<sent, row, armed>>
  /\ UNCHANGED <<files, claims, guard, cur, market, faults>>

\* submit raises, before or after the request: the main loop disarms and sets the global pause,
\* and the file stays in the inbox.
SubmitRaises ==
  /\ pc = "approved" /\ callback = -1
  /\ Fault
  /\ pc' = "idle" /\ armed' = FALSE
  /\ \/ MaySubmit /\ Sends /\ Opens
     \/ UNCHANGED <<sent, row>>
  /\ UNCHANGED <<files, claims, guard, cur, market>>

\* guard.record; a commit that fails rolls back, disarms and raises.
GuardRecord ==
  /\ pc = "record"
  /\ \/ guard' = [guard EXCEPT !.candle = cur] /\ pc' = "result" /\ UNCHANGED <<armed, faults>>
     \/ /\ Fault
        /\ pc' = "idle" /\ armed' = FALSE /\ UNCHANGED guard
  /\ UNCHANGED <<files, claims, row, cur, market, sent>>

\* The result; a record that is still SIGNAL_APPROVED becomes ENTRY_REJECTED.
RecordSignal ==
  /\ pc = "result" /\ pc' = "move"
  /\ claims' = [claims EXCEPT ![cur] = "done"]
  /\ row' = IF row = [id |-> cur, lc |-> "SIGNAL_APPROVED"] THEN NoRow ELSE row
  /\ UNCHANGED <<files, guard, armed, cur, market, sent, faults>>

Move ==
  /\ pc = "move" /\ pc' = "idle" /\ cur' = 0
  /\ inbox' = inbox \ {cur}
  /\ UNCHANGED <<now, claims, guard, armed, row, market, sent, faults>>

-----------------------------------------------------------------------------
(* Exits and stop-outs *)

\* The stop of the open trade fills at a loss.
StopFills ==
  /\ row.lc = "open" /\ filled[row.id] = -1
  /\ filled' = [filled EXCEPT ![row.id] = now]
  /\ UNCHANGED <<files, claims, guard, armed, row, pc, cur, callback, journal, sent, lost, faults>>

\* Another exit, or a reconciliation, closes the open record.
Closes ==
  /\ row.lc = "open" /\ filled[row.id] = -1 /\ pc = "idle"
  /\ row' = NoRow
  /\ UNCHANGED <<files, claims, guard, armed, pc, cur, market, sent, faults>>

\* _record_authenticated_event: the event is journaled and closes the record.  A GET asks only
\* about open records; a stream report may come later, and its key is another one.
ExitEvent(s, c) ==
  /\ pc # "down" /\ callback = -1
  /\ filled[c] # -1 /\ <<s, c>> \notin journal
  /\ s = "rest" => row.id = c /\ pc = "idle"
  /\ journal' = journal \cup {<<s, c>>}
  /\ row' = IF row.id = c THEN NoRow ELSE row
  /\ callback' = filled[c]
  /\ UNCHANGED <<files, claims, guard, armed, pc, cur, filled, sent, lost, faults>>

\* Mutant: under the day it is processed on.
StopoutNow(t) == [guard EXCEPT !.daily[DayOf(now)] = @ + 1, !.stopped = now]
\* record_stopout, under the day and the time of the event.
Stopout(t)    == [guard EXCEPT !.daily[DayOf(t)] = @ + 1, !.stopped = t]

CountStopout ==
  /\ callback # -1 /\ callback' = -1
  /\ \/ guard' = Stopout(callback) /\ UNCHANGED <<armed, faults, lost>>
     \/ /\ Fault
        /\ armed' = FALSE /\ lost' = lost + 1 /\ UNCHANGED guard
  /\ UNCHANGED <<files, claims, row, pc, cur, filled, journal, sent>>

-----------------------------------------------------------------------------
(* Owner, start and death *)

\* clear_risk_pause and /start, which finds no report half processed.
EntriesOn ==
  /\ pc = "idle" /\ ~armed /\ armed' = TRUE
  /\ UNCHANGED <<files, claims, guard, row, pc, cur, market, sent, faults>>

Boot ==
  /\ pc = "down" /\ pc' = "idle"
  /\ UNCHANGED <<files, claims, guard, armed, row, cur, market, sent, faults>>

\* Entries are off after a restart; a stop-out that was journaled and not counted is lost.
Crash ==
  /\ pc # "down" /\ Fault
  /\ pc' = "down" /\ cur' = 0 /\ armed' = FALSE
  /\ callback' = -1 /\ lost' = IF callback = -1 THEN lost ELSE lost + 1
  /\ UNCHANGED <<files, claims, guard, row, filled, journal, sent>>

-----------------------------------------------------------------------------
Process  == \/ \E c \in Candles : Take(c)
            \/ Claim \/ Approve \/ Submit \/ SubmitRaises
            \/ GuardRecord \/ RecordSignal \/ Move
Exits    == StopFills \/ Closes \/ (\E s \in Sources, c \in Candles : ExitEvent(s, c)) \/ CountStopout

Next == CandleCloses \/ Emit \/ Process \/ Exits \/ EntriesOn \/ Boot \/ Crash

Spec == Init /\ [][Next]_vars

-----------------------------------------------------------------------------
(* Properties *)

\* One signal leaves the process at most once, whatever is emitted again after pruning, and
\* wherever the process died or submit raised (claim_signal, process_signal).
SignalSentOnce == \A c \in Candles : sent[c] <= 1

\* Every journaled stop-out of a day is counted under that day, except those whose count was
\* cut off by a death or a failing commit; GET and stream may count one twice but never miss it
\* (_record_authenticated_event, record_stopout).
JournaledExits(d) == {c \in Candles : filled[c] # -1 /\ DayOf(filled[c]) = d
                                      /\ \E s \in Sources : <<s, c>> \in journal}
StopoutsCounted ==
  callback = -1 => \A d \in Days : guard.daily[d] + lost >= Cardinality(JournaledExits(d))

\* The daily budget bounds the losing trades of a day.  allow and submit are not one step: an
\* entry allowed while a stop-out is on its way is sent after it, so one more loss is possible,
\* and so is one for each stop-out that was lost (allow, process_signal).
LossesWithinBudget ==
  \A d \in Days :
    Cardinality({c \in Candles : filled[c] # -1 /\ DayOf(filled[c]) = d})
      <= MaxStopouts + 1 + lost

=============================================================================
