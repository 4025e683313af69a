---------------------------- MODULE QuotaLedger ----------------------------
(***************************************************************************)
(* The paid-API budget of one provider of the money-flow service           *)
(* (moneyflow/external_context.py): the SQLite ledger that reserves a call  *)
(* before it is made, the manager that asks it, and the cache of the last   *)
(* answer.  Rows of different providers never meet, so one is enough.       *)
(*                                                                          *)
(* Every step of a process is one transaction of the ledger, one file write *)
(* or one message; a process takes the time once, when a snapshot begins,   *)
(* and uses it for all of them.  Several processes may share the ledger.    *)
(* Time is counted in ticks; a month has MonthLen of them, a minute one.    *)
(***************************************************************************)
EXTENDS Naturals, FiniteSets, FiniteSetsExt

CONSTANTS
  Processes,      \* processes that share the ledger
  MaxTime,        \* bound: the last tick
  MonthLen,       \* ticks of a calendar month
  MonthlyCap,     \* monthly_cap, at most 96 % of the free quota
  MinuteCap,      \* minute_cap
  Interval,       \* refresh_seconds: 300 s at least
  Latency,        \* longest time from a snapshot's start to the end of its call
  Base, Longest,  \* first and longest delay after a failure: 300 s, 3600 s
  MaxFaults       \* bound: crashes and failing transactions

ASSUME QuotaAssumption ==
  /\ {MaxTime, MonthLen, MonthlyCap, MinuteCap, Base} \subseteq Nat \ {0}
  /\ {Interval, Latency, Longest, MaxFaults} \subseteq Nat
  /\ Latency < Interval /\ Interval <= Longest /\ Base <= Longest

Times == 0 .. MaxTime
Never == MaxTime + 1
Month(t) == t \div MonthLen
Minute(t) == t
Months == 0 .. Month(MaxTime)
Failures == {"auth_error", "rate_limited", "transport_error"}
Unmade == "never"

VARIABLES
  clock,   \* wall clock
  db,      \* the database file: "none", "ok", or "empty" without a table
  marker,  \* the .initialized file beside it
  row,     \* the provider's row of table provider_quota
  cache,   \* cache file: when the cached quote was fetched
  proc,    \* per process: step, time of the snapshot, cached quote, ledger_error
  spent,   \* history: requests that left, by the month of their reservation
  last,    \* history: the time of the last such reservation
  faults

vars == <<clock, db, marker, row, cache, proc, spent, last, faults>>
ledger == <<db, marker, row>>
history == <<spent, last>>

NoRow == [month |-> 0, count |-> 0, minute |-> 0, mcount |-> 0, next |-> 0, failures |-> 0,
          status |-> Unmade]
Down == [pc |-> "down", at |-> 0, cache |-> Never, err |-> FALSE]

Init ==
  /\ clock = 0 /\ db = "none" /\ marker = FALSE /\ row = NoRow /\ cache = Never
  /\ proc = [p \in Processes |-> Down]
  /\ spent = [m \in Months |-> 0] /\ last = Never /\ faults = 0

Fails == faults < MaxFaults /\ faults' = faults + 1
Goes(p, step) == proc' = [proc EXCEPT ![p].pc = step]

-----------------------------------------------------------------------------
(* The ledger. *)

\* _initialize: a database that is gone although the marker stands is refused;
\* any other file gets its table, then the marker.
Refused == marker /\ db = "none"

\* _normalize_row: the counters of another month or minute start at zero.
Normalize(r, t) ==
  [r EXCEPT !.month = Month(t), !.count = IF r.month = Month(t) THEN @ ELSE 0,
            !.minute = Minute(t), !.mcount = IF r.minute = Minute(t) THEN @ ELSE 0]

Waits(r, t) == r.next > t
MonthDone(r) == r.count >= MonthlyCap
MinuteDone(r) == r.mcount >= MinuteCap
MayCall(r, t) == ~Waits(r, t) /\ ~MonthDone(r) /\ ~MinuteDone(r)

\* Mutant: counted, but the next call is not put off.
ReservedAtOnce(r, t) ==
  [r EXCEPT !.count = @ + 1, !.mcount = @ + 1, !.status = "reserved"]

\* reserve, when it grants the call.
Reserved(r, t) ==
  [r EXCEPT !.count = @ + 1, !.mcount = @ + 1, !.next = t + Interval, !.status = "reserved"]

\* reserve, when it does not: what the normalization changed is written too.
Denied(r, t) ==
  IF ~Waits(r, t) /\ ~MonthDone(r)
  THEN [r EXCEPT !.next = Max({@, Minute(t) + 1}), !.status = "minute_rate_limited"]
  ELSE r

\* 2 ** min(failures - 1, 4).
Doubled(failures) == <<1, 2, 4, 8, 16>>[Min({failures, 5})]

\* Mutant: the delay of a failure is not capped.
DelaysUncapped(kind, failures) == {Max({Interval, Longest * Doubled(failures)})}

\* mark_failure: 3600 s for a refused key or plan; at least a minute for a
\* rate limit; otherwise doubled with every failure.
Delays(kind, failures) ==
  CASE kind = "auth_error" -> {Longest}
    [] kind = "rate_limited" -> {1, Longest}
    [] OTHER -> {Min({Longest, Max({Interval, Base * Doubled(failures)})})}

-----------------------------------------------------------------------------
(* The processes. *)

\* The process starts: from_env opens the ledger and loads the cache.
Restart(p) ==
  /\ proc[p].pc = "down"
  /\ proc' = [proc EXCEPT ![p] = [pc |-> "idle", at |-> 0, cache |-> cache, err |-> Refused]]
  /\ IF Refused THEN UNCHANGED ledger
     ELSE db' = "ok" /\ marker' = TRUE /\ row' = (IF db = "ok" THEN row ELSE NoRow)
  /\ UNCHANGED <<clock, cache, history, faults>>

\* snapshot and _provider: a quote younger than the interval is used as it is,
\* and without a ledger nothing is asked.
Young(c, t) == c # Never /\ (c > t \/ t - c < Interval)

Snapshot(p) ==
  /\ proc[p].pc = "idle" /\ ~proc[p].err /\ ~Young(proc[p].cache, clock)
  /\ proc' = [proc EXCEPT ![p].pc = "reserve", ![p].at = clock]
  /\ UNCHANGED <<clock, ledger, cache, history, faults>>

\* The status of a young quote is a transaction too: it writes what the
\* normalization changed.
Cached(p) ==
  /\ proc[p].pc = "idle" /\ Young(proc[p].cache, clock)
  /\ IF db = "ok" THEN row' = Normalize(row, clock) /\ UNCHANGED db
                  ELSE db' = "empty" /\ UNCHANGED row
  /\ UNCHANGED <<clock, marker, cache, proc, history, faults>>

\* A transaction on a file without the table fails, and leaves an empty file
\* where there was none; the process never asks again.
NoTable(p) ==
  /\ db' = (IF db = "none" THEN "empty" ELSE db)
  /\ proc' = [proc EXCEPT ![p].pc = "idle", ![p].err = TRUE]
  /\ UNCHANGED <<marker, row>>

Reserve(p) ==
  /\ proc[p].pc = "reserve"
  /\ LET t == proc[p].at
         r == Normalize(row, t)
     IN IF db # "ok" THEN NoTable(p)
        ELSE /\ row' = IF MayCall(r, t) THEN Reserved(r, t) ELSE Denied(r, t)
             /\ Goes(p, IF MayCall(r, t) THEN "call" ELSE "idle")
             /\ UNCHANGED <<db, marker>>
  /\ UNCHANGED <<clock, cache, history, faults>>

\* fetch_bitcoin_usd: the request leaves.
Call(p) ==
  /\ proc[p].pc = "call" /\ Goes(p, "wait")
  /\ spent' = [spent EXCEPT ![Month(proc[p].at)] = @ + 1]
  /\ last' = proc[p].at
  /\ UNCHANGED <<clock, ledger, cache, faults>>

\* A valid answer goes to the cache; saving the file may fail unnoticed.
Answered(p) ==
  /\ proc[p].pc = "wait"
  /\ proc' = [proc EXCEPT ![p].pc = "answered", ![p].cache = proc[p].at]
  /\ cache' \in {cache, proc[p].at}
  /\ UNCHANGED <<clock, ledger, history, faults>>

MarkSuccess(p) ==
  /\ proc[p].pc = "answered"
  /\ LET r == Normalize(row, proc[p].at)
     IN IF db # "ok" THEN NoTable(p)
        ELSE /\ row' = [r EXCEPT !.failures = 0, !.status = "success",
                                 !.next = Max({@, proc[p].at + Interval})]
             /\ Goes(p, "idle") /\ UNCHANGED <<db, marker>>
  /\ UNCHANGED <<clock, cache, history, faults>>

\* An HTTP error, no answer, or one that is not the wanted quote.
MarkFailure(p) ==
  /\ proc[p].pc = "wait"
  /\ \E kind \in Failures :
       LET r == Normalize(row, proc[p].at)
       IN IF db # "ok" THEN NoTable(p)
          ELSE /\ \E d \in Delays(kind, r.failures + 1) :
                    row' = [r EXCEPT !.failures = @ + 1, !.status = kind,
                                     !.next = Max({@, proc[p].at + d})]
               /\ Goes(p, "idle") /\ UNCHANGED <<db, marker>>
  /\ UNCHANGED <<clock, cache, history, faults>>

\* A transaction that cannot be committed: the process stops asking.
TransactionFails(p) ==
  /\ proc[p].pc \in {"reserve", "wait", "answered"} /\ Fails
  /\ proc' = [proc EXCEPT ![p].pc = "idle", ![p].err = TRUE]
  /\ UNCHANGED <<clock, ledger, cache, history>>

Crash(p) ==
  /\ proc[p].pc # "down" /\ Fails
  /\ proc' = [proc EXCEPT ![p] = Down]
  /\ UNCHANGED <<clock, ledger, cache, history>>

\* Time passes; a call is bounded by its HTTP timeout.
Tick ==
  /\ clock < MaxTime /\ clock' = clock + 1
  /\ \A p \in Processes : proc[p].pc \notin {"down", "idle"} => clock' <= proc[p].at + Latency
  /\ UNCHANGED <<ledger, cache, proc, history, faults>>

Step(p) == \/ Restart(p) \/ Snapshot(p) \/ Cached(p) \/ Reserve(p) \/ Call(p) \/ Answered(p)
           \/ MarkSuccess(p) \/ MarkFailure(p) \/ TransactionFails(p) \/ Crash(p)

Next == Tick \/ \E p \in Processes : Step(p)

Spec == Init /\ [][Next]_vars

\* What the code does not expect: somebody removes the database file of a
\* running service, or the wall clock is set back.
DeleteDatabase ==
  /\ db = "ok" /\ Fails /\ db' = "none" /\ row' = NoRow
  /\ UNCHANGED <<clock, marker, cache, proc, history>>

SetBack ==
  /\ Fails /\ clock' \in 0 .. clock - 1
  /\ \A p \in Processes : proc[p].pc \in {"down", "idle"}
  /\ UNCHANGED <<ledger, cache, proc, history>>

DeletedSpec == Init /\ [][Next \/ DeleteDatabase]_vars
SetBackSpec == Init /\ [][Next \/ SetBack]_vars

-----------------------------------------------------------------------------
(* Properties. *)

\* The type invariant; next and failures stay within what the delays allow.
TypeOK ==
  /\ clock \in Times /\ db \in {"none", "ok", "empty"} /\ marker \in BOOLEAN
  /\ row \in [month : Months, count : 0 .. MonthlyCap, minute : Times, mcount : 0 .. MinuteCap,
               next : 0 .. MaxTime + Longest, failures : 0 .. MonthlyCap * Cardinality(Months),
               status : Failures \cup {Unmade, "reserved", "success", "minute_rate_limited"}]
  /\ cache \in Times \cup {Never} /\ last \in Times \cup {Never}
  /\ proc \in [Processes -> [pc : {"down", "idle", "reserve", "call", "wait", "answered"},
                              at : Times, cache : Times \cup {Never}, err : BOOLEAN]]
  /\ spent \in [Months -> Nat]

\* No request leaves that is not covered by the budget of the month it was
\* reserved in, and two reservations that were used are an interval apart,
\* wherever the one process that uses the ledger crashed in between
\* (external_context.py:93-94: "A crash can therefore waste quota but cannot
\* create an uncounted outbound request").
BudgetKept ==
  [][\A p \in Processes : Call(p) =>
       /\ spent[Month(proc[p].at)] < MonthlyCap
       /\ last # Never => proc[p].at >= last + Interval]_vars

\* The monthly part alone, as an invariant ("refusing a zero reset").  It
\* does not hold for DeletedSpec, nor for SetBackSpec.
MonthlyBudget == \A m \in Months : spent[m] <= MonthlyCap

=============================================================================
