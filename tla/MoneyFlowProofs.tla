--------------------------- MODULE MoneyFlowProofs ---------------------------
(***************************************************************************)
(* Proofs about the money-flow service.                                      *)
(*                                                                           *)
(* QuotaLedger, for one process, which is how the service is deployed: its   *)
(* types with the bound on failures, and that no request leaves beyond the   *)
(* budget of its month or within an interval of the one before.  Two         *)
(* processes whose snapshots lie on both sides of a month's end break the    *)
(* budget, so the hypothesis cannot be dropped.                              *)
(*                                                                           *)
(* MarketStream: what the flow gate accepts shows the active pair, without a *)
(* gap, and with every confirmation.                                         *)
(***************************************************************************)
EXTENDS QuotaLedger, MarketStream, FiniteSetTheorems, TLAPS

OneProcess == \A p, q \in Processes : p = q

-----------------------------------------------------------------------------
(***************************************************************************)
(* The inductive invariant of QuotaLedger.                                  *)
(***************************************************************************)
RowType == [month : Months, count : 0 .. MonthlyCap, minute : Times, mcount : 0 .. MinuteCap,
            next : 0 .. MaxTime + Longest, failures : Nat,
            status : Failures \cup {Unmade, "reserved", "success", "minute_rate_limited"}]

ProcType == [pc : {"down", "idle", "reserve", "call", "wait", "answered"},
             at : Times, cache : Times \cup {Never}, err : BOOLEAN]

\* The calls that have been granted so far, at most; a failure needs one of them.
Credit(r) == MonthlyCap * r.month + r.count

TypesInv ==
  /\ clock \in Times /\ marker \in BOOLEAN /\ db \in {"none", "ok"}
  /\ row \in RowType
  /\ cache \in Times \cup {Never} /\ last \in Times \cup {Never}
  /\ proc \in [Processes -> ProcType]
  /\ spent \in [Months -> Nat]

\* The table exists from the first start on.
FileInv ==
  /\ marker <=> db = "ok"
  /\ db = "none" => row = NoRow /\ last = Never /\ \A m \in Months : spent[m] = 0
  /\ \A p \in Processes : proc[p].pc # "down" => db = "ok"

\* The row covers every request that left.
SpentInv ==
  /\ row.month <= Month(clock) /\ row.failures <= Credit(row)
  /\ last # Never => row.next >= last + Interval
  /\ \A m \in Months : /\ spent[m] <= MonthlyCap
                       /\ m > row.month => spent[m] = 0
                       /\ m = row.month => spent[m] <= row.count

\* A call that was granted is counted before it leaves.
CallOf(q) ==
  /\ q.pc \notin {"down", "idle"} => q.at <= clock /\ row.month <= Month(q.at)
  /\ q.pc \in {"call", "wait", "answered"} => row.month = Month(q.at)
  /\ q.pc \in {"call", "wait"} => row.failures + 1 <= Credit(row)
  /\ q.pc = "call" => /\ spent[row.month] + 1 <= row.count
                      /\ row.next >= q.at + Interval
                      /\ last # Never => q.at >= last + Interval

CallInv == \A p \in Processes : CallOf(proc[p])

IInv == TypesInv /\ FileInv /\ SpentInv /\ CallInv

-----------------------------------------------------------------------------
(***************************************************************************)
(* Numbers.                                                                 *)
(***************************************************************************)
LEMMA Bounds ==
  /\ MaxTime \in Nat \ {0} /\ MonthLen \in Nat \ {0} /\ MonthlyCap \in Nat \ {0}
  /\ MinuteCap \in Nat \ {0} /\ Base \in Nat \ {0}
  /\ Interval \in Nat /\ Latency \in Nat /\ Longest \in Nat \ {0} /\ MaxFaults \in Nat
  /\ Interval <= Longest /\ Base <= Longest
BY QuotaAssumption

LEMMA MaxOfTwo ==
  ASSUME NEW a \in Int, NEW b \in Int
  PROVE  Max({a, b}) \in {a, b} /\ Max({a, b}) >= a /\ Max({a, b}) >= b
<1>1. \E x \in {a, b} : \A y \in {a, b} : x >= y
  OBVIOUS
<1>2. Max({a, b}) \in {a, b} /\ \A y \in {a, b} : Max({a, b}) >= y
  BY <1>1 DEF Max
<1> QED
  BY <1>2

LEMMA MinOfTwo ==
  ASSUME NEW a \in Int, NEW b \in Int
  PROVE  Min({a, b}) \in {a, b} /\ Min({a, b}) <= a /\ Min({a, b}) <= b
<1>1. \E x \in {a, b} : \A y \in {a, b} : x <= y
  OBVIOUS
<1>2. Min({a, b}) \in {a, b} /\ \A y \in {a, b} : Min({a, b}) <= y
  BY <1>1 DEF Min
<1> QED
  BY <1>2

LEMMA DivMonotone ==
  ASSUME NEW a \in Nat, NEW b \in Nat, NEW n \in Nat \ {0}, a <= b
  PROVE  a \div n <= b \div n /\ a \div n \in Nat
<1> DEFINE p == a \div n
           q == b \div n
<1>1. /\ p \in Int /\ q \in Int
      /\ n * p <= a /\ a < n * p + n /\ n * q <= b /\ b < n * q + n
  OBVIOUS
<1> HIDE DEF p, q
<1>2. p <= q
  <2> SUFFICES ASSUME q + 1 <= p PROVE FALSE
    BY <1>1
  <2>1. n * (q + 1) <= n * p
    BY <1>1
  <2> QED
    BY <1>1, <2>1
<1>3. p >= 0
  <2> SUFFICES ASSUME p + 1 <= 0 PROVE FALSE
    BY <1>1
  <2>1. n * (p + 1) <= 0
    BY <1>1
  <2> QED
    BY <1>1, <2>1
<1> QED
  BY <1>1, <1>2, <1>3 DEF p, q

LEMMA MonthMonotone ==
  ASSUME NEW a \in Times, NEW b \in Times, a <= b
  PROVE  Month(a) <= Month(b) /\ Month(a) \in Months /\ Month(a) \in Nat
<1>1. a \in Nat /\ b \in Nat /\ MaxTime \in Nat /\ a <= MaxTime /\ MonthLen \in Nat \ {0}
  BY Bounds DEF Times
<1>2. a \div MonthLen <= b \div MonthLen /\ a \div MonthLen \in Nat
  BY <1>1, DivMonotone
<1>3. a \div MonthLen <= MaxTime \div MonthLen /\ MaxTime \div MonthLen \in Nat
  BY <1>1, DivMonotone
<1> QED
  BY <1>2, <1>3 DEF Month, Months

LEMMA MonthType == ASSUME NEW t \in Times PROVE Month(t) \in Months /\ Month(t) \in Nat
BY MonthMonotone, Bounds DEF Times

\* No delay is longer than Longest, however often a provider has failed.
LEMMA DelayBound ==
  ASSUME NEW kind \in Failures, NEW n \in Nat \ {0}, NEW d \in Delays(kind, n)
  PROVE  d \in Nat /\ d <= Longest
<1>1. CASE kind \in {"auth_error", "rate_limited"}
  BY <1>1, Bounds DEF Delays
<1>2. CASE kind \notin {"auth_error", "rate_limited"}
  <2> DEFINE factor == Doubled(n)
             put == Max({Interval, Base * factor})
  <2>1. factor \in Nat
    <3>1. Min({n, 5}) \in {n, 5} /\ Min({n, 5}) <= 5
      BY MinOfTwo
    <3>2. Min({n, 5}) \in 1 .. 5
      BY <3>1
    <3> QED
      BY <3>2 DEF Doubled
  <2> HIDE DEF factor
  <2>2. Base * factor \in Nat
    BY <2>1, Bounds
  <2>3. put \in Nat
    <3> DEFINE b == Base * factor
    <3>1. b \in Int /\ b \in Nat /\ Interval \in Int /\ Interval \in Nat
      BY <2>2, Bounds
    <3> HIDE DEF b
    <3>2. Max({Interval, b}) \in {Interval, b}
      BY <3>1, MaxOfTwo
    <3> QED
      BY <3>1, <3>2 DEF b
  <2>4. d = Min({Longest, put})
    BY <1>2 DEF Delays, factor
  <2> HIDE DEF put
  <2> QED
    BY <2>3, <2>4, MinOfTwo, Bounds
<1> QED
  BY <1>1, <1>2

-----------------------------------------------------------------------------
(***************************************************************************)
(* The row.                                                                 *)
(***************************************************************************)
LEMMA RowFacts ==
  ASSUME NEW r \in RowType
  PROVE  /\ r.month \in Nat /\ r.count \in 0 .. MonthlyCap /\ r.mcount \in 0 .. MinuteCap
         /\ r.next \in 0 .. MaxTime + Longest /\ r.failures \in Nat /\ Credit(r) \in Nat
<1>1. r.month \in Nat /\ r.count \in 0 .. MonthlyCap /\ r.mcount \in 0 .. MinuteCap
      /\ r.next \in 0 .. MaxTime + Longest /\ r.failures \in Nat
  BY DEF RowType, Months
<1>2. MonthlyCap * r.month \in Nat
  BY <1>1, Bounds
<1> QED
  BY <1>1, <1>2, Bounds DEF Credit

\* Normalizing takes the row to the month of the snapshot, and loses no credit on the way.
LEMMA NormalizedRow ==
  ASSUME NEW r \in RowType, NEW t \in Times, r.month <= Month(t)
  PROVE  LET n == Normalize(r, t)
         IN  /\ n \in RowType /\ n.month = Month(t)
             /\ n.next = r.next /\ n.failures = r.failures
             /\ r.month = Month(t) => n.count = r.count
             /\ Credit(n) >= Credit(r)
<1> DEFINE n == Normalize(r, t)
<1>1. n = [r EXCEPT !.month = Month(t), !.count = IF r.month = Month(t) THEN r.count ELSE 0,
                    !.minute = t, !.mcount = IF r.minute = t THEN r.mcount ELSE 0]
  BY DEF Normalize, RowType, Minute
<1>2. Month(t) \in Months /\ Month(t) \in Nat
  BY MonthType
<1>3. /\ n \in RowType /\ n.month = Month(t) /\ n.next = r.next /\ n.failures = r.failures
      /\ n.count = IF r.month = Month(t) THEN r.count ELSE 0
  <2>1. /\ n.month = Month(t) /\ n.next = r.next /\ n.failures = r.failures
        /\ n.count = IF r.month = Month(t) THEN r.count ELSE 0
    BY <1>1 DEF RowType
  <2>2. /\ (IF r.month = Month(t) THEN r.count ELSE 0) \in 0 .. MonthlyCap
        /\ (IF r.minute = t THEN r.mcount ELSE 0) \in 0 .. MinuteCap
    BY RowFacts, Bounds
  <2>3. n \in RowType
    BY <1>1, <1>2, <2>2 DEF RowType
  <2> QED
    BY <2>1, <2>3
<1>4. Credit(n) >= Credit(r)
  <2>1. CASE r.month = Month(t)
    BY <1>3, <2>1, RowFacts DEF Credit
  <2>2. CASE r.month # Month(t)
    <3>1. r.month + 1 <= Month(t) /\ r.count <= MonthlyCap /\ r.count \in Nat /\ r.month \in Nat
      BY <1>2, <2>2, RowFacts, Bounds
    <3>2. MonthlyCap * (r.month + 1) <= MonthlyCap * Month(t)
      BY <1>2, <3>1, Bounds
    <3>3. MonthlyCap * r.month + MonthlyCap <= MonthlyCap * Month(t)
      BY <3>1, <3>2, Bounds
    <3> DEFINE x == MonthlyCap * r.month
               y == MonthlyCap * Month(t)
    <3>4. x \in Nat /\ y \in Nat /\ x + MonthlyCap <= y /\ Credit(r) = x + r.count /\ Credit(n) = y + 0
      BY <1>2, <1>3, <2>2, <3>1, <3>3, Bounds DEF Credit
    <3> HIDE DEF x, y, n
    <3> QED
      BY <3>1, <3>4, Bounds
  <2> QED
    BY <2>1, <2>2
<1> QED
  BY <1>3, <1>4

\* What every transaction at time t leaves behind.
Written(t) ==
  /\ row' \in RowType /\ row'.month = Month(t)
  /\ row'.month = row.month => row'.count >= row.count
  /\ row'.next >= row.next
  /\ row'.failures <= Credit(row')

\* The history stays covered by what a transaction writes.
LEMMA WrittenCovers ==
  ASSUME TypesInv, SpentInv, NEW t \in Times, t <= clock, row.month <= Month(t), Written(t),
         UNCHANGED <<clock, spent, last>>
  PROVE  SpentInv'
<1>1. /\ row.month \in Nat /\ row'.month \in Nat /\ row.month <= row'.month
      /\ row.count \in Nat /\ row'.count \in Nat /\ row.next \in Nat /\ row'.next \in Nat
  BY RowFacts DEF TypesInv, Written
<1>2. row'.month <= Month(clock)
  BY MonthMonotone DEF Written, TypesInv
<1>3. last \in Nat /\ Interval \in Nat /\ MonthlyCap \in Nat
  BY Bounds DEF TypesInv, Times, Never
<1>4. last # Never => row'.next >= last + Interval
  BY <1>1, <1>3 DEF SpentInv, Written
<1>5. ASSUME NEW m \in Months
      PROVE  /\ spent[m] <= MonthlyCap
             /\ m > row'.month => spent[m] = 0
             /\ m = row'.month => spent[m] <= row'.count
  <2>1. m \in Nat /\ spent[m] \in Nat
    BY <1>5 DEF TypesInv, Months
  <2> QED
    BY <1>1, <2>1 DEF SpentInv, Written
<1> QED
  BY <1>2, <1>4, <1>5 DEF SpentInv, Written

-----------------------------------------------------------------------------
(***************************************************************************)
(* The steps.                                                               *)
(***************************************************************************)
LEMMA ProcFacts ==
  ASSUME TypesInv, NEW p \in Processes
  PROVE  /\ proc[p] \in ProcType
         /\ proc[p].at \in Times /\ proc[p].at \in Nat /\ proc[p].at <= MaxTime
BY Bounds DEF TypesInv, ProcType, Times

\* A transaction of the only process: its own obligations are all there are.
LEMMA OneStep ==
  ASSUME OneProcess, NEW p \in Processes, CallOf(proc[p])'
  PROVE  CallInv'
BY DEF OneProcess, CallInv

\* The steps between the transactions.
LEMMA PlainStep ==
  ASSUME OneProcess, IInv, NEW p \in Processes,
         Restart(p) \/ Snapshot(p) \/ Answered(p) \/ TransactionFails(p) \/ Crash(p)
  PROVE  IInv'
<1> USE DEF IInv, ledger, history
<1>0. proc[p] \in ProcType /\ CallOf(proc[p]) /\ clock \in Times /\ clock \in Nat
  BY ProcFacts, Bounds DEF CallInv, TypesInv, Times
<1>1. CASE Restart(p)
  <2>0. Refused = FALSE
    BY DEF Refused, FileInv
  <2>1. proc' = [proc EXCEPT ![p] = [pc |-> "idle", at |-> 0, cache |-> cache, err |-> FALSE]]
    BY <1>1, <2>0 DEF Restart
  <2>8. db' = "ok" /\ marker' = TRUE /\ UNCHANGED <<clock, cache, spent, last>>
    BY <1>1, <2>0 DEF Restart
  <2>9. row' = row
    BY <1>1, <2>0 DEF Restart, FileInv, TypesInv
  <2>2. /\ db' = "ok" /\ marker' = TRUE /\ UNCHANGED <<row, clock, cache, spent, last>>
        /\ proc' = [proc EXCEPT ![p] = [pc |-> "idle", at |-> 0, cache |-> cache, err |-> FALSE]]
    BY <2>1, <2>8, <2>9
  <2>3. [pc |-> "idle", at |-> 0, cache |-> cache, err |-> FALSE] \in ProcType
    BY Bounds DEF ProcType, TypesInv, Times
  <2>4. proc' \in [Processes -> ProcType] /\ proc'[p].pc = "idle"
    BY <2>2, <2>3 DEF TypesInv
  <2>5. TypesInv'
    BY <2>2, <2>4 DEF TypesInv
  <2>6. FileInv' /\ SpentInv'
    BY <2>2 DEF FileInv, SpentInv
  <2>7. CallInv'
    BY <2>4, OneStep DEF CallOf
  <2> QED
    BY <2>5, <2>6, <2>7
<1>2. CASE Snapshot(p)
  <2>1. /\ UNCHANGED <<clock, db, marker, row, cache, spent, last>> /\ proc[p].pc = "idle"
        /\ proc' = [proc EXCEPT ![p].pc = "reserve", ![p].at = clock]
    BY <1>2 DEF Snapshot
  <2>2. proc' \in [Processes -> ProcType] /\ proc'[p].pc = "reserve" /\ proc'[p].at = clock
    BY <1>0, <2>1 DEF TypesInv, ProcType
  <2>3. TypesInv' /\ SpentInv'
    BY <2>1, <2>2 DEF TypesInv, SpentInv
  <2>4. FileInv'
    BY <2>1, <2>2 DEF FileInv, OneProcess
  <2>5. CallInv'
    BY <1>0, <2>1, <2>2, OneStep DEF CallOf, SpentInv
  <2> QED
    BY <2>3, <2>4, <2>5
<1>3. CASE Answered(p)
  <2>1. /\ UNCHANGED <<clock, db, marker, row, spent, last>> /\ proc[p].pc = "wait"
        /\ proc' = [proc EXCEPT ![p].pc = "answered", ![p].cache = proc[p].at] /\ cache' \in {cache, proc[p].at}
    BY <1>3 DEF Answered
  <2>2. proc' \in [Processes -> ProcType] /\ proc'[p].pc = "answered" /\ proc'[p].at = proc[p].at
    BY <1>0, <2>1 DEF TypesInv, ProcType
  <2>3. TypesInv' /\ SpentInv'
    BY <2>1, <2>2, ProcFacts DEF TypesInv, SpentInv
  <2>4. FileInv'
    BY <2>1, <2>2 DEF FileInv, OneProcess
  <2>5. CallInv'
    BY <1>0, <2>1, <2>2, OneStep DEF CallOf
  <2> QED
    BY <2>3, <2>4, <2>5
<1>4. CASE TransactionFails(p) \/ Crash(p)
  <2>1. UNCHANGED <<clock, db, marker, row, cache, spent, last>> /\ proc[p].pc # "down"
    BY <1>4 DEF TransactionFails, Crash
  <2>2. Down \in ProcType
    BY Bounds DEF Down, ProcType, Times, Never
  <2>3. proc' \in [Processes -> ProcType] /\ proc'[p].pc \in {"idle", "down"}
    <3>1. CASE TransactionFails(p)
      BY <1>0, <3>1 DEF TransactionFails, TypesInv, ProcType
    <3>2. CASE Crash(p)
      <4>1. proc' = [proc EXCEPT ![p] = Down] /\ Down.pc = "down"
        BY <3>2 DEF Crash, Down
      <4> QED
        BY <2>2, <4>1 DEF TypesInv
    <3> QED
      BY <1>4, <3>1, <3>2
  <2>4. TypesInv' /\ SpentInv'
    BY <2>1, <2>3 DEF TypesInv, SpentInv
  <2>5. FileInv'
    BY <2>1, <2>3 DEF FileInv, OneProcess
  <2>6. CallInv'
    BY <2>3, OneStep DEF CallOf
  <2> QED
    BY <2>4, <2>5, <2>6
<1> QED
  BY <1>1, <1>2, <1>3, <1>4

\* A transaction at time t keeps the invariant when it writes what Written says, and does its duty
\* to the call of its process.
LEMMA Transaction ==
  ASSUME OneProcess, IInv, NEW p \in Processes, NEW t \in Times, t <= clock, row.month <= Month(t),
         db = "ok", UNCHANGED <<clock, db, marker, cache, spent, last>>,
         Written(t), proc' \in [Processes -> ProcType], CallOf(proc[p])'
  PROVE  IInv'
<1>1. SpentInv'
  BY WrittenCovers DEF IInv
<1>2. TypesInv'
  BY DEF IInv, TypesInv, Written
<1>3. FileInv'
  BY DEF IInv, FileInv
<1>4. CallInv'
  BY OneStep
<1> QED
  BY <1>1, <1>2, <1>3, <1>4 DEF IInv

LEMMA CachedStep ==
  ASSUME OneProcess, IInv, NEW p \in Processes, Cached(p) PROVE IInv'
<1>1. proc[p].pc = "idle" /\ db = "ok"
  BY DEF Cached, IInv, FileInv
<1>2. /\ row' = Normalize(row, clock)
      /\ UNCHANGED <<clock, db, marker, cache, proc, spent, last>>
  BY <1>1 DEF Cached, history
<1>3. clock \in Times /\ clock <= clock /\ row.month <= Month(clock) /\ row \in RowType
  BY DEF IInv, TypesInv, SpentInv, Times
<1>4. /\ row' \in RowType /\ row'.month = Month(clock) /\ row'.next = row.next /\ row'.failures = row.failures
      /\ row.month = Month(clock) => row'.count = row.count
      /\ Credit(row') >= Credit(row)
  BY <1>2, <1>3, NormalizedRow
<1>5. Written(clock)
  BY <1>3, <1>4, RowFacts DEF Written, IInv, SpentInv
<1>6. proc' \in [Processes -> ProcType] /\ CallOf(proc[p])'
  BY <1>1, <1>2 DEF IInv, TypesInv, CallOf
<1> QED
  BY <1>1, <1>2, <1>3, <1>5, <1>6, Transaction

\* What is known when a step of an open call begins its transaction, with the normalized row.
LEMMA OpenCall ==
  ASSUME IInv, NEW p \in Processes, proc[p].pc \notin {"down", "idle"}
  PROVE  LET t == proc[p].at
             n == Normalize(row, t)
         IN  /\ db = "ok" /\ t \in Times /\ t \in Nat /\ t <= MaxTime /\ t <= clock /\ row.month <= Month(t)
             /\ row \in RowType /\ n \in RowType /\ n.month = Month(t)
             /\ n.next = row.next /\ n.failures = row.failures
             /\ row.month = Month(t) => n.count = row.count
             /\ Credit(n) >= Credit(row) /\ row.failures <= Credit(row)
<1>1. /\ db = "ok" /\ proc[p].at \in Times /\ proc[p].at \in Nat /\ proc[p].at <= MaxTime
      /\ proc[p].at <= clock /\ row.month <= Month(proc[p].at)
      /\ row \in RowType /\ row.failures <= Credit(row)
  BY ProcFacts DEF IInv, FileInv, CallInv, CallOf, TypesInv, SpentInv
<1> QED
  BY <1>1, NormalizedRow

LEMMA ReserveStep ==
  ASSUME OneProcess, IInv, NEW p \in Processes, Reserve(p) PROVE IInv'
<1> DEFINE t == proc[p].at
           n == Normalize(row, t)
<1>1. /\ db = "ok" /\ t \in Times /\ t \in Nat /\ t <= MaxTime /\ t <= clock /\ row.month <= Month(t)
      /\ row \in RowType /\ n \in RowType /\ n.month = Month(t)
      /\ n.next = row.next /\ n.failures = row.failures
      /\ row.month = Month(t) => n.count = row.count
      /\ Credit(n) >= Credit(row) /\ row.failures <= Credit(row)
  BY OpenCall DEF Reserve
<1>2. /\ UNCHANGED <<clock, db, marker, cache, spent, last>>
      /\ row' = IF MayCall(n, t) THEN Reserved(n, t) ELSE Denied(n, t)
      /\ proc' = [proc EXCEPT ![p].pc = IF MayCall(n, t) THEN "call" ELSE "idle"]
  BY <1>1 DEF Reserve, Goes, history
<1>3. /\ proc' \in [Processes -> ProcType] /\ proc'[p].at = t
      /\ proc'[p].pc = IF MayCall(n, t) THEN "call" ELSE "idle"
  BY <1>2, ProcFacts DEF IInv, TypesInv, ProcType
<1>4. /\ row.month \in Nat /\ row.count \in Nat /\ row.next \in Nat /\ row.failures \in Nat
      /\ n.month \in Nat /\ n.count \in 0 .. MonthlyCap /\ n.mcount \in 0 .. MinuteCap
      /\ n.next \in 0 .. MaxTime + Longest /\ n.failures \in Nat
      /\ Credit(row) \in Nat /\ Credit(n) \in Nat
  BY <1>1, RowFacts
<1> HIDE DEF n, t
<1>5. CASE MayCall(n, t)
  <2>1. row' = [n EXCEPT !.count = n.count + 1, !.mcount = n.mcount + 1, !.next = t + Interval, !.status = "reserved"]
    BY <1>1, <1>2, <1>5 DEF Reserved, RowType
  <2>2. n.next <= t /\ n.count + 1 \in 0 .. MonthlyCap /\ n.mcount + 1 \in 0 .. MinuteCap
        /\ t + Interval \in 0 .. MaxTime + Longest
    BY <1>1, <1>4, <1>5, Bounds DEF MayCall, Waits, MonthDone, MinuteDone
  <2>3. /\ row' \in RowType /\ row'.month = n.month /\ row'.count = n.count + 1
        /\ row'.next = t + Interval /\ row'.failures = n.failures
    BY <1>1, <2>1, <2>2 DEF RowType
  <2>4. Credit(row') = Credit(n) + 1
    <3>1. MonthlyCap * n.month \in Nat
      BY <1>4, Bounds
    <3> QED
      BY <1>4, <2>3, <3>1 DEF Credit
  <2>5. Written(t)
    BY <1>1, <1>4, <2>2, <2>3, <2>4, Bounds DEF Written
  <2>6. spent[Month(t)] + 1 <= row'.count
    <3>1. Month(t) \in Months /\ Month(t) \in Nat /\ spent[Month(t)] \in Nat
      BY <1>1, MonthType DEF IInv, TypesInv
    <3>2. CASE row.month = Month(t)
      BY <1>1, <1>4, <2>3, <3>1, <3>2 DEF IInv, SpentInv
    <3>3. CASE row.month # Month(t)
      <4>1. spent[Month(t)] = 0
        BY <1>1, <1>4, <3>1, <3>3 DEF IInv, SpentInv
      <4> QED
        BY <1>4, <2>3, <4>1
    <3> QED
      BY <3>2, <3>3
  <2>7. last # Never => t >= last + Interval
    <3>1. last \in Nat /\ Interval \in Nat
      BY Bounds DEF IInv, TypesInv, Times, Never
    <3> QED
      BY <1>1, <1>4, <2>2, <3>1 DEF IInv, SpentInv
  <2>8. proc'[p].pc = "call"
    BY <1>3, <1>5
  <2>9. row'.next >= t + Interval /\ row'.failures + 1 <= Credit(row')
    BY <1>1, <1>4, <2>3, <2>4, Bounds
  <2>10. row'.month = Month(t) /\ row'.month <= Month(t)
    BY <1>1, <1>4, <2>3
  <2>11. CallOf(proc[p])'
    BY <1>1, <1>2, <1>3, <2>6, <2>7, <2>8, <2>9, <2>10 DEF CallOf
  <2> QED
    BY <1>1, <1>2, <1>3, <2>5, <2>11, Transaction
<1>6. CASE ~MayCall(n, t)
  <2>1. /\ row' \in RowType /\ row'.month = n.month /\ row'.count = n.count
        /\ row'.next >= n.next /\ row'.failures = n.failures
    <3>1. CASE row' = n
      BY <1>1, <1>4, <3>1
    <3>2. CASE row' = [n EXCEPT !.next = Max({n.next, t + 1}), !.status = "minute_rate_limited"]
      <4> DEFINE next == Max({n.next, t + 1})
      <4>1. n.next \in Int /\ t + 1 \in Int /\ t + 1 \in 0 .. MaxTime + Longest
        BY <1>1, <1>4, Bounds
      <4>2. next \in {n.next, t + 1} /\ next >= n.next
        BY <4>1, MaxOfTwo
      <4>3. next \in 0 .. MaxTime + Longest
        BY <1>4, <4>1, <4>2
      <4> HIDE DEF next
      <4>4. row' = [n EXCEPT !.next = next, !.status = "minute_rate_limited"]
        BY <3>2 DEF next
      <4> QED
        BY <1>1, <4>2, <4>3, <4>4 DEF RowType
    <3>3. Denied(n, t) = n \/ Denied(n, t) = [n EXCEPT !.next = Max({n.next, t + 1}), !.status = "minute_rate_limited"]
      BY <1>1 DEF Denied, Minute, RowType
    <3> QED
      BY <1>2, <1>6, <3>1, <3>2, <3>3
  <2>2. Credit(row') = Credit(n)
    BY <2>1 DEF Credit
  <2>3. Written(t)
    BY <1>1, <1>4, <2>1, <2>2 DEF Written
  <2>4. proc'[p].pc = "idle"
    BY <1>3, <1>6
  <2>5. CallOf(proc[p])'
    BY <2>4 DEF CallOf
  <2> QED
    BY <1>1, <1>2, <1>3, <2>3, <2>5, Transaction
<1> QED
  BY <1>5, <1>6

\* The result of a call: the row is normalized, put off and marked.
LEMMA MarkStep ==
  ASSUME OneProcess, IInv, NEW p \in Processes, MarkSuccess(p) \/ MarkFailure(p) PROVE IInv'
<1> DEFINE t == proc[p].at
           n == Normalize(row, t)
<1>1. /\ db = "ok" /\ t \in Times /\ t \in Nat /\ t <= MaxTime /\ t <= clock /\ row.month <= Month(t)
      /\ row \in RowType /\ n \in RowType /\ n.month = Month(t)
      /\ n.next = row.next /\ n.failures = row.failures
      /\ row.month = Month(t) => n.count = row.count
      /\ Credit(n) >= Credit(row) /\ row.failures <= Credit(row)
  BY OpenCall DEF MarkSuccess, MarkFailure
<1>2. /\ UNCHANGED <<clock, db, marker, cache, spent, last>>
      /\ proc' = [proc EXCEPT ![p].pc = "idle"]
  BY <1>1 DEF MarkSuccess, MarkFailure, Goes, history
<1>3. proc' \in [Processes -> ProcType] /\ proc'[p].pc = "idle"
  BY <1>2, ProcFacts DEF IInv, TypesInv, ProcType
<1>4. /\ row.month \in Nat /\ row.count \in Nat /\ row.next \in Nat /\ row.failures \in Nat
      /\ n.month \in Nat /\ n.count \in 0 .. MonthlyCap
      /\ n.next \in 0 .. MaxTime + Longest /\ n.failures \in Nat
      /\ Credit(row) \in Nat /\ Credit(n) \in Nat
  BY <1>1, RowFacts
<1>5. \E d \in Nat, f \in {0, n.failures + 1}, s \in Failures \cup {"success"} :
        /\ d <= Longest /\ f <= Credit(n)
        /\ row' = [n EXCEPT !.failures = f, !.status = s, !.next = Max({n.next, t + d})]
  <2>1. CASE MarkSuccess(p)
    <3>1. row' = [n EXCEPT !.failures = 0, !.status = "success", !.next = Max({n.next, t + Interval})]
      BY <1>1, <2>1 DEF MarkSuccess, RowType
    <3>2. Interval \in Nat /\ Interval <= Longest /\ 0 <= Credit(n)
      BY <1>4, Bounds
    <3> QED
      BY <3>1, <3>2
  <2>2. CASE MarkFailure(p)
    <3>0. PICK kind \in Failures : \E e \in Delays(kind, n.failures + 1) :
            row' = [n EXCEPT !.failures = n.failures + 1, !.status = kind, !.next = Max({n.next, t + e})]
      BY <1>1, <2>2 DEF MarkFailure, RowType
    <3>1. PICK d \in Delays(kind, n.failures + 1) :
            row' = [n EXCEPT !.failures = n.failures + 1, !.status = kind, !.next = Max({n.next, t + d})]
      BY <3>0
    <3>2. d \in Nat /\ d <= Longest
      <4>1. n.failures + 1 \in Nat \ {0}
        BY <1>4
      <4> QED
        BY <4>1, DelayBound
    <3>3. n.failures + 1 <= Credit(n)
      <4>1. row.failures + 1 <= Credit(row)
        BY <2>2 DEF MarkFailure, IInv, CallInv, CallOf
      <4> QED
        BY <1>1, <1>4, <4>1
    <3> QED
      BY <3>1, <3>2, <3>3
  <2> QED
    BY <2>1, <2>2
<1> HIDE DEF n, t
<1>6. PICK d \in Nat, f \in {0, n.failures + 1}, s \in Failures \cup {"success"} :
        /\ d <= Longest /\ f <= Credit(n)
        /\ row' = [n EXCEPT !.failures = f, !.status = s, !.next = Max({n.next, t + d})]
  BY <1>5
<1> DEFINE next == Max({n.next, t + d})
<1>7. next >= n.next /\ next \in 0 .. MaxTime + Longest
  <2>1. n.next \in Int /\ t + d \in Int /\ t + d \in 0 .. MaxTime + Longest
    BY <1>1, <1>4, <1>6, Bounds
  <2>2. next \in {n.next, t + d} /\ next >= n.next
    BY <2>1, MaxOfTwo
  <2> QED
    BY <1>4, <2>1, <2>2
<1>8. row' = [n EXCEPT !.failures = f, !.status = s, !.next = next] /\ f \in Nat
  BY <1>4, <1>6
<1> HIDE DEF next
<1>9. /\ row' \in RowType /\ row'.month = n.month /\ row'.count = n.count
      /\ row'.next = next /\ row'.failures = f
  BY <1>1, <1>7, <1>8 DEF RowType
<1>10. Credit(row') = Credit(n)
  BY <1>9 DEF Credit
<1>11. Written(t)
  BY <1>1, <1>4, <1>6, <1>7, <1>9, <1>10 DEF Written
<1>12. CallOf(proc[p])'
  BY <1>3 DEF CallOf
<1> QED
  BY <1>1, <1>2, <1>3, <1>11, <1>12, Transaction

\* The request leaves under the budget, an interval after the one before.
LEMMA CallAllowed ==
  ASSUME IInv, NEW p \in Processes, Call(p)
  PROVE  /\ spent[Month(proc[p].at)] < MonthlyCap
         /\ last # Never => proc[p].at >= last + Interval
<1>1. /\ row.month = Month(proc[p].at) /\ spent[row.month] + 1 <= row.count
      /\ last # Never => proc[p].at >= last + Interval
  BY DEF Call, IInv, CallInv, CallOf
<1>2. row.count \in 0 .. MonthlyCap /\ row.month \in Months /\ spent[row.month] \in Nat
  BY DEF IInv, TypesInv, RowType
<1> QED
  BY <1>1, <1>2, Bounds

LEMMA CallStep ==
  ASSUME OneProcess, IInv, NEW p \in Processes, Call(p) PROVE IInv'
<1> USE DEF IInv
<1>1. /\ UNCHANGED <<clock, db, marker, row, cache>> /\ last' = proc[p].at /\ proc[p].pc = "call"
      /\ spent' = [spent EXCEPT ![Month(proc[p].at)] = @ + 1] /\ proc' = [proc EXCEPT ![p].pc = "wait"]
  BY DEF Call, Goes, ledger
<1>2. CallOf(proc[p]) /\ row.month = Month(proc[p].at) /\ row.month \in Months /\ row.month \in Nat
      /\ row.count \in 0 .. MonthlyCap /\ row.count \in Nat
  BY <1>1, RowFacts, Bounds DEF CallInv, CallOf, TypesInv, RowType
<1>3. proc' \in [Processes -> ProcType] /\ proc'[p].pc = "wait" /\ proc'[p].at = proc[p].at
  BY <1>1, ProcFacts DEF TypesInv, ProcType
<1>4. \A m \in Months : /\ spent[m] \in Nat
                        /\ spent'[m] = IF m = row.month THEN spent[m] + 1 ELSE spent[m]
  BY <1>1, <1>2 DEF TypesInv
<1>5. spent' \in [Months -> Nat]
  BY <1>1, <1>2 DEF TypesInv
<1>6. TypesInv'
  BY <1>1, <1>3, <1>5, ProcFacts DEF TypesInv
<1>7. FileInv'
  BY <1>1, <1>3 DEF FileInv, OneProcess
<1>8. SpentInv'
  <2>1. row.next >= last' + Interval
    BY <1>1, <1>2 DEF CallOf
  <2>2. spent[row.month] + 1 <= row.count /\ row.count <= MonthlyCap
    BY <1>1, <1>2 DEF CallOf
  <2>3. ASSUME NEW m \in Months
        PROVE  /\ spent'[m] <= MonthlyCap
               /\ m > row.month => spent'[m] = 0
               /\ m = row.month => spent'[m] <= row.count
    <3>1. m \in Nat
      BY DEF Months
    <3> QED
      BY <1>2, <1>4, <2>2, <3>1, Bounds DEF SpentInv
  <2> QED
    BY <1>1, <2>1, <2>3 DEF SpentInv
<1>9. CallInv'
  BY <1>1, <1>2, <1>3, OneStep DEF CallOf
<1> QED
  BY <1>6, <1>7, <1>8, <1>9

LEMMA TickStep == ASSUME IInv, Tick PROVE IInv'
<1> USE DEF IInv
<1>1. UNCHANGED <<db, marker, row, cache, proc, spent, last>> /\ clock' = clock + 1 /\ clock < MaxTime
  BY DEF Tick, ledger, history
<1>2. clock \in Times /\ clock' \in Times /\ clock \in Nat /\ clock <= clock'
  BY <1>1, Bounds DEF TypesInv, Times
<1>3. Month(clock) <= Month(clock') /\ Month(clock) \in Nat /\ Month(clock') \in Nat
  BY <1>2, MonthMonotone, MonthType
<1>4. row.month \in Nat
  BY RowFacts DEF TypesInv
<1>5. TypesInv' /\ FileInv'
  BY <1>1, <1>2 DEF TypesInv, FileInv
<1>6. SpentInv'
  BY <1>1, <1>3, <1>4 DEF SpentInv
<1>7. CallInv'
  <2>1. \A q \in Processes : proc[q].at \in Nat
    BY ProcFacts
  <2> QED
    BY <1>1, <1>2, <2>1 DEF CallInv, CallOf
<1> QED
  BY <1>5, <1>6, <1>7

-----------------------------------------------------------------------------
(***************************************************************************)
(* The theorems.                                                            *)
(***************************************************************************)
LEMMA InitIInv == Init => IInv
<1> SUFFICES ASSUME Init PROVE IInv
  OBVIOUS
<1>1. 0 \in Times /\ Month(0) \in Months /\ Month(0) \in Nat /\ 0 \in Months
  <2>1. 0 \in Times /\ MaxTime \in Times
    BY Bounds DEF Times
  <2>2. Month(MaxTime) \in Nat
    BY <2>1, MonthType
  <2> QED
    BY <2>1, <2>2, MonthType DEF Months
<1>2. NoRow \in RowType
  BY <1>1, Bounds DEF NoRow, RowType
<1>3. Down \in ProcType
  BY <1>1 DEF Down, ProcType
<1>4. TypesInv
  BY <1>1, <1>2, <1>3 DEF Init, TypesInv
<1>5. FileInv
  BY DEF Init, FileInv, Down
<1>6. SpentInv
  BY <1>1, Bounds DEF Init, SpentInv, NoRow, Credit
<1>7. CallInv
  BY DEF Init, CallInv, CallOf, Down
<1> QED
  BY <1>4, <1>5, <1>6, <1>7 DEF IInv

LEMMA NextIInv == ASSUME OneProcess PROVE IInv /\ [Next]_vars => IInv'
<1> SUFFICES ASSUME IInv, [Next]_vars PROVE IInv'
  OBVIOUS
<1>1. ASSUME NEW p \in Processes, Step(p) PROVE IInv'
  BY <1>1, PlainStep, CachedStep, ReserveStep, CallStep, MarkStep DEF Step
<1>2. CASE UNCHANGED vars
  BY <1>2 DEF vars, IInv, TypesInv, FileInv, SpentInv, CallInv, CallOf
<1> QED
  BY <1>1, <1>2, TickStep DEF Next

\* The invariant holds of every behaviour of one process, for every cap, interval and calendar.
THEOREM Invariance == OneProcess => (Spec => []IInv)
<1> SUFFICES ASSUME OneProcess PROVE Spec => []IInv
  OBVIOUS
<1>1. Init => IInv
  BY InitIInv
<1>2. IInv /\ [Next]_vars => IInv'
  BY NextIInv
<1> QED
  BY <1>1, <1>2, PTL DEF Spec

LEMMA TypeOfInvariant == IInv => TypeOK
<1> SUFFICES ASSUME IInv PROVE TypeOK
  OBVIOUS
<1> DEFINE last_month == Month(MaxTime)
<1>1. last_month \in Nat /\ row.month \in 0 .. last_month /\ row.count <= MonthlyCap
      /\ row.failures \in Nat /\ row.failures <= Credit(row) /\ row.count \in Nat
  <2>1. MaxTime \in Times
    BY Bounds DEF Times
  <2> QED
    BY <2>1, MonthType, RowFacts, Bounds DEF IInv, TypesInv, SpentInv, RowType, Months
<1> HIDE DEF last_month
<1>2. Cardinality(Months) = last_month + 1
  BY <1>1, FS_Interval DEF Months, last_month
<1>3. row.failures \in 0 .. MonthlyCap * Cardinality(Months)
  <2>1. MonthlyCap * (row.month + 1) <= MonthlyCap * (last_month + 1)
    BY <1>1, Bounds
  <2>2. MonthlyCap * (row.month + 1) = MonthlyCap * row.month + MonthlyCap
    BY <1>1, Bounds
  <2> DEFINE x == MonthlyCap * row.month
             y == MonthlyCap * (last_month + 1)
  <2>3. x \in Nat /\ y \in Nat /\ x + MonthlyCap <= y /\ row.failures <= x + row.count
    BY <1>1, <2>1, <2>2, Bounds DEF Credit
  <2> HIDE DEF x, y
  <2>4. row.failures \in 0 .. y
    BY <1>1, <2>3, Bounds
  <2> QED
    BY <1>2, <2>4 DEF y
<1> QED
  BY <1>3 DEF IInv, TypesInv, TypeOK, RowType, ProcType

\* The ledger keeps its types; in particular a provider is never credited with more failures than
\* calls that were granted, and no delay puts a call off beyond the longest (external_context.py,
\* _normalize_row, reserve, mark_failure).
THEOREM TypeCorrect == OneProcess => (Spec => []TypeOK)
<1> SUFFICES ASSUME OneProcess PROVE Spec => []TypeOK
  OBVIOUS
<1>1. Spec => []IInv
  BY Invariance
<1> QED
  BY <1>1, TypeOfInvariant, PTL

\* No request leaves beyond the budget of its month or within an interval of the one before it,
\* wherever the process crashes or a transaction fails (external_context.py, reserve, _provider).
THEOREM Budget == OneProcess => (Spec => BudgetKept)
<1> SUFFICES ASSUME OneProcess PROVE Spec => BudgetKept
  OBVIOUS
<1>1. Spec => []IInv
  BY Invariance
<1>2. IInv /\ [Next]_vars =>
        [\A p \in Processes : Call(p) =>
            /\ spent[Month(proc[p].at)] < MonthlyCap
            /\ last # Never => proc[p].at >= last + Interval]_vars
  BY CallAllowed
<1> QED
  BY <1>1, <1>2, PTL DEF Spec, BudgetKept

\* No month ever sees more requests than its cap ("refusing a zero reset", external_context.py).
THEOREM MonthKept == OneProcess => (Spec => []MonthlyBudget)
<1> SUFFICES ASSUME OneProcess PROVE Spec => []MonthlyBudget
  OBVIOUS
<1>1. Spec => []IInv
  BY Invariance
<1>2. IInv => MonthlyBudget
  BY DEF IInv, SpentInv, MonthlyBudget
<1> QED
  BY <1>1, <1>2, PTL

-----------------------------------------------------------------------------
(***************************************************************************)
(* The inductive invariant of MarketStream.                                 *)
(***************************************************************************)
FrameType == [sym : Symbols, id : Nat]
ThreadType == [gen : Nat, sym : Symbols, st : {"wait", "opening", "open"}, first : BOOLEAN,
               opened : Int, again : BOOLEAN, wire : Seq(FrameType)]

SampleRow == [sym : Symbols, id : Nat, at : Nat]
BookType == [sym : Symbols \cup {""}, at : Int]
StreamType == [gen : Nat, sym : Symbols \cup {""}, alive : BOOLEAN, connected : BOOLEAN,
               rows : SUBSET SampleRow, book : BookType, started : Int, lastId : Int]

MarketTypes ==
  /\ now \in Nat /\ lastTrade \in [Symbols -> Nat]
  /\ pair \in [sym : Symbols, gen : Nat]
  /\ stream \in StreamType
  /\ threads \subseteq ThreadType

\* The rows are consecutive trades of the symbol up to the last one, in the order in which they
\* came, and the book is one of the symbol.
Coherent(s) ==
  /\ s.lastId = None => s.rows = {}
  /\ \A r \in s.rows : r.at <= now /\ r.id <= s.lastId /\ r.sym = s.sym
  /\ \A q, r \in s.rows : q.id <= r.id => q.at <= r.at
  /\ \A r \in s.rows : \A n \in r.id .. s.lastId : \E q \in s.rows : q.id = n
  /\ s.book # NoBook => s.book.sym = s.sym

\* A thread of the generation listens to its symbol, and a connection that was opened again began
\* a sample of its own.
Sampling(s, ts) ==
  \A t \in ts :
    /\ t.gen <= s.gen
    /\ t.gen = s.gen => t.sym = s.sym /\ (t.again => t.opened <= s.started)

\* What was sampled for a pair shows its symbol, within the window before at.
ShowsPair(e, p, at) ==
  /\ e.whole = TRUE /\ e.shown # {}
  /\ \A x \in e.shown : x.sym = p.sym /\ x.at \in Int /\ at - x.at <= Window

\* What was sampled, and what was published of it, was whole and of the pair it is published for.
JobInv ==
  /\ job.pc \in {"loaded", "sampled"} => job.pair.sym \in Symbols
  /\ job.pc = "sampled" => job.at \in Nat /\ ShowsPair(job, job.pair, job.at)
FlowInv ==
  flow.ok /\ flow.bullish =>
    /\ flow.at \in Nat
    /\ \E e \in flow.seen :
         /\ ShowsPair(e, flow.pair, flow.at)
         /\ e.up >= 3 /\ e.failed = 0 /\ (RequireExternal => ~e.against)

SampleInv == /\ Coherent(stream) /\ Sampling(stream, threads) /\ stream.started <= now

MarketIInv == MarketTypes /\ SampleInv /\ JobInv /\ FlowInv

LEMMA StreamFields ==
  ASSUME NEW s \in StreamType
  PROVE  /\ s.gen \in Nat /\ s.started \in Int /\ s.lastId \in Int /\ s.rows \subseteq SampleRow
         /\ s.book \in BookType
         /\ \A r \in s.rows : r.id \in Nat /\ r.at \in Nat
<1>1. /\ s.gen \in Nat /\ s.started \in Int /\ s.lastId \in Int /\ s.rows \subseteq SampleRow
      /\ s.book \in BookType
  BY DEF StreamType
<1> QED
  BY <1>1 DEF SampleRow

LEMMA ResetFacts ==
  ASSUME NEW s \in StreamType, now \in Nat
  PROVE  /\ Reset(s) \in StreamType /\ Coherent(Reset(s))
         /\ Reset(s).gen = s.gen /\ Reset(s).sym = s.sym
         /\ Reset(s).started = now /\ Reset(s).lastId = None /\ Reset(s).rows = {}
<1>1. None \in Int /\ now \in Int /\ {} \in SUBSET SampleRow /\ NoBook \in BookType
  BY DEF None, NoBook, BookType
<1>2. /\ Reset(s) \in StreamType /\ Reset(s).gen = s.gen /\ Reset(s).sym = s.sym
      /\ Reset(s).book = NoBook
      /\ Reset(s).started = now /\ Reset(s).lastId = None /\ Reset(s).rows = {}
  BY <1>1 DEF Reset, StreamType
<1> QED
  BY <1>2 DEF Coherent

LEMMA PruneFacts ==
  ASSUME MarketAssumption, NEW s \in StreamType, now \in Nat, Coherent(s)
  PROVE  /\ Prune(s) \in StreamType /\ Coherent(Prune(s))
         /\ Prune(s).gen = s.gen /\ Prune(s).sym = s.sym /\ Prune(s).started = s.started
<1>1. Window \in Nat
  BY DEF MarketAssumption
<1>2. /\ Prune(s).rows = {r \in s.rows : r.at >= now - Window}
      /\ Prune(s) \in StreamType /\ Prune(s).gen = s.gen /\ Prune(s).started = s.started
      /\ Prune(s).lastId = s.lastId /\ Prune(s).sym = s.sym /\ Prune(s).book = s.book
  BY DEF Prune, StreamType
<1>3. ASSUME NEW r \in Prune(s).rows, NEW n \in r.id .. s.lastId
      PROVE  \E q \in Prune(s).rows : q.id = n
  <2>1. r \in s.rows /\ r.at >= now - Window /\ r.id <= n
    BY <1>2, <1>3, StreamFields
  <2>2. PICK q \in s.rows : q.id = n
    BY <1>3, <2>1 DEF Coherent
  <2>3. r.at <= q.at /\ r.at \in Nat /\ q.at \in Nat
    BY <2>1, <2>2, StreamFields DEF Coherent
  <2>4. q.at >= now - Window
    BY <1>1, <2>1, <2>3
  <2> QED
    BY <1>2, <2>2, <2>4
<1> QED
  BY <1>2, <1>3 DEF Coherent

LEMMA TakeFacts ==
  ASSUME MarketAssumption, NEW s \in StreamType, now \in Nat, Coherent(s),
         NEW f \in FrameType, f.sym = s.sym, s.lastId = None \/ f.id = s.lastId + 1
  PROVE  /\ Take(s, f) \in StreamType /\ Coherent(Take(s, f))
         /\ Take(s, f).gen = s.gen /\ Take(s, f).sym = s.sym /\ Take(s, f).started = s.started
<1> DEFINE id == f.id
           new == [sym |-> f.sym, id |-> id, at |-> now]
           u == [s EXCEPT !.rows = @ \cup {new}, !.lastId = id]
<1>0. id \in Nat /\ f.sym \in Symbols
  BY DEF FrameType
<1>1. /\ u \in StreamType /\ u.rows = s.rows \cup {new} /\ u.lastId = id /\ u.gen = s.gen
      /\ u.started = s.started /\ u.sym = s.sym /\ u.book = s.book
  <2>1. s.rows \cup {new} \in SUBSET SampleRow /\ id \in Int
    BY <1>0, StreamFields DEF SampleRow
  <2> HIDE DEF new
  <2> QED
    BY <2>1 DEF StreamType
<1>2. Take(s, f) = Prune(u)
  BY DEF Take
<1>3. new.id = id /\ new.at = now /\ new.sym = s.sym /\ (s.lastId = None \/ id = s.lastId + 1)
  OBVIOUS
<1> HIDE DEF u, new, id
<1>4. \A r \in s.rows : r.id \in Nat /\ r.at \in Nat /\ r.id < id /\ r.at <= now /\ r.sym = s.sym
  BY <1>0, <1>3, StreamFields DEF Coherent
<1>5. ASSUME NEW r \in u.rows, NEW n \in r.id .. id PROVE \E q \in u.rows : q.id = n
  <2>1. CASE n = id
    BY <1>1, <1>3, <2>1
  <2>2. CASE n # id
    <3>1. r \in s.rows /\ r.id \in Int
      BY <1>0, <1>1, <1>3, <1>4, <1>5, <2>2
    <3>2. s.lastId # None /\ id = s.lastId + 1 /\ s.lastId \in Int
      BY <1>3, <3>1, StreamFields DEF Coherent
    <3>3. n \in r.id .. s.lastId
      BY <1>5, <2>2, <3>1, <3>2
    <3> QED
      BY <1>1, <3>1, <3>3 DEF Coherent
  <2> QED
    BY <2>1, <2>2
<1>6. \A r \in u.rows : r.at <= now /\ r.id <= id /\ r.sym = s.sym
  BY <1>0, <1>1, <1>3, <1>4
<1>7. \A q, r \in u.rows : q.id <= r.id => q.at <= r.at
  BY <1>0, <1>1, <1>3, <1>4 DEF Coherent
<1>8. Coherent(u)
  <2>1. u.lastId # None
    BY <1>0, <1>1 DEF None
  <2> QED
    BY <1>1, <1>5, <1>6, <1>7, <2>1 DEF Coherent
<1> QED
  BY <1>1, <1>2, <1>8, PruneFacts

LEMMA IngestFacts ==
  ASSUME MarketAssumption, NEW s \in StreamType, now \in Nat, Coherent(s), NEW f \in FrameType,
         s.started <= now
  PROVE  /\ Ingest(s, f) \in StreamType /\ Coherent(Ingest(s, f))
         /\ Ingest(s, f).gen = s.gen /\ Ingest(s, f).sym = s.sym
         /\ s.started <= Ingest(s, f).started /\ Ingest(s, f).started <= now
<1>1. Reset(s) \in StreamType /\ Coherent(Reset(s)) /\ Reset(s).gen = s.gen
      /\ Reset(s).sym = s.sym /\ Reset(s).started = now /\ Reset(s).lastId = None
  BY ResetFacts
<1>2. s.started \in Int /\ s.lastId \in Int /\ f.id \in Nat
  BY DEF StreamType, FrameType
<1>3. CASE Discarded(s, f)
  BY <1>2, <1>3 DEF Ingest
<1>4. CASE ~Discarded(s, f) /\ s.lastId # None /\ f.id # s.lastId + 1
  <2>1. Ingest(s, f) = Take(Reset(s), f) /\ f.sym = Reset(s).sym
    BY <1>1, <1>4 DEF Ingest, Discarded
  <2> QED
    BY <1>1, <1>2, <2>1, TakeFacts
<1>5. CASE ~Discarded(s, f) /\ (s.lastId = None \/ f.id = s.lastId + 1)
  <2>1. Ingest(s, f) = Take(s, f) /\ f.sym = s.sym
    BY <1>5 DEF Ingest, Discarded
  <2> QED
    BY <1>2, <1>5, <2>1, TakeFacts
<1> QED
  BY <1>3, <1>4, <1>5

\* A warm sample is whole.
LEMMA ReadyWhole ==
  ASSUME MarketAssumption, now \in Nat, NEW s \in StreamType, Coherent(s),
         NEW ts \in SUBSET ThreadType, Sampling(s, ts), IsReady(s)
  PROVE  /\ NoHole(s)
         /\ \A t \in ts : t.gen = s.gen /\ t.again => now - t.opened >= Window
<1>1. Coherent(Prune(s)) /\ Prune(s) \in StreamType
  BY PruneFacts
<1>2. NoHole(s)
  <2> SUFFICES ASSUME NEW q \in Prune(s).rows, NEW r \in Prune(s).rows, NEW n \in q.id .. r.id
               PROVE  \E x \in Prune(s).rows : x.id = n
    BY DEF NoHole
  <2>1. r.id <= Prune(s).lastId /\ r.id \in Int /\ q.id \in Int /\ Prune(s).lastId \in Int
    BY <1>1, StreamFields DEF Coherent
  <2>2. n \in q.id .. Prune(s).lastId
    BY <2>1
  <2> QED
    BY <1>1, <2>2 DEF Coherent
<1>3. ASSUME NEW t \in ts, t.gen = s.gen, t.again PROVE now - t.opened >= Window
  <2>1. t.opened <= s.started /\ t.opened \in Int /\ s.started \in Int
    BY <1>3, StreamFields DEF Sampling, ThreadType
  <2>2. now - s.started >= Window /\ Window \in Nat
    BY DEF IsReady, MarketAssumption
  <2> QED
    BY <2>1, <2>2
<1> QED
  BY <1>2, <1>3

\* A warm sample shows its own symbol, within the window.
LEMMA ReadyShown ==
  ASSUME MarketAssumption, now \in Nat, NEW s \in StreamType, Coherent(s), IsReady(s)
  PROVE  /\ Shown(s) # {}
         /\ \A x \in Shown(s) : x.sym = s.sym /\ x.at \in Int /\ now - x.at <= Window
<1>1. s.book # NoBook /\ now - s.book.at <= StaleAfter /\ StaleAfter <= Window
      /\ StaleAfter \in Int /\ Window \in Int
  BY DEF IsReady, IsFresh, MarketAssumption
<1>2. s.book.at \in Int /\ s.book.sym = s.sym /\ now - s.book.at <= Window
  <2>1. s.book.at \in Int
    BY StreamFields DEF BookType
  <2> QED
    BY <1>1, <2>1 DEF Coherent
<1>3. Prune(s).rows = {r \in s.rows : r.at >= now - Window}
  BY DEF Prune, StreamType
<1>4. ASSUME NEW r \in Prune(s).rows PROVE r.sym = s.sym /\ r.at \in Int /\ now - r.at <= Window
  <2>1. r \in s.rows /\ r.at >= now - Window /\ r.at \in Int
    BY <1>3, StreamFields
  <2> QED
    BY <1>1, <2>1 DEF Coherent
<1> QED
  BY <1>2, <1>4 DEF Shown

\* What the sample and the threads become, in a step that takes no time.
StreamPart == stream \in StreamType /\ threads \subseteq ThreadType /\ SampleInv

LEMMA StreamBecomes ==
  ASSUME MarketIInv, now' = now, NEW s \in StreamType, NEW ts \in SUBSET ThreadType,
         stream' = s, threads' = ts, Coherent(s), Sampling(s, ts), s.started <= now
  PROVE  StreamPart'
BY DEF StreamPart, SampleInv, Coherent, Sampling

LEMMA SameSample ==
  ASSUME MarketIInv, NEW s \in StreamType, s.rows = stream.rows, s.lastId = stream.lastId,
         s.gen = stream.gen, s.sym = stream.sym, s.started = stream.started,
         s.book # stream.book => s.book.sym = stream.sym
  PROVE  Coherent(s) /\ s.started <= now
BY DEF MarketIInv, SampleInv, Coherent

LEMMA SameBook ==
  ASSUME MarketIInv, NEW c \in BOOLEAN, NEW s, s = [stream EXCEPT !.connected = c]
  PROVE  /\ s \in StreamType /\ Coherent(s) /\ s.gen = stream.gen /\ s.sym = stream.sym
         /\ s.started = stream.started /\ s.started <= now
<1>1. /\ s \in StreamType /\ s.rows = stream.rows /\ s.lastId = stream.lastId
      /\ s.gen = stream.gen /\ s.started = stream.started /\ s.sym = stream.sym
      /\ s.book = stream.book
  BY DEF MarketIInv, MarketTypes, StreamType
<1> QED
  BY <1>1, SameSample

LEMMA NewBook ==
  ASSUME MarketIInv, NEW b \in BookType, b.sym = stream.sym, NEW s, s = [stream EXCEPT !.book = b]
  PROVE  /\ s \in StreamType /\ Coherent(s) /\ s.gen = stream.gen /\ s.sym = stream.sym
         /\ s.started = stream.started /\ s.started <= now
<1>1. /\ s \in StreamType /\ s.rows = stream.rows /\ s.lastId = stream.lastId
      /\ s.gen = stream.gen /\ s.started = stream.started /\ s.sym = stream.sym
      /\ s.book = b
  BY DEF MarketIInv, MarketTypes, StreamType
<1> QED
  BY <1>1, SameSample

LEMMA ThreadFields ==
  ASSUME NEW t \in ThreadType
  PROVE  t.gen \in Nat /\ t.opened \in Int /\ t.again \in BOOLEAN /\ t.first \in BOOLEAN /\ t.wire \in Seq(FrameType)
BY DEF ThreadType

\* A callback of thread t, which goes on as u and leaves the sample s.
LEMMA CallbackStep ==
  ASSUME MarketIInv, now' = now, NEW t \in threads, NEW u \in ThreadType, u.gen = t.gen, u.sym = t.sym,
         threads' \subseteq (threads \ {t}) \cup {u},
         NEW s \in StreamType, Coherent(s), s.gen = stream.gen, s.sym = stream.sym,
         stream.started <= s.started, s.started <= now,
         Callback(t, s),
         Current(t) /\ u.again => u.opened <= s.started
  PROVE  StreamPart'
<1>1. /\ stream \in StreamType /\ threads \subseteq ThreadType /\ Coherent(stream)
      /\ Sampling(stream, threads) /\ stream.started <= now
  BY DEF MarketIInv, MarketTypes, SampleInv
<1>2. stream' \in StreamType /\ Coherent(stream')
      /\ stream'.gen = stream.gen /\ stream'.sym = stream.sym
      /\ stream.started <= stream'.started /\ stream'.started <= now
      /\ (stream' # s => ~Current(t))
  BY <1>1, StreamFields DEF Callback
<1>3. threads' \subseteq ThreadType
  BY <1>1
<1>4. ASSUME NEW x \in threads'
      PROVE  /\ x.gen <= stream'.gen
             /\ x.gen = stream'.gen => x.sym = stream'.sym /\ (x.again => x.opened <= stream'.started)
  <2>1. CASE x \in threads
    BY <1>1, <1>2, <2>1, ThreadFields, StreamFields DEF Sampling
  <2>2. CASE x = u
    BY <1>1, <1>2, <2>2, ThreadFields, StreamFields DEF Sampling, Current
  <2> QED
    BY <1>4, <2>1, <2>2
<1> QED
  BY <1>2, <1>3, <1>4, StreamBecomes DEF Sampling

LEMMA DialStep == ASSUME MarketIInv, NEW t \in threads, Dial(t) PROVE StreamPart'
<1> DEFINE u == [t EXCEPT !.st = "opening"]
<1>1. t \in ThreadType /\ stream \in StreamType
  BY DEF MarketIInv, MarketTypes
<1>2. u \in ThreadType /\ u.gen = t.gen /\ u.sym = t.sym /\ u.again = t.again /\ u.opened = t.opened
  BY <1>1 DEF ThreadType
<1>3. Coherent(stream) /\ stream.started <= now /\ stream.started <= stream.started
      /\ (Current(t) /\ t.again => t.opened <= stream.started)
  BY <1>1, StreamFields DEF MarketIInv, SampleInv, Sampling, Current
<1>4. now' = now /\ threads' \subseteq (threads \ {t}) \cup {u} /\ Callback(t, stream)
  BY DEF Dial, GoOn, OthersOfSocket, Callback
<1> HIDE DEF u
<1> QED
  BY <1>1, <1>2, <1>3, <1>4, CallbackStep

LEMMA OpenStep == ASSUME MarketIInv, NEW t \in threads, Open(t) PROVE StreamPart'
<1> DEFINE again == ~t.first
           none == <<>>
           u == [t EXCEPT !.st = "open", !.opened = now, !.again = again, !.wire = none]
           c == [stream EXCEPT !.connected = TRUE]
           s == IF t.first THEN c ELSE Reset(c)
<1>1. t \in ThreadType /\ stream \in StreamType /\ now \in Nat
  BY DEF MarketIInv, MarketTypes
<1>2. u \in ThreadType /\ u.gen = t.gen /\ u.sym = t.sym /\ u.opened = now /\ (u.again => ~t.first)
  <2>1. again \in BOOLEAN /\ none \in Seq(FrameType) /\ now \in Int
    BY <1>1
  <2>2. again => ~t.first
    OBVIOUS
  <2> HIDE DEF again, none
  <2> QED
    BY <1>1, <2>1, <2>2 DEF ThreadType
<1>3. c \in StreamType /\ Coherent(c) /\ c.gen = stream.gen /\ c.sym = stream.sym
      /\ c.started = stream.started
      /\ c.started <= now /\ c.started \in Int
  <2>1. c = [stream EXCEPT !.connected = TRUE] /\ TRUE \in BOOLEAN
    OBVIOUS
  <2> HIDE DEF c
  <2>2. /\ c \in StreamType /\ Coherent(c) /\ c.gen = stream.gen /\ c.sym = stream.sym
        /\ c.started = stream.started /\ c.started <= now
    BY <2>1, SameBook
  <2> QED
    BY <2>2, StreamFields
<1>4. now' = now /\ threads' = (threads \ {t}) \cup {u} /\ Callback(t, s)
  BY DEF Open, Become, OthersOfSocket
<1> HIDE DEF u, c
<1>5. /\ s \in StreamType /\ Coherent(s) /\ s.gen = stream.gen /\ s.sym = stream.sym
      /\ stream.started <= s.started
      /\ s.started <= now /\ (~t.first => s.started = now)
  BY <1>1, <1>3, ResetFacts
<1> HIDE DEF s
<1> QED
  BY <1>1, <1>2, <1>4, <1>5, CallbackStep

LEMMA HeadTail ==
  ASSUME NEW w \in Seq(FrameType), w # <<>> PROVE Head(w) \in FrameType /\ Tail(w) \in Seq(FrameType)
<1>1. Len(w) \in Nat /\ Len(w) # 0
  OBVIOUS
<1>2. Head(w) = w[1] /\ 1 \in 1 .. Len(w)
  BY <1>1
<1>3. w[1] \in FrameType
  BY <1>2
<1>4. Tail(w) \in Seq(FrameType)
  OBVIOUS
<1> QED
  BY <1>2, <1>3, <1>4

LEMMA OnTradeStep == ASSUME MarketAssumption, MarketIInv, NEW t \in threads, OnTrade(t) PROVE StreamPart'
<1> DEFINE u == [t EXCEPT !.wire = Tail(@)]
           s == IF Head(t.wire).sym = t.sym THEN Ingest(stream, Head(t.wire)) ELSE stream
<1>1. t \in ThreadType /\ stream \in StreamType /\ now \in Nat /\ t.wire \in Seq(FrameType) /\ t.wire # <<>>
  BY ThreadFields DEF MarketIInv, MarketTypes, OnTrade
<1>2. Head(t.wire) \in FrameType /\ Tail(t.wire) \in Seq(FrameType)
  BY <1>1, HeadTail
<1>3. u \in ThreadType /\ u.gen = t.gen /\ u.sym = t.sym /\ u.again = t.again /\ u.opened = t.opened
  BY <1>1, <1>2 DEF ThreadType
<1>4. s \in StreamType /\ Coherent(s) /\ s.gen = stream.gen /\ s.sym = stream.sym
      /\ stream.started <= s.started
      /\ s.started <= now
  <2>1. Coherent(stream) /\ stream.started <= now
    BY DEF MarketIInv, SampleInv
  <2> QED
    <3>1. CASE Head(t.wire).sym = t.sym
      <4>1. s = Ingest(stream, Head(t.wire))
        BY <3>1
      <4> HIDE DEF s
      <4> QED
        BY <1>1, <1>2, <2>1, <4>1, IngestFacts
    <3>2. CASE Head(t.wire).sym # t.sym
      <4>1. s = stream /\ stream.started \in Int
        BY <1>1, <3>2, StreamFields
      <4> HIDE DEF s
      <4> QED
        BY <1>1, <2>1, <4>1
    <3> QED
      BY <3>1, <3>2
<1>5. now' = now /\ threads' = (threads \ {t}) \cup {u} /\ Callback(t, s)
  BY DEF OnTrade, Become, OthersOfSocket
<1>6. Current(t) /\ u.again => u.opened <= s.started
  <2>1. Current(t) /\ t.again => t.opened <= stream.started
    BY DEF MarketIInv, SampleInv, Sampling, Current
  <2>2. t.opened \in Int /\ stream.started \in Int /\ s.started \in Int
    BY <1>1, <1>4, ThreadFields, StreamFields
  <2> HIDE DEF u, s
  <2> QED
    BY <1>3, <1>4, <2>1, <2>2
<1> HIDE DEF u, s
<1> QED
  BY <1>3, <1>4, <1>5, <1>6, CallbackStep

LEMMA OnBookStep == ASSUME MarketIInv, NEW t \in threads, OnBook(t) PROVE StreamPart'
<1> DEFINE b == [sym |-> t.sym, at |-> now]
           s == IF Current(t) THEN [stream EXCEPT !.book = b] ELSE stream
<1>1. t \in ThreadType /\ stream \in StreamType /\ now \in Int /\ t.sym \in Symbols /\ TRUE \in BOOLEAN
  BY DEF MarketIInv, MarketTypes, ThreadType
<1>2. Current(t) => t.sym = stream.sym /\ (t.again => t.opened <= stream.started)
  BY DEF MarketIInv, SampleInv, Sampling, Current
<1>3. s \in StreamType /\ Coherent(s) /\ s.gen = stream.gen /\ s.sym = stream.sym
      /\ s.started = stream.started /\ s.started <= now
  <2>1. b \in BookType /\ b.sym = t.sym
    BY <1>1 DEF BookType
  <2>2. CASE Current(t)
    <3>1. s = [stream EXCEPT !.book = b]
      BY <2>2
    <3> HIDE DEF s, b
    <3> QED
      BY <1>2, <2>1, <2>2, <3>1, NewBook
  <2>3. CASE ~Current(t)
    BY <1>1, <2>3 DEF MarketIInv, SampleInv
  <2> QED
    BY <2>2, <2>3
<1>4. now' = now /\ threads' = threads /\ Callback(t, s)
  BY DEF OnBook, OthersOfSocket, Callback
<1>5. (Current(t) /\ t.again => t.opened <= s.started) /\ stream.started <= s.started
  BY <1>1, <1>2, <1>3, StreamFields
<1> HIDE DEF s, b
<1> QED
  BY <1>1, <1>3, <1>4, <1>5, CallbackStep

LEMMA DropStep == ASSUME MarketIInv, NEW t \in threads, Drop(t) PROVE StreamPart'
<1> DEFINE none == <<>>
           u == [t EXCEPT !.st = "wait", !.first = FALSE, !.wire = none]
<1>1. t \in ThreadType /\ stream \in StreamType /\ now \in Int
  BY DEF MarketIInv, MarketTypes
<1>2. u \in ThreadType /\ u.gen = t.gen /\ u.sym = t.sym /\ u.again = t.again /\ u.opened = t.opened
  <2>1. none \in Seq(FrameType) /\ FALSE \in BOOLEAN
    OBVIOUS
  <2> HIDE DEF none
  <2> QED
    BY <1>1, <2>1 DEF ThreadType
<1>3. PICK announced \in BOOLEAN : Callback(t, [stream EXCEPT !.connected = @ /\ ~announced])
  BY DEF Drop
<1> DEFINE c == stream.connected /\ ~announced
           s == [stream EXCEPT !.connected = c]
<1>4. c \in BOOLEAN /\ Callback(t, s)
  BY <1>3
<1> HIDE DEF c
<1>5. s \in StreamType /\ Coherent(s) /\ s.gen = stream.gen /\ s.sym = stream.sym
      /\ s.started = stream.started /\ s.started <= now
  <2>1. s = [stream EXCEPT !.connected = c]
    OBVIOUS
  <2> HIDE DEF s
  <2> QED
    BY <1>4, <2>1, SameBook
<1>6. now' = now /\ threads' \subseteq (threads \ {t}) \cup {u}
  BY DEF Drop, GoOn, OthersOfSocket
<1>7. (Current(t) /\ t.again => t.opened <= s.started) /\ stream.started <= s.started
  BY <1>1, <1>5, StreamFields DEF MarketIInv, SampleInv, Sampling, Current
<1> HIDE DEF u, s
<1> QED
  BY <1>2, <1>4, <1>5, <1>6, <1>7, CallbackStep

\* Following another symbol starts a sample that no thread has touched.
LEMMA EnsureFacts ==
  ASSUME MarketIInv, NEW sym \in Symbols
  PROVE  /\ EnsureSymbol(sym).stream \in StreamType /\ Coherent(EnsureSymbol(sym).stream)
         /\ EnsureSymbol(sym).stream.started <= now /\ EnsureSymbol(sym).stream.sym = sym
         /\ EnsureSymbol(sym).threads \in SUBSET ThreadType
         /\ threads \subseteq EnsureSymbol(sym).threads
         /\ Sampling(EnsureSymbol(sym).stream, EnsureSymbol(sym).threads)
<1>1. /\ stream \in StreamType /\ threads \subseteq ThreadType /\ now \in Nat
      /\ Coherent(stream) /\ Sampling(stream, threads) /\ stream.started <= now
  BY DEF MarketIInv, MarketTypes, SampleInv
<1>2. CASE Followed(sym)
  BY <1>1, <1>2 DEF EnsureSymbol, Followed
<1>3. CASE ~Followed(sym)
  <2> DEFINE g == stream.gen + 1
             a == [stream EXCEPT !.gen = g, !.sym = sym, !.alive = TRUE]
             s == Follow(sym)
             none == <<>>
             t == [gen |-> g, sym |-> sym, st |-> "wait", first |-> TRUE, opened |-> None,
                   again |-> FALSE, wire |-> none]
  <2>1. g \in Nat /\ none \in Seq(FrameType) /\ None \in Int /\ stream.gen < g /\ stream.gen \in Nat
    BY <1>1, StreamFields DEF None
  <2>2. EnsureSymbol(sym).stream = s /\ EnsureSymbol(sym).threads = threads \cup {t}
    BY <1>3 DEF EnsureSymbol
  <2>3. s = [Reset(a) EXCEPT !.connected = FALSE]
    BY DEF Follow
  <2> HIDE DEF g, s, none
  <2>4. a \in StreamType /\ a.gen = g /\ a.sym = sym
    BY <1>1, <2>1 DEF StreamType
  <2>5. t \in ThreadType /\ t.gen = g /\ t.sym = sym /\ ~t.again
    BY <2>1 DEF ThreadType
  <2> HIDE DEF a, t
  <2>6. /\ Reset(a) \in StreamType /\ Reset(a).gen = g /\ Reset(a).sym = sym
        /\ Reset(a).started = now /\ Reset(a).lastId = None /\ Reset(a).rows = {}
        /\ Coherent(Reset(a))
    BY <1>1, <2>4, ResetFacts
  <2>7. /\ s \in StreamType /\ s.gen = g /\ s.sym = sym /\ s.started = now /\ s.rows = {}
        /\ s.book = Reset(a).book
    BY <2>3, <2>6 DEF StreamType
  <2>8. Coherent(s) /\ s.started <= now
    BY <1>1, <2>6, <2>7 DEF Coherent
  <2>9. Sampling(s, threads \cup {t})
    <3>1. \A x \in threads : x.gen <= stream.gen /\ x.gen \in Nat
      BY <1>1, ThreadFields DEF Sampling
    <3> QED
      BY <2>1, <2>5, <2>7, <3>1 DEF Sampling
  <2> QED
    BY <1>1, <2>2, <2>5, <2>7, <2>8, <2>9
<1> QED
  BY <1>2, <1>3

LEMMA LoadStep == ASSUME MarketIInv, Load PROVE MarketIInv'
<1>1. job' = [pc |-> "loaded", pair |-> pair] /\ pair.sym \in Symbols
      /\ UNCHANGED <<now, pair, lastTrade, stream, threads, flow>>
  BY DEF Load, MarketIInv, MarketTypes
<1>2. JobInv'
  BY <1>1 DEF JobInv
<1> QED
  BY <1>1, <1>2 DEF MarketIInv, MarketTypes, SampleInv, Coherent, Sampling, FlowInv, ShowsPair

\* A collection takes its sample for ready only when it is whole, and it is one of the pair that
\* was loaded.
LEMMA SampleStep == ASSUME MarketAssumption, MarketIInv, Sample PROVE MarketIInv'
<1> DEFINE sym == job.pair.sym
           s == EnsureSymbol(sym).stream
           ts == EnsureSymbol(sym).threads
           whole == IsReady(s) => Whole(s)
           shown == IF IsReady(s) THEN Shown(s) ELSE {[sym |-> sym, at |-> now]}
<1>1. now \in Nat /\ sym \in Symbols /\ threads \in SUBSET ThreadType /\ Window \in Nat
  BY DEF MarketIInv, MarketTypes, JobInv, Sample, MarketAssumption
<1>2. /\ s \in StreamType /\ Coherent(s) /\ s.started <= now /\ ts \in SUBSET ThreadType
      /\ threads \subseteq ts /\ Sampling(s, ts) /\ s.sym = sym
  BY <1>1, EnsureFacts
<1>3. /\ stream' = Prune(s) /\ threads' = ts /\ UNCHANGED <<now, pair, lastTrade, flow, mishaps>>
      /\ job' = [pc |-> "sampled", pair |-> job.pair, at |-> now, shown |-> shown, whole |-> whole]
  BY DEF Sample
<1>4. shown # {} /\ \A x \in shown : x.sym = sym /\ x.at \in Int /\ now - x.at <= Window
  <2>1. CASE IsReady(s)
    BY <1>1, <1>2, <2>1, ReadyShown
  <2>2. CASE ~IsReady(s)
    <3>1. shown = {[sym |-> sym, at |-> now]}
      BY <2>2
    <3> HIDE DEF shown, sym
    <3> QED
      BY <1>1, <3>1
  <2> QED
    BY <2>1, <2>2
<1>5. whole = TRUE
  <2> SUFFICES ASSUME IsReady(s) PROVE Whole(s)
    OBVIOUS
  <2>1. Sampling(s, threads)
    BY <1>2 DEF Sampling
  <2> QED
    BY <1>1, <1>2, <2>1, ReadyWhole DEF Whole
<1> HIDE DEF s, ts, whole, shown
<1>6. /\ Prune(s) \in StreamType /\ Coherent(Prune(s)) /\ Prune(s).gen = s.gen
      /\ Prune(s).sym = s.sym /\ Prune(s).started = s.started
  BY <1>1, <1>2, PruneFacts
<1>7. StreamPart'
  <2>1. Sampling(Prune(s), ts) /\ Prune(s).started <= now
    BY <1>2, <1>6 DEF Sampling
  <2> QED
    BY <1>2, <1>3, <1>6, <2>1, StreamBecomes
<1>8. JobInv'
  <2>1. /\ job'.pc = "sampled" /\ job'.pair = job.pair /\ job'.at = now /\ job'.shown = shown
        /\ job'.whole = whole
    BY <1>3
  <2> QED
    BY <1>1, <1>4, <1>5, <2>1 DEF JobInv, ShowsPair
<1>9. MarketTypes' /\ FlowInv'
  BY <1>3, <1>7 DEF StreamPart, MarketIInv, MarketTypes, FlowInv, ShowsPair
<1> QED
  BY <1>7, <1>8, <1>9 DEF MarketIInv, StreamPart

\* What is published is one sample, and bullish only with every confirmation.
LEMMA PublishStep == ASSUME MarketAssumption, MarketIInv, Publish PROVE MarketIInv'
<1>1. FlowInv'
  <2>1. PICK c \in Contexts : flow' = Published(c)
    BY DEF Publish
  <2> DEFINE ok == c.failed = 0 /\ (RequireExternal => c.confirmed)
             e == [shown |-> job.shown, whole |-> job.whole,
                   up |-> c.up, failed |-> c.failed, against |-> c.against]
  <2>2. flow' = IF ok /\ Bullish(c)
                THEN [pair |-> job.pair, at |-> job.at, ok |-> ok, bullish |-> TRUE, seen |-> {e}]
                ELSE NoFlow
    BY <2>1 DEF Published
  <2>3. c.confirmed => ~c.against
    <3>1. PICK spotOk \in BOOLEAN, up \in {2, 3}, failed \in {0, 1}, q \in Quotes :
            c = [spotOk |-> spotOk, up |-> up, failed |-> failed, confirmed |-> Confluence(q),
                 against |-> \E p \in Providers : q[p] = "contradicts"]
      BY DEF Contexts
    <3> DEFINE confirmed == Confluence(q)
               against == \E p \in Providers : q[p] = "contradicts"
    <3>2. confirmed => ~against
      BY DEF Confluence
    <3>3. c = [spotOk |-> spotOk, up |-> up, failed |-> failed, confirmed |-> confirmed,
               against |-> against]
      BY <3>1
    <3> HIDE DEF confirmed, against
    <3>4. c.confirmed = confirmed /\ c.against = against
      BY <3>3
    <3> QED
      BY <3>2, <3>4
  <2>4. CASE ok /\ Bullish(c)
    <3>1. e.shown = job.shown /\ e.whole = job.whole /\ e.up = c.up
          /\ e.failed = c.failed /\ e.against = c.against
      OBVIOUS
    <3>2. c.up >= 3 /\ c.failed = 0 /\ (RequireExternal => ~c.against)
      BY <2>3, <2>4 DEF Bullish
    <3>3. job.at \in Nat /\ ShowsPair(job, job.pair, job.at)
      BY DEF MarketIInv, JobInv, Publish
    <3>4. flow'.seen = {e} /\ flow'.pair = job.pair /\ flow'.at = job.at
      BY <2>2, <2>4
    <3> HIDE DEF e
    <3> QED
      BY <3>1, <3>2, <3>3, <3>4 DEF FlowInv, ShowsPair
  <2>5. CASE ~(ok /\ Bullish(c))
    <3>1. flow' = NoFlow
      BY <2>2, <2>5
    <3> QED
      BY <3>1 DEF FlowInv, NoFlow
  <2> QED
    BY <2>4, <2>5
<1>2. JobInv'
  BY DEF Publish, JobInv, Idle
<1>3. UNCHANGED <<now, pair, lastTrade, stream, threads>>
  BY DEF Publish
<1> QED
  BY <1>1, <1>2, <1>3 DEF MarketIInv, MarketTypes, SampleInv, Coherent, Sampling

\* A frame changes nothing that the sample depends on before it is taken.
LEMMA SendStep ==
  ASSUME MarketIInv, NEW f \in FrameType, now' = now, stream' = stream,
         \A x \in threads' : \/ x \in threads
                              \/ \E t \in threads : x = [t EXCEPT !.wire = Append(@, f)]
  PROVE  StreamPart'
<1>1. /\ stream \in StreamType /\ threads \subseteq ThreadType /\ Coherent(stream)
      /\ Sampling(stream, threads) /\ stream.started <= now
  BY DEF MarketIInv, MarketTypes, SampleInv
<1>2. ASSUME NEW x \in threads'
      PROVE  /\ x \in ThreadType
             /\ \E t \in threads : /\ x.gen = t.gen /\ x.sym = t.sym
                                    /\ x.again = t.again /\ x.opened = t.opened
  <2>1. CASE x \in threads
    BY <1>1, <2>1
  <2>2. CASE x \notin threads
    <3>1. PICK t \in threads : x = [t EXCEPT !.wire = Append(@, f)]
      BY <1>2, <2>2
    <3> DEFINE w == Append(t.wire, f)
    <3>2. t \in ThreadType /\ w \in Seq(FrameType)
      BY <1>1, ThreadFields
    <3>3. x = [t EXCEPT !.wire = w]
      BY <3>1
    <3> HIDE DEF w
    <3> QED
      BY <3>2, <3>3 DEF ThreadType
  <2> QED
    BY <2>1, <2>2
<1>3. Sampling(stream, threads') /\ threads' \in SUBSET ThreadType
  BY <1>1, <1>2 DEF Sampling
<1> QED
  BY <1>1, <1>3, StreamBecomes

LEMMA SocketStep == ASSUME MarketAssumption, MarketIInv, Socket PROVE MarketIInv'
<1>1. PICK t \in threads : Dial(t) \/ Open(t) \/ OnTrade(t) \/ OnBook(t) \/ Drop(t)
  BY DEF Socket
<1>2. StreamPart'
  BY <1>1, DialStep, OpenStep, OnTradeStep, OnBookStep, DropStep
<1>3. UNCHANGED OthersOfSocket
  BY <1>1 DEF Dial, Open, OnTrade, OnBook, Drop
<1> QED
  BY <1>2, <1>3 DEF MarketIInv, MarketTypes, StreamPart, JobInv, FlowInv, ShowsPair, OthersOfSocket

LEMMA FrameStep ==
  ASSUME MarketIInv, NEW s \in Symbols, Execute(s) \/ Repeat(s) PROVE MarketIInv'
<1>1. lastTrade \in [Symbols -> Nat] /\ lastTrade[s] \in Nat /\ now \in Nat
  BY DEF MarketIInv, MarketTypes
<1>2. PICK id \in {lastTrade[s], lastTrade[s] + 1} :
        \A x \in threads' : \/ x \in threads
                             \/ \E t \in threads : x = [t EXCEPT !.wire = Append(@, Frame(s, id))]
  <2>1. CASE Execute(s)
    BY <2>1 DEF Execute, Send, Listening
  <2>2. CASE Repeat(s)
    BY <2>2 DEF Repeat, Become
  <2> QED
    BY <2>1, <2>2
<1>3. /\ UNCHANGED <<now, pair, stream, job, flow>>
      /\ lastTrade' = [lastTrade EXCEPT ![s] = @ + 1] \/ lastTrade' = lastTrade
  BY DEF Execute, Repeat
<1>4. lastTrade' \in [Symbols -> Nat] /\ Frame(s, id) \in FrameType
  BY <1>1, <1>3 DEF Frame, FrameType
<1>5. StreamPart'
  BY <1>2, <1>3, <1>4, SendStep
<1> QED
  BY <1>3, <1>4, <1>5 DEF MarketIInv, MarketTypes, StreamPart, JobInv, FlowInv, ShowsPair

LEMMA ClockStep == ASSUME MarketIInv, PassTime \/ SwitchPair PROVE MarketIInv'
<1>1. /\ stream \in StreamType /\ now \in Nat /\ stream.started \in Int
      /\ \A r \in stream.rows : r.at \in Nat
  BY StreamFields DEF MarketIInv, MarketTypes
<1>2. now' \in Nat /\ now <= now' /\ UNCHANGED <<lastTrade, stream, threads, job, flow>>
  BY <1>1 DEF PassTime, SwitchPair
<1>3. pair' \in [sym : Symbols, gen : Nat]
  <2>1. CASE pair' = pair
    BY <2>1 DEF MarketIInv, MarketTypes
  <2>2. CASE SwitchPair
    BY <2>2 DEF SwitchPair, MarketIInv, MarketTypes
  <2> QED
    BY <2>1, <2>2 DEF PassTime
<1>4. SampleInv'
  BY <1>1, <1>2 DEF MarketIInv, SampleInv, Coherent, Sampling
<1> QED
  BY <1>2, <1>3, <1>4 DEF MarketIInv, MarketTypes, JobInv, FlowInv, ShowsPair

LEMMA FreshSample ==
  ASSUME now \in Nat, stream = Fresh, threads = {} PROVE StreamPart
<1>1. Fresh \in StreamType
  <2>1. None \in Int /\ {} \in SUBSET SampleRow /\ NoBook \in BookType
    BY DEF None, NoBook, BookType
  <2> QED
    BY <2>1 DEF Fresh, StreamType
<1>2. Fresh.rows = {} /\ Fresh.started = None /\ Fresh.book = NoBook
  BY DEF Fresh
<1> QED
  BY <1>1, <1>2 DEF StreamPart, SampleInv, Coherent, Sampling, None

\* A failure publishes nothing that is bullish, a restart begins a fresh sample.
LEMMA MishapStep == ASSUME MarketIInv, Fail \/ RestartService PROVE MarketIInv'
<1>1. JobInv' /\ UNCHANGED <<now, pair, lastTrade>>
  BY DEF Fail, RestartService, JobInv, Idle
<1>2. FlowInv'
  <2>1. CASE flow' = NoFlow
    BY <2>1 DEF FlowInv, NoFlow
  <2>2. CASE flow' = flow
    BY <2>2 DEF MarketIInv, FlowInv, ShowsPair
  <2> QED
    BY <2>1, <2>2 DEF Fail, RestartService
<1>3. StreamPart'
  <2>1. CASE Fail
    BY <2>1 DEF Fail, MarketIInv, MarketTypes, SampleInv, StreamPart, Coherent, Sampling
  <2>2. CASE RestartService
    <3>1. now' \in Nat /\ stream' = Fresh /\ threads' = {}
      BY <2>2 DEF RestartService, MarketIInv, MarketTypes
    <3>2. (now \in Nat /\ stream = Fresh /\ threads = {} => StreamPart)'
      BY FreshSample, PTL
    <3> QED
      BY <3>1, <3>2 DEF Fresh
  <2> QED
    BY <2>1, <2>2
<1> QED
  BY <1>1, <1>2, <1>3 DEF MarketIInv, MarketTypes, StreamPart

LEMMA InitMarketIInv == ASSUME MarketAssumption, MarketInit PROVE MarketIInv
<1>1. StreamPart
  BY FreshSample DEF MarketInit
<1>2. pair \in [sym : Symbols, gen : Nat] /\ lastTrade \in [Symbols -> Nat] /\ now \in Nat
  BY DEF MarketInit
<1>3. JobInv /\ FlowInv
  BY DEF MarketInit, JobInv, FlowInv, Idle, NoFlow
<1> QED
  BY <1>1, <1>2, <1>3 DEF MarketIInv, MarketTypes, StreamPart

LEMMA NextMarketIInv == ASSUME MarketAssumption, MarketIInv, [MarketNext]_marketVars PROVE MarketIInv'
<1>1. CASE UNCHANGED marketVars
  BY <1>1 DEF marketVars, MarketIInv, MarketTypes, SampleInv, Coherent, Sampling, JobInv, FlowInv,
                ShowsPair
<1>2. CASE Service
  BY <1>2, LoadStep, SampleStep, PublishStep, MishapStep DEF Service
<1> QED
  BY <1>1, <1>2, SocketStep, FrameStep, ClockStep DEF MarketNext

\* The inductive invariant of the market stream: a sample is consecutive trades of its symbol, a
\* connection that was opened again began one of its own, and what is published for a pair shows
\* the pair that was loaded.
THEOREM MarketInvariance == MarketSpec => []MarketIInv
<1>1. MarketInit => MarketIInv
  BY MarketAssumption, InitMarketIInv
<1>2. MarketIInv /\ [MarketNext]_marketVars => MarketIInv'
  BY MarketAssumption, NextMarketIInv
<1> QED
  BY <1>1, <1>2, PTL DEF MarketSpec

\* Every trade and the book behind an entry came from a connection to the active pair's symbol, and
\* was received within the window before a snapshot of the age allowed.
THEOREM EntriesOfPair == MarketSpec => []EntryOfPair
<1>1. MarketIInv => EntryOfPair
  <2> SUFFICES ASSUME MarketIInv, GateAccepts
               PROVE  \E e \in flow.seen :
                        /\ e.shown # {}
                        /\ \A x \in e.shown : x.sym = pair.sym /\ now - x.at <= MaxFlowAge + Window
    BY DEF EntryOfPair
  <2>1. flow.pair = pair /\ now - flow.at <= MaxFlowAge /\ flow.at \in Nat
    BY DEF GateAccepts, MarketIInv, FlowInv
  <2>2. PICK e \in flow.seen : ShowsPair(e, pair, flow.at)
    BY DEF GateAccepts, MarketIInv, FlowInv
  <2>3. now \in Nat /\ MaxFlowAge \in Nat /\ Window \in Nat
    BY MarketAssumption DEF MarketAssumption, MarketIInv, MarketTypes
  <2>4. ASSUME NEW x \in e.shown PROVE x.sym = pair.sym /\ now - x.at <= MaxFlowAge + Window
    <3>1. x.sym = pair.sym /\ x.at \in Int /\ flow.at - x.at <= Window
      BY <2>2, <2>4 DEF ShowsPair
    <3> QED
      BY <2>1, <2>3, <3>1
  <2> QED
    BY <2>2, <2>4 DEF ShowsPair
<1> QED
  BY <1>1, MarketInvariance, PTL

\* What the flow gate accepts was sampled from trades without a gap, with every timeframe fetched
\* and no fresh provider against it.
THEOREM EntriesSupported == MarketSpec => []EntrySupported
<1>1. MarketIInv => EntrySupported
  BY DEF MarketIInv, FlowInv, GateAccepts, EntrySupported, ShowsPair
<1> QED
  BY <1>1, MarketInvariance, PTL

==============================================================================
