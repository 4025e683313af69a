-------------------------- MODULE SignalGateProofs --------------------------
(***************************************************************************)
(* Proofs about SignalGate: its types, that a signal is sent at most once,  *)
(* that every journaled stop-out is counted, and that the daily budget      *)
(* bounds the losing trades of a day.                                       *)
(***************************************************************************)
EXTENDS SignalGate, FiniteSetTheorems, TLAPS

-----------------------------------------------------------------------------
(***************************************************************************)
(* The inductive invariant.                                                 *)
(***************************************************************************)
LostTrades(d) == {c \in Candles : filled[c] # -1 /\ DayOf(filled[c]) = d}
Losses(d) == Cardinality(LostTrades(d))
Today == DayOf(now)

\* The open trade has not lost (yet).
Unfilled == row.lc = "open" /\ filled[row.id] = -1

\* The one loss that may be on its way to the counter: the stop of the open trade has filled, or
\* its exit is journaled.
Pending == IF row.lc = "open" THEN filled[row.id] ELSE callback
On(t, d) == IF t # -1 /\ DayOf(t) = d THEN 1 ELSE 0

\* A signal without a claim was never sent; the claimed one was not sent yet.
ClaimInv ==
  /\ pc \notin {"down", "idle"} => cur \in Candles
  /\ pc = "allowed" => claims[cur] = "none"
  /\ pc \in {"claimed", "approved"} => claims[cur] = "IN_PROGRESS" /\ sent[cur] = 0
  /\ \A c \in Candles : sent[c] <= 1 /\ (claims[c] = "none" => sent[c] = 0)

\* Only what was sent can be open, and only what was open can have lost.
RowInv ==
  /\ row.lc = "open" => sent[row.id] = 1
  /\ row.lc = "SIGNAL_APPROVED" => sent[row.id] = 0
  /\ \A c \in Candles : filled[c] # -1 => sent[c] = 1 /\ filled[c] <= now
  /\ \A s \in Sources, c \in Candles : <<s, c>> \in journal => filled[c] # -1

\* StopoutsCounted, also while a journaled stop-out is being counted.
JournalInv ==
  \A d \in Days : Cardinality(JournaledExits(d)) <= guard.daily[d] + lost + On(callback, d)

\* Every loss of a day is counted, lost, or the pending one.
CountInv == \A d \in Days : Losses(d) <= guard.daily[d] + lost + On(Pending, d)

\* What an open trade, or a signal that has passed the guard, can still lose today.
Underway == pc \in {"allowed", "claimed", "approved"}
BudgetInv ==
  /\ \A d \in Days : Losses(d) <= MaxStopouts + 1 + lost
  /\ Unfilled => Losses(Today) <= MaxStopouts + lost
  /\ Underway => Losses(Today) + (IF Unfilled THEN 1 ELSE 0) <= MaxStopouts + lost

IInv == TypeOK /\ ClaimInv /\ RowInv /\ JournalInv /\ CountInv /\ BudgetInv

-----------------------------------------------------------------------------
(***************************************************************************)
(* Days and counts.                                                         *)
(***************************************************************************)
LEMMA Bounds ==
  /\ MaxTime \in Nat \ {0} /\ DayLength \in Nat \ {0} /\ MaxStopouts \in Nat \ {0}
  /\ MaxFaults \in Nat /\ MaxFiles \in Nat
BY GateAssumption

LEMMA DivMonotone ==
  ASSUME NEW a \in Nat, NEW b \in Nat, NEW n \in Nat \ {0}, a <= b
  PROVE  a \div n <= b \div n /\ a \div n \in Nat
<1> DEFINE p == a \div n
           q == b \div n
<1>1. /\ p \in Int /\ q \in Int
      /\ n * p <= a /\ a < n * p + n /\ n * q <= b /\ b < n * q + n
  OBVIOUS
<1> HIDE DEF p, q
<1>2. p <= q
  <2> SUFFICES ASSUME q + 1 <= p PROVE FALSE
    BY <1>1
  <2>1. n * (q + 1) <= n * p
    BY <1>1
  <2> QED
    BY <1>1, <2>1
<1>3. p >= 0
  <2> SUFFICES ASSUME p + 1 <= 0 PROVE FALSE
    BY <1>1
  <2>1. n * (p + 1) <= 0
    BY <1>1
  <2> QED
    BY <1>1, <2>1
<1> QED
  BY <1>1, <1>2, <1>3 DEF p, q

\* Later times lie on the same day or a later one, and every time has its day.
LEMMA DayMonotone ==
  ASSUME NEW a \in Times, NEW b \in Times, a <= b
  PROVE  DayOf(a) <= DayOf(b) /\ DayOf(a) \in Days /\ DayOf(a) \in Nat
<1>1. a \in Nat /\ b \in Nat /\ MaxTime \in Nat /\ a <= MaxTime /\ DayLength \in Nat \ {0}
  BY Bounds DEF Times
<1>2. a \div DayLength <= b \div DayLength /\ a \div DayLength \in Nat
  BY <1>1, DivMonotone
<1>3. a \div DayLength <= MaxTime \div DayLength /\ MaxTime \div DayLength \in Nat
  BY <1>1, DivMonotone
<1> QED
  BY <1>2, <1>3 DEF DayOf, Days

LEMMA DayType == ASSUME NEW t \in Times PROVE DayOf(t) \in Days /\ DayOf(t) \in Nat
BY DayMonotone DEF Times

LEMMA CandlesFinite == IsFiniteSet(Candles)
BY FS_Interval, Bounds DEF Candles

LEMMA Counts ==
  ASSUME NEW d
  PROVE  /\ IsFiniteSet(LostTrades(d)) /\ Losses(d) \in Nat
         /\ IsFiniteSet(JournaledExits(d)) /\ Cardinality(JournaledExits(d)) \in Nat
<1>1. LostTrades(d) \subseteq Candles /\ JournaledExits(d) \subseteq Candles
  BY DEF LostTrades, JournaledExits
<1> QED
  BY <1>1, CandlesFinite, FS_Subset, FS_CardinalityType DEF Losses

LEMMA OnValues == ASSUME NEW t, NEW d PROVE On(t, d) \in 0 .. 1
BY DEF On

-----------------------------------------------------------------------------
(***************************************************************************)
(* Types.                                                                   *)
(***************************************************************************)
GuardType == [candle : Times, stopped : -1 .. MaxTime, daily : [Days -> Nat]]

LEMMA Facts ==
  ASSUME TypeOK
  PROVE  /\ now \in 0 .. MaxTime /\ MaxTime \in Nat
         /\ guard.daily \in [Days -> Nat] /\ lost \in Nat /\ callback \in -1 .. MaxTime
         /\ row = NoRow \/ (row.id \in Candles /\ row.lc \in {"SIGNAL_APPROVED", "open"})
         /\ row.lc # "none" => row.id \in Candles
         /\ \A c \in Candles : filled[c] \in -1 .. MaxTime
BY Bounds DEF TypeOK, Times, Row, NoRow

\* A journaled loss lies in a day that has a counter.
LEMMA FilledDay ==
  ASSUME TypeOK, NEW c \in Candles, filled[c] # -1
  PROVE  filled[c] \in Times /\ DayOf(filled[c]) \in Days
<1>1. filled[c] \in Times
  BY Facts DEF Times
<1> QED
  BY <1>1, DayType

LEMMA FaultTypes == ASSUME TypeOK, Fault PROVE faults' \in 0 .. MaxFaults
BY Bounds DEF Fault, TypeOK

LEMMA CountedUp ==
  ASSUME NEW f \in [Days -> Nat], NEW d
  PROVE  /\ [f EXCEPT ![d] = @ + 1] \in [Days -> Nat]
         /\ \A x \in Days : [f EXCEPT ![d] = @ + 1][x] = IF x = d THEN f[x] + 1 ELSE f[x]
<1> DEFINE g == [f EXCEPT ![d] = @ + 1]
<1>1. g = [x \in Days |-> IF x = d THEN f[d] + 1 ELSE f[x]]
  OBVIOUS
<1>2. \A x \in Days : g[x] = IF x = d THEN f[x] + 1 ELSE f[x]
  BY <1>1
<1>3. \A x \in Days : g[x] \in Nat
  BY <1>2
<1> QED
  BY <1>1, <1>2, <1>3

LEMMA TypesProcess == ASSUME TypeOK, ClaimInv, Process PROVE TypeOK'
<1> USE DEF files, market
<1>1. ASSUME NEW c \in Candles, Take(c) PROVE TypeOK'
  <2>1. claims' \in [Candles -> Results] /\ pc' \in Steps /\ cur' \in Times
    BY <1>1 DEF Take, Known, Check, Refuse, Results, Steps, TypeOK, Candles, Times
  <2>2. armed' \in BOOLEAN
    BY <1>1 DEF Take, Known, Check, TypeOK
  <2> QED
    BY <1>1, <2>1, <2>2 DEF Take, TypeOK
<1>2. CASE Claim
  <2>1. claims' \in [Candles -> Results] /\ pc' \in Steps
    BY <1>2 DEF Claim, Refuse, Results, Steps, TypeOK
  <2> QED
    BY <1>2, <2>1 DEF Claim, TypeOK
<1>3. CASE Approve
  <2>1. row' \in Row \cup {NoRow}
    BY <1>3 DEF Approve, ClaimInv, TypeOK, Row
  <2> QED
    BY <1>3, <2>1 DEF Approve, TypeOK, Steps
<1>4. CASE Submit \/ SubmitRaises
  <2>0. cur \in Candles
    BY <1>4 DEF Submit, SubmitRaises, ClaimInv
  <2>1. sent' \in [Candles -> Nat]
    <3>1. sent' = sent \/ Sends
      BY <1>4 DEF Submit, SubmitRaises
    <3> QED
      BY <2>0, <3>1 DEF Sends, TypeOK
  <2>2. row' \in Row \cup {NoRow}
    <3>1. row' = row \/ row' = NoRow \/ (MaySubmit /\ Opens)
      BY <1>4 DEF Submit, SubmitRaises
    <3>2. MaySubmit /\ Opens => row' = [id |-> cur, lc |-> "open"]
      BY DEF MaySubmit, Opens
    <3> QED
      BY <2>0, <3>1, <3>2 DEF TypeOK, Row
  <2>3. armed' \in BOOLEAN /\ pc' \in Steps
    BY <1>4 DEF Submit, SubmitRaises, TypeOK, Steps
  <2>4. faults' \in 0 .. MaxFaults
    BY <1>4, FaultTypes DEF Submit, SubmitRaises, TypeOK
  <2> QED
    BY <1>4, <2>1, <2>2, <2>3, <2>4 DEF Submit, SubmitRaises, TypeOK
<1>5. CASE GuardRecord
  <2>1. guard' \in GuardType
    BY <1>5 DEF GuardRecord, TypeOK, GuardType
  <2>2. armed' \in BOOLEAN /\ pc' \in Steps
    BY <1>5 DEF GuardRecord, TypeOK, Steps
  <2>3. faults' \in 0 .. MaxFaults
    BY <1>5, FaultTypes DEF GuardRecord, TypeOK
  <2> QED
    BY <1>5, <2>1, <2>2, <2>3 DEF GuardRecord, TypeOK, GuardType
<1>6. CASE RecordSignal
  BY <1>6 DEF RecordSignal, TypeOK, Results, Steps
<1>7. CASE Move
  BY <1>7, Bounds DEF Move, TypeOK, Steps, Times
<1> QED
  BY <1>1, <1>2, <1>3, <1>4, <1>5, <1>6, <1>7 DEF Process

LEMMA TypesExits == ASSUME TypeOK, Exits PROVE TypeOK'
<1> USE DEF files, market
<1>1. CASE StopFills
  BY <1>1, Facts DEF StopFills, TypeOK
<1>2. CASE Closes
  BY <1>2 DEF Closes, TypeOK
<1>3. ASSUME NEW s \in Sources, NEW c \in Candles, ExitEvent(s, c) PROVE TypeOK'
  <2>1. callback' \in -1 .. MaxTime /\ journal' \subseteq Sources \X Candles /\ row' \in Row \cup {NoRow}
    BY <1>3 DEF ExitEvent, TypeOK
  <2> QED
    BY <1>3, <2>1 DEF ExitEvent, TypeOK
<1>4. CASE CountStopout
  <2>1. guard' \in GuardType
    <3>1. guard \in GuardType
      BY DEF TypeOK, GuardType
    <3> DEFINE d == DayOf(callback)
               daily == [guard.daily EXCEPT ![d] = @ + 1]
    <3>2. daily \in [Days -> Nat]
      BY Facts, CountedUp
    <3>3. guard' = guard \/ guard' = [guard EXCEPT !.daily = daily, !.stopped = callback]
      BY <1>4, <3>1 DEF CountStopout, Stopout, GuardType
    <3> HIDE DEF daily
    <3> QED
      BY <3>1, <3>2, <3>3, Facts DEF GuardType
  <2>2. armed' \in BOOLEAN
    BY <1>4 DEF CountStopout, TypeOK
  <2>3. faults' \in 0 .. MaxFaults /\ lost' \in Nat /\ callback' \in -1 .. MaxTime
    BY <1>4, FaultTypes, Bounds DEF CountStopout, TypeOK
  <2> QED
    BY <1>4, <2>1, <2>2, <2>3 DEF CountStopout, TypeOK, GuardType
<1> QED
  BY <1>1, <1>2, <1>3, <1>4 DEF Exits

LEMMA TypesOthers ==
  ASSUME TypeOK, CandleCloses \/ Emit \/ EntriesOn \/ Boot \/ Crash
  PROVE  TypeOK'
<1> USE DEF files, market
<1>1. CASE CandleCloses
  <2>1. now' \in Times
    BY <1>1, Bounds DEF CandleCloses, TypeOK, Times
  <2> QED
    BY <1>1, <2>1 DEF CandleCloses, TypeOK
<1>2. CASE Emit
  <2>1. now \in Candles
    BY <1>2, Bounds DEF Emit, TypeOK, Times, Candles
  <2> QED
    BY <1>2, <2>1 DEF Emit, TypeOK
<1>3. CASE EntriesOn \/ Boot
  BY <1>3 DEF EntriesOn, Boot, TypeOK, Steps
<1>4. CASE Crash
  <2>1. faults' \in 0 .. MaxFaults /\ lost' \in Nat /\ callback' \in -1 .. MaxTime /\ cur' \in Times
    BY <1>4, FaultTypes, Bounds DEF Crash, TypeOK, Times
  <2> QED
    BY <1>4, <2>1 DEF Crash, TypeOK, Steps
<1> QED
  BY <1>1, <1>2, <1>3, <1>4

LEMMA TypesNext == ASSUME TypeOK, ClaimInv, Next PROVE TypeOK'
BY TypesProcess, TypesExits, TypesOthers DEF Next

-----------------------------------------------------------------------------
(***************************************************************************)
(* Claims and submissions.                                                  *)
(***************************************************************************)

\* Everything but the main thread's work on a signal leaves claims and submissions alone.
Elsewhere == CandleCloses \/ Emit \/ Exits \/ EntriesOn

LEMMA ElsewhereFrame ==
  ASSUME Elsewhere PROVE UNCHANGED <<claims, pc, cur, sent>>
BY DEF Elsewhere, CandleCloses, Emit, Exits, EntriesOn, StopFills, Closes, ExitEvent, CountStopout

LEMMA ClaimNext == ASSUME TypeOK, ClaimInv, RowInv, Next PROVE ClaimInv'
<1> USE DEF ClaimInv, TypeOK
<1>1. CASE Elsewhere
  BY <1>1, ElsewhereFrame
<1>2. ASSUME NEW c \in Candles, Take(c) PROVE ClaimInv'
  BY <1>2 DEF Take, Known, Check, Refuse
<1>3. CASE Claim
  BY <1>3 DEF Claim, Refuse
<1>4. CASE Approve
  BY <1>4 DEF Approve
<1>5. CASE Submit \/ SubmitRaises
  <2>1. cur \in Candles /\ sent[cur] = 0 /\ claims[cur] = "IN_PROGRESS"
    BY <1>5 DEF Submit, SubmitRaises
  <2>2. UNCHANGED <<claims, cur>> /\ pc' \in {"record", "idle"} /\ (sent' = sent \/ Sends)
    BY <1>5 DEF Submit, SubmitRaises
  <2>3. \A c \in Candles : sent'[c] = sent[c] \/ (c = cur /\ sent'[c] = 1)
    BY <2>1, <2>2 DEF Sends
  <2> QED
    BY <2>1, <2>2, <2>3
<1>7. CASE GuardRecord \/ RecordSignal \/ Move
  BY <1>7 DEF GuardRecord, RecordSignal, Move
<1>8. CASE Boot \/ Crash
  BY <1>8 DEF Boot, Crash
<1> QED
  BY <1>1, <1>2, <1>3, <1>4, <1>5, <1>7, <1>8 DEF Next, Process, Elsewhere

LEMMA RowFrame ==
  ASSUME RowInv, row' \in {row, NoRow}, UNCHANGED <<sent, filled, journal>>, now' >= now, TypeOK, TypeOK'
  PROVE  RowInv'
BY Facts DEF RowInv, NoRow, TypeOK, Times

LEMMA RowNext == ASSUME TypeOK, TypeOK', ClaimInv, RowInv, Next PROVE RowInv'
<1> USE DEF files, market
<1>0. now \in Int
  BY Facts
<1>1. CASE CandleCloses \/ Emit \/ EntriesOn \/ Boot \/ Crash
  BY <1>0, <1>1, RowFrame DEF CandleCloses, Emit, EntriesOn, Boot, Crash
<1>2. CASE (\E c \in Candles : Take(c)) \/ Claim \/ GuardRecord \/ RecordSignal \/ Move \/ Closes \/ CountStopout
  <2>1. row' \in {row, NoRow} /\ UNCHANGED <<sent, filled, journal, now>>
    BY <1>2 DEF Take, Claim, GuardRecord, RecordSignal, Move, Closes, CountStopout
  <2> QED
    BY <1>0, <2>1, RowFrame
<1>3. CASE Approve
  BY <1>3 DEF Approve, RowInv, ClaimInv
<1>4. CASE Submit \/ SubmitRaises
  <2>1. cur \in Candles /\ sent[cur] = 0 /\ UNCHANGED <<now, filled, journal>>
    BY <1>4 DEF Submit, SubmitRaises, ClaimInv
  <2>2. CASE UNCHANGED <<sent, row>>
    BY <1>0, <2>1, <2>2, RowFrame
  <2>3. CASE MaySubmit /\ Sends /\ (Opens \/ row' = NoRow)
    <3>1. \A c \in Candles : sent'[c] = IF c = cur THEN 1 ELSE sent[c]
      BY <2>1, <2>3 DEF Sends, TypeOK
    <3>2. row' = [id |-> cur, lc |-> "open"] \/ row' = NoRow
      BY <2>3 DEF MaySubmit, Opens
    <3> QED
      BY <2>1, <3>1, <3>2 DEF RowInv, NoRow
  <2> QED
    BY <1>4, <2>2, <2>3 DEF Submit, SubmitRaises
<1>5. CASE StopFills
  BY <1>5, Facts DEF StopFills, RowInv, TypeOK
<1>6. ASSUME NEW s \in Sources, NEW c \in Candles, ExitEvent(s, c) PROVE RowInv'
  BY <1>6 DEF ExitEvent, RowInv, NoRow
<1> QED
  BY <1>1, <1>2, <1>3, <1>4, <1>5, <1>6 DEF Next, Process, Exits

-----------------------------------------------------------------------------
(***************************************************************************)
(* What the steps do to losses and counters.                                *)
(***************************************************************************)

\* The steps that fill, journal or count nothing.
Uncounted ==
  \/ CandleCloses \/ Emit \/ EntriesOn \/ Boot \/ Closes
  \/ (\E c \in Candles : Take(c)) \/ Claim \/ Approve \/ Submit \/ SubmitRaises
  \/ GuardRecord \/ RecordSignal \/ Move

LEMMA NextCases ==
  Next <=> Uncounted \/ StopFills \/ (\E s \in Sources, c \in Candles : ExitEvent(s, c))
                     \/ CountStopout \/ Crash
BY DEF Next, Process, Exits, Uncounted

LEMMA UncountedFrame ==
  ASSUME TypeOK, Uncounted
  PROVE  UNCHANGED <<callback, filled, journal, lost>> /\ guard'.daily = guard.daily
<1>1. CASE GuardRecord
  BY <1>1 DEF GuardRecord, market, TypeOK
<1>2. CASE ~GuardRecord
  BY <1>2 DEF Uncounted, CandleCloses, Emit, EntriesOn, Boot, Closes, Take, Claim, Approve, Submit,
              SubmitRaises, RecordSignal, Move, market
<1> QED
  BY <1>1, <1>2

LEMMA SameLosses ==
  ASSUME filled' = filled PROVE \A d \in Days : Losses(d)' = Losses(d)
BY DEF Losses, LostTrades

\* A stop that fills adds one loss to today.
LEMMA LossGrows ==
  ASSUME TypeOK, RowInv, StopFills
  PROVE  \A d \in Days : Losses(d)' = Losses(d) + (IF d = Today THEN 1 ELSE 0)
<1>1. row.id \in Candles /\ filled[row.id] = -1 /\ now \in 0 .. MaxTime
  BY Facts DEF StopFills
<1>2. \A c \in Candles : filled'[c] = IF c = row.id THEN now ELSE filled[c]
  BY <1>1 DEF StopFills, TypeOK
<1> SUFFICES ASSUME NEW d \in Days
             PROVE  Losses(d)' = Losses(d) + (IF d = Today THEN 1 ELSE 0)
  OBVIOUS
<1>3. IsFiniteSet(LostTrades(d)) /\ Losses(d) \in Nat
  BY Counts
<1>4. CASE d = Today
  <2>1. LostTrades(d)' = LostTrades(d) \cup {row.id} /\ row.id \notin LostTrades(d)
    BY <1>1, <1>2, <1>4 DEF LostTrades, Today
  <2>2. Cardinality(LostTrades(d)') = Cardinality(LostTrades(d)) + 1
    BY <1>3, <2>1, FS_AddElement
  <2> QED
    BY <1>4, <2>2 DEF Losses
<1>5. CASE d # Today
  <2>1. LostTrades(d)' = LostTrades(d)
    BY <1>1, <1>2, <1>5 DEF LostTrades, Today
  <2> QED
    BY <1>3, <1>5, <2>1 DEF Losses
<1> QED
  BY <1>4, <1>5

\* The end of a stop-out's way: it is counted under its day, or it is lost.
LEMMA StopoutEnds ==
  ASSUME TypeOK, CountStopout \/ Crash
  PROVE  /\ callback' = -1 /\ lost' \in Nat /\ lost' >= lost
         /\ \A d \in Days : /\ guard'.daily[d] \in Nat
                            /\ guard'.daily[d] + lost' >= guard.daily[d] + lost + On(callback, d)
         /\ UNCHANGED <<filled, journal, row, now>>
<1>0. lost \in Nat /\ guard.daily \in [Days -> Nat] /\ \A d \in Days : guard.daily[d] \in Nat
  BY Facts
<1>1. UNCHANGED <<filled, journal, row, now>> /\ callback' = -1
  BY DEF CountStopout, Crash, files
<1>2. CASE CountStopout /\ guard' = Stopout(callback) /\ lost' = lost
  <2> DEFINE daily == [guard.daily EXCEPT ![DayOf(callback)] = @ + 1]
  <2>1. guard'.daily = daily
    BY <1>2 DEF Stopout, TypeOK
  <2>2. \A d \in Days : daily[d] = IF d = DayOf(callback) THEN guard.daily[d] + 1 ELSE guard.daily[d]
    BY <1>0, CountedUp
  <2> HIDE DEF daily
  <2> QED
    BY <1>0, <1>1, <1>2, <2>1, <2>2 DEF On
<1>3. CASE guard' = guard /\ lost' = lost + 1
  BY <1>0, <1>1, <1>3 DEF On
<1>4. CASE guard' = guard /\ lost' = lost /\ callback = -1
  BY <1>0, <1>1, <1>4 DEF On
<1> QED
  BY <1>2, <1>3, <1>4 DEF CountStopout, Crash

-----------------------------------------------------------------------------
(***************************************************************************)
(* Journaled losses are counted.                                            *)
(***************************************************************************)
LEMMA JournalNext == ASSUME TypeOK, RowInv, JournalInv, Next PROVE JournalInv'
<1> SUFFICES ASSUME NEW d \in Days
             PROVE  Cardinality(JournaledExits(d)') <= guard'.daily[d] + lost' + On(callback', d)
  BY DEF JournalInv, On
<1>0. /\ Cardinality(JournaledExits(d)) <= guard.daily[d] + lost + On(callback, d)
      /\ guard.daily[d] \in Nat /\ lost \in Nat /\ On(callback, d) \in 0 .. 1
      /\ IsFiniteSet(JournaledExits(d)) /\ Cardinality(JournaledExits(d)) \in Nat
  BY Facts, Counts, OnValues DEF JournalInv
<1>1. CASE Uncounted
  <2>1. JournaledExits(d)' = JournaledExits(d)
    BY <1>1, UncountedFrame DEF JournaledExits
  <2> QED
    BY <1>0, <1>1, <2>1, UncountedFrame
<1>2. CASE StopFills
  <2>1. row.id \in Candles /\ filled[row.id] = -1 /\ UNCHANGED <<journal, guard, lost, callback>>
    BY <1>2, Facts DEF StopFills
  <2>2. \A s \in Sources : <<s, row.id>> \notin journal
    BY <2>1 DEF RowInv
  <2>3. \A c \in Candles \ {row.id} : filled'[c] = filled[c]
    BY <1>2 DEF StopFills, TypeOK
  <2>4. JournaledExits(d)' = JournaledExits(d)
    BY <2>1, <2>2, <2>3 DEF JournaledExits
  <2> QED
    BY <1>0, <2>1, <2>4
<1>3. ASSUME NEW s \in Sources, NEW c \in Candles, ExitEvent(s, c)
      PROVE  Cardinality(JournaledExits(d)') <= guard'.daily[d] + lost' + On(callback', d)
  <2>1. /\ UNCHANGED <<filled, guard, lost>> /\ callback = -1 /\ callback' = filled[c] /\ filled[c] # -1
        /\ journal' = journal \cup {<<s, c>>}
    BY <1>3 DEF ExitEvent
  <2>2. JournaledExits(d)' \subseteq JournaledExits(d) \cup {c}
    BY <2>1 DEF JournaledExits
  <2>3. On(callback, d) = 0
    BY <2>1 DEF On
  <2>4. CASE DayOf(filled[c]) = d
    <3>1. On(callback', d) = 1
      BY <2>1, <2>4 DEF On
    <3>2. /\ IsFiniteSet(JournaledExits(d) \cup {c})
          /\ Cardinality(JournaledExits(d) \cup {c}) <= Cardinality(JournaledExits(d)) + 1
      <4> DEFINE J == JournaledExits(d)
      <4>1. IsFiniteSet(J) /\ Cardinality(J) \in Nat
        BY <1>0
      <4> HIDE DEF J
      <4>2. IsFiniteSet(J \cup {c}) /\ Cardinality(J \cup {c}) = IF c \in J THEN Cardinality(J) ELSE Cardinality(J) + 1
        BY <4>1, FS_AddElement
      <4>3. Cardinality(J \cup {c}) <= Cardinality(J) + 1
        BY <4>1, <4>2
      <4> QED
        BY <4>2, <4>3 DEF J
    <3>3. /\ Cardinality(JournaledExits(d)') <= Cardinality(JournaledExits(d) \cup {c})
          /\ Cardinality(JournaledExits(d)') \in Nat /\ Cardinality(JournaledExits(d) \cup {c}) \in Nat
      BY <2>2, <3>2, FS_Subset, FS_CardinalityType
    <3> QED
      BY <1>0, <2>1, <2>3, <3>1, <3>2, <3>3
  <2>5. CASE DayOf(filled[c]) # d
    <3>1. JournaledExits(d)' = JournaledExits(d)
      BY <2>1, <2>5 DEF JournaledExits
    <3>2. On(callback', d) = 0
      BY <2>1, <2>5 DEF On
    <3> QED
      BY <1>0, <2>1, <2>3, <3>1, <3>2
  <2> QED
    BY <2>4, <2>5
<1>4. CASE CountStopout \/ Crash
  <2>1. /\ callback' = -1 /\ lost' \in Nat /\ guard'.daily[d] \in Nat /\ UNCHANGED <<filled, journal>>
        /\ guard'.daily[d] + lost' >= guard.daily[d] + lost + On(callback, d)
    BY <1>4, StopoutEnds
  <2>2. JournaledExits(d)' = JournaledExits(d) /\ On(callback', d) = 0
    BY <2>1 DEF JournaledExits, On
  <2> QED
    BY <1>0, <2>1, <2>2
<1> QED
  BY <1>1, <1>2, <1>3, <1>4, NextCases

-----------------------------------------------------------------------------
(***************************************************************************)
(* All losses are counted, but for the pending one.                         *)
(***************************************************************************)
LEMMA CountNext == ASSUME TypeOK, ClaimInv, RowInv, CountInv, Next PROVE CountInv'
<1> SUFFICES ASSUME NEW d \in Days
             PROVE  Losses(d)' <= guard'.daily[d] + lost' + On(Pending', d)
  BY DEF CountInv, On
<1>0. /\ Losses(d) <= guard.daily[d] + lost + On(Pending, d)
      /\ guard.daily[d] \in Nat /\ lost \in Nat /\ On(Pending, d) \in 0 .. 1 /\ On(Pending', d) \in 0 .. 1
      /\ Losses(d) \in Nat
  BY Facts, Counts, OnValues DEF CountInv
<1>1. ASSUME UNCHANGED <<filled, lost>>, guard'.daily = guard.daily, Pending \in {Pending', -1}
      PROVE  Losses(d)' <= guard'.daily[d] + lost' + On(Pending', d)
  <2>1. Losses(d)' = Losses(d)
    BY <1>1, SameLosses
  <2>2. On(Pending, d) <= On(Pending', d)
    BY <1>0, <1>1 DEF On
  <2> QED
    BY <1>0, <1>1, <2>1, <2>2
<1>2. CASE Uncounted
  <2>1. UNCHANGED <<callback, filled, lost>> /\ guard'.daily = guard.daily
    BY <1>2, UncountedFrame
  <2>2. Pending \in {Pending', -1}
    <3>1. CASE UNCHANGED row
      BY <2>1, <3>1 DEF Pending
    <3>2. CASE row.lc # "open" /\ row'.lc # "open"
      BY <2>1, <3>2 DEF Pending
    <3>3. CASE row.lc # "open" /\ callback = -1
      BY <3>3 DEF Pending
    <3>4. CASE Closes
      BY <3>4 DEF Closes, Pending
    <3>5. CASE CandleCloses \/ Emit \/ EntriesOn \/ Boot \/ (\E c \in Candles : Take(c)) \/ Claim
               \/ GuardRecord \/ Move
      BY <3>1, <3>5 DEF CandleCloses, Emit, EntriesOn, Boot, Take, Claim, GuardRecord, Move
    <3>6. CASE Approve \/ RecordSignal
      BY <3>1, <3>2, <3>6 DEF Approve, RecordSignal, NoRow
    <3>7. CASE Submit \/ SubmitRaises
      <4>1. callback = -1 /\ (UNCHANGED row \/ MaySubmit)
        BY <3>7 DEF Submit, SubmitRaises
      <4>2. MaySubmit => row.lc # "open"
        BY DEF MaySubmit
      <4> QED
        BY <3>1, <3>3, <4>1, <4>2
    <3> QED
      BY <1>2, <3>4, <3>5, <3>6, <3>7 DEF Uncounted
  <2> QED
    BY <1>1, <2>1, <2>2
<1>3. CASE StopFills
  <2>1. Losses(d)' = Losses(d) + (IF d = Today THEN 1 ELSE 0)
    BY <1>3, LossGrows
  <2>2. row.id \in Candles /\ now \in 0 .. MaxTime
    BY <1>3, Facts DEF StopFills
  <2>3. Pending = -1 /\ Pending' = now /\ UNCHANGED <<guard, lost>>
    BY <1>3, <2>2 DEF StopFills, Pending, TypeOK
  <2>4. On(Pending, d) = 0 /\ On(Pending', d) = IF d = Today THEN 1 ELSE 0
    BY <2>2, <2>3 DEF On, Today
  <2> QED
    BY <1>0, <2>1, <2>3, <2>4
<1>4. ASSUME NEW s \in Sources, NEW c \in Candles, ExitEvent(s, c)
      PROVE  Losses(d)' <= guard'.daily[d] + lost' + On(Pending', d)
  <2>1. /\ UNCHANGED <<filled, guard, lost>> /\ callback = -1 /\ callback' = filled[c] /\ filled[c] # -1
        /\ row' = IF row.id = c THEN NoRow ELSE row
    BY <1>4 DEF ExitEvent
  <2>2. row.id = c => row.lc = "open"
    BY <2>1, Facts DEF RowInv, NoRow, Candles
  <2>3. Pending \in {Pending', -1}
    BY <2>1, <2>2 DEF Pending, NoRow
  <2> QED
    BY <1>1, <2>1, <2>3
<1>5. CASE CountStopout \/ Crash
  <2>1. /\ callback' = -1 /\ lost' \in Nat /\ lost' >= lost /\ guard'.daily[d] \in Nat /\ UNCHANGED <<filled, row>>
        /\ guard'.daily[d] + lost' >= guard.daily[d] + lost + On(callback, d)
    BY <1>5, StopoutEnds
  <2>2. Losses(d)' = Losses(d) /\ On(callback, d) \in 0 .. 1
    BY <2>1, SameLosses, OnValues
  <2>3. CASE row.lc = "open"
    <3>1. Pending' = Pending
      BY <2>1, <2>3 DEF Pending
    <3> QED
      BY <1>0, <2>1, <2>2, <3>1
  <2>4. CASE row.lc # "open"
    <3>1. Pending = callback /\ On(Pending', d) = 0
      BY <2>1, <2>4 DEF Pending, On
    <3> QED
      BY <1>0, <2>1, <2>2, <3>1
  <2> QED
    BY <2>3, <2>4
<1> QED
  BY <1>2, <1>3, <1>4, <1>5, NextCases

-----------------------------------------------------------------------------
(***************************************************************************)
(* The budget of a day.                                                     *)
(***************************************************************************)

\* Nothing was lost on a day that has not begun.
LEMMA NoFutureLoss ==
  ASSUME TypeOK, RowInv, NEW d \in Days, d > Today
  PROVE  Losses(d) = 0
<1>1. \A c \in Candles : filled[c] # -1 => DayOf(filled[c]) <= Today /\ DayOf(filled[c]) \in Nat
  <2> SUFFICES ASSUME NEW c \in Candles, filled[c] # -1
               PROVE  DayOf(filled[c]) <= Today /\ DayOf(filled[c]) \in Nat
    OBVIOUS
  <2>1. filled[c] \in Times /\ now \in Times /\ filled[c] <= now
    BY FilledDay DEF RowInv, TypeOK
  <2> QED
    BY <2>1, DayMonotone DEF Today
<1>2. Today \in Nat /\ d \in Int
  BY DayType DEF TypeOK, Today, Days
<1>3. LostTrades(d) = {}
  BY <1>1, <1>2 DEF LostTrades
<1> QED
  BY <1>3, FS_EmptySet DEF Losses

\* The guard lets a signal pass only while the day can bear one more loss beside the open trade's.
LEMMA GuardPasses ==
  ASSUME TypeOK, CountInv, BudgetLeft
  PROVE  Losses(Today) + (IF Unfilled THEN 1 ELSE 0) <= MaxStopouts + lost
<1>1. Today \in Days
  BY DayType DEF Today, TypeOK
<1>2. /\ Losses(Today) <= guard.daily[Today] + lost + On(Pending, Today)
      /\ guard.daily[Today] \in Nat /\ lost \in Nat /\ Losses(Today) \in Nat
      /\ On(Pending, Today) \in 0 .. 1 /\ MaxStopouts \in Nat
  BY <1>1, Facts, Counts, OnValues, Bounds DEF CountInv
<1>3. guard.daily[Today] < MaxStopouts
  BY DEF BudgetLeft, Today
<1>4. Unfilled => On(Pending, Today) = 0
  BY DEF Unfilled, Pending, On
<1> QED
  BY <1>2, <1>3, <1>4

LEMMA BudgetNext ==
  ASSUME TypeOK, TypeOK', ClaimInv, RowInv, CountInv, BudgetInv, Next
  PROVE  BudgetInv'
<1> DEFINE open == IF Unfilled THEN 1 ELSE 0
<1>0. /\ Today \in Days /\ Today \in Nat /\ Today' \in Days
      /\ lost \in Nat /\ MaxStopouts \in Nat \ {0} /\ \A d \in Days : Losses(d) \in Nat
  BY DayType, Facts, Counts, Bounds DEF TypeOK, Today
<1>1. ASSUME UNCHANGED <<filled, now>>, lost' \in Nat, lost' >= lost,
             Unfilled' => Unfilled \/ pc = "approved", Underway' => Underway /\ (Unfilled' => Unfilled)
      PROVE  BudgetInv'
  <2>1. \A d \in Days : Losses(d)' = Losses(d)
    BY <1>1, SameLosses
  <2>2. Today' = Today /\ Losses(Today)' = Losses(Today)
    BY <1>0, <1>1, <2>1 DEF Today
  <2>3. pc = "approved" => Losses(Today) <= MaxStopouts + lost
    BY <1>0 DEF BudgetInv, Underway
  <2>4. \A d \in Days : Losses(d)' <= MaxStopouts + 1 + lost'
    BY <1>0, <1>1, <2>1 DEF BudgetInv
  <2>5. Unfilled' => Losses(Today)' <= MaxStopouts + lost'
    BY <1>0, <1>1, <2>2, <2>3 DEF BudgetInv
  <2>6. Underway' => Losses(Today)' + (IF Unfilled' THEN 1 ELSE 0) <= MaxStopouts + lost'
    BY <1>0, <1>1, <2>2 DEF BudgetInv
  <2> QED
    BY <2>4, <2>5, <2>6 DEF BudgetInv
<1>2. CASE CandleCloses
  <2>1. UNCHANGED <<filled, lost, row, pc>> /\ now \in Times /\ now' \in Times /\ now <= now'
    BY <1>2 DEF CandleCloses, market, TypeOK, Times
  <2>2. Today <= Today' /\ Today' \in Nat
    BY <2>1, DayMonotone, DayType DEF Today
  <2>3. \A d \in Days : Losses(d)' = Losses(d)
    BY <2>1, SameLosses
  <2>4. (Unfilled' <=> Unfilled) /\ (Underway' <=> Underway)
    BY <2>1 DEF Unfilled, Underway
  <2>5. Losses(Today)' = Losses(Today')
    BY <2>1 DEF Losses, LostTrades
  <2>6. CASE Today' = Today
    BY <1>0, <2>1, <2>3, <2>4, <2>5, <2>6 DEF BudgetInv
  <2>7. CASE Today' # Today
    <3>1. Losses(Today') = 0
      BY <1>0, <2>2, <2>7, NoFutureLoss
    <3> QED
      BY <1>0, <2>1, <2>3, <2>5, <3>1 DEF BudgetInv
  <2> QED
    BY <2>6, <2>7
<1>3. ASSUME NEW c \in Candles, Take(c) PROVE BudgetInv'
  <2>1. UNCHANGED <<filled, now, lost, row>> /\ pc = "idle"
    BY <1>3 DEF Take, files, market
  <2>2. Unfilled' <=> Unfilled
    BY <2>1 DEF Unfilled
  <2>3. CASE pc' = "allowed"
    <3>1. BudgetLeft
      BY <1>3, <2>3 DEF Take, Known, Check, Refuse, Allowed
    <3>2. Losses(Today) + (IF Unfilled THEN 1 ELSE 0) <= MaxStopouts + lost
      BY <3>1, GuardPasses
    <3>3. \A d \in Days : Losses(d)' = Losses(d)
      BY <2>1, SameLosses
    <3>4. Losses(Today)' = Losses(Today)
      BY <2>1 DEF Losses, LostTrades, Today
    <3> QED
      BY <1>0, <2>1, <2>2, <3>2, <3>3, <3>4 DEF BudgetInv
  <2>4. CASE pc' = "move"
    BY <1>0, <1>1, <2>1, <2>2, <2>4 DEF Underway
  <2> QED
    BY <1>3, <2>3, <2>4 DEF Take, Known, Check, Refuse
<1>4. CASE StopFills
  <2>1. \A d \in Days : Losses(d)' = Losses(d) + (IF d = Today THEN 1 ELSE 0)
    BY <1>4, LossGrows
  <2>2. UNCHANGED <<now, lost, row, pc>> /\ Unfilled /\ row.id \in Candles /\ filled'[row.id] # -1
    BY <1>4, Facts DEF StopFills, files, Unfilled, TypeOK
  <2>3. ~Unfilled' /\ (Underway' <=> Underway) /\ Today' = Today
    BY <2>2 DEF Unfilled, Underway, Today
  <2>4. Losses(Today)' = Losses(Today) + 1
    BY <1>0, <2>1, <2>3
  <2> QED
    BY <1>0, <2>1, <2>2, <2>3, <2>4 DEF BudgetInv
<1>5. CASE CountStopout \/ Crash
  <2>1. UNCHANGED <<filled, now, row>> /\ lost' \in Nat /\ lost' >= lost
    BY <1>5, StopoutEnds
  <2>2. pc' \in {pc, "down"}
    BY <1>5 DEF CountStopout, Crash
  <2> QED
    BY <1>1, <2>1, <2>2 DEF Unfilled, Underway
<1>6. ASSUME NEW s \in Sources, NEW c \in Candles, ExitEvent(s, c) PROVE BudgetInv'
  BY <1>0, <1>1, <1>6 DEF ExitEvent, files, Unfilled, Underway, NoRow
<1>7. CASE Emit \/ EntriesOn \/ Boot \/ Closes \/ Claim \/ Approve \/ GuardRecord \/ RecordSignal \/ Move
  <2>1. UNCHANGED <<filled, now, lost>>
    BY <1>7 DEF Emit, EntriesOn, Boot, Closes, Claim, Approve, GuardRecord, RecordSignal, Move, files, market
  <2>2. row' = row \/ row'.lc # "open"
    BY <1>7 DEF Emit, EntriesOn, Boot, Closes, Claim, Approve, GuardRecord, RecordSignal, Move, NoRow
  <2>3. Unfilled' => Unfilled
    BY <2>1, <2>2 DEF Unfilled
  <2>4. Underway' => Underway
    BY <1>7 DEF Underway, Emit, EntriesOn, Boot, Closes, Claim, Refuse, Approve, GuardRecord, RecordSignal, Move
  <2> QED
    BY <1>0, <1>1, <2>1, <2>3, <2>4
<1>8. CASE Submit \/ SubmitRaises
  <2>1. UNCHANGED <<filled, now, lost>> /\ pc = "approved" /\ pc' \in {"record", "idle"}
    BY <1>8 DEF Submit, SubmitRaises, files, market
  <2> QED
    BY <1>0, <1>1, <2>1 DEF Underway
<1> QED
  BY <1>2, <1>3, <1>4, <1>5, <1>6, <1>7, <1>8, NextCases DEF Uncounted

-----------------------------------------------------------------------------
(***************************************************************************)
(* The theorems.                                                            *)
(***************************************************************************)
LEMMA InitIInv == Init => IInv
<1> SUFFICES ASSUME Init PROVE IInv
  OBVIOUS
<1>1. TypeOK
  <2>1. now \in Times /\ cur \in Times /\ callback \in -1 .. MaxTime /\ faults \in 0 .. MaxFaults
    BY Bounds DEF Init, Times
  <2>2. guard \in GuardType
    BY Bounds DEF Init, GuardType, Times
  <2>3. /\ claims \in [Candles -> Results] /\ filled \in [Candles -> -1 .. MaxTime] /\ sent \in [Candles -> Nat]
    BY Bounds DEF Init, Results
  <2>4. inbox \subseteq Candles /\ journal \subseteq Sources \X Candles /\ row \in Row \cup {NoRow} /\ pc \in Steps
    BY DEF Init, Steps
  <2>5. armed \in BOOLEAN /\ lost \in Nat
    BY DEF Init
  <2> QED
    BY <2>1, <2>2, <2>3, <2>4, <2>5 DEF TypeOK, GuardType
<1>2. ClaimInv /\ RowInv
  BY DEF Init, ClaimInv, RowInv, NoRow
<1>3. \A d \in Days : Losses(d) = 0 /\ Cardinality(JournaledExits(d)) = 0
  <2>1. \A d \in Days : LostTrades(d) = {} /\ JournaledExits(d) = {}
    BY DEF Init, LostTrades, JournaledExits
  <2> QED
    BY <2>1, FS_EmptySet DEF Losses
<1>4. /\ \A d \in Days : guard.daily[d] = 0
      /\ lost = 0 /\ Today \in Days /\ MaxStopouts \in Nat /\ ~Underway /\ ~Unfilled
  BY <1>1, Bounds, DayType DEF Init, Today, TypeOK, Underway, Unfilled, NoRow
<1>5. JournalInv /\ CountInv
  BY <1>3, <1>4, OnValues DEF JournalInv, CountInv
<1>6. BudgetInv
  BY <1>3, <1>4 DEF BudgetInv
<1> QED
  BY <1>1, <1>2, <1>5, <1>6 DEF IInv

LEMMA NextIInv == IInv /\ [Next]_vars => IInv'
<1> SUFFICES ASSUME IInv, [Next]_vars PROVE IInv'
  OBVIOUS
<1> USE DEF IInv
<1>1. CASE Next
  <2>1. TypeOK'
    BY <1>1, TypesNext
  <2>2. ClaimInv' /\ RowInv'
    BY <1>1, <2>1, ClaimNext, RowNext
  <2>3. JournalInv' /\ CountInv' /\ BudgetInv'
    BY <1>1, <2>1, JournalNext, CountNext, BudgetNext
  <2> QED
    BY <2>1, <2>2, <2>3
<1>2. CASE UNCHANGED vars
  <2> USE <1>2 DEF vars
  <2>1. TypeOK' /\ ClaimInv' /\ RowInv'
    BY DEF TypeOK, ClaimInv, RowInv
  <2>2. JournalInv'
    BY DEF JournalInv, JournaledExits, On
  <2>3. CountInv'
    BY DEF CountInv, Losses, LostTrades, Pending, On
  <2>4. BudgetInv'
    BY DEF BudgetInv, Losses, LostTrades, Today, Underway, Unfilled
  <2> QED
    BY <2>1, <2>2, <2>3, <2>4
<1> QED
  BY <1>1, <1>2

\* The invariant holds of every behaviour of the signal gate.
THEOREM Invariance == Spec => []IInv
<1>1. Init => IInv
  BY InitIInv
<1>2. IInv /\ [Next]_vars => IInv'
  BY NextIInv
<1> QED
  BY <1>1, <1>2, PTL DEF Spec

\* The claims, the guard's counters and the trade record keep their types for every length of the
\* day, every budget and any number of faults (order_manager.py, risk_checks.py, state_store.py).
THEOREM TypeCorrect == Spec => []TypeOK
<1>1. IInv => TypeOK
  BY DEF IInv
<1> QED
  BY <1>1, Invariance, PTL

\* A signal leaves the process at most once, wherever the process dies or submit raises, and
\* although its file may be written again (claim_signal, process_signal).
THEOREM SentOnce == Spec => []SignalSentOnce
<1>1. IInv => SignalSentOnce
  BY DEF IInv, ClaimInv, SignalSentOnce
<1> QED
  BY <1>1, Invariance, PTL

\* Every journaled stop-out is counted under its day, but for those whose count was cut off
\* (_record_authenticated_event, record_stopout).
THEOREM EveryStopoutCounted == Spec => []StopoutsCounted
<1>1. IInv => StopoutsCounted
  <2> SUFFICES ASSUME IInv, callback = -1, NEW d \in Days
               PROVE  guard.daily[d] + lost >= Cardinality(JournaledExits(d))
    BY DEF StopoutsCounted
  <2>1. On(callback, d) = 0
    BY DEF On
  <2>2. /\ Cardinality(JournaledExits(d)) <= guard.daily[d] + lost + On(callback, d)
        /\ guard.daily[d] \in Nat /\ lost \in Nat /\ Cardinality(JournaledExits(d)) \in Nat
    BY Facts, Counts DEF IInv, JournalInv
  <2> QED
    BY <2>1, <2>2
<1> QED
  BY <1>1, Invariance, PTL

\* The losing trades of a day stay within the budget, one entry that was under way, and the
\* stop-outs that were lost, for every budget and every interleaving of reports and signals
\* (FreshSignalGuard.allow, process_signal, record_stopout).
THEOREM DailyBudget == Spec => []LossesWithinBudget
<1>1. IInv => LossesWithinBudget
  BY DEF IInv, BudgetInv, LossesWithinBudget, Losses, LostTrades
<1> QED
  BY <1>1, Invariance, PTL

=============================================================================
