----------------------------- MODULE JournalProofs -----------------------------
(***************************************************************************)
(* For every capacity and every set of sequence numbers: the ring of       *)
(* module Journal is well typed, fills from the left until it wraps,       *)
(* implements the abstract log of module AudioLog, and what it replays is  *)
(* exactly what it retains above the floor.                                *)
(***************************************************************************)
EXTENDS Journal, DataTheorems

USE JournalAssumption DEF JournalAssumption

\* Reducing an index into a ring of n slots, for the two ranges that occur.
LEMMA ModSmall ==
  ASSUME NEW n \in Nat \ {0}, NEW a \in 0..n-1
  PROVE  a % n = a
  BY SMT

LEMMA ModOnce ==
  ASSUME NEW n \in Nat \ {0}, NEW a \in 0..n-1
  PROVE  (a + n) % n = a
  BY SMT

\* An index that runs past the last slot at most once.
Wrap(k) == IF k < Capacity THEN k ELSE k - Capacity

LEMMA WrapIsMod ==
  ASSUME NEW k \in Nat, k < Capacity + Capacity
  PROVE  /\ k % Capacity = Wrap(k)
         /\ Wrap(k) \in 0 .. Capacity - 1
<1>1. CASE k < Capacity
  BY <1>1, ModSmall DEF Wrap
<1>2. CASE k >= Capacity
  <2> DEFINE a == k - Capacity
  <2>1. a \in 0..Capacity-1 /\ k = a + Capacity
    BY <1>2
  <2> HIDE DEF a
  <2>2. (a + Capacity) % Capacity = a
    BY <2>1, ModOnce
  <2>3. QED BY <1>2, <2>1, <2>2 DEF Wrap
<1>3. QED BY <1>1, <1>2

-------------------------------------------------------------------------------

\* TypeOK and FillsFromTheLeft are inductive together: the size can only
\* stop short of the capacity while the write index still equals it.
RingInv == TypeOK /\ FillsFromTheLeft

\* The slot after the write index.
LEMMA NextSlot ==
  ASSUME TypeOK
  PROVE  (writeIdx + 1) % Capacity = Wrap(writeIdx + 1)
<1>1. writeIdx + 1 \in Nat /\ writeIdx + 1 < Capacity + Capacity
  BY DEF TypeOK, Slots
<1>2. QED BY <1>1, WrapIsMod

LEMMA RingInit == Init => RingInv
<1> SUFFICES ASSUME Init PROVE RingInv
  OBVIOUS
<1>1. /\ records \in [Slots -> Seqs \cup {0}] /\ writeIdx \in Slots
      /\ size \in 0..Capacity /\ committedSeq \in Seqs \cup {0}
  BY DEF Init, Slots
<1>2. haveCommitted \in BOOLEAN /\ writeIdx = size
  BY DEF Init
<1>3. QED BY <1>1, <1>2 DEF RingInv, TypeOK, FillsFromTheLeft

LEMMA RingNext == RingInv /\ [Next]_vars => RingInv'
<1> SUFFICES ASSUME RingInv, [Next]_vars
             PROVE  RingInv'
  OBVIOUS
<1>1. ASSUME NEW r \in Seqs, AppendRecord(r)
      PROVE  RingInv'
  <2>1. writeIdx' = Wrap(writeIdx + 1)
    BY <1>1, NextSlot DEF AppendRecord, RingInv
  <2>2. /\ records' \in [Slots -> Seqs \cup {0}] /\ writeIdx' \in Slots
        /\ size' \in 0..Capacity /\ committedSeq' \in Seqs \cup {0}
    BY <1>1, <2>1 DEF AppendRecord, RingInv, TypeOK, Slots, Wrap
  <2>3. haveCommitted' \in BOOLEAN
    BY <1>1 DEF AppendRecord, RingInv, TypeOK
  <2>4. size' < Capacity => writeIdx' = size'
    BY <1>1, <2>1 DEF AppendRecord, RingInv, TypeOK, FillsFromTheLeft, Slots, Wrap
  <2>5. QED BY <2>2, <2>3, <2>4 DEF RingInv, TypeOK, FillsFromTheLeft, Slots
<1>2. ASSUME NEW s \in Seqs, TrimBefore(s)
      PROVE  RingInv'
  <2>1. UNCHANGED <<records, writeIdx, size>> /\ committedSeq' \in Seqs
    BY <1>2 DEF TrimBefore
  <2>2. haveCommitted' \in BOOLEAN
    BY <1>2 DEF TrimBefore
  <2>3. QED BY <2>1, <2>2 DEF RingInv, TypeOK, FillsFromTheLeft, Slots
<1>3. CASE UNCHANGED vars
  BY <1>3 DEF vars, RingInv, TypeOK, FillsFromTheLeft, Slots
<1>4. QED BY <1>1, <1>2, <1>3 DEF Next

\* Every reachable journal is well typed and fills from the left.
THEOREM RingCorrect == Spec => []RingInv
BY RingInit, RingNext, PTL DEF Spec

\* The preallocated slots, the write index and the size stay in their ranges
\* (journal.go, Append).
THEOREM JournalTypes == Spec => []TypeOK
<1>1. RingInv => TypeOK
  BY DEF RingInv
<1> QED
  BY <1>1, RingCorrect, PTL

\* The oldest record is at slot 0 until the ring wraps (journal.go, entries),
\* so no replay reads a slot that was never written.
THEOREM AlwaysFillsFromTheLeft == Spec => []FillsFromTheLeft
<1>1. RingInv => FillsFromTheLeft
  BY DEF RingInv
<1> QED
  BY <1>1, RingCorrect, PTL

-------------------------------------------------------------------------------

\* The unwound ring, without remainders: it starts at slot 0 until the ring
\* is full, and at the next slot to be written from then on.
Unwound ==
  entries = [i \in 1..size |->
               records[Wrap((IF size < Capacity THEN 0 ELSE writeIdx) + i - 1)]]

LEMMA EntriesUnwound == RingInv => Unwound
<1> SUFFICES ASSUME RingInv PROVE Unwound
  OBVIOUS
<1> DEFINE start == IF size < Capacity THEN 0 ELSE writeIdx
<1>1. (writeIdx - size + Capacity) % Capacity = start
  <2>1. /\ writeIdx - size + Capacity \in Nat
        /\ writeIdx - size + Capacity < Capacity + Capacity
    BY DEF RingInv, TypeOK, Slots
  <2>2. (writeIdx - size + Capacity) % Capacity =
          Wrap(writeIdx - size + Capacity)
    BY <2>1, WrapIsMod
  <2>3. QED BY <2>2 DEF RingInv, TypeOK, FillsFromTheLeft, Slots, Wrap
<1>2. ASSUME NEW i \in 1..size
      PROVE  (start + i - 1) % Capacity = Wrap(start + i - 1)
  <2>1. start + i - 1 \in Nat /\ start + i - 1 < Capacity + Capacity
    BY DEF RingInv, TypeOK, Slots
  <2>2. QED BY <2>1, WrapIsMod
<1>3. QED BY <1>1, <1>2 DEF entries, Unwound

\* The unwound entries are a sequence of records as long as the size.
EntriesType == entries \in Seq(Seqs \cup {0}) /\ Len(entries) = size

LEMMA EntriesTyped == RingInv => EntriesType
<1> SUFFICES ASSUME RingInv PROVE EntriesType
  OBVIOUS
<1>1. \A i \in 1..size :
        Wrap((IF size < Capacity THEN 0 ELSE writeIdx) + i - 1) \in Slots
  BY DEF RingInv, TypeOK, Slots, Wrap
<1>2. QED BY <1>1, EntriesUnwound DEF Unwound, EntriesType, RingInv, TypeOK

\* Appending to the ring appends to the unwound entries, dropping the oldest
\* of them exactly when the ring was full.
LEMMA AppendUnwound ==
  ASSUME RingInv, RingInv', NEW r \in Seqs, AppendRecord(r)
  PROVE  entries' = IF Len(entries) < Capacity
                    THEN Append(entries, r) ELSE Append(Tail(entries), r)
<1>1. /\ records' = [records EXCEPT ![writeIdx] = r]
      /\ writeIdx' = Wrap(writeIdx + 1)
      /\ size' = IF size < Capacity THEN size + 1 ELSE size
  BY NextSlot DEF AppendRecord, RingInv
<1>2. entries \in Seq(Seqs \cup {0}) /\ Len(entries) = size
  BY EntriesTyped DEF EntriesType
<1>3. entries' = [i \in 1..size' |->
                    records'[Wrap((IF size' < Capacity THEN 0 ELSE writeIdx')
                                  + i - 1)]]
  <2>1. Unwound'
    BY EntriesUnwound, PTL
  <2>2. QED BY <2>1 DEF Unwound
<1>4. entries' \in Seq(Seqs \cup {0}) /\ Len(entries') = size'
  <2>1. EntriesType'
    BY EntriesTyped, PTL
  <2>2. QED BY <2>1 DEF EntriesType
<1>5. CASE size < Capacity
  <2>1. writeIdx = size /\ size' = size + 1
    BY <1>1, <1>5 DEF RingInv, FillsFromTheLeft
  <2>2. ASSUME NEW i \in 1..size + 1
        PROVE  Wrap((IF size' < Capacity THEN 0 ELSE writeIdx') + i - 1) = i - 1
    BY <1>1, <1>5, <2>1 DEF RingInv, TypeOK, Slots, Wrap
  <2>3. entries' = [i \in 1..size + 1 |-> records'[i - 1]]
    BY <1>3, <2>1, <2>2
  <2>4. ASSUME NEW i \in 1..size
        PROVE  entries[i] = records[i - 1]
    <3>1. Wrap(0 + i - 1) = i - 1
      BY <1>5 DEF RingInv, TypeOK, Slots, Wrap
    <3>2. QED BY <1>5, <3>1, EntriesUnwound DEF Unwound
  <2>5. ASSUME NEW i \in 1..size + 1
        PROVE  records'[i - 1] = IF i <= size THEN entries[i] ELSE r
    BY <1>1, <1>5, <2>1, <2>4 DEF RingInv, TypeOK, Slots
  <2>6. /\ Append(entries, r) \in Seq(Seqs \cup {0})
        /\ Len(Append(entries, r)) = size + 1
        /\ \A i \in 1..size : Append(entries, r)[i] = entries[i]
        /\ Append(entries, r)[size + 1] = r
    BY <1>2, AppendProperties
  <2>7. entries' = Append(entries, r)
    <3>1. \A i \in 1..size + 1 : entries'[i] = Append(entries, r)[i]
      BY <2>3, <2>5, <2>6 DEF RingInv, TypeOK
    <3>2. Len(entries') = size + 1
      BY <1>4, <2>1
    <3>3. QED BY <1>4, <2>6, <3>1, <3>2, SeqEqual
  <2>8. QED BY <1>2, <1>5, <2>7
<1>6. CASE size = Capacity
  <2>1. size' = Capacity
    BY <1>1, <1>6
  <2>2. ASSUME NEW i \in 1..Capacity
        PROVE  /\ Wrap(writeIdx' + i - 1) \in Slots
               /\ i < Capacity => /\ Wrap(writeIdx' + i - 1) = Wrap(writeIdx + i)
                                  /\ Wrap(writeIdx' + i - 1) # writeIdx
               /\ i = Capacity => Wrap(writeIdx' + i - 1) = writeIdx
    BY <1>1 DEF RingInv, TypeOK, Slots, Wrap
  <2>3. entries' = [i \in 1..Capacity |-> records'[Wrap(writeIdx' + i - 1)]]
    BY <1>3, <2>1
  <2>4. ASSUME NEW i \in 1..Capacity - 1
        PROVE  entries[i + 1] = records[Wrap(writeIdx + i)]
    <3>1. i + 1 \in 1..size /\ writeIdx + (i + 1) - 1 = writeIdx + i
      BY <1>6 DEF RingInv, TypeOK, Slots
    <3>2. QED BY <1>6, <3>1, EntriesUnwound DEF Unwound
  <2>5. ASSUME NEW i \in 1..Capacity
        PROVE  records'[Wrap(writeIdx' + i - 1)] =
                 IF i < Capacity THEN entries[i + 1] ELSE r
    BY <1>1, <2>2, <2>4 DEF RingInv, TypeOK, Slots
  <2>6. /\ Tail(entries) \in Seq(Seqs \cup {0})
        /\ Len(Tail(entries)) = Capacity - 1
        /\ \A i \in 1..Capacity - 1 : Tail(entries)[i] = entries[i + 1]
    <3>1. entries # << >>
      BY <1>2, <1>6
    <3>2. QED BY <1>2, <1>6, <3>1, HeadTailProperties
  <2>7. /\ Append(Tail(entries), r) \in Seq(Seqs \cup {0})
        /\ Len(Append(Tail(entries), r)) = Capacity
        /\ \A i \in 1..Capacity - 1 : Append(Tail(entries), r)[i] = entries[i + 1]
        /\ Append(Tail(entries), r)[Capacity] = r
    BY <2>6, AppendProperties
  <2>8. entries' = Append(Tail(entries), r)
    <3>1. \A i \in 1..Capacity : entries'[i] = Append(Tail(entries), r)[i]
      BY <2>3, <2>5, <2>7
    <3>2. Len(entries') = Capacity
      BY <1>4, <2>1
    <3>3. QED BY <1>4, <2>7, <3>1, <3>2, SeqEqual
  <2>9. QED BY <1>2, <1>6, <2>8
<1>7. QED BY <1>5, <1>6 DEF RingInv, TypeOK

-------------------------------------------------------------------------------

\* The ring is an implementation of the abstract log: its initial state maps
\* to the empty log and every step maps to a step of the log or to a stutter.
THEOREM JournalImplementsLog == Spec => ImplementsLog
<1>1. Init => Log!LogInit
  <2> SUFFICES ASSUME Init PROVE entries = << >> /\ Log!LogInit
    OBVIOUS
  <2>1. size = 0 /\ committedSeq = 0 /\ haveCommitted = FALSE
    BY DEF Init
  <2>2. entries = << >>
    BY <2>1 DEF entries
  <2>3. QED BY <2>1, <2>2 DEF Log!LogInit
<1>2. RingInv /\ RingInv' /\ [Next]_vars => [Log!LogNext]_(Log!logVars)
  <2> SUFFICES ASSUME RingInv, RingInv', [Next]_vars
               PROVE  [Log!LogNext]_(Log!logVars)
    OBVIOUS
  <2>1. ASSUME NEW r \in Seqs, AppendRecord(r)
        PROVE  Log!Record(r)
    <3>1. Len(entries) = size
      BY DEF entries, RingInv, TypeOK
    <3>2. Log!Newer(r)
      BY <2>1, <3>1 DEF AppendRecord, Accepted, Log!Newer
    <3>3. QED BY <2>1, <3>2, AppendUnwound DEF AppendRecord, Log!Record
  <2>2. ASSUME NEW s \in Seqs, TrimBefore(s)
        PROVE  Log!Commit(s)
    BY <2>2 DEF TrimBefore, Log!Commit, entries
  <2>3. CASE UNCHANGED vars
    BY <2>3 DEF vars, Log!logVars, entries
  <2>4. QED BY <2>1, <2>2, <2>3 DEF Next, Log!LogNext
<1>3. QED BY <1>1, <1>2, RingCorrect, PTL DEF Spec, ImplementsLog, Log!LogSpec

-------------------------------------------------------------------------------
(* Replays.                                                                *)

\* The ring holds records that were appended, never the zero Record of a slot
\* nobody wrote, and holds them in order.
ReplayInv == RingInv /\ entries \in Seq(Seqs) /\ Increasing(entries)

LEMMA ReplayInit == Init => ReplayInv
<1> SUFFICES ASSUME Init PROVE ReplayInv
  OBVIOUS
<1>1. RingInv
  BY RingInit
<1>2. entries = << >>
  <2>1. size = 0 /\ Len(entries) = 0 /\ entries \in Seq(Seqs \cup {0})
    BY <1>1, EntriesTyped DEF Init, EntriesType
  <2> QED
    BY <2>1, EmptySeq
<1> QED
  BY <1>1, <1>2, EmptySeq DEF ReplayInv, Increasing

LEMMA AppendKeepsOrder ==
  ASSUME NEW q \in Seq(Seqs), Increasing(q), NEW r \in Seqs, \A i \in 1..Len(q) : q[i] < r
  PROVE  /\ Append(q, r) \in Seq(Seqs) /\ Increasing(Append(q, r))
         /\ q # << >> => /\ Tail(q) \in Seq(Seqs) /\ Increasing(Tail(q))
                         /\ \A i \in 1..Len(Tail(q)) : Tail(q)[i] < r
<1>1. /\ Len(q) \in Nat /\ Append(q, r) \in Seq(Seqs) /\ Len(Append(q, r)) = Len(q) + 1
      /\ Append(q, r)[Len(q) + 1] = r
      /\ \A i \in 1..Len(q) : Append(q, r)[i] = q[i] /\ q[i] \in Seqs
  BY AppendProperties, LenProperties, ElementOfSeq
<1>2. Increasing(Append(q, r))
  BY <1>1 DEF Increasing
<1>3. ASSUME q # << >>
      PROVE  /\ Tail(q) \in Seq(Seqs) /\ Increasing(Tail(q))
             /\ \A i \in 1..Len(Tail(q)) : Tail(q)[i] < r
  <2>1. /\ Tail(q) \in Seq(Seqs) /\ Len(Tail(q)) = Len(q) - 1
        /\ \A i \in 1..Len(Tail(q)) : Tail(q)[i] = q[i + 1]
    BY <1>3, HeadTailProperties
  <2>2. \A i \in 1..Len(Tail(q)) : i + 1 \in 1..Len(q)
    BY <1>1, <2>1
  <2>3. Increasing(Tail(q))
    BY <1>1, <2>1, <2>2 DEF Increasing
  <2> QED
    BY <2>1, <2>2, <2>3
<1> QED
  BY <1>1, <1>2, <1>3

LEMMA ReplayNext == ReplayInv /\ [Next]_vars => ReplayInv'
<1> SUFFICES ASSUME ReplayInv, [Next]_vars
             PROVE  ReplayInv'
  OBVIOUS
<1>1. RingInv /\ RingInv'
  BY RingNext DEF ReplayInv
<1>2. entries \in Seq(Seqs) /\ Increasing(entries) /\ Len(entries) = size
  BY <1>1, EntriesTyped DEF ReplayInv, EntriesType
<1>3. ASSUME NEW r \in Seqs, AppendRecord(r)
      PROVE  entries' \in Seq(Seqs) /\ Increasing(entries')
  <2>1. \A i \in 1..Len(entries) : entries[i] < r
    BY <1>2, <1>3 DEF AppendRecord, Accepted
  <2>2. entries' = IF Len(entries) < Capacity
                   THEN Append(entries, r) ELSE Append(Tail(entries), r)
    BY <1>1, <1>3, AppendUnwound
  <2> HIDE DEF entries
  <2>3. CASE Len(entries) < Capacity
    BY <1>2, <2>1, <2>2, <2>3, AppendKeepsOrder
  <2>4. CASE ~(Len(entries) < Capacity)
    <3>1. entries # << >>
      BY <2>4, EmptySeq
    <3> DEFINE q == Tail(entries)
    <3>2. q \in Seq(Seqs) /\ Increasing(q) /\ \A i \in 1..Len(q) : q[i] < r
      BY <1>2, <2>1, <3>1, AppendKeepsOrder
    <3>3. entries' = Append(q, r)
      BY <2>2, <2>4
    <3> HIDE DEF q
    <3> QED
      BY <3>2, <3>3, AppendKeepsOrder
  <2> QED
    BY <2>3, <2>4
<1>4. ASSUME UNCHANGED <<records, writeIdx, size>>
      PROVE  entries' = entries
  BY <1>4 DEF entries
<1>5. entries' \in Seq(Seqs) /\ Increasing(entries')
  BY <1>2, <1>3, <1>4 DEF Next, TrimBefore, vars
<1>6. Increasing(entries)'
  BY <1>5 DEF Increasing
<1> QED
  BY <1>1, <1>5, <1>6 DEF ReplayInv

\* A replay hands a recovery every record retained above the committed floor,
\* once and in order, and none at or below it (journal.go, ReadFromCommitted),
\* however often the ring has wrapped and wherever the floor is.
THEOREM ReplayAlwaysExact == Spec => []ReplayIsExactlyAboveFloor
<1>1. ReplayInv => ReplayIsExactlyAboveFloor
  <2> SUFFICES ASSUME ReplayInv PROVE ReplayIsExactlyAboveFloor
    OBVIOUS
  <2> DEFINE replay == ReadFromCommitted
             held   == {entries[i] : i \in 1..Len(entries)}
             low    == {s \in Seqs : haveCommitted /\ s <= committedSeq}
  <2>1. /\ entries \in Seq(Seqs) /\ Increasing(entries) /\ Len(entries) = size
        /\ held \subseteq Seqs /\ committedSeq \in Nat
    BY EntriesTyped, ElementOfSeq, JournalAssumption
       DEF ReplayInv, EntriesType, RingInv, TypeOK, JournalAssumption
  <2>2. CASE ~haveCommitted
    <3>1. replay = entries /\ low = {}
      BY <2>2 DEF ReadFromCommitted
    <3>2. \A i, j \in 1..Len(replay) : i < j => replay[i] < replay[j]
      BY <2>1, <3>1 DEF Increasing
    <3>3. {replay[i] : i \in 1..Len(replay)} = held \ low
      BY <3>1
    <3> QED
      BY <2>1, <3>2, <3>3 DEF ReplayIsExactlyAboveFloor
  <2>3. CASE haveCommitted
    <3>1. replay = Dropping(entries, 0..committedSeq)
      BY <2>3 DEF ReadFromCommitted, ReadAfter
    <3>2. Increasing(replay)
      BY <2>1, <3>1, DroppingIncreasing
    <3> DEFINE d == Dropping(entries, 0..committedSeq)
    <3>3. {replay[i] : i \in 1..Len(replay)} = held \ (0..committedSeq)
      <4>1. Elements(d) = Elements(entries) \ (0..committedSeq)
        BY <2>1, DroppingRange
      <4> HIDE DEF d, replay
      <4>2. replay = d
        BY <3>1 DEF d
      <4> QED
        BY <4>1, <4>2 DEF Elements
    <3>4. held \ (0..committedSeq) = held \ low
      <4>1. \A x \in held : x \in Seqs /\ x \in Nat
        BY <2>1, JournalAssumption DEF JournalAssumption
      <4> HIDE DEF held
      <4>2. \A x \in held : x \in 0..committedSeq <=> x \in low
        BY <2>1, <2>3, <4>1
      <4> HIDE DEF low
      <4> QED
        BY <4>2
    <3> QED
      BY <2>1, <3>2, <3>3, <3>4 DEF ReplayIsExactlyAboveFloor, Increasing
  <2> QED
    BY <2>2, <2>3
<1> QED
  BY <1>1, ReplayInit, ReplayNext, PTL DEF Spec
===============================================================================
