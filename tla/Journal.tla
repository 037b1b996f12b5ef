-------------------------------- MODULE Journal --------------------------------
(***************************************************************************)
(* internal/journal: the fixed-capacity ring that holds every accepted     *)
(* audio record of a session and is the source of every replay.            *)
(*                                                                         *)
(* Append overwrites the oldest slot once the ring is full; nothing is     *)
(* ever removed from it.  TrimBefore only moves the committed floor, which *)
(* bounds what ReadFromCommitted returns.                                  *)
(***************************************************************************)
EXTENDS Integers, Sequences, Filtering

CONSTANTS
  Capacity,   \* len(j.records), 1500 in the gateway
  Seqs        \* the sequence numbers a session may carry

ASSUME JournalAssumption == Capacity \in Nat \ {0} /\ Seqs \subseteq Nat

VARIABLES
  records,        \* the preallocated slots; an unwritten slot is a zero Record
  writeIdx,       \* the slot the next Append writes
  size,           \* how many slots hold a record
  committedSeq,   \* the floor the last TrimBefore set
  haveCommitted   \* whether TrimBefore was ever called

vars == <<records, writeIdx, size, committedSeq, haveCommitted>>

Slots == 0 .. Capacity - 1

-------------------------------------------------------------------------------
(* Reads.                                                                  *)

\* Forgetting that the oldest record moves once the ring wraps.
EntriesUnwrapped == [i \in 1..size |-> records[i - 1]]

\* The ring unwound into logical order, oldest first.
entries ==
  LET start == (writeIdx - size + Capacity) % Capacity
  IN  [i \in 1..size |-> records[(start + i - 1) % Capacity]]

\* Everything retained beyond seq: the tail a same-model recovery replays.
ReadAfter(seq) == Dropping(entries, 0..seq)

ReadFromCommittedForgetsFloor == entries

\* Everything retained since the last committed final.
ReadFromCommitted ==
  IF haveCommitted THEN ReadAfter(committedSeq) ELSE entries

-------------------------------------------------------------------------------
(* Operations.                                                             *)

Init ==
  /\ records = [i \in Slots |-> 0]
  /\ writeIdx = 0
  /\ size = 0
  /\ committedSeq = 0
  /\ haveCommitted = FALSE

\* The guard is the caller's: sequence validation lets only newer frames by.
Accepted(r) == \A i \in 1..size : entries[i] < r

AppendNeverFull(r) ==
  /\ Accepted(r)
  /\ records' = [records EXCEPT ![writeIdx] = r]
  /\ writeIdx' = (writeIdx + 1) % Capacity
  /\ size' = size + 1
  /\ UNCHANGED <<committedSeq, haveCommitted>>

AppendRecord(r) ==
  /\ Accepted(r)
  /\ records' = [records EXCEPT ![writeIdx] = r]
  /\ writeIdx' = (writeIdx + 1) % Capacity
  /\ size' = IF size < Capacity THEN size + 1 ELSE size
  /\ UNCHANGED <<committedSeq, haveCommitted>>

\* A trim that also drops what it trims past.
TrimBeforeClears(seq) ==
  /\ committedSeq' = seq
  /\ haveCommitted' = TRUE
  /\ size' = 0
  /\ UNCHANGED <<records, writeIdx>>

TrimBefore(seq) ==
  /\ committedSeq' = seq
  /\ haveCommitted' = TRUE
  /\ UNCHANGED <<records, writeIdx, size>>

Next == \E s \in Seqs : AppendRecord(s) \/ TrimBefore(s)

Spec == Init /\ [][Next]_vars

-------------------------------------------------------------------------------
(* Properties.                                                             *)

\* Types, and the two bounds the preallocated ring rests on: the write
\* index stays inside the slots and the size never exceeds the capacity.
TypeOK ==
  /\ records \in [Slots -> Seqs \cup {0}]
  /\ writeIdx \in Slots
  /\ size \in 0..Capacity
  /\ committedSeq \in Seqs \cup {0}
  /\ haveCommitted \in BOOLEAN

\* Until the ring first wraps, slots are filled from the left, so the write
\* index is the size; this is what makes an unwritten slot unreachable.
FillsFromTheLeft == size < Capacity => writeIdx = size

\* A replay gets each record at most once, in sequence order, none of them
\* at or below the committed floor, and skips nothing retained above it:
\* the contract ReadFromCommitted states for the cross-model path.
ReplayIsExactlyAboveFloor ==
  LET replay == ReadFromCommitted
      above  == {entries[i] : i \in 1..size} \
                {s \in Seqs : haveCommitted /\ s <= committedSeq}
  IN  /\ \A i, j \in 1..Len(replay) : i < j => replay[i] < replay[j]
      /\ {replay[i] : i \in 1..Len(replay)} = above

\* The ring keeps the promise AudioLog states: seen through the unwound
\* entries, every Append and TrimBefore is a step of the abstract log.
Log == INSTANCE AudioLog WITH
         retained <- entries, floor <- committedSeq, trimmed <- haveCommitted
ImplementsLog == Log!LogSpec
===============================================================================
