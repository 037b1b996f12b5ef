------------------------------- MODULE AudioLog -------------------------------
(***************************************************************************)
(* What the gateway's audio journal promises its callers, without the      *)
(* ring that keeps the promise: the newest Capacity records in the order   *)
(* they were appended, and a committed floor a replay never reaches below. *)
(* A record is identified by its sequence number; the duration, the VAD    *)
(* flag and the payload travel with it and no operation looks at them.     *)
(***************************************************************************)
EXTENDS Integers, Sequences, SequencesExt, Filtering

CONSTANTS
  Capacity,   \* how many records are retained (1500 in the gateway)
  Seqs        \* the sequence numbers a session may carry

ASSUME CapacityAssumption == Capacity \in Nat \ {0}
ASSUME SeqsAssumption     == Seqs \subseteq Nat

VARIABLES
  retained,   \* the records still held, oldest first
  floor,      \* the committed sequence number, meaningful once trimmed
  trimmed     \* whether anything was ever committed

logVars == <<retained, floor, trimmed>>

\* A client's sequence numbers only grow by the time a record is journaled:
\* the validator has dropped every frame at or below one already accepted.
Newer(r) == \A i \in 1..Len(retained) : retained[i] < r

\* ReadAfter and ReadFromCommitted, as their callers see them.
RetainedAfter(s) == Dropping(retained, 0..s)
AboveFloor       == IF trimmed THEN RetainedAfter(floor) ELSE retained

LogInit ==
  /\ retained = << >>
  /\ floor = 0
  /\ trimmed = FALSE

Record(r) ==
  /\ Newer(r)
  /\ retained' = IF Len(retained) < Capacity THEN Append(retained, r)
                                             ELSE Append(Tail(retained), r)
  /\ UNCHANGED <<floor, trimmed>>

Commit(s) ==
  /\ floor' = s
  /\ trimmed' = TRUE
  /\ UNCHANGED retained

LogNext == \E r \in Seqs : Record(r) \/ Commit(r)

LogSpec == LogInit /\ [][LogNext]_logVars
===============================================================================
