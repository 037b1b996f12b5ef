------------------------------- MODULE MCJournal -------------------------------
(* The journal on a ring of three slots and seven sequence numbers: enough *)
(* to wrap it twice, with gaps between sequence numbers and floors set     *)
(* below, inside and above what is retained.                               *)
EXTENDS Journal

MCCapacity == 3
MCSeqs     == 1..7
===============================================================================
