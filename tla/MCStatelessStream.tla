--------------------------- MODULE MCStatelessStream --------------------------
(* One session and the two workers that may serve it.  One sequence number *)
(* is a decimal prefix of the other.                                       *)
EXTENDS StatelessStream

CONSTANTS w1, w2, s1

MCWorkers  == {w1, w2}
MCSessions == {s1}
MCChain    == [s \in MCSessions |-> <<w1, w2>>]
MCSeqs     == {1, 10}
MCSlots    == 1..2
MCObjects  == 1..4
===============================================================================
