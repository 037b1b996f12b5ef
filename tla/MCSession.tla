------------------------------- MODULE MCSession -------------------------------
(* Three workers, the first two of one model family.  An onset takes two    *)
(* frames and so does an endpoint: an utterance may hold silence, and six   *)
(* frames hold two utterances.                                              *)
EXTENDS Session

CONSTANTS w1, w2, w3

MCWorkers      == {w1, w2, w3}
MCPair         == {w1, w2}
MCKey          == [w \in MCWorkers |-> IF w = w3 THEN "whisper" ELSE "zipformer"]
MCSerializable == {w1, w2}
MCSeqs         == 1..6
MCFewSeqs      == 1..5
===============================================================================
