--------------------------- MODULE MCUtteranceAudio ---------------------------
(* Durations in the code's proportions, 20 ms windows and frames of one or  *)
(* two windows; seven frames are enough for two utterances and a third      *)
(* onset.                                                                   *)
EXTENDS UtteranceAudio

MCSeqs      == 1..7
MCDurations == {20000, 40000}
MCHalves    == {10000}
MCVadKinds  == BOOLEAN
===============================================================================
