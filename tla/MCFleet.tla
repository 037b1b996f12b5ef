------------------------------- MODULE MCFleet --------------------------------
(* Small fleets for module Fleet: two workers of one model family.          *)
EXTENDS Fleet, TLC

CONSTANTS w1, w2, s1, s2

MCWorkers   == {w1, w2}
MCOne       == {w1}
MCKey       == [w \in {w1, w2} |-> "k"]
MCFamilies  == [w \in {w1, w2} |-> w]
MCTwo       == {s1, s2}
MCAlone     == {s1}
MCNobody    == {}
MCLatencies == {1, 4}
MCLatency   == {1}
MCSame      == Permutations(MCTwo)
===============================================================================
