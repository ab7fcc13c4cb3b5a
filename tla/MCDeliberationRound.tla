------------------------- MODULE MCDeliberationRound -------------------------
(* Instances of DeliberationRound for TLC. *)
EXTENDS DeliberationRound

CONSTANTS w1, w2, c1, c2

TwoWorkers == {w1, w2}
OneOrBothFound == {{w1}, {w1, w2}}
OneFound == {{w1}}
AnyFound == SUBSET {w1, w2}

OneConfig == {c1}
TwoConfigs == {c1, c2}
NoQuorums == [c \in Config |-> NoQuorum]
QuorumsDiffer == [c \in Config |-> IF c = c1 THEN 1 ELSE 2]
=============================================================================
