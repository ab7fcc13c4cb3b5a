------------------------- MODULE MCLocalCoordination -------------------------
(* Instances of LocalCoordination for TLC. *)
EXTENDS LocalCoordination

CONSTANTS w1, w2, c1, r1, r2

OneWorker == {w1}
NoneOrOne == {{}, {w1}}
TwoWorkers == {w1, w2}
Both == {{w1, w2}}
OneOrBoth == {{w1}, {w1, w2}}
OneConfig == {c1}
NoQuorums == [c \in Config |-> NoQuorum]
=============================================================================
