------------------------- MODULE MCWorkerRegistration -------------------------
(* Instances of WorkerRegistration, and with it of Registry, for TLC. *)
EXTENDS WorkerRegistration

CONSTANTS a1, a2

\* Usable, in the wrong order, and without any worker.
SomeRanges == {<<1, 2>>, <<2, 1>>, <<0, 0>>}

\* Every worker signs with the same account, which pays for all of them.
OnePayer == [w \in WorkerDid |-> a1]

\* The other account runs the coordinators, for which the first range is usable.
OtherPayer == [c \in CoordinatorDid |-> a2]
GoodRange == [c \in CoordinatorDid |-> <<1, 2>>]
=============================================================================
