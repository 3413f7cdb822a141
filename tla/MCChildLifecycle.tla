-------------------------- MODULE MCChildLifecycle --------------------------
(* Instances of ChildLifecycle for TLC. *)
EXTENDS ChildLifecycle, TLC

CONSTANTS t1, t2, r1, main

OneRepo == [t \in Tasks |-> r1]
OwnName == [t \in Tasks |-> t]

Interchangeable == Permutations(Tasks)
=============================================================================
