-------------------------- MODULE MCParallelSpawn --------------------------
(* Instances of ParallelSpawn for TLC. *)
EXTENDS ParallelSpawn, TLC

CONSTANTS t1, t2, r1, main

OneRepo == [t \in Tasks |-> r1]
OwnName == [t \in Tasks |-> t]

Interchangeable == Permutations(Tasks)
=============================================================================
