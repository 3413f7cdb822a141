--------------------------- MODULE MCPrimaryStart ---------------------------
(* Instances of PrimaryStart for TLC. *)
EXTENDS PrimaryStart

\* No property names a task.
TaskSymmetry == Permutations(Tasks)
=============================================================================
