---------------------------- MODULE MCHumanGate ----------------------------
(***************************************************************************)
(* Instances of HumanGate for TLC.                                         *)
(***************************************************************************)
EXTENDS HumanGate, TLC

\* "one" queues or waits, "parallel" answers the first question only, "head"
\* the second only.
Answers == {"one", "parallel", "head"}

Interchangeable == Permutations(Tasks) \cup Permutations(Sessions)
=============================================================================
