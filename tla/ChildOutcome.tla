---------------------------- MODULE ChildOutcome ----------------------------
(***************************************************************************)
(* What Hermes and the user may rely on about a parallel child, whatever   *)
(* the Dashboard, Git and Pi do underneath: a task starts at most once, it *)
(* fails only before its worker has been given the task, and a started     *)
(* child ends in at most one of two outcomes, its work landed exactly once *)
(* on the primary branch or its branch retained with nothing landed.       *)
(***************************************************************************)
EXTENDS Naturals

CONSTANT Tasks

VARIABLES
    phase,   \* where each task is
    landed   \* how often the work of a task was put on the primary branch

vars == <<phase, landed>>

Init ==
    /\ phase = [t \in Tasks |-> "absent"]
    /\ landed = [t \in Tasks |-> 0]

Move(t, from, to) ==
    /\ phase[t] = from
    /\ phase' = [phase EXCEPT ![t] = to]

Start(t) == Move(t, "absent", "creating") /\ UNCHANGED landed
Deliver(t) == Move(t, "creating", "ready") /\ UNCHANGED landed
Fail(t) == Move(t, "creating", "failed") /\ UNCHANGED landed
Retain(t) == Move(t, "ready", "retained") /\ UNCHANGED landed
Land(t) ==
    /\ Move(t, "ready", "integrated")
    /\ landed' = [landed EXCEPT ![t] = @ + 1]

Next == \E t \in Tasks :
    Start(t) \/ Deliver(t) \/ Fail(t) \/ Retain(t) \/ Land(t)

Spec == Init /\ [][Next]_vars
=============================================================================
