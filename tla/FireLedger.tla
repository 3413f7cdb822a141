----------------------------- MODULE FireLedger -----------------------------
(***************************************************************************)
(* What an automation promises about its runs, whatever sessions,          *)
(* processes, signals and timers do underneath: fires are taken in the     *)
(* order of the trigger, none while another holds the slot unless the      *)
(* policy is "parallel"; each child ends once; a run ends in the same step *)
(* as the last of its children, with a verdict over the outcomes of all,   *)
(* and hands the slot to the fire that has waited longest.  The runs the   *)
(* user starts take no slot, but their end hands it on as well, whoever    *)
(* holds it.  A restart gives up what is under way: nobody decides about   *)
(* those runs any more.                                                    *)
(***************************************************************************)
EXTENDS Naturals, Sequences, FiniteSets

CONSTANTS
    Policies,   \* what a fire may do while another one is running
    MaxFires,   \* bound: fires of the trigger
    MaxManual,  \* bound: runs of the user
    Width       \* children of a run

VARIABLES
    policy,     \* the policy of the automation
    stage,      \* where each run is
    waiting,    \* deferred fires, the oldest first
    holder,     \* the fire that holds the slot
    outcome     \* how each child ended

vars == <<policy, stage, waiting, holder, outcome>>

Fires == 1 .. MaxFires
Manual == MaxFires + 1 .. MaxFires + MaxManual
Occurrences == Fires \cup Manual
NoFire == 0
Places == 1 .. Width
Verdicts == {"done", "error", "stopped"}
Stages == {"absent", "missed", "deferred", "running", "orphaned"} \cup Verdicts

Verdict(outcomes) ==
    IF "error" \in outcomes THEN "error"
    ELSE IF outcomes = {"stopped"} THEN "stopped" ELSE "done"

Init ==
    /\ policy \in Policies
    /\ stage = [f \in Occurrences |-> "absent"]
    /\ waiting = <<>>
    /\ holder = NoFire
    /\ outcome = [f \in Occurrences |-> [i \in Places |-> "open"]]

-----------------------------------------------------------------------------
Enter(f, s) == stage' = [stage EXCEPT ![f] = s]

\* The trigger fires for the f-th time.
Trigger(f) == \A g \in Fires : stage[g] = "absent" <=> g >= f

Begin(f) ==
    /\ holder = NoFire \/ policy = "parallel"
    /\ Trigger(f)
    /\ Enter(f, "running")
    /\ holder' = f
    /\ UNCHANGED <<policy, waiting, outcome>>

Defer(f) ==
    /\ holder # NoFire /\ policy = "queue" /\ Trigger(f)
    /\ Enter(f, "deferred")
    /\ waiting' = Append(waiting, f)
    /\ UNCHANGED <<policy, holder, outcome>>

Miss(f) ==
    /\ holder # NoFire /\ policy = "skip" /\ Trigger(f)
    /\ Enter(f, "missed")
    /\ UNCHANGED <<policy, waiting, holder, outcome>>

\* The user starts a run.
Ask(m) ==
    /\ stage[m] = "absent"
    /\ Enter(m, "running")
    /\ UNCHANGED <<policy, waiting, holder, outcome>>

Close(f, i, status) ==
    /\ outcome[f][i] = "open"
    /\ status \in Verdicts
    /\ outcome'[f][i] = status      \* follows from the next, and is soon decided
    /\ outcome' = [outcome EXCEPT ![f][i] = status]
    /\ UNCHANGED policy

\* A child ends before others.
ChildEnds(f, i, status) ==
    /\ stage[f] = "running"
    /\ Close(f, i, status)
    /\ \E j \in Places \ {i} : outcome[f][j] = "open"
    /\ UNCHANGED <<stage, waiting, holder>>

\* The last child ends, and with it the run; the next fire begins.
RunEnds(f, i, status) ==
    LET ended == [stage EXCEPT ![f] = Verdict({outcome'[f][j] : j \in Places})] IN
    /\ stage[f] = "running"
    /\ Close(f, i, status)
    /\ \A j \in Places \ {i} : outcome[f][j] # "open"
    /\ \/ waiting = <<>> /\ stage' = ended /\ holder' = NoFire /\ UNCHANGED waiting
       \/ /\ waiting # <<>>
          /\ stage' = [ended EXCEPT ![Head(waiting)] = "running"]
          /\ holder' = Head(waiting)
          /\ waiting' = Tail(waiting)

\* A restart.
Forget ==
    /\ waiting' = <<>>
    /\ holder' = NoFire
    /\ stage' = [f \in Occurrences |->
                   CASE stage[f] = "running" -> "orphaned"
                     [] stage[f] = "deferred" -> "missed"
                     [] OTHER -> stage[f]]
    /\ UNCHANGED <<policy, outcome>>

\* What is left of a child is cleared away.
OrphanEnds(f, i) ==
    /\ stage[f] = "orphaned"
    /\ Close(f, i, "error")
    /\ UNCHANGED <<stage, waiting, holder>>

Next ==
    \/ \E f \in Fires : Begin(f) \/ Defer(f) \/ Miss(f)
    \/ \E m \in Manual : Ask(m)
    \/ \E f \in Occurrences, i \in Places :
          \/ OrphanEnds(f, i)
          \/ \E status \in Verdicts : ChildEnds(f, i, status) \/ RunEnds(f, i, status)
    \/ Forget

Spec == Init /\ [][Next]_vars
-----------------------------------------------------------------------------
(* What the promise comes to *)

TypeOK ==
    /\ policy \in Policies
    /\ stage \in [Occurrences -> Stages]
    /\ waiting \in Seq(Fires)
    /\ holder \in Fires \cup {NoFire}
    /\ outcome \in [Occurrences -> [Places -> Verdicts \cup {"open"}]]

\* Fires do not overlap unless they may, or runs of the user have ended: one
\* more for each of those.
Overlap ==
    policy # "parallel" =>
        Cardinality({f \in Fires : stage[f] = "running"})
            <= 1 + Cardinality({m \in Manual : stage[m] \in Verdicts})

\* No fire overtakes one that was triggered before it and still waits.
InOrder ==
    \A f, g \in Fires :
        f < g /\ stage[f] = "deferred" => stage[g] \in {"absent", "deferred"}

\* Who holds the slot is running.
HolderRuns == holder # NoFire => holder \in Fires /\ stage[holder] = "running"

\* A fire waits only while another holds the slot.
WaitsForOne == \A f \in Fires : stage[f] = "deferred" => holder # NoFire

\* A verdict is over the outcomes of all children.
VerdictOverAll ==
    \A f \in Occurrences : stage[f] \in Verdicts =>
        /\ \A i \in Places : outcome[f][i] # "open"
        /\ stage[f] = Verdict({outcome[f][i] : i \in Places})

\* Outcomes and verdicts are final.
Final ==
    [][\A f \in Occurrences :
         /\ stage[f] \in Verdicts => stage'[f] = stage[f]
         /\ \A i \in Places : outcome[f][i] # "open" => outcome'[f][i] = outcome[f][i]]_vars
=============================================================================
