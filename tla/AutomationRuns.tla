--------------------------- MODULE AutomationRuns ---------------------------
(***************************************************************************)
(* The runs of one automation (packages/automation-plugin/src/server:      *)
(* engine.ts, runner.ts, run-store.ts, the correlation of index.ts, and    *)
(* the host's spawn and abort hooks).                                      *)
(*                                                                         *)
(* A fire of the trigger, or a Run now of the user, creates a parent run   *)
(* and several children, each with a record on disk and a Pi process       *)
(* launched for it, all in one folder.  A session that registers in the    *)
(* folder takes the oldest stamp that waits there, be it of such a process *)
(* or one of the user's own, and serves the child the stamp names.         *)
(*                                                                         *)
(* Five paths may end a child: the end of its agent, the death of its      *)
(* session, a failed spawn, the user and a reaper of old records.  Each    *)
(* calls finalizeChild, the last one of a run finalizes the parent, and    *)
(* that frees the automation for the next fire, whichever run it was.  All *)
(* of this runs in the event loop of the Dashboard; the awaits are         *)
(* spawnSession and abortSpawnedRun, and processes live on their own.      *)
(***************************************************************************)
EXTENDS Naturals, Sequences, FiniteSets

CONSTANTS
    Policies,       \* values of `concurrency`: "skip", "queue", "parallel"
    Width,          \* children of a run
    StampCap,       \* stamps that wait in a folder at most
    Strangers,      \* the user's own sessions in the folder
    Terminals,      \* those of them whose process the Dashboard did not start
    MaxFires,       \* bound: fires of the trigger
    MaxManual,      \* bound: runs the user starts with Run now
    MaxRestarts     \* bound: restarts of the Dashboard

\* Parent runs are numbered, those of the trigger first.
Fires == 1 .. MaxFires
Manual == MaxFires + 1 .. MaxFires + MaxManual
Occurrences == Fires \cup Manual
NoFire == 0
\* A child, and the process that is launched for it, by run and place.
Children == Occurrences \X (1 .. Width)
Nobody == <<NoFire, 0>>
Processes == Children \cup Strangers

ASSUME AutomationAssumption ==
    /\ Policies \subseteq {"skip", "queue", "parallel"}
    /\ Width \in Nat \ {0}
    /\ StampCap \in Nat \ {0}
    /\ Terminals \subseteq Strangers
    /\ Nobody \notin Strangers /\ Children \cap Strangers = {}
    /\ MaxFires \in Nat
    /\ MaxManual \in Nat
    /\ MaxRestarts \in Nat

-----------------------------------------------------------------------------
VARIABLES
    policy,     \* what a fire does while a run is active
    fired,      \* fires of the trigger so far
    active,     \* the fire the runner tracks for the automation
    queue,      \* deferred fires
    parent,     \* record, counter and outcomes of each parent run
    child,      \* record, run context and spawn request of each child
    stamps,     \* children whose stamp waits for a session to register
    proc,       \* each Pi process; "killed": told to end, not gone yet
    stopping,   \* children whose stop awaits abortSpawnedRun, with its process
    restarts    \* restarts so far

runs == <<active, queue, parent, child, stamps>>
vars == <<policy, fired, runs, proc, stopping, restarts>>

Terminal == {"done", "error", "stopped"}
Status == {"none", "running"} \cup Terminal

\* tracked: the parent has a counter in memory.  live: the child has a context
\* in `pending`, which finalizeChild removes as it sets ctx.finalized.  session:
\* the process whose session got the action.
Parent == [rec: Status, tracked: BOOLEAN, remaining: 0 .. Width, outcomes: SUBSET Terminal]
Child == [rec: Status, live: BOOLEAN, spawn: {"none", "waiting", "answered"},
          session: Processes \cup {Nobody}, token: BOOLEAN, stop: BOOLEAN]

TypeOK ==
    /\ policy \in Policies
    /\ fired \in 0 .. MaxFires
    /\ active \in Fires \cup {NoFire}
    /\ queue \in Seq(Fires)
    /\ parent \in [Occurrences -> Parent]
    /\ child \in [Children -> Child]
    /\ proc \in [Processes -> {"none", "launched", "up", "killed", "dead"}]
    /\ stamps \in Seq(Children)
    /\ stopping \subseteq Children \X Processes
    /\ restarts \in 0 .. MaxRestarts

NoParent == [rec |-> "none", tracked |-> FALSE, remaining |-> 0, outcomes |-> {}]
\* Mutant: the counter counts the parent as well.
NewParentTooMany == [rec |-> "running", tracked |-> TRUE, remaining |-> Width + 1, outcomes |-> {}]

NewParent == [rec |-> "running", tracked |-> TRUE, remaining |-> Width, outcomes |-> {}]
NoChild == [rec |-> "none", live |-> FALSE, spawn |-> "none",
            session |-> Nobody, token |-> FALSE, stop |-> FALSE]
NewChild == [NoChild EXCEPT !.rec = "running", !.live = TRUE, !.spawn = "waiting"]

Init ==
    /\ policy \in Policies
    /\ fired = 0
    /\ active = NoFire
    /\ queue = <<>>
    /\ stamps = <<>>
    /\ parent = [f \in Occurrences |-> NoParent]
    /\ child = [c \in Children |-> NoChild]
    /\ proc = [p \in Processes |-> IF p \in Strangers THEN "up" ELSE "none"]
    /\ stopping = {}
    /\ restarts = 0

-----------------------------------------------------------------------------
(* Beginning and end of runs *)

\* begin and startRunFor: the records, the contexts and the spawn requests of
\* all children of the runs in `new`, at most one.
BegunParents(new, was) == [f \in Occurrences |-> IF f \in new THEN NewParent ELSE was[f]]
BegunChildren(new, was) == [c \in Children |-> IF c[1] \in new THEN NewChild ELSE was[c]]
StampsOf(f) == [i \in 1 .. Width |-> <<f, i>>]
\* The folder's queue with the stamps of f, of which those are dropped that
\* find it full.
Stamped(f) ==
    LET all == stamps \o StampsOf(f) IN
    IF Len(all) > StampCap THEN SubSeq(all, 1, StampCap) ELSE all

aggregateStatus(outcomes) ==
    IF "error" \in outcomes THEN "error"
    ELSE IF outcomes = {"stopped"} THEN "stopped" ELSE "done"

IsLast(f) == parent[f].remaining <= 1

\* Mutant: only the outcome of the last child is aggregated.
CountedLast(f, status) ==
    IF IsLast(f) THEN [NoParent EXCEPT !.rec = aggregateStatus({status})]
    ELSE [parent[f] EXCEPT !.remaining = @ - 1, !.outcomes = {status}]

\* The parent's counter and outcomes after one more child ended, and its
\* record when that was the last one.
Counted(f, status) ==
    LET all == parent[f].outcomes \cup {status} IN
    IF IsLast(f) THEN [NoParent EXCEPT !.rec = aggregateStatus(all)]
    ELSE [parent[f] EXCEPT !.remaining = @ - 1, !.outcomes = all]

\* finalizeChild for a context that is not finalized, finalizeParent,
\* completeRun and the start of a deferred fire are one turn of the event
\* loop.  completeRun knows the automation, not the run that ended.  ctx is the
\* context of c as the caller leaves it.
finalizeChild(c, ctx, status) ==
    LET f == c[1]
        next == IF IsLast(f) /\ queue # <<>> THEN {Head(queue)} ELSE {}
    IN /\ child' = BegunChildren(next,
                  [child EXCEPT ![c] = [NoChild EXCEPT !.rec = status, !.spawn = ctx.spawn,
                                                       !.session = ctx.session]])
       /\ parent' = BegunParents(next, [parent EXCEPT ![f] = Counted(f, status)])
       /\ queue' = IF next = {} THEN queue ELSE Tail(queue)
       /\ stamps' = IF next = {} THEN stamps ELSE Stamped(Head(queue))
       /\ active' = IF ~IsLast(f) THEN active
                    ELSE IF next = {} THEN NoFire ELSE Head(queue)

Live(c) == child[c].live

\* Mutant: a child that has ended is finalized once more by the next signal.
EndAgain(c, ctx, status) == finalizeChild(c, ctx, status)

\* What a caller does to a child: nothing more when it is finalized already.
End(c, ctx, status) ==
    IF ctx.live THEN finalizeChild(c, ctx, status)
    ELSE child' = [child EXCEPT ![c] = ctx] /\ UNCHANGED <<active, queue, parent, stamps>>

-----------------------------------------------------------------------------
(* Fires *)

\* Mutant: the runner does not note the run it started.
BeginUntracked(f) ==
    /\ parent' = BegunParents({f}, parent)
    /\ child' = BegunChildren({f}, child)
    /\ stamps' = Stamped(f)
    /\ UNCHANGED <<active, queue>>

Begin(f) ==
    /\ active' = f
    /\ parent' = BegunParents({f}, parent)
    /\ child' = BegunChildren({f}, child)
    /\ stamps' = Stamped(f)
    /\ UNCHANGED queue

\* Mutant: the fire that is to wait is lost.
DeferNone(f) == UNCHANGED <<active, queue, parent, child, stamps>>

Defer(f) ==
    /\ queue' = Append(queue, f)
    /\ UNCHANGED <<active, parent, child, stamps>>

Fire ==
    /\ fired < MaxFires
    /\ fired' = fired + 1
    /\ \/ /\ active = NoFire \/ policy = "parallel"
          /\ Begin(fired')
       \/ /\ active # NoFire
          /\ policy = "queue"
          /\ Defer(fired')
       \/ /\ active # NoFire
          /\ policy = "skip"
          /\ UNCHANGED runs
    /\ UNCHANGED <<policy, proc, stopping, restarts>>

\* runNowViaEngine: beside whatever runs, and the runner does not hear of it.
RunNow(m) ==
    /\ \A n \in Manual : parent[n].rec = "none" <=> n >= m
    /\ parent' = BegunParents({m}, parent)
    /\ child' = BegunChildren({m}, child)
    /\ stamps' = Stamped(m)
    /\ UNCHANGED <<policy, fired, active, queue, proc, stopping, restarts>>

-----------------------------------------------------------------------------
(* Processes and sessions *)

Running(p) == proc[p] \in {"launched", "up", "killed"}

\* The registry of processes knows those the Dashboard started.
Found(p) == Running(p) /\ p \notin Terminals

\* Whom abortSpawnedRun finds for c: the session's process, and when that is
\* not found or there is no session, the one launched for c.
Target(c, ctx) ==
    IF ctx.session # Nobody /\ (Found(ctx.session) \/ ~ctx.token)
    THEN ctx.session ELSE c

\* killEntry: the ladder of signals is started for the processes of `ps`.
Signalled(ps) ==
    [p \in Processes |-> IF p \in ps /\ Found(p) THEN "killed" ELSE proc[p]]

\* Inside spawnSession: the process exists before its promise is resolved.
Launch(p) ==
    /\ child[p].spawn = "waiting"
    /\ proc[p] = "none"
    /\ proc' = [proc EXCEPT ![p] = "launched"]
    /\ UNCHANGED <<policy, fired, runs, stopping, restarts>>

\* A session of the folder registers, or registers again when its connection is
\* back, and takes the oldest stamp of the folder.  Its next event brings it the
\* action of the child that the stamp names, unless that child has ended.  Pi
\* takes longer to load than the 300 ms spawnPiSession watches it for, and a
\* signalled process does not come this far.
Register(p) ==
    /\ proc[p] \in {"launched", "up"}
    /\ p \in Children => child[p].spawn # "waiting"
    /\ proc' = [proc EXCEPT ![p] = "up"]
    /\ IF stamps = <<>> THEN UNCHANGED <<child, stamps>>
       ELSE /\ stamps' = Tail(stamps)
            /\ child' = [child EXCEPT ![Head(stamps)].session =
                           IF Live(Head(stamps)) /\ @ = Nobody THEN p ELSE @]
    /\ UNCHANGED <<policy, fired, active, queue, parent, stopping, restarts>>

\* A stamp is dropped after sixty seconds.
StampExpires ==
    /\ stamps # <<>>
    /\ stamps' = Tail(stamps)
    /\ UNCHANGED <<policy, fired, active, queue, parent, child, proc, stopping, restarts>>

\* The children whose session p serves.
Served(p) == {c \in Children : Live(c) /\ child[c].session = p}

\* The process ends and its connection closes: onSessionDeath, which aborts
\* what it can still find for one child.
Dies(p) ==
    /\ Running(p)
    /\ IF Served(p) = {} THEN proc' = [proc EXCEPT ![p] = "dead"] /\ UNCHANGED runs
       ELSE \E c \in Served(p), status \in {"done", "error"} :
              /\ End(c, child[c], status)
              /\ \E q \in {Target(c, child[c])} \cup (IF child[c].token THEN {c} ELSE {}) :
                    proc' = [Signalled({q}) EXCEPT ![p] = "dead"]
    /\ UNCHANGED <<policy, fired, stopping, restarts>>

\* Only the connection closes.  For a session with a stamp there is no time of
\* grace, and it is over as well.
Disconnects(p) ==
    /\ proc[p] \in {"up", "killed"}
    /\ \E c \in Served(p), status \in {"done", "error"} :
          /\ End(c, child[c], status)
          /\ proc' = Signalled({Target(c, child[c])})
    /\ UNCHANGED <<policy, fired, stopping, restarts>>

-----------------------------------------------------------------------------
(* One child *)

\* Mutant: the continuation records the stop and leaves the process alone.
SpawnReturnsUnkilled(c) ==
    /\ child[c].spawn = "waiting"
    /\ proc[c] # "none"
    /\ LET ctx == [child[c] EXCEPT !.spawn = "answered", !.token = child[c].live] IN
       IF ctx.stop THEN End(c, ctx, "stopped")
       ELSE child' = [child EXCEPT ![c] = ctx] /\ UNCHANGED <<active, queue, parent, stamps>>
    /\ UNCHANGED <<policy, fired, proc, stopping, restarts>>

\* The continuation of a successful spawn aborts a child that the user
\* stopped in the meantime.
SpawnReturns(c) ==
    /\ child[c].spawn = "waiting"
    /\ proc[c] # "none"
    /\ LET ctx == [child[c] EXCEPT !.spawn = "answered", !.token = child[c].live] IN
       IF ctx.stop
       THEN End(c, ctx, "stopped") /\ proc' = Signalled({Target(c, ctx)})
       ELSE /\ child' = [child EXCEPT ![c] = ctx]
            /\ UNCHANGED <<active, queue, parent, stamps, proc>>
    /\ UNCHANGED <<policy, fired, stopping, restarts>>

\* No process, or one that crashed at once; its stamp stays.
SpawnFails(c) ==
    /\ child[c].spawn = "waiting"
    /\ proc[c] \in {"none", "dead"}
    /\ End(c, [child[c] EXCEPT !.spawn = "answered"], "error")
    /\ UNCHANGED <<policy, fired, proc, stopping, restarts>>

\* agent_end or the completion event of the action; the process is idle now and
\* is told to shut down.
AgentEnds(c) ==
    LET p == child[c].session IN
    /\ Live(c) /\ p # Nobody
    /\ Running(p)
    /\ \E status \in {"done", "error"} : End(c, child[c], status)
    /\ proc' = [proc EXCEPT ![p] = "killed"]
    /\ UNCHANGED <<policy, fired, stopping, restarts>>

\* stopRun and stopChild for the children in `chosen`: those with a handle are
\* killed and awaited, the others are left to the continuation of their spawn.
StopChildren(chosen) ==
    LET known == {c \in chosen : child[c].session # Nobody \/ child[c].token}
        target(c) == Target(c, child[c])
    IN
    /\ chosen # {}
    /\ stopping' = stopping \cup {<<c, target(c)>> : c \in known}
    /\ proc' = Signalled({target(c) : c \in known})
    /\ child' = [c \in Children |->
                   IF c \in chosen \ known THEN [child[c] EXCEPT !.stop = TRUE] ELSE child[c]]
    /\ UNCHANGED <<policy, fired, active, queue, parent, stamps, restarts>>
Stop(c) == Live(c) /\ StopChildren({c})
StopAll(f) == parent[f].tracked /\ StopChildren({c \in Children : c[1] = f /\ Live(c)})

\* abortSpawnedRun has returned: it found no process, or that is gone.
StopReturns(c, p) ==
    /\ <<c, p>> \in stopping
    /\ ~Found(p)
    /\ stopping' = stopping \ {<<c, p>>}
    /\ End(c, child[c], "stopped")
    /\ UNCHANGED <<policy, fired, proc, restarts>>

\* Mutant: the reaper clears the record and forgets the context.
ReapRecordOnly(c) ==
    /\ child[c].rec = "running"
    /\ child' = [child EXCEPT ![c].rec = "error"]
    /\ UNCHANGED <<policy, fired, active, queue, parent, stamps, proc, stopping, restarts>>

\* reapStaleRuns: a record older than maxRunAgeMs, with its context or, after
\* a restart, without.
Reap(c) ==
    /\ child[c].rec = "running"
    /\ IF Live(c) THEN finalizeChild(c, child[c], "error")
       ELSE /\ child' = [child EXCEPT ![c].rec = "error"]
            /\ UNCHANGED <<active, queue, parent, stamps>>
    /\ UNCHANGED <<policy, fired, proc, stopping, restarts>>

\* The Dashboard restarts: records and processes stay, all else is gone.
Restart ==
    /\ restarts < MaxRestarts
    /\ restarts' = restarts + 1
    /\ active' = NoFire
    /\ queue' = <<>>
    /\ parent' = [f \in Occurrences |-> [NoParent EXCEPT !.rec = parent[f].rec]]
    /\ child' = [c \in Children |-> [NoChild EXCEPT !.rec = child[c].rec]]
    /\ stamps' = <<>>
    /\ stopping' = {}
    /\ proc' = [p \in Processes |-> IF proc[p] = "killed" THEN "up" ELSE proc[p]]
    /\ UNCHANGED <<policy, fired>>

-----------------------------------------------------------------------------
ChildStep(c) ==
    \/ SpawnReturns(c) \/ SpawnFails(c) \/ AgentEnds(c) \/ Stop(c) \/ Reap(c)
    \/ \E p \in Processes : StopReturns(c, p)

Next ==
    \/ Fire
    \/ \E c \in Children : ChildStep(c)
    \/ \E p \in Children : Launch(p)
    \/ \E p \in Processes : Register(p) \/ Dies(p) \/ Disconnects(p)
    \/ StampExpires
    \/ \E m \in Manual : RunNow(m)
    \/ \E f \in Occurrences : StopAll(f)
    \/ Restart

Spec == Init /\ [][Next]_vars

\* The reaper's timer comes round.
FairSpec == Spec /\ WF_vars(\E c \in Children : Reap(c))

-----------------------------------------------------------------------------
(* Properties *)

Records(f) == {child[<<f, i>>].rec : i \in 1 .. Width}
AllEnded(f) == Records(f) \subseteq Terminal

\* openspec automation-run-lifecycle, "A parent run finalizes when all its
\* children are terminal": not before, with the aggregate of their records,
\* and, unless a restart lost the counter, not later (finalizeChild).
ParentFollowsChildren ==
    \A f \in Occurrences :
        /\ parent[f].rec \in Terminal =>
             /\ AllEnded(f)
             /\ parent[f].rec = aggregateStatus(Records(f))
        /\ restarts = 0 /\ AllEnded(f) => parent[f].rec \in Terminal

\* The slot of the runner is that of a fire whose parent still counts, and who
\* waits waits for that one.  What overlaps although it may not is at most one
\* fire for each Run now that has ended: its end frees a slot it never held.
SlotHeld ==
    /\ active # NoFire => active \in Fires /\ parent[active].tracked
    /\ queue # <<>> => active # NoFire
    /\ policy # "parallel" =>
          Cardinality({f \in Fires : parent[f].tracked})
             <= 1 + Cardinality({m \in Manual : parent[m].rec \in Terminal})

\* "a later signal is a no-op": whatever races, the outcome of a child and of
\* a parent is written once (ctx.finalized, removePending).
OutcomeFinal ==
    [][/\ \A c \in Children : child[c].rec \in Terminal => child'[c].rec = child[c].rec
       /\ \A f \in Occurrences : parent[f].rec \in Terminal => parent'[f].rec = parent[f].rec]_vars

\* A child recorded as stopped has cost a process its life, the one launched for
\* it or the one that serves it, even when it was stopped before either had a
\* handle (stopChild, spawnChild), unless a session of the user's terminal serves
\* it: a stop does not change the record alone.
StopKills ==
    \A c \in Children :
        child[c].rec = "stopped" /\ restarts = 0 /\ child[c].session \notin Terminals
            => \E p \in {c, child[c].session} :
                  p # Nobody /\ proc[p] \in {"killed", "dead"}

\* "a lost terminal event can never wedge an automation's schedule": every
\* fire that was begun or deferred ends, unless the Dashboard restarts.
Accepted(f) == parent[f].rec = "running" \/ \E i \in DOMAIN queue : queue[i] = f
FireEnds ==
    \A f \in Occurrences :
        Accepted(f) /\ restarts = 0 ~> parent[f].rec \in Terminal \/ restarts > 0

\* The books of the engine agree with the records: a counter counts the
\* contexts that are left, the outcomes are the records of the others, and
\* what waits in the queue waits in the order of the trigger and has not begun
\* (engine.ts: pending, parents).
LiveSlots(f) == {i \in 1 .. Width : child[<<f, i>>].live}
Books(f) ==
    /\ \A i \in 1 .. Width :
          /\ child[<<f, i>>].rec = "none" <=> parent[f].rec = "none"
          /\ child[<<f, i>>].live => child[<<f, i>>].rec = "running" /\ parent[f].tracked
          /\ child[<<f, i>>].rec = "running" /\ restarts = 0 => child[<<f, i>>].live
    /\ parent[f].tracked =>
          /\ parent[f].rec = "running"
          /\ parent[f].remaining = Cardinality(LiveSlots(f))
          /\ parent[f].remaining > 0
          /\ parent[f].outcomes = {child[<<f, i>>].rec : i \in (1 .. Width) \ LiveSlots(f)}
    /\ parent[f].rec = "running" /\ restarts = 0 => parent[f].tracked
    /\ parent[f].rec \in Terminal =>
          AllEnded(f) /\ parent[f].rec = aggregateStatus(Records(f))
    /\ f \in Fires /\ f > fired => parent[f].rec = "none"
BooksBalance ==
    /\ \A f \in Occurrences : Books(f)
    /\ \A i \in DOMAIN queue :
          /\ queue[i] <= fired
          /\ parent[queue[i]].rec = "none"
          /\ \A j \in DOMAIN queue : i < j => queue[i] < queue[j]

\* A fire and a child as FireLedger sees them.
StageOf(f) ==
    CASE parent[f].rec \in Terminal -> parent[f].rec
      [] parent[f].rec = "running" -> IF parent[f].tracked THEN "running" ELSE "orphaned"
      [] parent[f].rec = "none" ->
           IF f > fired THEN "absent"
           ELSE IF \E i \in DOMAIN queue : queue[i] = f THEN "deferred" ELSE "missed"
OutcomeOf(c) == IF child[c].rec \in Terminal THEN child[c].rec ELSE "open"

Ledger == INSTANCE FireLedger
    WITH stage <- [f \in Occurrences |-> StageOf(f)],
         waiting <- queue,
         holder <- active,
         outcome <- [f \in Occurrences |-> [i \in 1 .. Width |-> OutcomeOf(<<f, i>>)]]

\* Sessions, processes, five signals that race to end a child, the reaper and
\* restarts together implement the promise of FireLedger: fires in the order of
\* the trigger, none while the slot is held unless it may, the slot handed on by
\* the end of any run, and a verdict with the last child over the outcomes of
\* all.
ImplementsLedger == Ledger!Spec

\* openspec/specs/automation-run-lifecycle/spec.md:429, "each child SHALL be
\* finalized as stopped": the death that a stop causes is not an error.
StopIsRecorded ==
    [][\A s \in stopping : Live(s[1]) /\ Running(s[2]) /\ proc'[s[2]] = "dead"
         => child'[s[1]].rec # "error"]_vars

\* spec.md:423, "A stop targeting a single child SHALL terminate only that
\* child": a process is signalled for the child its session serves.
SiblingsSpared ==
    [][\A c \in Children :
         LET p == child[c].session IN
         Live(c) /\ p # Nobody /\ proc[p] # "killed" /\ proc'[p] = "killed"
           => ~child'[c].live \/ <<c, p>> \in stopping']_vars
=============================================================================
