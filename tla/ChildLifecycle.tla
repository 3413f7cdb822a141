--------------------------- MODULE ChildLifecycle ---------------------------
(***************************************************************************)
(* What becomes of a parallel child once it has its task                   *)
(* (packages/orchestrator-plugin/src/server/lifecycle.ts): review of a     *)
(* settled child, integration by merge, cherry-pick or leaving the branch, *)
(* and the annotation of the primary Pi history.  It composes with         *)
(* ParallelSpawn through the journal, the primary checkout and the event   *)
(* loop.  integrateChild is synchronous, so it holds `turn` throughout,    *)
(* but the Dashboard may crash between any two of its steps.               *)
(***************************************************************************)
EXTENDS ParallelSpawn

CONSTANT MaxWork    \* bound: commits a worker makes

ASSUME LifecycleAssumption ==
    /\ DistinctNames
    /\ MaxWork \in Nat

VARIABLES
    istep,     \* what integrateChild does next for a task
    work,      \* the child's branch since its base, and its working tree
    merges,    \* history: times Git put the child's work on the primary checkout
    notes,     \* history: annotations the primary's bridge received
    reviewed   \* history: the child was found settled by a review

childVars == <<istep, work, merges, notes, reviewed>>
allVars == <<vars, childVars>>

IntegrationSteps == {"idle", "git", "record", "annotate"}

ChildTypeOK ==
    /\ TypeOK
    /\ istep \in [Tasks -> IntegrationSteps]
    /\ work \in [Tasks -> [commits: Nat, dirty: BOOLEAN]]
    /\ merges \in [Tasks -> Nat]
    /\ notes \in [Tasks -> Nat]
    /\ reviewed \in [Tasks -> BOOLEAN]

ChildInit ==
    /\ Init
    /\ istep = [t \in Tasks |-> "idle"]
    /\ work = [t \in Tasks |-> [commits |-> 0, dirty |-> FALSE]]
    /\ merges = [t \in Tasks |-> 0]
    /\ notes = [t \in Tasks |-> 0]
    /\ reviewed = [t \in Tasks |-> FALSE]

IGoto(t, s) == istep' = [istep EXCEPT ![t] = s]

-----------------------------------------------------------------------------
(* The worker, once it has the task; the user may prompt it again at any    *)
(* time from the Dashboard chat. *)

SetSession(t, from, to) ==
    /\ told[t] = t
    /\ sess[t] = from
    /\ sess' = [sess EXCEPT ![t] = to]
    /\ UNCHANGED <<journal, serverVars, tree, primary, historyVars, crashes,
                   childVars>>

WorkerSettles(t) == SetSession(t, "working", "idle")
WorkerPrompted(t) == SetSession(t, "idle", "working")

SetWork(t, w) ==
    /\ told[t] = t
    /\ sess[t] = "working"
    /\ work' = [work EXCEPT ![t] = w]
    /\ UNCHANGED <<vars, istep, merges, notes, reviewed>>

WorkerEdits(t) == SetWork(t, [work[t] EXCEPT !.dirty = TRUE])
WorkerCommits(t) ==
    /\ work[t].commits < MaxWork
    /\ SetWork(t, [commits |-> work[t].commits + 1, dirty |-> FALSE])

-----------------------------------------------------------------------------
(* GET /child/:taskId/review *)

\* markReviewable: only a complete transaction is checked for a settled
\* session; one that is awaiting review is reported as it is.
Review(t) ==
    /\ turn = Nobody
    /\ journal[t].state = "complete"
    /\ sess[journal[t].session] \in {"idle", "ended"}
    /\ SetState(t, "awaiting_review")
    /\ reviewed' = [reviewed EXCEPT ![t] = TRUE]
    /\ UNCHANGED <<serverVars, tree, outside, istep, work, merges, notes>>

-----------------------------------------------------------------------------
(* POST /child/:taskId/integrate *)

\* Mutant: an integration a crash interrupted is started again.
IntegrableAfterCrash(t) == journal[t].state \in {"awaiting_review", "integrating"}

\* Mutant: a child that was never found settled is integrated.
IntegrableUnreviewed(t) == journal[t].state \in {"awaiting_review", "complete"}

\* Mutant: an outcome does not refuse another strategy.
IntegrableAgain(t) ==
    journal[t].state \in {"awaiting_review", "integrated", "retained"}

\* Every other state is refused or has an outcome already.
Integrable(t) == journal[t].state = "awaiting_review"

\* Mutant: the record is replaced by the changes.
LeaveBranchReplaces(t) ==
    /\ turn = Nobody
    /\ Integrable(t)
    /\ Update(t, [state |-> "retained", strategy |-> "leave_branch"])
    /\ UNCHANGED <<serverVars, tree, outside, childVars>>

LeaveBranch(t) ==
    /\ turn = Nobody
    /\ Integrable(t)
    /\ Update(t, [journal[t] EXCEPT !.state = "retained",
                                    !.strategy = "leave_branch"])
    /\ UNCHANGED <<serverVars, tree, outside, childVars>>

\* Both checkouts are clean and the primary one is on the base branch.
StartIntegration(t, strategy) ==
    LET r == RepoOf[t] IN
    /\ turn = Nobody
    /\ Integrable(t)
    /\ ~work[t].dirty
    /\ ~projectIsDirty(r)
    /\ currentBranch(r) = journal[t].branch
    /\ Update(t, [journal[t] EXCEPT !.state = "integrating",
                                    !.strategy = strategy])
    /\ IGoto(t, "git")
    /\ turn' = t
    /\ UNCHANGED <<active, step, allowDirty, tree, outside, work, merges,
                   notes, reviewed>>

\* git merge, or git cherry-pick of at least one commit, succeeds.  It commits
\* where HEAD is now, on the branch that was checked unless somebody switched;
\* a merge of an empty branch is "already up to date" and commits nothing.
GitIntegrates(t) ==
    LET r == RepoOf[t]
        landsOn == IF work[t].commits > 0 THEN {currentBranch(r)} ELSE {}
    IN
    /\ istep[t] = "git"
    /\ journal[t].strategy = "cherry_pick" => work[t].commits > 0
    /\ primary' = [primary EXCEPT ![r].tips =
                     [b \in Branches |-> IF b \in landsOn THEN @[b] + 1 ELSE @[b]]]
    /\ merges' = [merges EXCEPT ![t] = @ + 1]
    /\ IGoto(t, "record")
    /\ UNCHANGED <<journal, serverVars, tree, sess, historyVars, crashes, work,
                   notes, reviewed>>

\* Mutant: the catch clause does not restore the state.
GitFailsUncaught(t) ==
    /\ istep[t] = "git"
    /\ work[t].commits > 0 \/ journal[t].strategy = "cherry_pick"
    /\ IGoto(t, "idle")
    /\ turn' = Nobody
    /\ UNCHANGED <<journal, active, step, allowDirty, tree, outside, work,
                   merges, notes, reviewed>>

\* A conflict, or nothing to pick.  `--abort` is best effort: the checkout may
\* stay dirty.  The child is integrable again.
GitFails(t) ==
    /\ istep[t] = "git"
    /\ work[t].commits > 0 \/ journal[t].strategy = "cherry_pick"
    /\ \E stuck \in BOOLEAN :
          primary' = [primary EXCEPT ![RepoOf[t]].dirty = @ \/ stuck]
    /\ Update(t, [journal[t] EXCEPT !.state = "awaiting_review",
                                    !.strategy = "none"])
    /\ IGoto(t, "idle")
    /\ turn' = Nobody
    /\ UNCHANGED <<active, step, allowDirty, tree, sess, historyVars, crashes,
                   work, merges, notes, reviewed>>

\* `git rev-parse HEAD`, read outside the try, throws: the request fails after
\* the work landed, and the record keeps saying "integrating".
HeadUnread(t) ==
    /\ istep[t] = "record"
    /\ IGoto(t, "idle")
    /\ turn' = Nobody
    /\ UNCHANGED <<journal, active, step, allowDirty, tree, outside, work,
                   merges, notes, reviewed>>

RecordIntegrated(t) ==
    /\ istep[t] = "record"
    /\ Update(t, [journal[t] EXCEPT !.state = "integrated",
                                    !.annotated = FALSE])
    /\ IGoto(t, "annotate")
    /\ UNCHANGED <<active, step, turn, allowDirty, tree, outside, work, merges,
                   notes, reviewed>>

\* Mutant: the result of emitEventToSession is not looked at.
recordAnnotationUnchecked(t) ==
    \E emitted \in BOOLEAN :
        /\ notes' = [notes EXCEPT ![t] = @ + IF emitted THEN 1 ELSE 0]
        /\ Update(t, [journal[t] EXCEPT !.annotated = TRUE])

\* recordAnnotation: the event reaches the primary's bridge or it does not.
\* When it does not, the request fails and asks to retry the same strategy.
\* emitEventToSession answers for a frame written to an open socket
\* (server.ts:2274): that the bridge then has it is taken for granted here.
recordAnnotation(t) ==
    \E emitted \in BOOLEAN :
        /\ notes' = [notes EXCEPT ![t] = @ + IF emitted THEN 1 ELSE 0]
        /\ Update(t, [journal[t] EXCEPT !.annotated = emitted])

Annotate(t) ==
    /\ istep[t] = "annotate"
    /\ recordAnnotation(t)
    /\ IGoto(t, "idle")
    /\ turn' = Nobody
    /\ UNCHANGED <<active, step, allowDirty, tree, outside, work, merges,
                   reviewed>>

\* The Dashboard dies after the bridge took the event, before the journal says so.
AnnotateThenCrash(t) ==
    /\ istep[t] = "annotate"
    /\ notes' = [notes EXCEPT ![t] = @ + 1]
    /\ istep' = [u \in Tasks |-> "idle"]
    /\ Crash
    /\ UNCHANGED <<work, merges, reviewed>>

\* existingOutcome of an integrated child, asked with the same strategy.
RetryAnnotation(t, strategy) ==
    /\ turn = Nobody
    /\ journal[t].state = "integrated"
    /\ journal[t].strategy = strategy
    /\ ~journal[t].annotated
    /\ recordAnnotation(t)
    /\ UNCHANGED <<serverVars, tree, outside, istep, work, merges, reviewed>>

-----------------------------------------------------------------------------
(* Composition *)

Integration(t) ==
    \/ GitIntegrates(t) \/ GitFails(t)
    \/ HeadUnread(t) \/ RecordIntegrated(t) \/ Annotate(t)

LifecycleRequest(t) ==
    \/ Review(t)
    \/ LeaveBranch(t)
    \/ \E strategy \in {"merge", "cherry_pick"} :
          StartIntegration(t, strategy) \/ RetryAnnotation(t, strategy)

Worker(t) ==
    WorkerSettles(t) \/ WorkerPrompted(t) \/ WorkerEdits(t) \/ WorkerCommits(t)

SpawnStep ==
    /\ \/ \E t \in Tasks : Request(t) \/ Handler(t)
       \/ Environment
    /\ UNCHANGED childVars

ChildCrash ==
    /\ Crash
    /\ istep' = [t \in Tasks |-> "idle"]
    /\ UNCHANGED <<work, merges, notes, reviewed>>

ChildNext ==
    \/ SpawnStep
    \/ \E t \in Tasks :
          Worker(t) \/ LifecycleRequest(t) \/ Integration(t)
             \/ AnnotateThenCrash(t)
    \/ ChildCrash

ChildSpec == ChildInit /\ [][ChildNext]_allVars

\* integrateChild holds the event loop and its git commands come to an end.
\* The event loop serves callbacks in the order they became ready, so no
\* continuation of a creation is overtaken by other handlers for ever.
ChildFairSpec ==
    /\ ChildSpec
    /\ \A t \in Tasks :
          /\ WF_allVars(Integration(t))
          /\ SF_allVars(Handler(t) /\ UNCHANGED childVars)

-----------------------------------------------------------------------------
(* Properties *)

\* The work of a child lands at most once, across conflicts, crashes and
\* repeated requests, and the journal never claims otherwise: it says
\* "integrated" only of a child that landed, and a child that landed is never
\* offered for review, retained or failed again.
OutcomeMatchesGit ==
    \A t \in Tasks :
        /\ merges[t] <= 1
        /\ journal[t].state = "integrated" => merges[t] = 1
        /\ merges[t] = 1 => journal[t].state \in {"integrating", "integrated"}

\* Nothing lands by itself (INV-13): a child whose work landed was settled at
\* a review, by its own worker, and was asked for with a landing strategy.
NoUnreviewedMerge ==
    \A t \in Tasks : merges[t] > 0 =>
        /\ reviewed[t]
        /\ told[t] = t
        /\ journal[t].strategy \in {"merge", "cherry_pick"}

\* The primary history is annotated only with work that is on the branch, and
\* the journal calls a child annotated only when the bridge got the event.
HistoryFollowsCode ==
    \A t \in Tasks :
        /\ notes[t] > 0 => merges[t] = 1
        /\ journal[t].annotated => notes[t] > 0

\* A recorded outcome is final: no request and no crash changes it.
OutcomeFinal ==
    [][\A t \in Tasks :
          journal[t].state \in {"integrated", "retained"} =>
              /\ journal'[t].state = journal[t].state
              /\ journal'[t].strategy = journal[t].strategy]_allVars

\* An integration that began ends integrated or back in review, unless the
\* Dashboard stops or the commit that landed cannot be read (lifecycle.ts:83):
\* a failure of Git's before anything landed never leaves it under way.
IntegrationSettles ==
    \A t \in Tasks :
        journal[t].state = "integrating"
            ~> \/ journal[t].state \in {"integrated", "awaiting_review"}
               \/ crashes > 0
               \/ istep[t] = "idle" /\ merges[t] = 1

-----------------------------------------------------------------------------
(* Refinement *)

PhaseOf(t) ==
    IF journal[t].state = "failed" THEN "failed"
    ELSE IF merges[t] > 0 THEN "integrated"
    ELSE IF journal[t].state = "retained" THEN "retained"
    ELSE IF told[t] # Nobody THEN "ready"
    ELSE IF journal[t].state \in {"absent", "authorization_pending"}
         THEN "absent" ELSE "creating"

Outcome == INSTANCE ChildOutcome
    WITH phase <- [t \in Tasks |-> PhaseOf(t)], landed <- merges

\* Creation, review, integration, conflicts and crashes together implement the
\* promise of ChildOutcome.
ImplementsOutcome == Outcome!Spec
=============================================================================
