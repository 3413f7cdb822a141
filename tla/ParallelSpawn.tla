--------------------------- MODULE ParallelSpawn ---------------------------
(***************************************************************************)
(* The parallel-creation transaction of the Dashboard plugin on Server C   *)
(* (packages/orchestrator-plugin/src/server/index.ts and transactions.ts): *)
(* POST /parallel/authorize and POST /parallel, the rollback of a failed   *)
(* creation, and a crash of the Dashboard process at any point.            *)
(*                                                                         *)
(* The journal, the Git worktrees and the Pi processes outlive the         *)
(* Dashboard process; `active`, `step` and `turn` are its memory.  Node    *)
(* runs one handler at a time between two awaits: `turn` names the handler *)
(* whose synchronous segment is running, which other handlers wait for but *)
(* which Git, Pi and a crash do not.                                       *)
(***************************************************************************)
EXTENDS Naturals

CONSTANTS
    Tasks,       \* task ids Hermes may send
    Repos,       \* canonical repository roots
    RepoOf,      \* the repository a task is about
    Names,       \* branch / worktree-directory names
    NameOf,      \* the name prepareParallelWorktree derives for a task
    Branches,    \* named branches a primary checkout may be on
    NoBranch,    \* detached HEAD: `git branch --show-current` prints nothing
    Nobody,      \* absent task id, session id or turn holder
    MaxTip,      \* bound: commits the user makes on a branch
    MaxCrashes   \* bound: crashes of the Dashboard process

ASSUME SpawnAssumption ==
    /\ RepoOf \in [Tasks -> Repos]
    /\ NameOf \in [Tasks -> Names]
    /\ Nobody \notin Tasks
    /\ NoBranch \notin Branches
    /\ MaxTip \in Nat
    /\ MaxCrashes \in Nat

\* Two tasks share a name only when their prompts have the same slug and
\* their ids the same first eight alphanumeric characters.
DistinctNames == \A t, u \in Tasks : NameOf[t] = NameOf[u] => t = u

VARIABLES
    journal,     \* TransactionJournal: one record per task, on disk
    active,      \* activeProjects
    step,        \* what the POST /parallel handler of a task does next
    turn,        \* the task whose handler holds the event loop
    allowDirty,  \* `started.dirty`, the allowDirty argument of the handler
    tree,        \* worktree and branch of each name: who created it, from what
    sess,        \* the Pi process spawned for a task, as Dashboard lists it
    primary,     \* the primary checkout of each repository
    held,        \* history: Hermes received an authorization token
    grant,       \* history: the tip a token was issued for
    launches,    \* history: Pi processes launched for a task
    told,        \* history: the session a task's orientation was sent to
    crashes      \* crashes so far

serverVars == <<active, step, turn, allowDirty>>
historyVars == <<held, grant, launches, told>>
outside == <<sess, primary, historyVars, crashes>>
vars == <<journal, serverVars, tree, outside>>

-----------------------------------------------------------------------------
(* Records *)

CreationStates == {"preparing", "worktree_created", "spawned", "sending"}
LifecycleStates == {"complete", "awaiting_review", "integrated", "retained"}
TransactionState ==
    {"absent", "authorization_pending", "integrating", "failed"}
        \cup CreationStates \cup LifecycleStates

Strategies == {"none", "merge", "cherry_pick", "leave_branch"}
TokenStates == {"none", "live", "expired"}

\* The fields of a TransactionRecord that later decisions read.
TransactionRecord ==
    [state: TransactionState, branch: Branches \cup {NoBranch}, base: Nat,
     token: TokenStates, session: Tasks \cup {Nobody},
     strategy: Strategies, annotated: BOOLEAN]

NoRecord ==
    [state |-> "absent", branch |-> NoBranch, base |-> 0, token |-> "none",
     session |-> Nobody, strategy |-> "none", annotated |-> FALSE]

Steps == {"idle", "prepare", "progress", "launch", "answer", "register",
          "send", "commit", "abort", "cleanup", "fail"}

SessionStates == {"none", "launched", "idle", "working", "ended"}
Listed == {"idle", "working", "ended"}
Connected == {"idle", "working"}
Alive == {"launched", "idle", "working"}

Worktree == [by: Tasks \cup {Nobody}, base: Nat]
NoTree == [by |-> Nobody, base |-> 0]

Checkout == [branch: Branches \cup {NoBranch}, dirty: BOOLEAN,
             tips: [Branches -> Nat]]

TypeOK ==
    /\ journal \in [Tasks -> TransactionRecord]
    /\ active \in SUBSET Repos
    /\ step \in [Tasks -> Steps]
    /\ turn \in Tasks \cup {Nobody}
    /\ allowDirty \in [Tasks -> BOOLEAN]
    /\ tree \in [Names -> Worktree]
    /\ sess \in [Tasks -> SessionStates]
    /\ primary \in [Repos -> Checkout]
    /\ held \in [Tasks -> BOOLEAN]
    /\ grant \in [Tasks -> Nat]
    /\ launches \in [Tasks -> Nat]
    /\ told \in [Tasks -> Tasks \cup {Nobody}]
    /\ crashes \in Nat

Init ==
    /\ journal = [t \in Tasks |-> NoRecord]
    /\ active = {}
    /\ step = [t \in Tasks |-> "idle"]
    /\ turn = Nobody
    /\ allowDirty = [t \in Tasks |-> FALSE]
    /\ tree = [n \in Names |-> NoTree]
    /\ sess = [t \in Tasks |-> "none"]
    /\ primary \in [Repos -> [branch: Branches, dirty: BOOLEAN,
                              tips: {[b \in Branches |-> 0]}]]
    /\ held = [t \in Tasks |-> FALSE]
    /\ grant = [t \in Tasks |-> 0]
    /\ launches = [t \in Tasks |-> 0]
    /\ told = [t \in Tasks |-> Nobody]
    /\ crashes = 0

-----------------------------------------------------------------------------
(* Helpers *)

projectIsDirty(r) == primary[r].dirty
currentBranch(r) == primary[r].branch
branchCommit(r, b) == primary[r].tips[b]

\* journal.update / journal.put: the file is replaced by a rename, so a crash
\* leaves either the old record or the new one.
Update(t, r) == journal' = [journal EXCEPT ![t] = r]
\* Mutant: the changes are put instead of merged into the record.
SetStateReplaces(t, s) == Update(t, [state |-> s])
SetState(t, s) == Update(t, [journal[t] EXCEPT !.state = s])

Goto(t, s) == step' = [step EXCEPT ![t] = s]
Release(t) == active' = active \ {RepoOf[t]}

Creating(t) == step[t] # "idle"

\* The record of a start, with the authorization fields cleared.
Preparing(t) ==
    LET b == currentBranch(RepoOf[t]) IN
    [NoRecord EXCEPT !.state = "preparing", !.branch = b,
                     !.base = branchCommit(RepoOf[t], b)]

\* Mutant: the authorized tip is not compared.
AuthorizationMatchesAnyTip(t, presented) ==
    /\ presented
    /\ journal[t].token = "live"
    /\ journal[t].branch = currentBranch(RepoOf[t])

\* A pending authorization admits the request that presents its token, before
\* it expires and while the branch and its tip are the authorized ones.
AuthorizationMatches(t, presented) ==
    LET b == currentBranch(RepoOf[t]) IN
    /\ presented
    /\ journal[t].token = "live"
    /\ journal[t].branch = b
    /\ journal[t].base = branchCommit(RepoOf[t], b)

\* Mutant: a project with a running creation is not refused.
AdmitsBusyProject(t, presented) ==
    \/ journal[t].state = "authorization_pending" /\ AuthorizationMatches(t, presented)
    \/ journal[t].state = "absent" /\ ~projectIsDirty(RepoOf[t])

\* Mutant: a failed transaction may be started again.
AdmitsRetry(t, presented) ==
    /\ \/ journal[t].state = "authorization_pending" /\ AuthorizationMatches(t, presented)
       \/ journal[t].state \in {"absent", "failed"} /\ ~projectIsDirty(RepoOf[t])
    /\ RepoOf[t] \notin active

\* The refusals of beginParallelTransaction, negated: a record that is not a
\* pending authorization is never started again.
Admits(t, presented) ==
    /\ \/ journal[t].state = "authorization_pending" /\ AuthorizationMatches(t, presented)
       \/ journal[t].state = "absent" /\ ~projectIsDirty(RepoOf[t])
    /\ RepoOf[t] \notin active

\* Mutant: the cwd of a session is not compared.
RegisteredAnywhere(t) == {s \in Tasks : sess[s] \in Listed}

\* A session with the worktree as its cwd: the one `find` returns is any.
RegisteredIn(t) ==
    {s \in Tasks : NameOf[s] = NameOf[t] /\ sess[s] \in Listed}

\* What abortSpawnedRun does to a process: a process killed before it
\* registered is never listed, one killed later is listed as ended.
Killed(status) ==
    IF status = "launched" THEN "none"
    ELSE IF status \in Connected THEN "ended" ELSE status

\* Mutant: the spawn token is not used when no session was found.
AbortTargetsFound(t) == {journal[t].session} \cap Tasks

\* rollbackParallel aborts the session it found or, when that one is not
\* running, the process its spawn token names.
AbortTargets(t) ==
    LET found == journal[t].session IN
    IF found # Nobody /\ sess[found] \in Alive THEN {found} ELSE {t}

-----------------------------------------------------------------------------
(* POST /parallel/authorize *)

\* issueParallelAuthorization.  The answer carries the only copy of the token;
\* it may be lost on the way to Hermes.
Authorize(t) ==
    LET r == RepoOf[t] IN
    /\ turn = Nobody
    /\ projectIsDirty(r)
    /\ journal[t].state = "absent"
    /\ currentBranch(r) # NoBranch
    /\ Update(t, [Preparing(t) EXCEPT !.state = "authorization_pending",
                                      !.token = "live"])
    /\ grant' = [grant EXCEPT ![t] = Preparing(t).base]
    /\ \E received \in BOOLEAN : held' = [held EXCEPT ![t] = received]
    /\ UNCHANGED <<serverVars, tree, sess, primary, launches, told, crashes>>

\* Fifteen minutes pass.
ExpireToken(t) ==
    /\ journal[t].token = "live"
    /\ Update(t, [journal[t] EXCEPT !.token = "expired"])
    /\ UNCHANGED <<serverVars, tree, outside>>

-----------------------------------------------------------------------------
(* POST /parallel *)

\* A request for a complete transaction is answered with its record.
Replays(t) == journal[t].state = "complete"

\* beginParallelTransaction past all of its refusals.  A refused
\* or replayed request changes nothing.
Begin(t, presented) ==
    LET r == RepoOf[t] IN
    /\ turn = Nobody
    /\ presented => held[t]
    /\ currentBranch(r) # NoBranch
    /\ Admits(t, presented)
    /\ active' = active \cup {r}
    /\ allowDirty' = [allowDirty EXCEPT ![t] = projectIsDirty(r)]
    /\ Update(t, Preparing(t))
    /\ Goto(t, "prepare")
    /\ turn' = t
    /\ UNCHANGED <<tree, outside>>

\* prepareParallelWorktree: the dirty check is repeated, outside the try.
PrepareRefused(t) ==
    /\ step[t] = "prepare"
    /\ projectIsDirty(RepoOf[t]) /\ ~allowDirty[t]
    /\ Goto(t, "fail")
    /\ UNCHANGED <<journal, active, turn, allowDirty, tree, outside>>

\* `git worktree add -b` refuses a branch or a directory that exists.
AddWorktree(t) ==
    /\ step[t] = "prepare"
    /\ projectIsDirty(RepoOf[t]) => allowDirty[t]
    /\ tree[NameOf[t]] = NoTree
    /\ tree' = [tree EXCEPT ![NameOf[t]] = [by |-> t, base |-> journal[t].base]]
    /\ \E initSucceeds \in BOOLEAN :
          Goto(t, IF initSucceeds THEN "progress" ELSE "cleanup")
    /\ UNCHANGED <<journal, active, turn, allowDirty, outside>>

\* The catch clause runs whether or not this request created the worktree.
AddWorktreeFails(t) ==
    /\ step[t] = "prepare"
    /\ projectIsDirty(RepoOf[t]) => allowDirty[t]
    /\ Goto(t, "cleanup")
    /\ UNCHANGED <<journal, active, turn, allowDirty, tree, outside>>

\* progress("worktree_created"), then the first await.
RecordWorktree(t) ==
    /\ step[t] = "progress"
    /\ SetState(t, "worktree_created")
    /\ Goto(t, "launch")
    /\ turn' = Nobody
    /\ UNCHANGED <<active, allowDirty, tree, outside>>

\* ctx.spawnSession starts a forked Pi process in the worktree ...
Launch(t) ==
    /\ step[t] = "launch"
    /\ sess' = [sess EXCEPT ![t] = "launched"]
    /\ launches' = [launches EXCEPT ![t] = @ + 1]
    /\ Goto(t, "answer")
    /\ UNCHANGED <<journal, active, turn, allowDirty, tree, primary, held,
                   grant, told, crashes>>

\* ... or reports failure, and there is no token to abort with.
LaunchFails(t) ==
    /\ step[t] = "launch"
    /\ turn = Nobody
    /\ Goto(t, "cleanup")
    /\ turn' = t
    /\ UNCHANGED <<journal, active, allowDirty, tree, outside>>

\* The promise resolves with the spawn token: progress("spawned").
RecordSpawn(t) ==
    /\ step[t] = "answer"
    /\ turn = Nobody
    /\ SetState(t, "spawned")
    /\ Goto(t, "register")
    /\ UNCHANGED <<active, turn, allowDirty, tree, outside>>

\* waitForSession finds a listed session whose cwd is the worktree, then
\* progress("sending").
FindSession(t) ==
    /\ step[t] = "register"
    /\ turn = Nobody
    /\ \E s \in RegisteredIn(t) :
          Update(t, [journal[t] EXCEPT !.state = "sending", !.session = s])
    /\ Goto(t, "send")
    /\ turn' = t
    /\ UNCHANGED <<active, allowDirty, tree, outside>>

\* Mutant: waitForSession without its deadline.
RegisterWaitsForever(t) == FALSE

\* The twenty seconds are over before a poll finds the session; one that
\* registers after the last poll is not looked for again.
RegisterTimeout(t) ==
    /\ step[t] = "register"
    /\ turn = Nobody
    /\ Goto(t, "abort")
    /\ UNCHANGED <<journal, active, turn, allowDirty, tree, outside>>

\* Mutant: `committed` is not set, so the finally clause rolls back.
SendTaskUncommitted(t) ==
    LET s == journal[t].session IN
    /\ step[t] = "send"
    /\ sess[s] \in Connected
    /\ sess' = [sess EXCEPT ![s] = "working"]
    /\ told' = [told EXCEPT ![t] = s]
    /\ Goto(t, "abort")
    /\ turn' = Nobody
    /\ UNCHANGED <<journal, active, allowDirty, tree, primary, held, grant,
                   launches, crashes>>

\* sendToSession hands the orientation to a bridge that is connected.
SendTask(t) ==
    LET s == journal[t].session IN
    /\ step[t] = "send"
    /\ sess[s] \in Connected
    /\ sess' = [sess EXCEPT ![s] = "working"]
    /\ told' = [told EXCEPT ![t] = s]
    /\ Goto(t, "commit")
    /\ UNCHANGED <<journal, active, turn, allowDirty, tree, primary, held,
                   grant, launches, crashes>>

\* Mutant: the result of sendToSession is not looked at.
SendResultIgnored(t) ==
    /\ step[t] = "send"
    /\ Goto(t, "commit")
    /\ UNCHANGED <<journal, active, turn, allowDirty, tree, outside>>

\* It returns false when the bridge is gone, even for a moment.
SendFails(t) ==
    /\ step[t] = "send"
    /\ Goto(t, "abort")
    /\ turn' = Nobody
    /\ UNCHANGED <<journal, active, allowDirty, tree, outside>>

\* spawnParallelTransaction records the result and the route's finally clause
\* frees the project.
Commit(t) ==
    /\ step[t] = "commit"
    /\ SetState(t, "complete")
    /\ Goto(t, "idle")
    /\ Release(t)
    /\ turn' = Nobody
    /\ UNCHANGED <<allowDirty, tree, outside>>

\* rollbackParallel awaits the death of the process.
AbortWorker(t) ==
    /\ step[t] = "abort"
    /\ turn = Nobody
    /\ sess' = [u \in Tasks |->
                  IF u \in AbortTargets(t) THEN Killed(sess[u]) ELSE sess[u]]
    /\ Goto(t, "cleanup")
    /\ turn' = t
    /\ UNCHANGED <<journal, active, allowDirty, tree, primary, historyVars,
                   crashes>>

\* `git worktree remove --force` and `git branch -D`, on the derived name.
RemoveWorktree(t) ==
    /\ step[t] = "cleanup"
    /\ tree' = [tree EXCEPT ![NameOf[t]] = NoTree]
    /\ Goto(t, "fail")
    /\ UNCHANGED <<journal, active, turn, allowDirty, outside>>

\* Mutant: the project is freed only on success.
RecordFailureKeepsProject(t) ==
    /\ step[t] = "fail"
    /\ SetState(t, "failed")
    /\ Goto(t, "idle")
    /\ turn' = Nobody
    /\ UNCHANGED <<active, allowDirty, tree, outside>>

\* The failure is recorded and the project freed.
RecordFailure(t) ==
    /\ step[t] = "fail"
    /\ SetState(t, "failed")
    /\ Goto(t, "idle")
    /\ Release(t)
    /\ turn' = Nobody
    /\ UNCHANGED <<allowDirty, tree, outside>>

-----------------------------------------------------------------------------
(* The processes around the plugin *)

\* The bridge of a launched Pi process registers with Dashboard.
Register(t) ==
    /\ sess[t] = "launched"
    /\ sess' = [sess EXCEPT ![t] = "idle"]
    /\ UNCHANGED <<journal, serverVars, tree, primary, historyVars, crashes>>

\* A Pi process exits by itself, or the panel's abort control kills it
\* (controlProject with action "abort").
WorkerEnds(t) ==
    /\ sess[t] \in Alive
    /\ sess' = [sess EXCEPT ![t] = Killed(@)]
    /\ UNCHANGED <<journal, serverVars, tree, primary, historyVars, crashes>>

\* The user or the primary session edits, cleans or commits in the checkout.
EditPrimary(r) ==
    /\ primary' = [primary EXCEPT ![r].dirty = ~@]
    /\ UNCHANGED <<journal, serverVars, tree, sess, historyVars, crashes>>

CommitPrimary(r) ==
    LET b == primary[r].branch IN
    /\ b # NoBranch
    /\ primary[r].tips[b] < MaxTip
    /\ primary' = [primary EXCEPT ![r].dirty = FALSE, ![r].tips[b] = @ + 1]
    /\ UNCHANGED <<journal, serverVars, tree, sess, historyVars, crashes>>

SwitchPrimary(r) ==
    /\ \E b \in Branches \cup {NoBranch} :
          primary' = [primary EXCEPT ![r].branch = b]
    /\ UNCHANGED <<journal, serverVars, tree, sess, historyVars, crashes>>

\* The Dashboard process dies and is started again: register() reloads the
\* journal and nothing else.  Worktrees and Pi processes are untouched.
Crash ==
    /\ crashes < MaxCrashes
    /\ crashes' = crashes + 1
    /\ active' = {}
    /\ step' = [t \in Tasks |-> "idle"]
    /\ turn' = Nobody
    /\ UNCHANGED <<journal, allowDirty, tree, sess, primary, historyVars>>

-----------------------------------------------------------------------------
\* The continuation of the POST /parallel handler of a task.
Handler(t) ==
    \/ PrepareRefused(t) \/ AddWorktree(t) \/ AddWorktreeFails(t)
    \/ RecordWorktree(t)
    \/ Launch(t) \/ LaunchFails(t) \/ RecordSpawn(t)
    \/ FindSession(t) \/ RegisterTimeout(t)
    \/ SendTask(t) \/ SendFails(t) \/ Commit(t)
    \/ AbortWorker(t) \/ RemoveWorktree(t) \/ RecordFailure(t)

Request(t) ==
    \/ Authorize(t)
    \/ \E presented \in BOOLEAN : Begin(t, presented)

Environment ==
    \/ \E t \in Tasks : ExpireToken(t) \/ Register(t) \/ WorkerEnds(t)
    \/ \E r \in Repos : EditPrimary(r) \/ CommitPrimary(r) \/ SwitchPrimary(r)

Next ==
    \/ \E t \in Tasks : Request(t) \/ Handler(t)
    \/ Environment
    \/ Crash

Spec == Init /\ [][Next]_vars

\* Node resumes a handler whose await is over; git commands, spawnSession and
\* waitForSession all have timeouts, so no await lasts for ever.
FairSpec == Spec /\ \A t \in Tasks : WF_vars(Handler(t))

-----------------------------------------------------------------------------
(* Properties *)

\* Two creations never run at once in one repository, and a repository with
\* a running creation is marked (activeProjects around the awaits of
\* POST /parallel).
OneCreationPerProject ==
    /\ \A t \in Tasks : Creating(t) => RepoOf[t] \in active
    /\ \A t, u \in Tasks :
          Creating(t) /\ Creating(u) /\ RepoOf[t] = RepoOf[u] => t = u

\* Whatever is retried and wherever the Dashboard crashes, a task gets at most
\* one Pi process (the journal lookup in beginParallelTransaction).
OneWorkerPerTask == \A t \in Tasks : launches[t] <= 1

\* A transaction recorded as complete has what it says: the worktree it
\* created, at the recorded base, and its own session, which has the task.
CompleteIsReal ==
    \A t \in Tasks : journal[t].state \in LifecycleStates =>
        /\ told[t] = t
        /\ journal[t].session = t
        /\ tree[NameOf[t]] = [by |-> t, base |-> journal[t].base]

\* A transaction recorded as failed has left nothing behind, in any of the
\* phases it can fail in: no worktree, no process and no delivered task.
FailedLeavesNothing ==
    \A t \in Tasks : journal[t].state = "failed" =>
        /\ tree[NameOf[t]].by # t
        /\ sess[t] \notin Alive
        /\ told[t] = Nobody

\* A worktree made while the primary checkout was dirty starts from the very
\* tip the user authorized, and Hermes held the token.
DirtyStartAuthorized ==
    \A t \in Tasks :
        allowDirty[t] /\ tree[NameOf[t]].by = t =>
            /\ held[t]
            /\ tree[NameOf[t]].base = grant[t]

\* A worktree is not deleted once its worker has the task: code may have
\* changed (SOFTWARE_DESIGN_SPEC.md 14.7).
TaskedWorktreeKept ==
    [][\A t \in Tasks :
          told[t] # Nobody /\ tree[NameOf[t]].by = t
              => tree'[NameOf[t]].by = t]_vars

\* The inductive invariant behind the five above, for tasks with names of their
\* own: what holds of a task in each state of its record and at each step of
\* its handler, also of a handler a crash cut off.
Untouched(t) ==
    /\ launches[t] = 0
    /\ told[t] = Nobody
    /\ tree[NameOf[t]].by # t

OwnsWorktree(t) == tree[NameOf[t]] = [by |-> t, base |-> journal[t].base]

ProcessInv(t) ==
    /\ launches[t] <= 1
    /\ launches[t] = 0 => sess[t] = "none"
    /\ step[t] \in {"progress", "launch"} => launches[t] = 0
    /\ step[t] \in {"cleanup", "fail"} => sess[t] \notin Alive

RecordInv(t) ==
    /\ journal[t].state \in {"absent", "authorization_pending"}
          => Untouched(t) /\ step[t] = "idle"
    /\ step[t] # "idle" => journal[t].state \in CreationStates
    /\ step[t] = "prepare" => Untouched(t)
    /\ step[t] \in {"progress", "launch", "answer", "register", "send", "commit",
                    "abort"} => OwnsWorktree(t)
    /\ step[t] = "fail" => tree[NameOf[t]].by # t
    /\ journal[t].state = "failed"
          => sess[t] \notin Alive /\ tree[NameOf[t]].by # t

DeliveryInv(t) ==
    /\ journal[t].session \in {t, Nobody}
    /\ told[t] \in {t, Nobody}
    /\ step[t] \in {"send", "commit"} => journal[t].session = t
    /\ step[t] = "commit" \/ journal[t].state \in LifecycleStates => told[t] = t
    /\ told[t] = t =>
          /\ step[t] \in {"idle", "commit"}
          /\ journal[t].state \notin {"absent", "authorization_pending", "failed"}
          /\ journal[t].session = t
          /\ OwnsWorktree(t)

GrantInv(t) ==
    /\ journal[t].state = "authorization_pending" => journal[t].base = grant[t]
    /\ step[t] = "prepare" /\ allowDirty[t]
          => held[t] /\ journal[t].base = grant[t]
    /\ allowDirty[t] /\ tree[NameOf[t]].by = t
          => held[t] /\ tree[NameOf[t]].base = grant[t]

TaskInv(t) == ProcessInv(t) /\ RecordInv(t) /\ DeliveryInv(t) /\ GrantInv(t)
SpawnInv == \A t \in Tasks : TaskInv(t)

\* A repository is not marked busy for ever, crash or no crash.
ProjectReleased == \A r \in Repos : r \in active ~> r \notin active

\* A creation that began ends complete or failed.
CreationSettles ==
    \A t \in Tasks :
        journal[t].state \in CreationStates
            ~> journal[t].state \in LifecycleStates \cup {"failed"}
=============================================================================
