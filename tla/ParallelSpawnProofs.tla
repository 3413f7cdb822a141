------------------------- MODULE ParallelSpawnProofs -------------------------
(***************************************************************************)
(* Proofs about ParallelSpawn, for any set of tasks and repositories and   *)
(* any number of crashes: type correctness, exclusion of creations, the    *)
(* inductive invariant SpawnInv with what follows from it, and how a       *)
(* creation ends or is left behind.                                        *)
(***************************************************************************)
EXTENDS ParallelSpawn, TLAPS

-----------------------------------------------------------------------------
(* Type correctness *)

\* The initial states are well typed.
LEMMA TypeInit == Init => TypeOK
<1> SUFFICES ASSUME Init PROVE TypeOK
  OBVIOUS
<1>1. primary \in [Repos -> Checkout]
  <2>1. [b \in Branches |-> 0] \in [Branches -> Nat]
    OBVIOUS
  <2> QED BY <2>1 DEF Init, Checkout
<1>2. NoRecord \in TransactionRecord
  BY DEF NoRecord, TransactionRecord, TransactionState, TokenStates, Strategies
<1> QED BY <1>1, <1>2 DEF Init, TypeOK, Steps, NoTree, Worktree, SessionStates

\* The record a start writes is a record, on a branch.
LEMMA PreparingType ==
    ASSUME TypeOK, NEW t \in Tasks, currentBranch(RepoOf[t]) # NoBranch
    PROVE  /\ Preparing(t) \in TransactionRecord
           /\ Preparing(t).state = "preparing"
           /\ Preparing(t).session = Nobody
           /\ Preparing(t).base \in Nat
<1>1. currentBranch(RepoOf[t]) \in Branches
  BY SpawnAssumption DEF TypeOK, Checkout, currentBranch
<1>2. branchCommit(RepoOf[t], currentBranch(RepoOf[t])) \in Nat
  BY <1>1, SpawnAssumption DEF TypeOK, Checkout, branchCommit
<1> QED BY <1>1, <1>2 DEF Preparing, NoRecord, TransactionRecord,
          TransactionState, CreationStates, TokenStates, Strategies

\* Every state update keeps the journal well typed.
LEMMA SetStateType ==
    ASSUME TypeOK, NEW t \in Tasks, NEW s \in TransactionState, SetState(t, s)
    PROVE  journal' \in [Tasks -> TransactionRecord]
<1>1. journal[t] \in TransactionRecord
  BY DEF TypeOK
<1>2. [journal[t] EXCEPT !.state = s] \in TransactionRecord
  BY <1>1 DEF TransactionRecord
<1> QED BY <1>2 DEF TypeOK, SetState, Update

\* Every action keeps the types.
LEMMA TypeStep == TypeOK /\ [Next]_vars => TypeOK'
<1> SUFFICES ASSUME TypeOK, [Next]_vars PROVE TypeOK'
  OBVIOUS
<1> USE DEF Goto, Release, serverVars, outside, historyVars
<1>1. ASSUME NEW t \in Tasks, Authorize(t) PROVE TypeOK'
  <2>1. /\ Preparing(t) \in TransactionRecord
        /\ Preparing(t).base \in Nat
    BY <1>1, PreparingType DEF Authorize
  <2>2. [Preparing(t) EXCEPT !.state = "authorization_pending",
                             !.token = "live"] \in TransactionRecord
    BY <2>1 DEF TransactionRecord, TransactionState, TokenStates
  <2> QED BY <1>1, <2>1, <2>2 DEF Authorize, Update, TypeOK
<1>2. ASSUME NEW t \in Tasks, NEW presented \in BOOLEAN, Begin(t, presented)
      PROVE TypeOK'
  <2>1. Preparing(t) \in TransactionRecord
    BY <1>2, PreparingType DEF Begin
  <2>2. projectIsDirty(RepoOf[t]) \in BOOLEAN
    BY SpawnAssumption DEF TypeOK, Checkout, projectIsDirty
  <2>3. active' \in SUBSET Repos
    BY <1>2, SpawnAssumption DEF Begin, TypeOK
  <2> QED BY <1>2, <2>1, <2>2, <2>3 DEF Begin, Update, TypeOK, Steps
<1>3. ASSUME NEW t \in Tasks, ExpireToken(t) PROVE TypeOK'
  <2>1. [journal[t] EXCEPT !.token = "expired"] \in TransactionRecord
    BY DEF TypeOK, TransactionRecord, TokenStates
  <2> QED BY <1>3, <2>1 DEF ExpireToken, Update, TypeOK
<1>4. ASSUME NEW t \in Tasks, PrepareRefused(t) PROVE TypeOK'
  BY <1>4 DEF PrepareRefused, TypeOK, Steps
<1>5. ASSUME NEW t \in Tasks, AddWorktree(t) PROVE TypeOK'
  <2>1. journal[t].base \in Nat /\ NameOf[t] \in Names
    BY SpawnAssumption DEF TypeOK, TransactionRecord
  <2> QED BY <1>5, <2>1 DEF AddWorktree, TypeOK, Steps, Worktree
<1>6. ASSUME NEW t \in Tasks, AddWorktreeFails(t) PROVE TypeOK'
  BY <1>6 DEF AddWorktreeFails, TypeOK, Steps
<1>7. ASSUME NEW t \in Tasks, RecordWorktree(t) PROVE TypeOK'
  BY <1>7, SetStateType DEF RecordWorktree, TypeOK, Steps, TransactionState,
     CreationStates
<1>8. ASSUME NEW t \in Tasks, Launch(t) PROVE TypeOK'
  BY <1>8 DEF Launch, TypeOK, Steps, SessionStates
<1>9. ASSUME NEW t \in Tasks, LaunchFails(t) PROVE TypeOK'
  BY <1>9 DEF LaunchFails, TypeOK, Steps
<1>10. ASSUME NEW t \in Tasks, RecordSpawn(t) PROVE TypeOK'
  BY <1>10, SetStateType DEF RecordSpawn, TypeOK, Steps, TransactionState,
     CreationStates
<1>11. ASSUME NEW t \in Tasks, FindSession(t) PROVE TypeOK'
  <2>1. PICK s \in RegisteredIn(t) :
          Update(t, [journal[t] EXCEPT !.state = "sending", !.session = s])
    BY <1>11 DEF FindSession
  <2>2. journal[t] \in TransactionRecord /\ s \in Tasks
    BY DEF TypeOK, RegisteredIn
  <2>3. [journal[t] EXCEPT !.state = "sending", !.session = s]
          \in TransactionRecord
    BY <2>2 DEF TransactionRecord, TransactionState, CreationStates
  <2> QED BY <1>11, <2>1, <2>3 DEF FindSession, Update, TypeOK, Steps
<1>12. ASSUME NEW t \in Tasks, RegisterTimeout(t) PROVE TypeOK'
  BY <1>12 DEF RegisterTimeout, TypeOK, Steps
<1>13. ASSUME NEW t \in Tasks, SendTask(t) PROVE TypeOK'
  BY <1>13 DEF SendTask, TypeOK, Steps, SessionStates, TransactionRecord
<1>14. ASSUME NEW t \in Tasks, SendFails(t) PROVE TypeOK'
  BY <1>14 DEF SendFails, TypeOK, Steps
<1>15. ASSUME NEW t \in Tasks, Commit(t) PROVE TypeOK'
  BY <1>15, SetStateType DEF Commit, TypeOK, Steps, TransactionState,
     LifecycleStates
<1>16. ASSUME NEW t \in Tasks, AbortWorker(t) PROVE TypeOK'
  BY <1>16 DEF AbortWorker, TypeOK, Steps, SessionStates, Killed
<1>17. ASSUME NEW t \in Tasks, RemoveWorktree(t) PROVE TypeOK'
  BY <1>17 DEF RemoveWorktree, TypeOK, Steps, NoTree, Worktree
<1>18. ASSUME NEW t \in Tasks, RecordFailure(t) PROVE TypeOK'
  BY <1>18, SetStateType DEF RecordFailure, TypeOK, Steps, TransactionState
<1>19. ASSUME NEW t \in Tasks, Register(t) PROVE TypeOK'
  BY <1>19 DEF Register, TypeOK, SessionStates
<1>20. ASSUME NEW t \in Tasks, WorkerEnds(t) PROVE TypeOK'
  BY <1>20 DEF WorkerEnds, TypeOK, SessionStates, Killed
<1>21. ASSUME NEW r \in Repos, EditPrimary(r) PROVE TypeOK'
  BY <1>21 DEF EditPrimary, TypeOK, Checkout
<1>22. ASSUME NEW r \in Repos, CommitPrimary(r) PROVE TypeOK'
  <2>1. primary' \in [Repos -> Checkout]
    <3> DEFINE b == primary[r].branch
               p == [primary[r] EXCEPT !.dirty = FALSE, !.tips[b] = @ + 1]
    <3>1. b \in Branches /\ primary[r].tips \in [Branches -> Nat]
      BY <1>22 DEF CommitPrimary, TypeOK, Checkout
    <3>2. [primary[r].tips EXCEPT ![b] = @ + 1] \in [Branches -> Nat]
      BY <3>1
    <3>3. p \in Checkout
      BY <3>1, <3>2 DEF TypeOK, Checkout
    <3>4. primary' = [primary EXCEPT ![r] = p]
      BY <1>22, <3>1 DEF CommitPrimary, TypeOK, Checkout
    <3> HIDE DEF p
    <3> QED BY <3>3, <3>4 DEF TypeOK
  <2> QED BY <1>22, <2>1 DEF CommitPrimary, TypeOK
<1>23. ASSUME NEW r \in Repos, SwitchPrimary(r) PROVE TypeOK'
  BY <1>23 DEF SwitchPrimary, TypeOK, Checkout
<1>24. CASE Crash
  BY <1>24 DEF Crash, TypeOK, Steps
<1>25. CASE UNCHANGED vars
  BY <1>25 DEF vars, TypeOK
<1> QED
  BY <1>1, <1>2, <1>3, <1>4, <1>5, <1>6, <1>7, <1>8, <1>9, <1>10, <1>11,
     <1>12, <1>13, <1>14, <1>15, <1>16, <1>17, <1>18, <1>19, <1>20, <1>21,
     <1>22, <1>23, <1>24, <1>25
  DEF Next, Request, Handler, Environment

\* Every reachable state of the transaction is well typed.
THEOREM Typing == Spec => []TypeOK
  BY TypeInit, TypeStep, PTL DEF Spec

-----------------------------------------------------------------------------
(* Exclusion *)

\* Only Begin starts a creation, where none is marked; the last step of a
\* handler ends its own and frees the project; a crash ends them all.
LEMMA LockStep == TypeOK /\ OneCreationPerProject /\ [Next]_vars
                    => OneCreationPerProject'
<1> SUFFICES ASSUME TypeOK, OneCreationPerProject, [Next]_vars
             PROVE  OneCreationPerProject'
  OBVIOUS
<1> USE DEF OneCreationPerProject, Creating, TypeOK
<1>1. ASSUME NEW t \in Tasks, NEW presented \in BOOLEAN, Begin(t, presented)
      PROVE OneCreationPerProject'
  BY <1>1 DEF Begin, Admits, Goto
<1>2. ASSUME NEW t \in Tasks, Creating(t), NEW s, Goto(t, s), UNCHANGED active
      PROVE OneCreationPerProject'
  BY <1>2 DEF Goto
<1>3. ASSUME NEW t \in Tasks, Creating(t), Goto(t, "idle"), Release(t)
      PROVE OneCreationPerProject'
  BY <1>3 DEF Goto, Release
<1>4. CASE UNCHANGED <<active, step>>
  BY <1>4
<1>5. CASE Crash
  BY <1>5 DEF Crash
<1>6. ASSUME NEW t \in Tasks, Handler(t) PROVE OneCreationPerProject'
  <2>1. CASE Commit(t) \/ RecordFailure(t)
    BY <2>1, <1>3 DEF Commit, RecordFailure
  <2>2. CASE PrepareRefused(t) \/ AddWorktreeFails(t) \/ RecordWorktree(t)
    BY <2>2, <1>2 DEF PrepareRefused, AddWorktreeFails, RecordWorktree
  <2>3. CASE AddWorktree(t)
    BY <2>3, <1>2 DEF AddWorktree
  <2>4. CASE Launch(t) \/ LaunchFails(t) \/ RecordSpawn(t) \/ FindSession(t)
    BY <2>4, <1>2 DEF Launch, LaunchFails, RecordSpawn, FindSession
  <2>5. CASE RegisterTimeout(t) \/ SendTask(t) \/ SendFails(t)
    BY <2>5, <1>2 DEF RegisterTimeout, SendTask, SendFails
  <2>6. CASE AbortWorker(t) \/ RemoveWorktree(t)
    BY <2>6, <1>2 DEF AbortWorker, RemoveWorktree
  <2> QED BY <1>6, <2>1, <2>2, <2>3, <2>4, <2>5, <2>6 DEF Handler
<1>7. ASSUME NEW t \in Tasks, Request(t) PROVE OneCreationPerProject'
  BY <1>7, <1>1, <1>4 DEF Request, Authorize, serverVars
<1>8. CASE Environment
  BY <1>8, <1>4 DEF Environment, ExpireToken, Register, WorkerEnds,
     EditPrimary, CommitPrimary, SwitchPrimary, serverVars
<1> QED BY <1>4, <1>5, <1>6, <1>7, <1>8 DEF Next, vars, serverVars

\* Two creations never run at once in one repository, whatever the tasks, the
\* repositories and the crashes.
THEOREM Exclusion == Spec => []OneCreationPerProject
<1>1. Init => OneCreationPerProject
  BY DEF Init, OneCreationPerProject, Creating
<1> QED BY <1>1, Typing, LockStep, PTL DEF Spec

-----------------------------------------------------------------------------
(* The inductive invariant *)

\* Everything TaskInv says of a task is left alone.
TaskUnchanged(u) ==
    /\ journal'[u] = journal[u]
    /\ step'[u] = step[u]
    /\ allowDirty'[u] = allowDirty[u]
    /\ tree'[NameOf[u]] = tree[NameOf[u]]
    /\ sess'[u] = sess[u]
    /\ held'[u] = held[u]
    /\ grant'[u] = grant[u]
    /\ launches'[u] = launches[u]
    /\ told'[u] = told[u]

\* What TaskInv says of a task is kept by a step that leaves the task alone.
LEMMA Frame ==
    ASSUME NEW u \in Tasks, TaskInv(u), TaskUnchanged(u)
    PROVE  TaskInv(u)'
  BY DEF TaskUnchanged, TaskInv, ProcessInv, RecordInv, DeliveryInv, GrantInv,
     Untouched, OwnsWorktree

\* Nothing has been created, launched or told at first.
LEMMA SpawnInvInit == Init => SpawnInv
<1> SUFFICES ASSUME Init, NEW t \in Tasks PROVE TaskInv(t)
  BY DEF SpawnInv
<1>1. journal[t] = NoRecord /\ step[t] = "idle" /\ sess[t] = "none"
  BY DEF Init
<1>2. tree[NameOf[t]] = NoTree
  BY SpawnAssumption DEF Init
<1>3. allowDirty[t] = FALSE /\ launches[t] = 0 /\ told[t] = Nobody
  BY DEF Init
<1> USE SpawnAssumption DEF NoRecord, NoTree
<1>4. ProcessInv(t)
  BY <1>1, <1>3 DEF ProcessInv
<1>5. RecordInv(t)
  BY <1>1, <1>2, <1>3 DEF RecordInv, Untouched
<1>6. DeliveryInv(t)
  BY <1>1, <1>3 DEF DeliveryInv, LifecycleStates
<1>7. GrantInv(t)
  BY <1>1, <1>3 DEF GrantInv
<1> QED BY <1>4, <1>5, <1>6, <1>7 DEF TaskInv

\* Every action keeps SpawnInv: what it says of the task the action is about
\* is proved part by part, and Frame covers every other task.
LEMMA SpawnInvStep ==
    ASSUME DistinctNames, TypeOK, SpawnInv, [Next]_vars
    PROVE  SpawnInv'
<1> USE SpawnAssumption DEF Goto, serverVars, outside, historyVars,
        Update, SetState
<1>1. ASSUME NEW t \in Tasks, Authorize(t) PROVE SpawnInv'
  <2> USE DEF Authorize, Preparing, NoRecord
  <2>1. TaskInv(t)
    BY DEF SpawnInv
  <2>2. ProcessInv(t)'
    BY <1>1, <2>1 DEF TaskInv, ProcessInv, RecordInv, Untouched
  <2>3. RecordInv(t)'
    BY <1>1, <2>1, PreparingType DEF TypeOK, TaskInv, RecordInv, Untouched,
       CreationStates
  <2>4. DeliveryInv(t)'
    BY <1>1, <2>1, PreparingType DEF TypeOK, TaskInv, RecordInv, DeliveryInv,
       Untouched, CreationStates, LifecycleStates
  <2>5. GrantInv(t)'
    BY <1>1, <2>1, PreparingType DEF TypeOK, TaskInv, RecordInv, GrantInv,
       Untouched, CreationStates
  <2>6. ASSUME NEW u \in Tasks, u # t PROVE TaskUnchanged(u)
    BY <1>1, <2>6 DEF TypeOK, TaskUnchanged
  <2> QED BY <2>2, <2>3, <2>4, <2>5, <2>6, Frame DEF SpawnInv, TaskInv
<1>2. ASSUME NEW t \in Tasks, NEW presented \in BOOLEAN, Begin(t, presented)
      PROVE SpawnInv'
  <2> USE DEF Begin, Admits, AuthorizationMatches, Preparing, NoRecord,
          projectIsDirty
  <2>1. TaskInv(t)
    BY DEF SpawnInv
  <2>2. ProcessInv(t)'
    BY <1>2, <2>1 DEF TaskInv, ProcessInv, RecordInv, Untouched
  <2>3. RecordInv(t)'
    BY <1>2, <2>1, PreparingType DEF TypeOK, TaskInv, RecordInv, Untouched,
       CreationStates
  <2>4. DeliveryInv(t)'
    BY <1>2, <2>1, PreparingType DEF TypeOK, TaskInv, RecordInv, DeliveryInv,
       Untouched, CreationStates, LifecycleStates
  <2>5. GrantInv(t)'
    BY <1>2, <2>1, PreparingType DEF TypeOK, TaskInv, RecordInv, GrantInv,
       Untouched, CreationStates
  <2>6. ASSUME NEW u \in Tasks, u # t PROVE TaskUnchanged(u)
    BY <1>2, <2>6 DEF TypeOK, TaskUnchanged
  <2> QED BY <2>2, <2>3, <2>4, <2>5, <2>6, Frame DEF SpawnInv, TaskInv
<1>3. ASSUME NEW t \in Tasks, ExpireToken(t) PROVE SpawnInv'
  <2> USE DEF ExpireToken
  <2>1. TaskInv(t)
    BY DEF SpawnInv
  <2>2. TaskInv(t)'
    BY <1>3, <2>1 DEF TypeOK, TaskInv, ProcessInv, RecordInv, DeliveryInv,
       GrantInv, Untouched, OwnsWorktree, Alive, CreationStates,
       LifecycleStates
  <2>3. ASSUME NEW u \in Tasks, u # t PROVE TaskUnchanged(u)
    BY <1>3, <2>3 DEF TaskUnchanged
  <2> QED BY <2>2, <2>3, Frame DEF SpawnInv
<1>4. ASSUME NEW t \in Tasks, PrepareRefused(t) PROVE SpawnInv'
  <2> USE DEF PrepareRefused
  <2>1. TaskInv(t)
    BY DEF SpawnInv
  <2>2. TaskInv(t)'
    BY <1>4, <2>1 DEF TypeOK, TaskInv, ProcessInv, RecordInv, DeliveryInv,
       GrantInv, Untouched, OwnsWorktree, Alive, CreationStates,
       LifecycleStates
  <2>3. ASSUME NEW u \in Tasks, u # t PROVE TaskUnchanged(u)
    BY <1>4, <2>3 DEF TaskUnchanged
  <2> QED BY <2>2, <2>3, Frame DEF SpawnInv
<1>5. ASSUME NEW t \in Tasks, AddWorktree(t) PROVE SpawnInv'
  <2> USE DEF AddWorktree, NoTree
  <2>1. TaskInv(t)
    BY DEF SpawnInv
  <2>2. TaskInv(t)'
    BY <1>5, <2>1 DEF TypeOK, TaskInv, ProcessInv, RecordInv, DeliveryInv,
       GrantInv, Untouched, OwnsWorktree, Alive, CreationStates,
       LifecycleStates
  <2>3. ASSUME NEW u \in Tasks, u # t PROVE TaskUnchanged(u)
    BY <1>5, <2>3 DEF TypeOK, DistinctNames, TaskUnchanged
  <2> QED BY <2>2, <2>3, Frame DEF SpawnInv
<1>6. ASSUME NEW t \in Tasks, AddWorktreeFails(t) PROVE SpawnInv'
  <2> USE DEF AddWorktreeFails
  <2>1. TaskInv(t)
    BY DEF SpawnInv
  <2>2. TaskInv(t)'
    BY <1>6, <2>1 DEF TypeOK, TaskInv, ProcessInv, RecordInv, DeliveryInv,
       GrantInv, Untouched, OwnsWorktree, Alive, CreationStates,
       LifecycleStates
  <2>3. ASSUME NEW u \in Tasks, u # t PROVE TaskUnchanged(u)
    BY <1>6, <2>3 DEF TaskUnchanged
  <2> QED BY <2>2, <2>3, Frame DEF SpawnInv
<1>7. ASSUME NEW t \in Tasks, RecordWorktree(t) PROVE SpawnInv'
  <2> USE DEF RecordWorktree
  <2>1. TaskInv(t)
    BY DEF SpawnInv
  <2>2. TaskInv(t)'
    BY <1>7, <2>1 DEF TypeOK, TaskInv, ProcessInv, RecordInv, DeliveryInv,
       GrantInv, Untouched, OwnsWorktree, Alive, CreationStates,
       LifecycleStates
  <2>3. ASSUME NEW u \in Tasks, u # t PROVE TaskUnchanged(u)
    BY <1>7, <2>3 DEF TaskUnchanged
  <2> QED BY <2>2, <2>3, Frame DEF SpawnInv
<1>8. ASSUME NEW t \in Tasks, Launch(t) PROVE SpawnInv'
  <2> USE DEF Launch
  <2>1. TaskInv(t)
    BY DEF SpawnInv
  <2>2. TaskInv(t)'
    BY <1>8, <2>1 DEF TypeOK, TaskInv, ProcessInv, RecordInv, DeliveryInv,
       GrantInv, Untouched, OwnsWorktree, Alive, CreationStates,
       LifecycleStates
  <2>3. ASSUME NEW u \in Tasks, u # t PROVE TaskUnchanged(u)
    BY <1>8, <2>3 DEF TaskUnchanged
  <2> QED BY <2>2, <2>3, Frame DEF SpawnInv
<1>9. ASSUME NEW t \in Tasks, LaunchFails(t) PROVE SpawnInv'
  <2> USE DEF LaunchFails
  <2>1. TaskInv(t)
    BY DEF SpawnInv
  <2>2. TaskInv(t)'
    BY <1>9, <2>1 DEF TypeOK, TaskInv, ProcessInv, RecordInv, DeliveryInv,
       GrantInv, Untouched, OwnsWorktree, Alive, CreationStates,
       LifecycleStates
  <2>3. ASSUME NEW u \in Tasks, u # t PROVE TaskUnchanged(u)
    BY <1>9, <2>3 DEF TaskUnchanged
  <2> QED BY <2>2, <2>3, Frame DEF SpawnInv
<1>10. ASSUME NEW t \in Tasks, RecordSpawn(t) PROVE SpawnInv'
  <2> USE DEF RecordSpawn
  <2>1. TaskInv(t)
    BY DEF SpawnInv
  <2>2. TaskInv(t)'
    BY <1>10, <2>1 DEF TypeOK, TaskInv, ProcessInv, RecordInv, DeliveryInv,
       GrantInv, Untouched, OwnsWorktree, Alive, CreationStates,
       LifecycleStates
  <2>3. ASSUME NEW u \in Tasks, u # t PROVE TaskUnchanged(u)
    BY <1>10, <2>3 DEF TaskUnchanged
  <2> QED BY <2>2, <2>3, Frame DEF SpawnInv
<1>11. ASSUME NEW t \in Tasks, FindSession(t) PROVE SpawnInv'
  <2> USE DEF FindSession, RegisteredIn, DistinctNames
  <2>1. TaskInv(t)
    BY DEF SpawnInv
  <2>2. TaskInv(t)'
    BY <1>11, <2>1 DEF TypeOK, TaskInv, ProcessInv, RecordInv, DeliveryInv,
       GrantInv, Untouched, OwnsWorktree, Alive, CreationStates,
       LifecycleStates
  <2>3. ASSUME NEW u \in Tasks, u # t PROVE TaskUnchanged(u)
    BY <1>11, <2>3 DEF TypeOK, TaskUnchanged
  <2> QED BY <2>2, <2>3, Frame DEF SpawnInv
<1>12. ASSUME NEW t \in Tasks, RegisterTimeout(t) PROVE SpawnInv'
  <2> USE DEF RegisterTimeout
  <2>1. TaskInv(t)
    BY DEF SpawnInv
  <2>2. TaskInv(t)'
    BY <1>12, <2>1 DEF TypeOK, TaskInv, ProcessInv, RecordInv, DeliveryInv,
       GrantInv, Untouched, OwnsWorktree, Alive, CreationStates,
       LifecycleStates
  <2>3. ASSUME NEW u \in Tasks, u # t PROVE TaskUnchanged(u)
    BY <1>12, <2>3 DEF TaskUnchanged
  <2> QED BY <2>2, <2>3, Frame DEF SpawnInv
<1>13. ASSUME NEW t \in Tasks, SendTask(t) PROVE SpawnInv'
  <2> USE DEF SendTask, Connected
  <2>1. TaskInv(t)
    BY DEF SpawnInv
  <2>2. TaskInv(t)'
    BY <1>13, <2>1 DEF TypeOK, TaskInv, ProcessInv, RecordInv, DeliveryInv,
       GrantInv, Untouched, OwnsWorktree, Alive, CreationStates,
       LifecycleStates
  <2>3. ASSUME NEW u \in Tasks, u # t PROVE TaskUnchanged(u)
    BY <1>13, <2>3, <2>1 DEF TaskInv, DeliveryInv, TaskUnchanged
  <2> QED BY <2>2, <2>3, Frame DEF SpawnInv
<1>14. ASSUME NEW t \in Tasks, SendFails(t) PROVE SpawnInv'
  <2> USE DEF SendFails
  <2>1. TaskInv(t)
    BY DEF SpawnInv
  <2>2. TaskInv(t)'
    BY <1>14, <2>1 DEF TypeOK, TaskInv, ProcessInv, RecordInv, DeliveryInv,
       GrantInv, Untouched, OwnsWorktree, Alive, CreationStates,
       LifecycleStates
  <2>3. ASSUME NEW u \in Tasks, u # t PROVE TaskUnchanged(u)
    BY <1>14, <2>3 DEF TaskUnchanged
  <2> QED BY <2>2, <2>3, Frame DEF SpawnInv
<1>15. ASSUME NEW t \in Tasks, Commit(t) PROVE SpawnInv'
  <2> USE DEF Commit
  <2>1. TaskInv(t)
    BY DEF SpawnInv
  <2>2. TaskInv(t)'
    BY <1>15, <2>1 DEF TypeOK, TaskInv, ProcessInv, RecordInv, DeliveryInv,
       GrantInv, Untouched, OwnsWorktree, Alive, CreationStates,
       LifecycleStates
  <2>3. ASSUME NEW u \in Tasks, u # t PROVE TaskUnchanged(u)
    BY <1>15, <2>3 DEF TaskUnchanged
  <2> QED BY <2>2, <2>3, Frame DEF SpawnInv
<1>16. ASSUME NEW t \in Tasks, AbortWorker(t) PROVE SpawnInv'
  <2> USE DEF AbortWorker, AbortTargets, Killed, Connected
  <2>1. TaskInv(t)
    BY DEF SpawnInv
  <2>2. TaskInv(t)'
    BY <1>16, <2>1 DEF TypeOK, TaskInv, ProcessInv, RecordInv, DeliveryInv,
       GrantInv, Untouched, OwnsWorktree, Alive, CreationStates,
       LifecycleStates
  <2>3. ASSUME NEW u \in Tasks, u # t PROVE TaskUnchanged(u)
    BY <1>16, <2>3, <2>1 DEF TaskInv, DeliveryInv, TaskUnchanged
  <2> QED BY <2>2, <2>3, Frame DEF SpawnInv
<1>17. ASSUME NEW t \in Tasks, RemoveWorktree(t) PROVE SpawnInv'
  <2> USE DEF RemoveWorktree, NoTree
  <2>1. TaskInv(t)
    BY DEF SpawnInv
  <2>2. TaskInv(t)'
    BY <1>17, <2>1 DEF TypeOK, TaskInv, ProcessInv, RecordInv, DeliveryInv,
       GrantInv, Untouched, OwnsWorktree, Alive, CreationStates,
       LifecycleStates
  <2>3. ASSUME NEW u \in Tasks, u # t PROVE TaskUnchanged(u)
    BY <1>17, <2>3 DEF TypeOK, DistinctNames, TaskUnchanged
  <2> QED BY <2>2, <2>3, Frame DEF SpawnInv
<1>18. ASSUME NEW t \in Tasks, RecordFailure(t) PROVE SpawnInv'
  <2> USE DEF RecordFailure
  <2>1. TaskInv(t)
    BY DEF SpawnInv
  <2>2. TaskInv(t)'
    BY <1>18, <2>1 DEF TypeOK, TaskInv, ProcessInv, RecordInv, DeliveryInv,
       GrantInv, Untouched, OwnsWorktree, Alive, CreationStates,
       LifecycleStates
  <2>3. ASSUME NEW u \in Tasks, u # t PROVE TaskUnchanged(u)
    BY <1>18, <2>3 DEF TaskUnchanged
  <2> QED BY <2>2, <2>3, Frame DEF SpawnInv
<1>19. ASSUME NEW t \in Tasks, Register(t) PROVE SpawnInv'
  <2> USE DEF Register
  <2>1. TaskInv(t)
    BY DEF SpawnInv
  <2>2. TaskInv(t)'
    BY <1>19, <2>1 DEF TypeOK, TaskInv, ProcessInv, RecordInv, DeliveryInv,
       GrantInv, Untouched, OwnsWorktree, Alive, CreationStates,
       LifecycleStates
  <2>3. ASSUME NEW u \in Tasks, u # t PROVE TaskUnchanged(u)
    BY <1>19, <2>3 DEF TaskUnchanged
  <2> QED BY <2>2, <2>3, Frame DEF SpawnInv
<1>20. ASSUME NEW t \in Tasks, WorkerEnds(t) PROVE SpawnInv'
  <2> USE DEF WorkerEnds, Killed, Connected
  <2>1. TaskInv(t)
    BY DEF SpawnInv
  <2>2. TaskInv(t)'
    BY <1>20, <2>1 DEF TypeOK, TaskInv, ProcessInv, RecordInv, DeliveryInv,
       GrantInv, Untouched, OwnsWorktree, Alive, CreationStates,
       LifecycleStates
  <2>3. ASSUME NEW u \in Tasks, u # t PROVE TaskUnchanged(u)
    BY <1>20, <2>3 DEF TaskUnchanged
  <2> QED BY <2>2, <2>3, Frame DEF SpawnInv
<1>21. ASSUME \A u \in Tasks : TaskUnchanged(u) PROVE SpawnInv'
  BY <1>21, Frame DEF SpawnInv
<1>22. CASE UNCHANGED <<journal, serverVars, tree, sess, historyVars>>
  BY <1>21, <1>22 DEF TaskUnchanged
<1>23. ASSUME NEW r \in Repos,
       EditPrimary(r) \/ CommitPrimary(r) \/ SwitchPrimary(r)
       PROVE SpawnInv'
  BY <1>22, <1>23 DEF EditPrimary, CommitPrimary, SwitchPrimary
<1>24. CASE Crash
  BY <1>24 DEF Crash, SpawnInv, TaskInv, ProcessInv, RecordInv, DeliveryInv,
     GrantInv, Untouched, OwnsWorktree
<1>25. CASE UNCHANGED vars
  BY <1>22, <1>25 DEF vars
<1> QED
  BY <1>1, <1>2, <1>3, <1>4, <1>5, <1>6, <1>7, <1>8, <1>9, <1>10, <1>11,
     <1>12, <1>13, <1>14, <1>15, <1>16, <1>17, <1>18, <1>19, <1>20, <1>23,
     <1>24, <1>25
  DEF Next, Request, Handler, Environment

\* SpawnInv holds of every reachable state when names are distinct.
LEMMA SpawnInvariant == DistinctNames /\ Spec => []SpawnInv
<1>1. DistinctNames /\ TypeOK /\ SpawnInv /\ [Next]_vars => SpawnInv'
  BY SpawnInvStep
<1>2. ASSUME DistinctNames PROVE Spec => []SpawnInv
  BY <1>1, <1>2, SpawnInvInit, Typing, PTL DEF Spec
<1> QED BY <1>2

-----------------------------------------------------------------------------
(* What follows from it *)

\* However often a task is requested and wherever the Dashboard crashes, at
\* most one Pi process is ever launched for it.
THEOREM OneWorker ==
    ASSUME DistinctNames PROVE Spec => []OneWorkerPerTask
<1>1. SpawnInv => OneWorkerPerTask
  BY DEF SpawnInv, TaskInv, ProcessInv, OneWorkerPerTask
<1> QED BY <1>1, SpawnInvariant, PTL

\* A transaction recorded as complete has its own worktree, at the recorded
\* base, and its own session, which was given the task.
THEOREM CompletionIsReal ==
    ASSUME DistinctNames PROVE Spec => []CompleteIsReal
<1>1. SpawnInv => CompleteIsReal
  BY SpawnAssumption DEF SpawnInv, TaskInv, DeliveryInv, OwnsWorktree,
     CompleteIsReal
<1> QED BY <1>1, SpawnInvariant, PTL

\* A failed transaction has left neither worktree nor process, and its worker
\* was never given the task.
THEOREM FailureLeavesNothing ==
    ASSUME DistinctNames PROVE Spec => []FailedLeavesNothing
<1>1. SpawnInv => FailedLeavesNothing
  BY SpawnAssumption DEF SpawnInv, TaskInv, RecordInv, DeliveryInv,
     FailedLeavesNothing
<1> QED BY <1>1, SpawnInvariant, PTL

\* A worktree created while the primary checkout was dirty starts from the tip
\* a token was issued for, and Hermes had that token.
THEOREM DirtyStartsAreAuthorized ==
    ASSUME DistinctNames PROVE Spec => []DirtyStartAuthorized
<1>1. SpawnInv => DirtyStartAuthorized
  BY DEF SpawnInv, TaskInv, GrantInv, DirtyStartAuthorized
<1> QED BY <1>1, SpawnInvariant, PTL

\* The worktree of a worker that was given its task is never removed, by its
\* own transaction or by another.
THEOREM TaskedWorktreeIsKept ==
    ASSUME DistinctNames PROVE Spec => TaskedWorktreeKept
<1>1. ASSUME TypeOK, SpawnInv, [Next]_vars, NEW t \in Tasks, told[t] # Nobody,
             tree[NameOf[t]].by = t
      PROVE  tree'[NameOf[t]].by = t
  <2>1. step[t] \in {"idle", "commit"}
    BY <1>1 DEF SpawnInv, TaskInv, DeliveryInv
  <2>2. CASE UNCHANGED tree
    BY <1>1, <2>2
  <2>3. ASSUME NEW u \in Tasks, AddWorktree(u) \/ RemoveWorktree(u)
        PROVE  tree'[NameOf[t]].by = t
    <3>1. u # t
      BY <2>1, <2>3 DEF AddWorktree, RemoveWorktree
    <3>2. NameOf[u] # NameOf[t]
      BY <3>1 DEF DistinctNames
    <3> QED BY <1>1, <2>3, <3>2, SpawnAssumption
        DEF TypeOK, AddWorktree, RemoveWorktree
  <2> USE <2>2 DEF outside, serverVars, historyVars
  <2>4. ASSUME NEW u \in Tasks, Handler(u), ~AddWorktree(u), ~RemoveWorktree(u)
        PROVE  UNCHANGED tree
    BY <2>4 DEF Handler, PrepareRefused, AddWorktreeFails, RecordWorktree,
       Launch, LaunchFails, RecordSpawn, FindSession, RegisterTimeout,
       SendTask, SendFails, Commit, AbortWorker, RecordFailure
  <2>5. ASSUME NEW u \in Tasks, Request(u) PROVE UNCHANGED tree
    BY <2>5 DEF Request, Authorize, Begin
  <2>6. CASE Environment
    BY <2>6 DEF Environment, ExpireToken, Register, WorkerEnds, EditPrimary,
       CommitPrimary, SwitchPrimary
  <2>7. CASE Crash \/ UNCHANGED vars
    BY <2>7 DEF Crash, vars
  <2> QED BY <1>1, <2>2, <2>3, <2>4, <2>5, <2>6, <2>7 DEF Next
<1>2. TypeOK /\ SpawnInv /\ [Next]_vars =>
        [\A t \in Tasks : told[t] # Nobody /\ tree[NameOf[t]].by = t
             => tree'[NameOf[t]].by = t]_vars
  BY <1>1
<1> QED BY <1>2, Typing, SpawnInvariant, PTL DEF Spec, TaskedWorktreeKept
-----------------------------------------------------------------------------
(* How a creation ends, short of fairness *)

\* The pieces of a handler that run without an await.
Synchronous == {"prepare", "progress", "send", "commit", "cleanup", "fail"}

\* At most so many continuations are left of a handler.
Left(s) ==
    CASE s = "idle" -> 0 [] s = "fail" -> 1 [] s = "cleanup" -> 2
      [] s = "abort" -> 3 [] s = "commit" -> 4 [] s = "send" -> 5
      [] s = "register" -> 6 [] s = "answer" -> 7 [] s = "launch" -> 8
      [] s = "progress" -> 9 [] s = "prepare" -> 10

\* The event loop is held by the handler whose synchronous piece is next, and
\* by no other: whoever holds it can go on, nobody waits for a handler that
\* waits.
TurnIsRunning == \A t \in Tasks : step[t] \in Synchronous <=> turn = t

\* Whatever moves a handler brings it nearer to its end, unless it starts it.
HandlersAdvance ==
    [][\A t \in Tasks : step'[t] # step[t] =>
          \/ Left(step'[t]) < Left(step[t])
          \/ step[t] = "idle" /\ step'[t] = "prepare"]_vars

\* A project counts as busy only while a handler works for it, so that nothing
\* but the end of that handler is needed to free it.
LocksAreWorkedOff ==
    \A r \in active : \E t \in Tasks : Creating(t) /\ RepoOf[t] = r

\* A creation that is under way in the journal and that no handler works on.
Stranded(t) == journal[t].state \in CreationStates /\ ~Creating(t)

\* Only a restart of the Dashboard leaves a creation without its handler.
StrandedByCrash == \A t \in Tasks : Stranded(t) => crashes > 0

\* Nobody takes up a stranded creation: neither a retry of the request nor a
\* restart of the Dashboard (SOFTWARE_DESIGN_SPEC.md:1444 says otherwise).
StrandedStays ==
    [][\A t \in Tasks : Stranded(t) =>
          /\ Stranded(t)'
          /\ launches'[t] = launches[t]
          /\ told'[t] = told[t]
          /\ tree'[NameOf[t]] = tree[NameOf[t]]]_vars

\* What a continuation of the handler of t that leads to s does to step, turn,
\* lock and journal.
Advances(t, s) ==
    /\ step' = [step EXCEPT ![t] = s]
    /\ Left(s) < Left(step[t])
    /\ turn' = IF s \in Synchronous THEN t ELSE IF turn = t THEN Nobody ELSE turn
    /\ s \in Synchronous => turn \in {t, Nobody}
    /\ active' = IF s = "idle" THEN active \ {RepoOf[t]} ELSE active
    /\ s = "idle" => journal'[t].state \notin CreationStates
    /\ \A u \in Tasks \ {t} : journal'[u] = journal[u]
    /\ crashes' = crashes

\* Every continuation advances its handler.
LEMMA HandlerAdvances ==
    ASSUME TypeOK, NEW t \in Tasks, step[t] \in Synchronous <=> turn = t, Handler(t)
    PROVE  \E s \in Steps : Advances(t, s)
<1> USE DEF outside, historyVars, Goto, Release, Synchronous, Left, Steps
<1>0. turn = t <=> step[t] \in Synchronous
  OBVIOUS
<1>1. CASE PrepareRefused(t)
  BY <1>0, <1>1 DEF PrepareRefused, Advances
<1>2. CASE AddWorktree(t)
  <2>1. PICK initSucceeds \in BOOLEAN :
          Goto(t, IF initSucceeds THEN "progress" ELSE "cleanup")
    BY <1>2 DEF AddWorktree
  <2>2. step' = [step EXCEPT ![t] = "progress"] \/ step' = [step EXCEPT ![t] = "cleanup"]
    BY <2>1
  <2>3. /\ step[t] = "prepare" /\ turn = t
        /\ UNCHANGED <<journal, active, turn, crashes>>
    BY <1>0, <1>2 DEF AddWorktree
  <2>4. \E s \in {"progress", "cleanup"} : Advances(t, s)
    BY <2>2, <2>3 DEF Advances
  <2> QED BY <2>4
<1>3. CASE AddWorktreeFails(t)
  BY <1>0, <1>3 DEF AddWorktreeFails, Advances
<1>4. CASE RecordWorktree(t)
  <2>1. \A u \in Tasks \ {t} : journal'[u] = journal[u]
    BY <1>4 DEF RecordWorktree, SetState, Update, TypeOK
  <2> QED BY <1>0, <1>4, <2>1 DEF RecordWorktree, Advances
<1>5. CASE Launch(t)
  BY <1>0, <1>5 DEF Launch, Advances
<1>6. CASE LaunchFails(t)
  BY <1>0, <1>6 DEF LaunchFails, Advances
<1>7. CASE RecordSpawn(t)
  <2>1. \A u \in Tasks \ {t} : journal'[u] = journal[u]
    BY <1>7 DEF RecordSpawn, SetState, Update, TypeOK
  <2> QED BY <1>0, <1>7, <2>1 DEF RecordSpawn, Advances
<1>8. CASE FindSession(t)
  <2>1. \A u \in Tasks \ {t} : journal'[u] = journal[u]
    BY <1>8 DEF FindSession, Update, TypeOK
  <2> QED BY <1>0, <1>8, <2>1 DEF FindSession, Advances
<1>9. CASE RegisterTimeout(t)
  BY <1>0, <1>9 DEF RegisterTimeout, Advances
<1>10. CASE SendTask(t)
  BY <1>0, <1>10 DEF SendTask, Advances
<1>11. CASE SendFails(t)
  BY <1>0, <1>11 DEF SendFails, Advances
<1>12. CASE Commit(t)
  <2>1. /\ \A u \in Tasks \ {t} : journal'[u] = journal[u]
        /\ journal'[t].state = "complete"
    BY <1>12 DEF Commit, SetState, Update, TypeOK, TransactionRecord
  <2> QED BY <1>0, <1>12, <2>1 DEF Commit, Advances, CreationStates
<1>13. CASE AbortWorker(t)
  BY <1>0, <1>13 DEF AbortWorker, Advances
<1>14. CASE RemoveWorktree(t)
  BY <1>0, <1>14 DEF RemoveWorktree, Advances
<1>15. CASE RecordFailure(t)
  <2>1. /\ \A u \in Tasks \ {t} : journal'[u] = journal[u]
        /\ journal'[t].state = "failed"
    BY <1>15 DEF RecordFailure, SetState, Update, TypeOK, TransactionRecord
  <2> QED BY <1>0, <1>15, <2>1 DEF RecordFailure, Advances, CreationStates
<1> QED
  BY <1>1, <1>2, <1>3, <1>4, <1>5, <1>6, <1>7, <1>8, <1>9, <1>10, <1>11,
     <1>12, <1>13, <1>14, <1>15 DEF Handler

\* Nothing but handlers, requests and crashes touches a handler or the state
\* of a record.
LEMMA OthersLeaveHandlers ==
    ASSUME TypeOK, [Next]_vars
    PROVE  \/ \E t \in Tasks : Handler(t)
           \/ \E t \in Tasks, presented \in BOOLEAN : Begin(t, presented)
           \/ Crash
           \/ /\ UNCHANGED <<active, step, turn, crashes, launches, told, tree>>
              /\ \A t \in Tasks : journal'[t].state \in CreationStates
                                    <=> journal[t].state \in CreationStates
<1> USE DEF serverVars, outside, historyVars, Update, TypeOK, TransactionRecord
<1>1. ASSUME NEW t \in Tasks, Authorize(t), NEW u \in Tasks
      PROVE  journal'[u].state \in CreationStates <=> journal[u].state \in CreationStates
  <2>1. CASE u # t
    BY <1>1, <2>1 DEF Authorize
  <2>2. CASE u = t
    <3>1. journal'[t].state = "authorization_pending"
      BY <1>1, PreparingType DEF Authorize
    <3> QED BY <1>1, <2>2, <3>1 DEF Authorize, CreationStates
  <2> QED BY <2>1, <2>2
<1>2. ASSUME NEW t \in Tasks, ExpireToken(t), NEW u \in Tasks
      PROVE  journal'[u].state = journal[u].state
  BY <1>2 DEF ExpireToken
<1> QED
  BY <1>1, <1>2 DEF Next, Request, Environment, Authorize, ExpireToken, Register,
     WorkerEnds, EditPrimary, CommitPrimary, SwitchPrimary, vars

\* A start makes the first continuation of its handler the next thing to run.
LEMMA BeginStarts ==
    ASSUME TypeOK, NEW t \in Tasks, NEW presented \in BOOLEAN, Begin(t, presented)
    PROVE  /\ turn = Nobody /\ turn' = t
           /\ step' = [step EXCEPT ![t] = "prepare"]
           /\ active' = active \cup {RepoOf[t]}
           /\ journal[t].state \notin CreationStates
           /\ \A u \in Tasks \ {t} : journal'[u] = journal[u]
           /\ UNCHANGED <<crashes, launches, told, tree>>
  BY DEF Begin, Goto, Update, Admits, outside, historyVars, CreationStates, TypeOK

LEMMA TurnStep == TypeOK /\ TurnIsRunning /\ [Next]_vars => TurnIsRunning'
<1> SUFFICES ASSUME TypeOK, TurnIsRunning, [Next]_vars PROVE TurnIsRunning'
  OBVIOUS
<1>1. ASSUME NEW t \in Tasks, Handler(t) PROVE TurnIsRunning'
  <2>1. PICK s \in Steps : Advances(t, s)
    BY <1>1, HandlerAdvances DEF TurnIsRunning
  <2> QED BY <2>1, SpawnAssumption DEF Advances, TurnIsRunning, TypeOK
<1>2. ASSUME NEW t \in Tasks, NEW presented \in BOOLEAN, Begin(t, presented)
      PROVE  TurnIsRunning'
  BY <1>2, BeginStarts, SpawnAssumption DEF TurnIsRunning, TypeOK, Synchronous
<1>3. CASE Crash
  BY <1>3, SpawnAssumption DEF Crash, TurnIsRunning, Synchronous
<1>4. CASE UNCHANGED <<step, turn>>
  BY <1>4 DEF TurnIsRunning
<1> QED BY <1>1, <1>2, <1>3, <1>4, OthersLeaveHandlers

\* No handler holds the event loop while it waits (runs between two awaits).
THEOREM TurnAlwaysRuns == Spec => []TurnIsRunning
<1>1. Init => TurnIsRunning
  BY SpawnAssumption DEF Init, TurnIsRunning, Synchronous
<1> QED BY <1>1, TurnStep, Typing, PTL DEF Spec

\* A handler takes at most ten continuations to its end, whatever other handlers,
\* requests and processes do in between (spawnParallelTransaction).
THEOREM HandlersFinish == Spec => HandlersAdvance
<1>1. ASSUME TypeOK, TurnIsRunning, OneCreationPerProject, [Next]_vars,
             NEW t \in Tasks, step'[t] # step[t]
      PROVE  \/ Left(step'[t]) < Left(step[t])
             \/ step[t] = "idle" /\ step'[t] = "prepare"
  <2>1. ASSUME NEW u \in Tasks, Handler(u) PROVE Left(step'[t]) < Left(step[t])
    <3>1. PICK s \in Steps : Advances(u, s)
      BY <1>1, <2>1, HandlerAdvances DEF TurnIsRunning
    <3> QED BY <1>1, <3>1 DEF Advances, TypeOK
  <2>2. ASSUME NEW u \in Tasks, NEW presented \in BOOLEAN, Begin(u, presented)
        PROVE  step[t] = "idle" /\ step'[t] = "prepare"
    <3>1. step' = [step EXCEPT ![u] = "prepare"]
      BY <1>1, <2>2, BeginStarts
    <3>2. u = t /\ step'[t] = "prepare"
      BY <1>1, <3>1 DEF TypeOK
    <3>3. RepoOf[u] \notin active
      BY <2>2 DEF Begin, Admits
    <3> QED BY <1>1, <3>2, <3>3 DEF OneCreationPerProject, Creating
  <2>3. CASE Crash
    <3>1. step'[t] = "idle" /\ step[t] \in Steps
      BY <1>1, <2>3 DEF Crash, TypeOK
    <3> QED BY <1>1, <3>1 DEF Left, Steps
  <2> QED BY <1>1, <2>1, <2>2, <2>3, OthersLeaveHandlers
<1>2. TypeOK /\ TurnIsRunning /\ OneCreationPerProject /\ [Next]_vars =>
        [\A t \in Tasks : step'[t] # step[t] =>
            \/ Left(step'[t]) < Left(step[t])
            \/ step[t] = "idle" /\ step'[t] = "prepare"]_vars
  BY <1>1
<1> QED BY <1>2, Typing, TurnAlwaysRuns, Exclusion, PTL DEF Spec, HandlersAdvance

\* The lock of a project always has a handler that will give it back (the
\* finally clause of POST /parallel), also after a crash: with HandlersFinish,
\* all that ProjectReleased takes but fairness.
THEOREM LocksHaveHandlers == Spec => []LocksAreWorkedOff
<1>1. Init => LocksAreWorkedOff
  BY DEF Init, LocksAreWorkedOff
<1>2. TypeOK /\ TurnIsRunning /\ LocksAreWorkedOff /\ [Next]_vars => LocksAreWorkedOff'
  <2> SUFFICES ASSUME TypeOK, TurnIsRunning, LocksAreWorkedOff, [Next]_vars,
                      NEW r \in active'
               PROVE  \E t \in Tasks : Creating(t)' /\ RepoOf[t] = r
    BY DEF LocksAreWorkedOff
  <2> USE DEF Creating, TypeOK
  <2>1. ASSUME NEW u \in Tasks, Handler(u) PROVE \E t \in Tasks : Creating(t)' /\ RepoOf[t] = r
    <3>1. PICK s \in Steps : Advances(u, s)
      BY <2>1, HandlerAdvances DEF TurnIsRunning
    <3>2. r \in active
      BY <3>1 DEF Advances
    <3>3. PICK t \in Tasks : Creating(t) /\ RepoOf[t] = r
      BY <3>2 DEF LocksAreWorkedOff
    <3>4. s = "idle" => t # u
      BY <3>1, <3>3 DEF Advances
    <3>5. Creating(t)'
      BY <3>1, <3>3, <3>4 DEF Advances
    <3> QED BY <3>3, <3>5
  <2>2. ASSUME NEW u \in Tasks, NEW presented \in BOOLEAN, Begin(u, presented)
        PROVE  \E t \in Tasks : Creating(t)' /\ RepoOf[t] = r
    <3>1. CASE r = RepoOf[u]
      BY <2>2, <3>1, BeginStarts
    <3>2. CASE r # RepoOf[u]
      <4>1. PICK t \in Tasks : Creating(t) /\ RepoOf[t] = r
        BY <2>2, <3>2, BeginStarts DEF LocksAreWorkedOff
      <4> QED BY <2>2, <4>1, BeginStarts
    <3> QED BY <3>1, <3>2
  <2>3. CASE Crash
    BY <2>3 DEF Crash
  <2>4. CASE UNCHANGED <<active, step>>
    BY <2>4 DEF LocksAreWorkedOff
  <2> QED BY <2>1, <2>2, <2>3, <2>4, OthersLeaveHandlers
<1> QED BY <1>1, <1>2, Typing, TurnAlwaysRuns, PTL DEF Spec

\* Without a restart of the Dashboard every creation that is under way has a
\* handler: with HandlersFinish, all that CreationSettles takes but fairness.
THEOREM OnlyCrashesStrand == Spec => []StrandedByCrash
<1>1. Init => StrandedByCrash
  BY DEF Init, StrandedByCrash, Stranded, NoRecord, CreationStates
<1>2. ASSUME TypeOK, TurnIsRunning, StrandedByCrash, [Next]_vars, NEW t \in Tasks,
             Stranded(t)'
      PROVE  crashes' > 0
  <2> USE DEF StrandedByCrash, Stranded, Creating
  <2>1. ASSUME NEW u \in Tasks, Handler(u) PROVE crashes' > 0
    <3>1. PICK s \in Steps : Advances(u, s)
      BY <1>2, <2>1, HandlerAdvances DEF TurnIsRunning
    <3>2. CASE u = t
      BY <1>2, <3>1, <3>2 DEF Advances, TypeOK
    <3>3. CASE u # t
      BY <1>2, <3>1, <3>3 DEF Advances, TypeOK
    <3> QED BY <3>2, <3>3
  <2>2. ASSUME NEW u \in Tasks, NEW presented \in BOOLEAN, Begin(u, presented)
        PROVE  crashes' > 0
    BY <1>2, <2>2, BeginStarts DEF TypeOK
  <2>3. CASE Crash
    BY <1>2, <2>3 DEF Crash, TypeOK
  <2>4. CASE /\ UNCHANGED <<active, step, turn, crashes, launches, told, tree>>
             /\ \A u \in Tasks : journal'[u].state \in CreationStates
                                   <=> journal[u].state \in CreationStates
    BY <1>2, <2>4
  <2> QED BY <1>2, <2>1, <2>2, <2>3, <2>4, OthersLeaveHandlers
<1>3. TypeOK /\ TurnIsRunning /\ StrandedByCrash /\ [Next]_vars => StrandedByCrash'
  BY <1>2 DEF StrandedByCrash
<1> QED BY <1>1, <1>3, Typing, TurnAlwaysRuns, PTL DEF Spec

\* The handler of another task launches, tells and removes nothing of t.
LEMMA OthersLeaveWork ==
    ASSUME TypeOK, DistinctNames, NEW t \in Tasks, NEW u \in Tasks, u # t, Handler(u)
    PROVE  /\ launches'[t] = launches[t]
           /\ told'[t] = told[t]
           /\ tree'[NameOf[t]] = tree[NameOf[t]]
<1>1. NameOf[u] # NameOf[t]
  BY DEF DistinctNames
<1>2. UNCHANGED launches \/ launches' = [launches EXCEPT ![u] = @ + 1]
  BY DEF Handler, PrepareRefused, AddWorktree, AddWorktreeFails, RecordWorktree,
     Launch, LaunchFails, RecordSpawn, FindSession, RegisterTimeout, SendTask,
     SendFails, Commit, AbortWorker, RemoveWorktree, RecordFailure, outside, historyVars
<1>3. UNCHANGED told \/ \E s : told' = [told EXCEPT ![u] = s]
  BY DEF Handler, PrepareRefused, AddWorktree, AddWorktreeFails, RecordWorktree,
     Launch, LaunchFails, RecordSpawn, FindSession, RegisterTimeout, SendTask,
     SendFails, Commit, AbortWorker, RemoveWorktree, RecordFailure, outside, historyVars
<1>4. UNCHANGED tree \/ \E w : tree' = [tree EXCEPT ![NameOf[u]] = w]
  BY DEF Handler, PrepareRefused, AddWorktree, AddWorktreeFails, RecordWorktree,
     Launch, LaunchFails, RecordSpawn, FindSession, RegisterTimeout, SendTask,
     SendFails, Commit, AbortWorker, RemoveWorktree, RecordFailure, outside, historyVars
<1> QED BY <1>1, <1>2, <1>3, <1>4, SpawnAssumption DEF TypeOK

\* What a crash stranded stays as it was: no retry and no restart completes it,
\* fails it or cleans it up.  This is the general form of the counterexample of
\* run spawn_restart, for any number of tasks, repositories and crashes.
THEOREM StrandedForGood ==
    ASSUME DistinctNames PROVE Spec => StrandedStays
<1>1. ASSUME TypeOK, TurnIsRunning, [Next]_vars, NEW t \in Tasks, Stranded(t)
      PROVE  /\ Stranded(t)'
             /\ launches'[t] = launches[t]
             /\ told'[t] = told[t]
             /\ tree'[NameOf[t]] = tree[NameOf[t]]
  <2> USE DEF Stranded, Creating
  <2>1. ASSUME NEW u \in Tasks, Handler(u)
        PROVE  /\ u # t
               /\ Stranded(t)'
    <3>1. PICK s \in Steps : Advances(u, s)
      BY <1>1, <2>1, HandlerAdvances DEF TurnIsRunning
    <3>2. u # t
      BY <1>1, <3>1 DEF Advances, Left, Steps
    <3> QED BY <1>1, <3>1, <3>2 DEF Advances, TypeOK
  <2>2. ASSUME NEW u \in Tasks, NEW presented \in BOOLEAN, Begin(u, presented)
        PROVE  Stranded(t)' /\ UNCHANGED <<launches, told, tree>>
    BY <1>1, <2>2, BeginStarts DEF TypeOK
  <2>3. CASE Crash
    BY <1>1, <2>3 DEF Crash, historyVars
  <2>4. CASE /\ UNCHANGED <<active, step, turn, crashes, launches, told, tree>>
             /\ \A u \in Tasks : journal'[u].state \in CreationStates
                                   <=> journal[u].state \in CreationStates
    BY <1>1, <2>4
  <2> QED BY <1>1, <2>1, <2>2, <2>3, <2>4, OthersLeaveHandlers, OthersLeaveWork
<1>2. TypeOK /\ TurnIsRunning /\ [Next]_vars =>
        [\A t \in Tasks : Stranded(t) =>
            /\ Stranded(t)'
            /\ launches'[t] = launches[t]
            /\ told'[t] = told[t]
            /\ tree'[NameOf[t]] = tree[NameOf[t]]]_vars
  BY <1>1
<1> QED BY <1>2, Typing, TurnAlwaysRuns, PTL DEF Spec, StrandedStays
=============================================================================
