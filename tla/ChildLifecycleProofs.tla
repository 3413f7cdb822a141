------------------------ MODULE ChildLifecycleProofs ------------------------
(***************************************************************************)
(* Proofs about ChildLifecycle, for any set of tasks and repositories and  *)
(* any number of commits and crashes: the work of a child lands at most    *)
(* once and only after its review, outcomes are final, the history follows *)
(* the code, only a crash leaves an integration unfinished, the promises   *)
(* of the creation survive the composition, and creation, review and       *)
(* integration together implement ChildOutcome.                            *)
(***************************************************************************)
EXTENDS ChildLifecycle, ParallelSpawnProofs

Landing == {"merge", "cherry_pick"}
Late == {"awaiting_review", "integrating", "integrated", "retained"}

\* One holder at a time: a handler between two awaits, or an integration.
TurnInv ==
    \A t \in Tasks :
        /\ step[t] \in Synchronous => turn = t
        /\ istep[t] # "idle" => turn = t

\* What holds of a child in each state of its record and at each step of its
\* integration, also of one that a crash cut off.
LandInv(t) ==
    /\ istep[t] = "git" =>
          /\ journal[t].state = "integrating"
          /\ journal[t].strategy \in Landing
          /\ merges[t] = 0
    /\ istep[t] = "record" => journal[t].state = "integrating" /\ merges[t] = 1
    /\ istep[t] = "annotate" => journal[t].state = "integrated"
    /\ journal[t].state \in Late => reviewed[t] /\ told[t] = t
    /\ journal[t].state = "integrated" => merges[t] = 1
    /\ merges[t] > 0 =>
          /\ merges[t] = 1
          /\ journal[t].state \in {"integrating", "integrated"}
          /\ journal[t].strategy \in Landing
    /\ notes[t] > 0 => merges[t] = 1
    /\ journal[t].annotated => notes[t] > 0

ChildInv == ChildTypeOK /\ SpawnInv /\ TurnInv /\ \A t \in Tasks : LandInv(t)

-----------------------------------------------------------------------------
(* What the creation of a worker does to the rest *)

\* Types and SpawnInv hold at first, and no integration runs.
LEMMA ChildInvInit == ChildInit => ChildInv
<1> SUFFICES ASSUME ChildInit PROVE ChildInv
  OBVIOUS
<1>1. TypeOK /\ SpawnInv
  BY TypeInit, SpawnInvInit DEF ChildInit
<1>2. ChildTypeOK
  BY <1>1 DEF ChildInit, ChildTypeOK, IntegrationSteps
<1>3. TurnInv
  BY DEF ChildInit, Init, TurnInv, Synchronous
<1>4. ASSUME NEW t \in Tasks PROVE LandInv(t)
  <2>1. /\ journal[t].state = "absent"
        /\ ~journal[t].annotated
    BY DEF ChildInit, Init, NoRecord
  <2>2. istep[t] = "idle" /\ merges[t] = 0 /\ notes[t] = 0
    BY DEF ChildInit
  <2> QED BY <2>1, <2>2 DEF LandInv, Late
<1> QED BY <1>1, <1>2, <1>3, <1>4 DEF ChildInv

\* A step of a creation, a worker or the user leaves late records alone, makes
\* none, and keeps what the history of a child says.
LEMMA SpawnKeepsRecords ==
    ASSUME TypeOK, SpawnInv, [Next]_vars, NEW t \in Tasks
    PROVE  /\ \/ /\ journal'[t].state = journal[t].state
                 /\ journal'[t].strategy = journal[t].strategy
                 /\ journal'[t].annotated = journal[t].annotated
              \/ /\ journal[t].state \notin Late
                 /\ journal'[t].state \notin Late
                 /\ journal'[t].annotated => journal[t].annotated
           /\ told[t] = t => told'[t] = t
<1>1. TaskInv(t) /\ journal[t] \in TransactionRecord
  BY DEF SpawnInv, TypeOK
<1>2. step[t] # "idle" => journal[t].state \notin Late
  BY <1>1 DEF TaskInv, RecordInv, CreationStates, Late
<1>3. told[t] = t => step[t] \in {"idle", "commit"}
  BY <1>1 DEF TaskInv, DeliveryInv
<1> USE DEF outside, serverVars, historyVars
<1>4. ASSUME NEW u \in Tasks, Authorize(u) PROVE
        /\ u # t => journal'[t] = journal[t]
        /\ u = t => /\ journal[t].state \notin Late /\ journal'[t].state \notin Late
                    /\ ~journal'[t].annotated
        /\ told' = told
  BY <1>4 DEF Authorize, Update, TypeOK, Late, Preparing, NoRecord
<1>5. ASSUME NEW u \in Tasks, NEW presented \in BOOLEAN, Begin(u, presented) PROVE
        /\ u # t => journal'[t] = journal[t]
        /\ u = t => /\ journal[t].state \notin Late /\ journal'[t].state \notin Late
                    /\ ~journal'[t].annotated
        /\ told' = told
  BY <1>5 DEF Begin, Admits, Update, TypeOK, Late, Preparing, NoRecord
<1>6. ASSUME NEW u \in Tasks, ExpireToken(u) PROVE
        /\ journal'[t].state = journal[t].state
        /\ journal'[t].strategy = journal[t].strategy
        /\ journal'[t].annotated = journal[t].annotated
        /\ told' = told
  BY <1>6 DEF ExpireToken, Update, TypeOK, TransactionRecord
<1>7. ASSUME NEW u \in Tasks, NEW s \in {"worktree_created", "spawned", "complete", "failed"},
             SetState(u, s), step[u] # "idle", told' = told
      PROVE  /\ u # t => journal'[t] = journal[t]
             /\ u = t => /\ journal[t].state \notin Late /\ journal'[t].state \notin Late
                         /\ journal'[t].annotated = journal[t].annotated
  BY <1>2, <1>7 DEF SetState, Update, TypeOK, TransactionRecord, Late
<1>8. ASSUME NEW u \in Tasks, FindSession(u) PROVE
        /\ u # t => journal'[t] = journal[t]
        /\ u = t => /\ journal[t].state \notin Late /\ journal'[t].state \notin Late
                    /\ journal'[t].annotated = journal[t].annotated
        /\ told' = told
  BY <1>2, <1>8 DEF FindSession, Update, TypeOK, TransactionRecord, Late
<1>9. ASSUME NEW u \in Tasks, SendTask(u)
      PROVE  journal' = journal /\ (told[t] = t => told'[t] = t)
  BY <1>3, <1>9 DEF SendTask, TypeOK
<1>10. ASSUME NEW u \in Tasks, Handler(u) PROVE
        /\ \/ /\ journal'[t].state = journal[t].state
              /\ journal'[t].strategy = journal[t].strategy
              /\ journal'[t].annotated = journal[t].annotated
           \/ /\ journal[t].state \notin Late
              /\ journal'[t].state \notin Late
              /\ journal'[t].annotated => journal[t].annotated
        /\ told[t] = t => told'[t] = t
  <2>1. CASE RecordWorktree(u) \/ RecordSpawn(u) \/ Commit(u) \/ RecordFailure(u)
    <3>1. \E s \in {"worktree_created", "spawned", "complete", "failed"} :
              SetState(u, s) /\ step[u] # "idle" /\ told' = told
      BY <2>1 DEF RecordWorktree, RecordSpawn, Commit, RecordFailure
    <3> QED BY <1>7, <3>1
  <2>2. CASE FindSession(u)
    BY <1>8, <2>2
  <2>3. CASE SendTask(u)
    BY <1>9, <2>3
  <2>4. CASE PrepareRefused(u) \/ AddWorktree(u) \/ AddWorktreeFails(u) \/ Launch(u)
             \/ LaunchFails(u) \/ RegisterTimeout(u) \/ SendFails(u) \/ AbortWorker(u)
             \/ RemoveWorktree(u)
    <3>1. UNCHANGED <<journal, told>>
      BY <2>4 DEF PrepareRefused, AddWorktree, AddWorktreeFails, Launch, LaunchFails,
         RegisterTimeout, SendFails, AbortWorker, RemoveWorktree
    <3> QED BY <3>1
  <2> QED BY <1>10, <2>1, <2>2, <2>3, <2>4 DEF Handler
<1>11. ASSUME NEW u \in Tasks, Register(u) \/ WorkerEnds(u) PROVE UNCHANGED <<journal, told>>
  BY <1>11 DEF Register, WorkerEnds
<1>12. ASSUME NEW r \in Repos, EditPrimary(r) \/ CommitPrimary(r) \/ SwitchPrimary(r)
       PROVE UNCHANGED <<journal, told>>
  BY <1>12 DEF EditPrimary, CommitPrimary, SwitchPrimary
<1>13. CASE Crash
  BY <1>13 DEF Crash
<1>14. CASE UNCHANGED vars
  BY <1>14 DEF vars
<1> QED
  BY <1>4, <1>5, <1>6, <1>10, <1>11, <1>12, <1>13, <1>14 DEF Next, Request, Environment

\* A creation takes the event loop only where it is free and gives back only
\* its own turn.
LEMMA SpawnKeepsTurn ==
    ASSUME TypeOK, SpawnInv, TurnInv, UNCHANGED istep,
           \E t \in Tasks : Request(t) \/ Handler(t),
           \A t \in Tasks : istep[t] # "idle" => step[t] = "idle"
    PROVE  TurnInv'
<1> DEFINE Turns(t) ==
             /\ \A u \in Tasks : u # t => step'[u] = step[u]
             /\ step'[t] \in Synchronous => turn' = t
             /\ turn' # turn => turn \in {t, Nobody}
<1>1. ASSUME NEW t \in Tasks, Request(t) PROVE Turns(t) /\ turn = Nobody
  <2>1. CASE Authorize(t)
    BY <2>1 DEF Authorize, serverVars, TurnInv, TypeOK
  <2>2. CASE \E presented \in BOOLEAN : Begin(t, presented)
    BY <2>2 DEF Begin, Goto, TypeOK
  <2> QED BY <1>1, <2>1, <2>2 DEF Request
<1>2. ASSUME NEW t \in Tasks, Handler(t) PROVE Turns(t) /\ step[t] # "idle"
  <2> USE DEF TypeOK, TurnInv, Synchronous, Goto
  <2>1. CASE PrepareRefused(t)
    BY <2>1 DEF PrepareRefused
  <2>2. CASE AddWorktree(t)
    BY <2>2 DEF AddWorktree
  <2>3. CASE AddWorktreeFails(t)
    BY <2>3 DEF AddWorktreeFails
  <2>4. CASE RecordWorktree(t)
    BY <2>4 DEF RecordWorktree
  <2>5. CASE Launch(t)
    BY <2>5 DEF Launch
  <2>6. CASE LaunchFails(t)
    BY <2>6 DEF LaunchFails
  <2>7. CASE RecordSpawn(t)
    BY <2>7 DEF RecordSpawn
  <2>8. CASE FindSession(t)
    BY <2>8 DEF FindSession
  <2>9. CASE RegisterTimeout(t)
    BY <2>9 DEF RegisterTimeout
  <2>10. CASE SendTask(t)
    BY <2>10 DEF SendTask
  <2>11. CASE SendFails(t)
    BY <2>11 DEF SendFails
  <2>12. CASE Commit(t)
    BY <2>12 DEF Commit
  <2>13. CASE AbortWorker(t)
    BY <2>13 DEF AbortWorker
  <2>14. CASE RemoveWorktree(t)
    BY <2>14 DEF RemoveWorktree
  <2>15. CASE RecordFailure(t)
    BY <2>15 DEF RecordFailure
  <2> QED BY <1>2, <2>1, <2>2, <2>3, <2>4, <2>5, <2>6, <2>7,
            <2>8, <2>9, <2>10, <2>11, <2>12, <2>13, <2>14, <2>15 DEF Handler
<1>3. ASSUME NEW t \in Tasks, Turns(t), turn = Nobody \/ step[t] # "idle"
      PROVE  TurnInv'
  <2>1. Nobody \notin Tasks
    BY SpawnAssumption
  <2>2. ASSUME NEW u \in Tasks PROVE (step[u] \in Synchronous => turn = u)
                                  /\ (istep[u] # "idle" => turn = u)
    BY DEF TurnInv
  <2>3. ASSUME NEW u \in Tasks, step'[u] \in Synchronous PROVE turn' = u
    BY <1>3, <2>1, <2>2, <2>3
  <2>4. ASSUME NEW u \in Tasks, istep'[u] # "idle" PROVE turn' = u
    BY <1>3, <2>1, <2>2, <2>4
  <2> QED BY <2>3, <2>4 DEF TurnInv
<1> QED BY <1>1, <1>2, <1>3

-----------------------------------------------------------------------------
(* What the requests about a child do to the rest *)

\* A new record of a child with the task, with the same session and base,
\* disturbs nothing that the creation relies on.
LEMMA RecordKept ==
    ASSUME TypeOK, SpawnInv, NEW t \in Tasks, told[t] = t, step[t] = "idle",
           NEW record \in TransactionRecord, Update(t, record),
           record.state \in LifecycleStates \cup {"integrating"},
           record.session = journal[t].session, record.base = journal[t].base,
           UNCHANGED <<active, step, allowDirty, tree, sess, historyVars, crashes>>,
           turn' \in Tasks \cup {Nobody}, primary' \in [Repos -> Checkout]
    PROVE  TypeOK' /\ SpawnInv'
<1> USE DEF Update, historyVars
<1>1. TypeOK'
  BY DEF TypeOK
<1>2. TaskInv(t)
  BY DEF SpawnInv
<1>3. /\ journal'[t].state \in LifecycleStates \cup {"integrating"}
      /\ journal'[t].session = journal[t].session
      /\ journal'[t].base = journal[t].base
  BY DEF TypeOK
<1>4. TaskInv(t)'
  BY <1>2, <1>3 DEF TaskInv, ProcessInv, RecordInv, DeliveryInv, GrantInv,
     OwnsWorktree, LifecycleStates
<1>5. ASSUME NEW u \in Tasks, u # t PROVE TaskUnchanged(u)
  BY <1>5 DEF TaskUnchanged, TypeOK
<1>6. ASSUME NEW u \in Tasks, u # t PROVE TaskInv(u)'
  BY <1>5, <1>6, Frame DEF SpawnInv
<1> QED BY <1>1, <1>4, <1>6 DEF SpawnInv

\* What LandInv says of a task is kept by a step that leaves the task alone.
LEMMA LandFrame ==
    ASSUME NEW t \in Tasks, LandInv(t),
           journal'[t] = journal[t], istep'[t] = istep[t], merges'[t] = merges[t],
           notes'[t] = notes[t], reviewed'[t] = reviewed[t], told[t] = t => told'[t] = t
    PROVE  LandInv(t)'
  BY DEF LandInv

\* A child that is not offered for review or beyond has not landed and is not
\* noted in the history; one in integration or beyond is no longer created.
LEMMA LandFacts ==
    ASSUME ChildInv, NEW t \in Tasks
    PROVE  /\ journal[t].state \notin Late =>
                 /\ istep[t] = "idle"
                 /\ merges[t] = 0
                 /\ notes[t] = 0
                 /\ ~journal[t].annotated
           /\ journal[t].state \in Late \cup {"complete"} => told[t] = t /\ step[t] = "idle"
           /\ istep[t] # "idle" => journal[t].state \in Late
           /\ journal[t].state \in {"awaiting_review", "retained"} =>
                 merges[t] = 0 /\ istep[t] = "idle"
<1>1. TaskInv(t) /\ LandInv(t)
  BY DEF ChildInv, SpawnInv
<1>2. istep[t] \in IntegrationSteps /\ merges[t] \in Nat /\ notes[t] \in Nat
  BY DEF ChildInv, ChildTypeOK
<1>3. journal[t].annotated \in BOOLEAN
  BY DEF ChildInv, ChildTypeOK, TypeOK, TransactionRecord
<1>4. istep[t] # "idle" => journal[t].state \in Late
  BY <1>1, <1>2 DEF LandInv, Late, IntegrationSteps
<1>5. journal[t].state \notin {"integrating", "integrated"} => merges[t] = 0
  BY <1>1, <1>2 DEF LandInv
<1>6. journal[t].state \notin Late => notes[t] = 0
  BY <1>1, <1>2, <1>5 DEF LandInv, Late
<1>7. journal[t].state \in Late \cup {"complete"} => told[t] = t /\ step[t] = "idle"
  BY <1>1 DEF LandInv, TaskInv, DeliveryInv, RecordInv, CreationStates, Late,
     LifecycleStates
<1>8. journal[t].state \in {"awaiting_review", "retained"} => istep[t] = "idle"
  BY <1>1, <1>2 DEF LandInv, IntegrationSteps
<1>9. journal[t].state \notin Late => ~journal[t].annotated
  BY <1>1, <1>2, <1>6 DEF LandInv
<1> QED BY <1>4, <1>5, <1>6, <1>7, <1>8, <1>9 DEF Late

\* The creation of workers, the processes and the user keep ChildInv.
LEMMA SpawnStepInv == ChildInv /\ SpawnStep => ChildInv'
<1> SUFFICES ASSUME ChildInv, SpawnStep PROVE ChildInv'
  OBVIOUS
<1>1. [Next]_vars /\ UNCHANGED childVars
  BY DEF SpawnStep, Next
<1>2. TypeOK /\ SpawnInv
  BY DEF ChildInv, ChildTypeOK
<1>3. TypeOK' /\ SpawnInv'
  BY <1>1, <1>2, TypeStep, SpawnInvStep, LifecycleAssumption
<1>4. ChildTypeOK'
  BY <1>1, <1>3 DEF ChildInv, ChildTypeOK, childVars
<1>5. TurnInv'
  <2>1. CASE \E t \in Tasks : Request(t) \/ Handler(t)
    <3>1. \A t \in Tasks : istep[t] # "idle" => step[t] = "idle"
      BY LandFacts
    <3> QED BY <1>1, <1>2, <2>1, <3>1, SpawnKeepsTurn DEF ChildInv, childVars
  <2>2. CASE Environment
    <3>1. UNCHANGED <<step, turn>>
      BY <2>2 DEF Environment, ExpireToken, Register, WorkerEnds, EditPrimary,
         CommitPrimary, SwitchPrimary, serverVars
    <3> QED BY <1>1, <3>1 DEF ChildInv, TurnInv, childVars
  <2> QED BY <2>1, <2>2 DEF SpawnStep
<1>6. ASSUME NEW t \in Tasks PROVE LandInv(t)'
  <2>1. LandInv(t)
    BY DEF ChildInv
  <2>2. /\ istep'[t] = istep[t] /\ merges'[t] = merges[t] /\ notes'[t] = notes[t]
        /\ reviewed'[t] = reviewed[t]
    BY <1>1 DEF childVars
  <2>3. told[t] = t => told'[t] = t
    BY <1>1, <1>2, SpawnKeepsRecords
  <2>4. CASE /\ journal'[t].state = journal[t].state
             /\ journal'[t].strategy = journal[t].strategy
             /\ journal'[t].annotated = journal[t].annotated
    BY <2>1, <2>2, <2>3, <2>4 DEF LandInv
  <2>5. CASE /\ journal[t].state \notin Late
             /\ journal'[t].state \notin Late
             /\ journal'[t].annotated => journal[t].annotated
    <3>1. /\ istep'[t] = "idle" /\ merges'[t] = 0 /\ notes'[t] = 0
          /\ ~journal'[t].annotated
      BY <2>2, <2>5, LandFacts
    <3> QED BY <2>5, <3>1 DEF LandInv, Late
  <2> QED BY <1>1, <1>2, <2>4, <2>5, SpawnKeepsRecords
<1> QED BY <1>3, <1>4, <1>5, <1>6 DEF ChildInv

\* The worker works, settles and is prompted again.
LEMMA WorkerInv == \A t \in Tasks : ChildInv /\ Worker(t) => ChildInv'
<1> SUFFICES ASSUME NEW t \in Tasks, ChildInv, Worker(t) PROVE ChildInv'
  OBVIOUS
<1>1. CASE WorkerSettles(t) \/ WorkerPrompted(t)
  <2>1. PICK from \in {"idle", "working"}, to \in {"idle", "working"} : SetSession(t, from, to)
    BY <1>1 DEF WorkerSettles, WorkerPrompted
  <2> USE <2>1 DEF SetSession, serverVars, historyVars, childVars
  <2>2. TypeOK' /\ ChildTypeOK'
    BY DEF ChildInv, ChildTypeOK, TypeOK, SessionStates
  <2>3. TaskInv(t)
    BY DEF ChildInv, SpawnInv
  <2>4. sess[t] # "none" /\ told[t] = t
    OBVIOUS
  <2>5. TaskInv(t)'
    BY <2>3, <2>4 DEF TaskInv, ProcessInv, RecordInv, DeliveryInv, GrantInv,
       Untouched, OwnsWorktree
  <2>6. ASSUME NEW u \in Tasks, u # t PROVE TaskUnchanged(u)
    BY <2>6 DEF TaskUnchanged, ChildInv, TypeOK
  <2>7. ASSUME NEW u \in Tasks, u # t PROVE TaskInv(u)'
    BY <2>6, <2>7, Frame DEF ChildInv, SpawnInv
  <2>8. TurnInv' /\ \A u \in Tasks : LandInv(u)'
    BY DEF ChildInv, TurnInv, LandInv
  <2> QED BY <2>2, <2>5, <2>7, <2>8 DEF ChildInv, SpawnInv
<1>2. CASE WorkerEdits(t) \/ WorkerCommits(t)
  <2>1. UNCHANGED <<vars, istep, merges, notes, reviewed>>
    BY <1>2 DEF WorkerEdits, WorkerCommits, SetWork
  <2>2. UNCHANGED <<journal, active, step, turn, allowDirty, tree, sess, primary, held,
                    grant, launches, told, crashes, istep, merges, notes, reviewed>>
    BY <2>1 DEF vars, serverVars, outside, historyVars
  <2>3. work[t] \in [commits: Nat, dirty: BOOLEAN]
    BY DEF ChildInv, ChildTypeOK
  <2>4. PICK w \in [commits: Nat, dirty: BOOLEAN] : work' = [work EXCEPT ![t] = w]
    <3>1. CASE WorkerEdits(t)
      BY <2>3, <3>1 DEF WorkerEdits, SetWork
    <3>2. CASE WorkerCommits(t)
      <4>1. [commits |-> work[t].commits + 1, dirty |-> FALSE]
                \in [commits: Nat, dirty: BOOLEAN]
        BY <2>3
      <4> QED BY <3>2, <4>1 DEF WorkerCommits, SetWork
    <3> QED BY <1>2, <3>1, <3>2
  <2>5. work' \in [Tasks -> [commits: Nat, dirty: BOOLEAN]]
    BY <2>4 DEF ChildInv, ChildTypeOK
  <2>6. TypeOK'
    BY <2>2 DEF ChildInv, ChildTypeOK, TypeOK
  <2>7. ChildTypeOK'
    BY <2>2, <2>5, <2>6 DEF ChildInv, ChildTypeOK
  <2>8. ASSUME NEW u \in Tasks PROVE TaskInv(u)'
    BY <2>2, Frame DEF TaskUnchanged, ChildInv, SpawnInv
  <2>9. TurnInv' /\ \A u \in Tasks : LandInv(u)'
    BY <2>2 DEF ChildInv, TurnInv, LandInv
  <2> QED BY <2>7, <2>6, <2>8, <2>9 DEF ChildInv, SpawnInv
<1> QED BY <1>1, <1>2 DEF Worker

-----------------------------------------------------------------------------
(* Review and integration *)

\* A settled child becomes reviewable.
LEMMA ReviewInv == \A t \in Tasks : ChildInv /\ Review(t) => ChildInv'
<1> SUFFICES ASSUME NEW t \in Tasks, ChildInv, Review(t) PROVE ChildInv'
  OBVIOUS
<1> USE DEF Review, SetState, serverVars, outside, historyVars
<1>1. TypeOK /\ SpawnInv /\ LandInv(t) /\ journal[t] \in TransactionRecord
  BY DEF ChildInv, ChildTypeOK, TypeOK
<1>2. /\ told[t] = t /\ step[t] = "idle" /\ istep[t] = "idle"
      /\ merges[t] = 0 /\ notes[t] = 0 /\ ~journal[t].annotated
  BY LandFacts DEF Late
<1> DEFINE record == [journal[t] EXCEPT !.state = "awaiting_review"]
<1>3. /\ record \in TransactionRecord
      /\ record.state = "awaiting_review"
      /\ record.session = journal[t].session
      /\ record.base = journal[t].base
      /\ record.annotated = journal[t].annotated
  BY <1>1 DEF TransactionRecord, TransactionState, LifecycleStates
<1>4. Update(t, record)
  OBVIOUS
<1>5. turn' \in Tasks \cup {Nobody} /\ primary' \in [Repos -> Checkout]
  BY <1>1 DEF TypeOK
<1> HIDE DEF record
<1>6. TypeOK' /\ SpawnInv'
  BY <1>1, <1>2, <1>3, <1>4, <1>5, RecordKept DEF LifecycleStates
<1>7. ChildTypeOK'
  BY <1>6 DEF ChildInv, ChildTypeOK
<1>8. TurnInv'
  BY DEF ChildInv, TurnInv
<1>9. LandInv(t)'
  <2>1. journal'[t] = record
    BY <1>1, <1>4 DEF Update, TypeOK
  <2>2. reviewed'[t]
    BY DEF ChildInv, ChildTypeOK
  <2> QED BY <1>2, <1>3, <2>1, <2>2 DEF LandInv, Late
<1>10. ASSUME NEW u \in Tasks, u # t PROVE LandInv(u)'
  BY <1>1, <1>4, <1>10, LandFrame DEF Update, ChildInv, ChildTypeOK, TypeOK
<1> QED BY <1>6, <1>7, <1>8, <1>9, <1>10 DEF ChildInv

\* A branch is retained, which nothing changes but the record.
LEMMA LeaveBranchInv == \A t \in Tasks : ChildInv /\ LeaveBranch(t) => ChildInv'
<1> SUFFICES ASSUME NEW t \in Tasks, ChildInv, LeaveBranch(t) PROVE ChildInv'
  OBVIOUS
<1> USE DEF LeaveBranch, Integrable, serverVars, outside, historyVars, childVars
<1>1. TypeOK /\ SpawnInv /\ LandInv(t) /\ journal[t] \in TransactionRecord
  BY DEF ChildInv, ChildTypeOK, TypeOK
<1>2. /\ told[t] = t /\ step[t] = "idle" /\ istep[t] = "idle" /\ merges[t] = 0
      /\ reviewed[t] /\ ~(notes[t] > 0) /\ ~journal[t].annotated
  BY <1>1, LandFacts DEF LandInv, Late
<1> DEFINE record == [journal[t] EXCEPT !.state = "retained", !.strategy = "leave_branch"]
<1>3. /\ record \in TransactionRecord
      /\ record.state = "retained"
      /\ record.session = journal[t].session
      /\ record.base = journal[t].base
      /\ record.annotated = journal[t].annotated
  BY <1>1 DEF TransactionRecord, TransactionState, LifecycleStates, Strategies
<1>4. Update(t, record)
  OBVIOUS
<1>5. turn' \in Tasks \cup {Nobody} /\ primary' \in [Repos -> Checkout]
  BY <1>1 DEF TypeOK
<1> HIDE DEF record
<1>6. TypeOK' /\ SpawnInv'
  BY <1>1, <1>2, <1>3, <1>4, <1>5, RecordKept DEF LifecycleStates
<1>7. ChildTypeOK' /\ TurnInv'
  BY <1>6 DEF ChildInv, ChildTypeOK, TurnInv
<1>8. LandInv(t)'
  <2>1. journal'[t] = record
    BY <1>1, <1>4 DEF Update, TypeOK
  <2> QED BY <1>2, <1>3, <2>1 DEF LandInv, Late
<1>9. ASSUME NEW u \in Tasks, u # t PROVE LandInv(u)'
  BY <1>1, <1>4, <1>9, LandFrame DEF Update, ChildInv, TypeOK
<1> QED BY <1>6, <1>7, <1>8, <1>9 DEF ChildInv

\* An integration begins: only this handler may now hold the event loop.
LEMMA StartIntegrationInv ==
    \A t \in Tasks, strategy \in Landing :
        ChildInv /\ StartIntegration(t, strategy) => ChildInv'
<1> SUFFICES ASSUME NEW t \in Tasks, NEW strategy \in Landing, ChildInv,
                    StartIntegration(t, strategy)
             PROVE  ChildInv'
  OBVIOUS
<1> USE DEF StartIntegration, Integrable, IGoto, outside, historyVars
<1>1. TypeOK /\ SpawnInv /\ LandInv(t) /\ journal[t] \in TransactionRecord
  BY DEF ChildInv, ChildTypeOK, TypeOK
<1>2. /\ told[t] = t /\ step[t] = "idle" /\ istep[t] = "idle" /\ merges[t] = 0
      /\ reviewed[t] /\ ~(notes[t] > 0) /\ ~journal[t].annotated
  BY <1>1, LandFacts DEF LandInv, Late
<1> DEFINE record == [journal[t] EXCEPT !.state = "integrating", !.strategy = strategy]
<1>3. /\ record \in TransactionRecord
      /\ record.state = "integrating"
      /\ record.strategy = strategy
      /\ record.session = journal[t].session
      /\ record.base = journal[t].base
      /\ record.annotated = journal[t].annotated
  BY <1>1 DEF TransactionRecord, TransactionState, Strategies, Landing
<1>4. Update(t, record)
  OBVIOUS
<1>5. turn' \in Tasks \cup {Nobody} /\ primary' \in [Repos -> Checkout]
  BY <1>1 DEF TypeOK
<1> HIDE DEF record
<1>6. TypeOK' /\ SpawnInv'
  BY <1>1, <1>2, <1>3, <1>4, <1>5, RecordKept
<1>7. ChildTypeOK'
  BY <1>6 DEF ChildInv, ChildTypeOK, IntegrationSteps
<1>8. TurnInv'
  BY SpawnAssumption DEF ChildInv, ChildTypeOK, TurnInv
<1>9. LandInv(t)'
  <2>1. journal'[t] = record
    BY <1>1, <1>4 DEF Update, TypeOK
  <2>2. istep'[t] = "git"
    BY DEF ChildInv, ChildTypeOK
  <2> QED BY <1>2, <1>3, <2>1, <2>2 DEF LandInv, Late
<1>10. ASSUME NEW u \in Tasks, u # t PROVE LandInv(u)'
  BY <1>1, <1>4, <1>10, LandFrame DEF Update, ChildInv, ChildTypeOK, TypeOK
<1> QED BY <1>6, <1>7, <1>8, <1>9, <1>10 DEF ChildInv

\* Git puts the work on the checkout, once.
LEMMA GitIntegratesInv == \A t \in Tasks : ChildInv /\ GitIntegrates(t) => ChildInv'
<1> SUFFICES ASSUME NEW t \in Tasks, ChildInv, GitIntegrates(t) PROVE ChildInv'
  OBVIOUS
<1> USE DEF GitIntegrates, IGoto, serverVars, historyVars
<1>1. TypeOK /\ SpawnInv /\ LandInv(t) /\ RepoOf[t] \in Repos
  BY SpawnAssumption DEF ChildInv, ChildTypeOK
<1>2. primary' \in [Repos -> Checkout]
  <2> DEFINE r == RepoOf[t]
             landsOn == IF work[t].commits > 0 THEN {currentBranch(r)} ELSE {}
             tips == [b \in Branches |-> IF b \in landsOn THEN primary[r].tips[b] + 1
                                         ELSE primary[r].tips[b]]
  <2>1. primary[r] \in Checkout
    BY <1>1 DEF TypeOK
  <2>2. tips \in [Branches -> Nat]
    <3>1. \A b \in Branches : primary[r].tips[b] \in Nat
      BY <2>1 DEF Checkout
    <3> HIDE DEF landsOn
    <3> QED BY <3>1
  <2>3. primary' = [primary EXCEPT ![r].tips = tips]
    OBVIOUS
  <2> HIDE DEF tips
  <2>4. [primary[r] EXCEPT !.tips = tips] \in Checkout
    BY <2>1, <2>2 DEF Checkout
  <2> QED BY <1>1, <2>3, <2>4 DEF TypeOK
<1>3. TypeOK'
  BY <1>1, <1>2 DEF TypeOK
<1>4. ASSUME NEW u \in Tasks PROVE TaskInv(u)'
  BY Frame DEF TaskUnchanged, ChildInv, SpawnInv
<1>5. merges'[t] = 1 /\ merges' \in [Tasks -> Nat]
  BY <1>1 DEF LandInv, ChildInv, ChildTypeOK
<1>6. istep'[t] = "record" /\ istep' \in [Tasks -> IntegrationSteps]
  BY DEF ChildInv, ChildTypeOK, IntegrationSteps
<1>7. ChildTypeOK'
  BY <1>3, <1>5, <1>6 DEF ChildInv, ChildTypeOK
<1>8. TurnInv'
  BY <1>6 DEF ChildInv, ChildTypeOK, TurnInv
<1>9. LandInv(t)'
  BY <1>1, <1>5, <1>6 DEF LandInv, Late
<1>10. ASSUME NEW u \in Tasks, u # t PROVE LandInv(u)'
  BY <1>10, LandFrame DEF ChildInv, ChildTypeOK
<1> QED BY <1>3, <1>4, <1>7, <1>8, <1>9, <1>10 DEF ChildInv, SpawnInv

\* Git refuses: the child is back in review and the event loop is free.
LEMMA GitFailsInv == \A t \in Tasks : ChildInv /\ GitFails(t) => ChildInv'
<1> SUFFICES ASSUME NEW t \in Tasks, ChildInv, GitFails(t) PROVE ChildInv'
  OBVIOUS
<1> USE DEF GitFails, IGoto, historyVars
<1>1. TypeOK /\ SpawnInv /\ TurnInv /\ LandInv(t) /\ journal[t] \in TransactionRecord
  BY DEF ChildInv, ChildTypeOK, TypeOK
<1>2. /\ told[t] = t /\ step[t] = "idle" /\ merges[t] = 0
      /\ reviewed[t] /\ ~(notes[t] > 0) /\ ~journal[t].annotated
  BY <1>1, LandFacts DEF LandInv, Late
<1> DEFINE record == [journal[t] EXCEPT !.state = "awaiting_review", !.strategy = "none"]
<1>3. /\ record \in TransactionRecord
      /\ record.state = "awaiting_review"
      /\ record.session = journal[t].session
      /\ record.base = journal[t].base
      /\ record.annotated = journal[t].annotated
  BY <1>1 DEF TransactionRecord, TransactionState, Strategies, LifecycleStates
<1>4. Update(t, record)
  OBVIOUS
<1> HIDE DEF record
<1>5. turn' \in Tasks \cup {Nobody}
  OBVIOUS
<1>6. primary' \in [Repos -> Checkout]
  <2>1. PICK stuck \in BOOLEAN :
           primary' = [primary EXCEPT ![RepoOf[t]].dirty = @ \/ stuck]
    OBVIOUS
  <2>2. primary[RepoOf[t]] \in Checkout
    BY <1>1, SpawnAssumption DEF TypeOK
  <2>3. (primary[RepoOf[t]].dirty \/ stuck) \in BOOLEAN
    BY ZenonT(10)
  <2> DEFINE dirty == primary[RepoOf[t]].dirty \/ stuck
  <2>4. primary' = [primary EXCEPT ![RepoOf[t]].dirty = dirty]
    BY <2>1
  <2> HIDE DEF dirty
  <2>5. dirty \in BOOLEAN
    BY <2>3 DEF dirty
  <2>6. [primary[RepoOf[t]] EXCEPT !.dirty = dirty] \in Checkout
    BY <2>2, <2>5 DEF Checkout
  <2> QED BY <1>1, <2>4, <2>6, SpawnAssumption DEF TypeOK
<1>7. TypeOK' /\ SpawnInv'
  BY <1>1, <1>2, <1>3, <1>4, <1>5, <1>6, RecordKept DEF LifecycleStates
<1>8. ChildTypeOK'
  BY <1>7 DEF ChildInv, ChildTypeOK, IntegrationSteps
<1>9. TurnInv'
  BY <1>1, <1>2, SpawnAssumption DEF ChildInv, ChildTypeOK, TurnInv, Synchronous
<1>10. LandInv(t)'
  <2>1. journal'[t] = record /\ istep'[t] = "idle"
    BY <1>1, <1>4 DEF Update, TypeOK, ChildInv, ChildTypeOK
  <2> QED BY <1>2, <1>3, <2>1 DEF LandInv, Late
<1>11. ASSUME NEW u \in Tasks, u # t PROVE LandInv(u)'
  BY <1>1, <1>4, <1>11, LandFrame DEF Update, ChildInv, ChildTypeOK, TypeOK
<1> QED BY <1>7, <1>8, <1>9, <1>10, <1>11 DEF ChildInv

\* The journal calls a child integrated after Git did.
LEMMA RecordIntegratedInv == \A t \in Tasks : ChildInv /\ RecordIntegrated(t) => ChildInv'
<1> SUFFICES ASSUME NEW t \in Tasks, ChildInv, RecordIntegrated(t) PROVE ChildInv'
  OBVIOUS
<1> USE DEF RecordIntegrated, IGoto, outside, historyVars
<1>1. TypeOK /\ SpawnInv /\ LandInv(t) /\ journal[t] \in TransactionRecord
  BY DEF ChildInv, ChildTypeOK, TypeOK
<1>2. told[t] = t /\ step[t] = "idle" /\ merges[t] = 1 /\ reviewed[t]
  BY <1>1, LandFacts DEF LandInv, Late
<1>3. journal[t].strategy \in Landing
  BY <1>1, <1>2 DEF LandInv
<1> DEFINE record == [journal[t] EXCEPT !.state = "integrated", !.annotated = FALSE]
<1>4. /\ record \in TransactionRecord
      /\ record.state = "integrated"
      /\ record.strategy = journal[t].strategy
      /\ record.session = journal[t].session
      /\ record.base = journal[t].base
      /\ ~record.annotated
  BY <1>1 DEF TransactionRecord, TransactionState, LifecycleStates
<1>5. Update(t, record)
  OBVIOUS
<1>6. turn' \in Tasks \cup {Nobody} /\ primary' \in [Repos -> Checkout]
  BY <1>1 DEF TypeOK
<1> HIDE DEF record
<1>7. TypeOK' /\ SpawnInv'
  BY <1>1, <1>2, <1>4, <1>5, <1>6, RecordKept DEF LifecycleStates
<1>8. istep'[t] = "annotate" /\ istep' \in [Tasks -> IntegrationSteps]
  BY DEF ChildInv, ChildTypeOK, IntegrationSteps
<1>9. ChildTypeOK'
  BY <1>7, <1>8 DEF ChildInv, ChildTypeOK
<1>10. TurnInv'
  BY DEF ChildInv, ChildTypeOK, TurnInv
<1>11. LandInv(t)'
  <2>1. journal'[t] = record
    BY <1>1, <1>5 DEF Update, TypeOK
  <2> QED BY <1>1, <1>2, <1>3, <1>4, <1>8, <2>1 DEF LandInv, Late
<1>12. ASSUME NEW u \in Tasks, u # t PROVE LandInv(u)'
  BY <1>1, <1>5, <1>12, LandFrame DEF Update, ChildInv, ChildTypeOK, TypeOK
<1> QED BY <1>7, <1>9, <1>10, <1>11, <1>12 DEF ChildInv

\* The request fails because the commit that landed cannot be read.
LEMMA HeadUnreadInv == \A t \in Tasks : ChildInv /\ HeadUnread(t) => ChildInv'
<1> SUFFICES ASSUME NEW t \in Tasks, ChildInv, HeadUnread(t) PROVE ChildInv'
  OBVIOUS
<1>1. TypeOK /\ SpawnInv /\ istep \in [Tasks -> IntegrationSteps]
  BY DEF ChildInv, ChildTypeOK
<1>2. /\ UNCHANGED <<journal, active, step, allowDirty, tree, sess, primary, held,
                     grant, launches, told, crashes, work, merges, notes, reviewed>>
      /\ istep' = [istep EXCEPT ![t] = "idle"]
      /\ turn' = Nobody
  BY DEF HeadUnread, IGoto, outside, historyVars
<1>3. TypeOK'
  BY <1>1, <1>2 DEF TypeOK
<1>4. istep' \in [Tasks -> IntegrationSteps]
  BY <1>1, <1>2 DEF IntegrationSteps
<1>5. ChildTypeOK'
  BY <1>2, <1>3, <1>4 DEF ChildInv, ChildTypeOK
<1>6. ASSUME NEW u \in Tasks PROVE TaskInv(u)'
  BY <1>2, Frame DEF TaskUnchanged, ChildInv, SpawnInv
<1>7. step[t] = "idle"
  <2>1. journal[t].state \in Late
    BY DEF HeadUnread, ChildInv, LandInv, Late
  <2> QED BY <2>1, LandFacts
<1>8. TurnInv'
  <2>1. TypeOK /\ TurnInv /\ Nobody \notin Tasks
    BY SpawnAssumption DEF ChildInv, ChildTypeOK
  <2>2. istep[t] = "record"
    BY DEF HeadUnread
  <2> QED BY <1>1, <1>2, <1>7, <2>1, <2>2 DEF TurnInv, Synchronous
<1>9. ASSUME NEW u \in Tasks PROVE LandInv(u)'
  BY <1>1, <1>2 DEF ChildInv, LandInv
<1> QED BY <1>5, <1>6, <1>8, <1>9, <1>3 DEF ChildInv, SpawnInv

\* The history of a child that landed is annotated, or not, at the end of its
\* integration or at a later request.
LEMMA AnnotationInv ==
    \A t \in Tasks :
        /\ ChildInv /\ journal[t].state = "integrated" /\ recordAnnotation(t)
        /\ UNCHANGED <<active, step, allowDirty, tree, outside, work, merges, reviewed>>
        /\ \/ istep[t] = "annotate" /\ IGoto(t, "idle") /\ turn' = Nobody
           \/ turn = Nobody /\ UNCHANGED <<istep, turn>>
        => ChildInv'
<1> SUFFICES ASSUME NEW t \in Tasks, ChildInv, journal[t].state = "integrated",
                    recordAnnotation(t),
                    UNCHANGED <<active, step, allowDirty, tree, outside, work, merges,
                                reviewed>>,
                    \/ istep[t] = "annotate" /\ IGoto(t, "idle") /\ turn' = Nobody
                    \/ turn = Nobody /\ UNCHANGED <<istep, turn>>
             PROVE  ChildInv'
  OBVIOUS
<1> USE DEF IGoto, outside, historyVars
<1>1. /\ TypeOK /\ SpawnInv /\ TurnInv /\ LandInv(t)
      /\ journal[t] \in TransactionRecord /\ notes[t] \in Nat /\ Nobody \notin Tasks
  BY SpawnAssumption DEF ChildInv, ChildTypeOK, TypeOK
<1>2. told[t] = t /\ step[t] = "idle" /\ merges[t] = 1 /\ reviewed[t]
  BY <1>1, LandFacts DEF LandInv, Late
<1>3. journal[t].strategy \in Landing
  BY <1>1, <1>2 DEF LandInv
<1>4. PICK emitted \in BOOLEAN :
        /\ notes' = [notes EXCEPT ![t] = @ + IF emitted THEN 1 ELSE 0]
        /\ Update(t, [journal[t] EXCEPT !.annotated = emitted])
  BY DEF recordAnnotation
<1> DEFINE record == [journal[t] EXCEPT !.annotated = emitted]
<1>5. /\ record \in TransactionRecord
      /\ record.state = "integrated"
      /\ record.strategy = journal[t].strategy
      /\ record.session = journal[t].session
      /\ record.base = journal[t].base
      /\ record.annotated = emitted
  BY <1>1 DEF TransactionRecord
<1>6. Update(t, record)
  BY <1>4
<1>7. turn' \in Tasks \cup {Nobody} /\ primary' \in [Repos -> Checkout]
  BY <1>1 DEF TypeOK
<1> HIDE DEF record
<1>8. TypeOK' /\ SpawnInv'
  BY <1>1, <1>2, <1>5, <1>6, <1>7, RecordKept DEF LifecycleStates
<1>9. notes' \in [Tasks -> Nat] /\ (emitted => notes'[t] > 0)
  BY <1>1, <1>4 DEF ChildInv, ChildTypeOK
<1>10. istep' \in [Tasks -> IntegrationSteps] /\ istep'[t] = "idle"
  BY <1>1 DEF ChildInv, ChildTypeOK, IntegrationSteps, TurnInv
<1>11. ChildTypeOK'
  BY <1>8, <1>9, <1>10 DEF ChildInv, ChildTypeOK
<1>12. TurnInv'
  BY <1>1, <1>2 DEF ChildInv, ChildTypeOK, TurnInv, Synchronous
<1>13. LandInv(t)'
  <2>1. journal'[t] = record
    BY <1>1, <1>6 DEF Update, TypeOK
  <2> QED BY <1>2, <1>3, <1>5, <1>9, <1>10, <2>1 DEF LandInv, Late
<1>14. ASSUME NEW u \in Tasks, u # t PROVE LandInv(u)'
  BY <1>1, <1>4, <1>6, <1>14, LandFrame DEF Update, ChildInv, ChildTypeOK, TypeOK
<1> QED BY <1>8, <1>11, <1>12, <1>13, <1>14 DEF ChildInv

\* A crash ends every handler and every integration where it stands.
LEMMA CrashInv ==
    ASSUME ChildInv, Crash, istep' = [t \in Tasks |-> "idle"],
           UNCHANGED <<work, merges, reviewed>>,
           \/ UNCHANGED notes
           \/ \E t \in Tasks : istep[t] = "annotate" /\ notes' = [notes EXCEPT ![t] = @ + 1]
    PROVE  ChildInv'
<1>1. TypeOK /\ SpawnInv
  BY DEF ChildInv, ChildTypeOK
<1>2. TypeOK' /\ SpawnInv'
  BY <1>1, TypeStep, SpawnInvStep, LifecycleAssumption DEF Next
<1>3. notes' \in [Tasks -> Nat]
  BY DEF ChildInv, ChildTypeOK
<1>4. ChildTypeOK'
  BY <1>2, <1>3 DEF ChildInv, ChildTypeOK, IntegrationSteps
<1>5. TurnInv'
  BY DEF Crash, TurnInv, Synchronous
<1>6. ASSUME NEW t \in Tasks PROVE LandInv(t)'
  <2>1. LandInv(t) /\ notes[t] \in Nat
    BY DEF ChildInv, ChildTypeOK
  <2>2. UNCHANGED <<journal, told>>
    BY DEF Crash, historyVars
  <2>3. notes'[t] = notes[t] \/ (istep[t] = "annotate" /\ notes'[t] = notes[t] + 1)
    BY DEF ChildInv, ChildTypeOK
  <2>4. (notes'[t] > 0 => merges[t] = 1) /\ (notes[t] > 0 => notes'[t] > 0)
    BY <2>1, <2>3 DEF LandInv
  <2> QED BY <2>1, <2>2, <2>4 DEF LandInv
<1> QED BY <1>2, <1>4, <1>5, <1>6 DEF ChildInv

\* Every step keeps ChildInv.
LEMMA ChildInvStep == ChildInv /\ [ChildNext]_allVars => ChildInv'
<1> SUFFICES ASSUME ChildInv, [ChildNext]_allVars PROVE ChildInv'
  OBVIOUS
<1>1. CASE SpawnStep
  BY <1>1, SpawnStepInv
<1>2. ASSUME NEW t \in Tasks, Worker(t) PROVE ChildInv'
  BY <1>2, WorkerInv
<1>3. ASSUME NEW t \in Tasks, LifecycleRequest(t) PROVE ChildInv'
  <2>1. CASE Review(t)
    BY <2>1, ReviewInv
  <2>2. CASE LeaveBranch(t)
    BY <2>2, LeaveBranchInv
  <2>3. ASSUME NEW strategy \in Landing, StartIntegration(t, strategy) PROVE ChildInv'
    BY <2>3, StartIntegrationInv
  <2>4. ASSUME NEW strategy \in Landing, RetryAnnotation(t, strategy) PROVE ChildInv'
    BY <2>4, AnnotationInv DEF RetryAnnotation, serverVars
  <2> QED BY <1>3, <2>1, <2>2, <2>3, <2>4 DEF LifecycleRequest, Landing
<1>4. ASSUME NEW t \in Tasks, Integration(t) PROVE ChildInv'
  <2>1. CASE GitIntegrates(t)
    BY <2>1, GitIntegratesInv
  <2>2. CASE GitFails(t)
    BY <2>2, GitFailsInv
  <2>3. CASE RecordIntegrated(t)
    BY <2>3, RecordIntegratedInv
  <2>4. CASE Annotate(t)
    <3>1. journal[t].state = "integrated"
      BY <2>4 DEF Annotate, ChildInv, LandInv
    <3> QED BY <2>4, <3>1, AnnotationInv DEF Annotate
  <2>5. CASE HeadUnread(t)
    BY <2>5, HeadUnreadInv
  <2> QED BY <1>4, <2>1, <2>2, <2>3, <2>4, <2>5 DEF Integration
<1>5. ASSUME NEW t \in Tasks, AnnotateThenCrash(t) PROVE ChildInv'
  BY <1>5, CrashInv DEF AnnotateThenCrash
<1>6. CASE ChildCrash
  BY <1>6, CrashInv DEF ChildCrash
<1>7. CASE UNCHANGED allVars
  <2>1. UNCHANGED vars /\ UNCHANGED childVars
    BY <1>7 DEF allVars
  <2>2. TypeOK' /\ SpawnInv'
    BY <2>1, TypeStep, SpawnInvStep, LifecycleAssumption DEF ChildInv, ChildTypeOK
  <2>3. ChildTypeOK' /\ TurnInv'
    BY <2>1, <2>2 DEF ChildInv, ChildTypeOK, TurnInv, childVars, vars, serverVars
  <2>4. ASSUME NEW t \in Tasks PROVE LandInv(t)'
    BY <2>1, LandFrame DEF ChildInv, childVars, vars, outside, historyVars
  <2> QED BY <2>2, <2>3, <2>4 DEF ChildInv
<1> QED BY <1>1, <1>2, <1>3, <1>4, <1>5, <1>6, <1>7 DEF ChildNext

-----------------------------------------------------------------------------
(* Theorems *)

LEMMA ChildInvariant == ChildSpec => []ChildInv
  BY ChildInvInit, ChildInvStep, PTL DEF ChildSpec

\* Records, sessions, integrations and histories keep their types.
THEOREM ChildTyping == ChildSpec => []ChildTypeOK
<1>1. ChildInv => ChildTypeOK
  BY DEF ChildInv
<1> QED BY <1>1, ChildInvariant, PTL

\* integrateChild puts the work of a child on the primary branch at most once,
\* and the journal says "integrated" only of a child that landed.
THEOREM LandsOnce == ChildSpec => []OutcomeMatchesGit
<1>1. ASSUME ChildInv, NEW t \in Tasks
      PROVE  /\ merges[t] <= 1
             /\ journal[t].state = "integrated" => merges[t] = 1
             /\ merges[t] = 1 => journal[t].state \in {"integrating", "integrated"}
  <2>1. LandInv(t) /\ merges[t] \in Nat
    BY <1>1 DEF ChildInv, ChildTypeOK
  <2>2. merges[t] <= 1
    BY <2>1 DEF LandInv
  <2> QED BY <2>1, <2>2 DEF LandInv
<1>2. ChildInv => OutcomeMatchesGit
  BY <1>1 DEF OutcomeMatchesGit
<1> QED BY <1>2, ChildInvariant, PTL

\* Only a reviewed child whose own worker has the task lands, and only with a
\* strategy that lands (INV-13).
THEOREM NothingLandsUnreviewed == ChildSpec => []NoUnreviewedMerge
<1>1. ChildInv => NoUnreviewedMerge
  <2> SUFFICES ASSUME ChildInv, NEW t \in Tasks, merges[t] > 0
               PROVE  /\ reviewed[t]
                      /\ told[t] = t
                      /\ journal[t].strategy \in Landing
    BY DEF NoUnreviewedMerge, Landing
  <2> QED BY DEF ChildInv, LandInv, Late
<1> QED BY <1>1, ChildInvariant, PTL

\* recordAnnotation: the history of the primary session follows the code.
THEOREM HistoryIsTrue == ChildSpec => []HistoryFollowsCode
<1>1. ChildInv => HistoryFollowsCode
  BY DEF ChildInv, LandInv, HistoryFollowsCode
<1> QED BY <1>1, ChildInvariant, PTL

\* A step of the lifecycle leaves a record or moves it as integrateChild does.
LEMMA LifecycleMoves ==
    ASSUME ChildInv, NEW t \in Tasks, LifecycleRequest(t) \/ Integration(t),
           NEW u \in Tasks, journal[u].state \in {"integrated", "retained"}
    PROVE  /\ journal'[u].state = journal[u].state
           /\ journal'[u].strategy = journal[u].strategy
<1>1. TypeOK /\ LandInv(t) /\ journal[t] \in TransactionRecord
  BY DEF ChildInv, ChildTypeOK, TypeOK
<1>2. CASE Review(t) \/ LeaveBranch(t) \/ \E strategy \in Landing : StartIntegration(t, strategy)
  <2>1. t # u /\ \E record : Update(t, record)
    BY <1>2 DEF Review, LeaveBranch, StartIntegration, Integrable, SetState
  <2> QED BY <1>1, <2>1 DEF Update, TypeOK
<1>3. ASSUME recordAnnotation(t)
      PROVE  /\ journal'[u].state = journal[u].state
             /\ journal'[u].strategy = journal[u].strategy
  BY <1>1, <1>3 DEF recordAnnotation, Update, TypeOK, TransactionRecord
<1>4. CASE GitIntegrates(t) \/ HeadUnread(t)
  BY <1>4 DEF GitIntegrates, HeadUnread
<1>5. CASE GitFails(t) \/ RecordIntegrated(t)
  <2>1. t # u /\ \E record : Update(t, record)
    BY <1>1, <1>5 DEF GitFails, RecordIntegrated, LandInv
  <2> QED BY <1>1, <2>1 DEF Update, TypeOK
<1> QED
  BY <1>2, <1>3, <1>4, <1>5
  DEF LifecycleRequest, Integration, Annotate, RetryAnnotation, Landing

\* An outcome that was recorded stays, whatever is asked or crashes later.
THEOREM OutcomesStay == ChildSpec => OutcomeFinal
<1>1. ASSUME ChildInv, [ChildNext]_allVars, NEW t \in Tasks,
             journal[t].state \in {"integrated", "retained"}
      PROVE  /\ journal'[t].state = journal[t].state
             /\ journal'[t].strategy = journal[t].strategy
  <2>1. CASE SpawnStep
    <3>1. [Next]_vars
      BY <2>1 DEF SpawnStep, Next
    <3> QED BY <1>1, <3>1, SpawnKeepsRecords DEF ChildInv, ChildTypeOK, Late
  <2>2. ASSUME NEW u \in Tasks, Worker(u) \/ AnnotateThenCrash(u) PROVE journal' = journal
    BY <2>2 DEF Worker, WorkerSettles, WorkerPrompted, SetSession, WorkerEdits,
       WorkerCommits, SetWork, AnnotateThenCrash, Crash, vars
  <2>3. ASSUME NEW u \in Tasks, LifecycleRequest(u) \/ Integration(u)
        PROVE  /\ journal'[t].state = journal[t].state
               /\ journal'[t].strategy = journal[t].strategy
    BY <1>1, <2>3, LifecycleMoves
  <2>4. CASE ChildCrash \/ UNCHANGED allVars
    BY <2>4 DEF ChildCrash, Crash, allVars, vars
  <2> QED BY <1>1, <2>1, <2>2, <2>3, <2>4 DEF ChildNext
<1>2. ChildInv /\ [ChildNext]_allVars =>
        [\A t \in Tasks :
            journal[t].state \in {"integrated", "retained"} =>
                /\ journal'[t].state = journal[t].state
                /\ journal'[t].strategy = journal[t].strategy]_allVars
  BY <1>1
<1> QED BY <1>2, ChildInvariant, PTL DEF ChildSpec, OutcomeFinal

-----------------------------------------------------------------------------
(* What creation promises survives what comes after it *)

LEMMA LockKept ==
    ChildInv /\ OneCreationPerProject /\ [ChildNext]_allVars => OneCreationPerProject'
<1> SUFFICES ASSUME ChildInv, OneCreationPerProject, [ChildNext]_allVars
             PROVE  OneCreationPerProject'
  OBVIOUS
<1>1. CASE [Next]_vars
  BY <1>1, LockStep DEF ChildInv, ChildTypeOK
<1>2. CASE UNCHANGED <<active, step>>
  BY <1>2 DEF OneCreationPerProject, Creating
<1>3. ASSUME NEW t \in Tasks, Worker(t) PROVE UNCHANGED <<active, step>>
  BY <1>3 DEF Worker, WorkerSettles, WorkerPrompted, SetSession, WorkerEdits,
     WorkerCommits, SetWork, vars, serverVars
<1>4. ASSUME NEW t \in Tasks, LifecycleRequest(t) PROVE UNCHANGED <<active, step>>
  BY <1>4 DEF LifecycleRequest, Review, LeaveBranch, StartIntegration, RetryAnnotation,
     serverVars
<1>5. ASSUME NEW t \in Tasks, Integration(t) PROVE UNCHANGED <<active, step>>
  BY <1>5 DEF Integration, GitIntegrates, GitFails, HeadUnread, RecordIntegrated,
     Annotate, serverVars
<1> QED
  BY <1>1, <1>2, <1>3, <1>4, <1>5
  DEF ChildNext, SpawnStep, ChildCrash, AnnotateThenCrash, Next, allVars

\* Reviews, integrations, annotations, busy workers and crashes in the middle of
\* them, all on the same journal, checkout and event loop, break none of the
\* promises of the creation (index.ts:560 beside lifecycle.ts:43).
CreationPromises ==
    /\ OneCreationPerProject
    /\ OneWorkerPerTask
    /\ CompleteIsReal
    /\ FailedLeavesNothing
    /\ DirtyStartAuthorized

\* The invariant of the creation holds in the composition, and its promises with
\* it; the exclusion is kept by every step of its own.
THEOREM CreationPromisesKept == ChildSpec => []CreationPromises
<1>1. ChildInit => OneCreationPerProject
  BY DEF ChildInit, Init, OneCreationPerProject, Creating
<1>2. ChildSpec => []OneCreationPerProject
  BY <1>1, LockKept, ChildInvariant, PTL DEF ChildSpec
<1>3. SpawnInv => OneWorkerPerTask
  BY DEF SpawnInv, TaskInv, ProcessInv, OneWorkerPerTask
<1>4. SpawnInv => CompleteIsReal
  BY SpawnAssumption DEF SpawnInv, TaskInv, DeliveryInv, OwnsWorktree, CompleteIsReal
<1>5. SpawnInv => FailedLeavesNothing
  BY SpawnAssumption DEF SpawnInv, TaskInv, RecordInv, DeliveryInv, FailedLeavesNothing
<1>6. SpawnInv => DirtyStartAuthorized
  BY DEF SpawnInv, TaskInv, GrantInv, DirtyStartAuthorized
<1>7. ChildInv /\ OneCreationPerProject => CreationPromises
  BY <1>3, <1>4, <1>5, <1>6 DEF ChildInv, CreationPromises
<1> QED BY <1>2, <1>7, ChildInvariant, PTL

-----------------------------------------------------------------------------
(* How an integration ends, short of fairness *)

\* The event loop is held by the handler or the integration whose piece is next
\* and by no other: creation and integration never wait for each other.
LoopIsRunning ==
    \A t \in Tasks : turn = t <=> step[t] \in Synchronous \/ istep[t] # "idle"

\* A record that says an integration is under way and that none works on.
Interrupted(t) == journal[t].state = "integrating" /\ istep[t] = "idle"

\* A restart of the Dashboard leaves one behind, and otherwise only a request
\* that failed to read the commit after the work landed (lifecycle.ts:83).
InterruptedHasCause ==
    \A t \in Tasks : Interrupted(t) => crashes > 0 \/ merges[t] = 1

\* Such a child is never taken up again, whether Git had merged it or not.
InterruptedStays ==
    [][\A t \in Tasks : Interrupted(t) =>
          /\ Interrupted(t)'
          /\ merges'[t] = merges[t]
          /\ notes'[t] = notes[t]]_allVars

LEMMA LoopStep == ChildInv /\ LoopIsRunning /\ [ChildNext]_allVars => LoopIsRunning'
<1> SUFFICES ASSUME ChildInv, LoopIsRunning, [ChildNext]_allVars PROVE LoopIsRunning'
  OBVIOUS
<1> USE DEF LoopIsRunning
<1>1. /\ TypeOK
      /\ istep \in [Tasks -> IntegrationSteps]
      /\ Nobody \notin Tasks
      /\ \A t \in Tasks : istep[t] # "idle" => step[t] = "idle"
  BY LandFacts, SpawnAssumption DEF ChildInv, ChildTypeOK
<1>2. CASE UNCHANGED <<step, turn, istep>>
  BY <1>2
<1>3. ASSUME NEW u \in Tasks, Handler(u), UNCHANGED istep PROVE LoopIsRunning'
  <2>1. step[u] # "idle"
    BY <1>3 DEF Handler, PrepareRefused, AddWorktree, AddWorktreeFails, RecordWorktree,
       Launch, LaunchFails, RecordSpawn, FindSession, RegisterTimeout, SendTask,
       SendFails, Commit, AbortWorker, RemoveWorktree, RecordFailure
  <2>2. PICK s \in Steps : Advances(u, s)
    BY <1>1, <1>3, <2>1, HandlerAdvances
  <2>3. /\ step'[u] = s
        /\ turn' = IF s \in Synchronous THEN u ELSE IF turn = u THEN Nobody ELSE turn
        /\ s \in Synchronous => turn \in {u, Nobody}
        /\ \A t \in Tasks \ {u} : step'[t] = step[t]
    BY <1>1, <2>2 DEF Advances, TypeOK
  <2> QED BY <1>1, <1>3, <2>1, <2>3
<1>4. ASSUME NEW u \in Tasks, NEW presented \in BOOLEAN, Begin(u, presented),
             UNCHANGED istep
      PROVE  LoopIsRunning'
  BY <1>1, <1>4, BeginStarts DEF Synchronous, TypeOK
<1>5. CASE SpawnStep
  <2>1. UNCHANGED istep
    BY <1>5 DEF SpawnStep, childVars
  <2>2. ASSUME NEW u \in Tasks, Authorize(u) PROVE UNCHANGED <<step, turn>>
    BY <2>2 DEF Authorize, serverVars
  <2>3. CASE Environment
    BY <1>2, <2>1, <2>3 DEF Environment, ExpireToken, Register, WorkerEnds,
       EditPrimary, CommitPrimary, SwitchPrimary, serverVars
  <2> QED BY <1>2, <1>3, <1>4, <1>5, <2>1, <2>2, <2>3 DEF SpawnStep, Request
<1>6. ASSUME NEW u \in Tasks, Worker(u) PROVE UNCHANGED <<step, turn, istep>>
  BY <1>6 DEF Worker, WorkerSettles, WorkerPrompted, SetSession, WorkerEdits,
     WorkerCommits, SetWork, vars, childVars, serverVars
<1>7. ASSUME NEW u \in Tasks, LifecycleRequest(u) PROVE LoopIsRunning'
  <2>1. ASSUME NEW strategy, StartIntegration(u, strategy) PROVE LoopIsRunning'
    BY <1>1, <2>1 DEF StartIntegration, IGoto
  <2>2. ASSUME NEW strategy, Review(u) \/ LeaveBranch(u) \/ RetryAnnotation(u, strategy)
        PROVE  UNCHANGED <<step, turn, istep>>
    BY <2>2 DEF Review, LeaveBranch, RetryAnnotation, serverVars, childVars
  <2> QED BY <1>2, <1>7, <2>1, <2>2 DEF LifecycleRequest
<1>8. ASSUME NEW u \in Tasks, Integration(u) PROVE LoopIsRunning'
  <2>1. istep[u] # "idle" /\ turn = u /\ step[u] \notin Synchronous
    BY <1>1, <1>8 DEF Integration, GitIntegrates, GitFails, HeadUnread,
       RecordIntegrated, Annotate, Synchronous
  <2>2. /\ UNCHANGED step
        /\ \/ istep' = [istep EXCEPT ![u] = "idle"] /\ turn' = Nobody
           \/ \E s \in {"record", "annotate"} :
                 istep' = [istep EXCEPT ![u] = s] /\ turn' = turn
    BY <1>8 DEF Integration, GitIntegrates, GitFails, HeadUnread,
       RecordIntegrated, Annotate, IGoto, serverVars
  <2> QED BY <1>1, <2>1, <2>2
<1>9. ASSUME ChildCrash \/ \E u \in Tasks : AnnotateThenCrash(u) PROVE LoopIsRunning'
  BY <1>1, <1>9 DEF ChildCrash, AnnotateThenCrash, Crash, Synchronous
<1> QED
  BY <1>2, <1>5, <1>6, <1>7, <1>8, <1>9 DEF ChildNext, allVars, vars, serverVars, childVars

\* The event loop that creations and integrations share is held exactly by the
\* one whose piece is next (index.ts runs both in one Node process).
THEOREM LoopAlwaysRuns == ChildSpec => []LoopIsRunning
<1>1. ChildInit => LoopIsRunning
  <2> SUFFICES ASSUME ChildInit PROVE LoopIsRunning
    OBVIOUS
  <2>1. /\ turn = Nobody
        /\ step = [t \in Tasks |-> "idle"]
        /\ istep = [t \in Tasks |-> "idle"]
    BY DEF ChildInit, Init
  <2> QED BY <2>1, SpawnAssumption DEF LoopIsRunning, Synchronous
<1> QED BY <1>1, LoopStep, ChildInvariant, PTL DEF ChildSpec

\* A creation, a worker or the user changes neither an integration nor its record.
LEMMA SpawnLeavesIntegrations ==
    ASSUME ChildInv, SpawnStep, NEW t \in Tasks
    PROVE  /\ Interrupted(t)' <=> Interrupted(t)
           /\ crashes' = crashes
<1> USE DEF outside, serverVars, historyVars
<1>1. [Next]_vars /\ UNCHANGED childVars
  BY DEF SpawnStep, Next
<1>2. Interrupted(t)' <=> Interrupted(t)
  <2>1. \/ journal'[t].state = journal[t].state
        \/ journal[t].state \notin Late /\ journal'[t].state \notin Late
    BY <1>1, SpawnKeepsRecords DEF ChildInv, ChildTypeOK
  <2> QED BY <1>1, <2>1 DEF Interrupted, Late, childVars
<1>3. ASSUME NEW u \in Tasks, Handler(u) PROVE crashes' = crashes
  BY <1>3 DEF Handler, PrepareRefused, AddWorktree, AddWorktreeFails, RecordWorktree,
     Launch, LaunchFails, RecordSpawn, FindSession, RegisterTimeout, SendTask,
     SendFails, Commit, AbortWorker, RemoveWorktree, RecordFailure
<1>4. ASSUME NEW u \in Tasks, Request(u) PROVE crashes' = crashes
  BY <1>4 DEF Request, Authorize, Begin
<1>5. ASSUME NEW u \in Tasks, ExpireToken(u) \/ Register(u) \/ WorkerEnds(u)
      PROVE  crashes' = crashes
  BY <1>5 DEF ExpireToken, Register, WorkerEnds
<1>6. ASSUME NEW r \in Repos, EditPrimary(r) \/ CommitPrimary(r) \/ SwitchPrimary(r)
      PROVE  crashes' = crashes
  BY <1>6 DEF EditPrimary, CommitPrimary, SwitchPrimary
<1> QED BY <1>2, <1>3, <1>4, <1>5, <1>6 DEF SpawnStep, Environment

\* A request about a child and a piece of an integration leave no record behind
\* that says "integrating" while none works on it, unless the work has landed,
\* and touch none there is.
LEMMA LifecycleLeavesInterrupted ==
    ASSUME ChildInv, NEW u \in Tasks, LifecycleRequest(u) \/ Integration(u),
           NEW t \in Tasks
    PROVE  /\ Interrupted(t) => Interrupted(t)'
           /\ Interrupted(t)' => Interrupted(t) \/ merges'[t] = 1
           /\ Interrupted(t) => merges'[t] = merges[t] /\ notes'[t] = notes[t]
           /\ crashes' = crashes
<1> USE DEF outside, historyVars, childVars, Interrupted, IGoto
<1>1. /\ journal \in [Tasks -> TransactionRecord] /\ LandInv(u)
      /\ istep \in [Tasks -> IntegrationSteps]
      /\ merges \in [Tasks -> Nat] /\ notes \in [Tasks -> Nat]
  BY DEF ChildInv, ChildTypeOK, TypeOK
<1>2. \A record : Update(u, record) => journal'[u] = record
                      /\ (t # u => journal'[t] = journal[t])
  BY <1>1 DEF Update
<1>12. ASSUME NEW s1, NEW s2, Update(u, [journal[u] EXCEPT !.state = s1, !.strategy = s2])
       PROVE  journal'[u].state = s1 /\ (t # u => journal'[t] = journal[t])
  BY <1>1, <1>12 DEF Update, TransactionRecord
<1>3. CASE Review(u)
  BY <1>1, <1>2, <1>3 DEF Review, SetState, TransactionRecord
<1>4. CASE LeaveBranch(u)
  BY <1>1, <1>4, <1>12 DEF LeaveBranch, Integrable
<1>5. ASSUME NEW strategy, StartIntegration(u, strategy)
      PROVE  (Interrupted(t)' <=> Interrupted(t)) /\ UNCHANGED <<merges, notes, crashes>>
  BY <1>1, <1>5, <1>12 DEF StartIntegration, Integrable
<1>6. ASSUME recordAnnotation(u), journal[u].state = "integrated", istep'[t] = istep[t] \/ t = u
      PROVE  /\ Interrupted(t)' <=> Interrupted(t)
             /\ Interrupted(t) => notes'[t] = notes[t]
  <2>1. journal'[u].state = "integrated"
    BY <1>1, <1>2, <1>6 DEF recordAnnotation, TransactionRecord
  <2>2. t # u => journal'[t] = journal[t] /\ notes'[t] = notes[t]
    BY <1>1, <1>2, <1>6 DEF recordAnnotation
  <2> QED BY <1>6, <2>1, <2>2
<1>7. CASE GitIntegrates(u)
  BY <1>1, <1>7 DEF GitIntegrates
<1>8. CASE GitFails(u)
  <2>1. /\ istep[u] = "git" /\ istep' = [istep EXCEPT ![u] = "idle"]
        /\ Update(u, [journal[u] EXCEPT !.state = "awaiting_review", !.strategy = "none"])
        /\ UNCHANGED <<merges, notes, crashes>>
    BY <1>8 DEF GitFails
  <2> QED BY <1>1, <1>12, <2>1
<1>9. CASE RecordIntegrated(u)
  BY <1>1, <1>2, <1>9 DEF RecordIntegrated, TransactionRecord
<1>10. CASE Annotate(u)
  BY <1>1, <1>6, <1>10 DEF Annotate, LandInv
<1>11. ASSUME NEW strategy, RetryAnnotation(u, strategy)
       PROVE  /\ Interrupted(t)' <=> Interrupted(t)
              /\ Interrupted(t) => merges'[t] = merges[t] /\ notes'[t] = notes[t]
              /\ crashes' = crashes
  BY <1>6, <1>11 DEF RetryAnnotation
<1>13. CASE HeadUnread(u)
  BY <1>1, <1>13 DEF HeadUnread, LandInv
<1> QED
  BY <1>3, <1>4, <1>5, <1>7, <1>8, <1>9, <1>10, <1>11, <1>13
  DEF LifecycleRequest, Integration

\* Every step keeps what is interrupted and, short of a crash, adds nothing to it.
LEMMA InterruptedStep ==
    ASSUME ChildInv, [ChildNext]_allVars, NEW t \in Tasks
    PROVE  /\ Interrupted(t) =>
                 Interrupted(t)' /\ merges'[t] = merges[t] /\ notes'[t] = notes[t]
           /\ \/ crashes' > 0
              \/ /\ crashes' = crashes
                 /\ Interrupted(t)' => Interrupted(t) \/ merges'[t] = 1
<1>1. CASE SpawnStep
  BY <1>1, SpawnLeavesIntegrations DEF SpawnStep, childVars
<1>2. ASSUME NEW u \in Tasks, Worker(u)
      PROVE  UNCHANGED <<journal, istep, merges, notes, crashes>>
  BY <1>2 DEF Worker, WorkerSettles, WorkerPrompted, SetSession, WorkerEdits,
     WorkerCommits, SetWork, vars, childVars, outside
<1>3. ASSUME NEW u \in Tasks, LifecycleRequest(u) \/ Integration(u)
      PROVE  /\ Interrupted(t) => Interrupted(t)'
             /\ Interrupted(t)' => Interrupted(t) \/ merges'[t] = 1
             /\ Interrupted(t) => merges'[t] = merges[t] /\ notes'[t] = notes[t]
             /\ crashes' = crashes
  BY <1>3, LifecycleLeavesInterrupted
<1>4. ASSUME ChildCrash \/ \E u \in Tasks : AnnotateThenCrash(u)
      PROVE  /\ crashes' > 0
             /\ Interrupted(t) =>
                   Interrupted(t)' /\ merges'[t] = merges[t] /\ notes'[t] = notes[t]
  <2>1. Crash /\ istep' = [u \in Tasks |-> "idle"] /\ merges' = merges
    BY <1>4 DEF ChildCrash, AnnotateThenCrash
  <2>2. crashes' > 0 /\ journal' = journal
    BY <2>1 DEF Crash, ChildInv, ChildTypeOK, TypeOK
  <2>3. Interrupted(t) => notes'[t] = notes[t]
    BY <1>4 DEF ChildCrash, AnnotateThenCrash, Interrupted, ChildInv, ChildTypeOK
  <2> QED BY <2>1, <2>2, <2>3 DEF Interrupted
<1>5. CASE UNCHANGED allVars
  BY <1>5 DEF allVars, vars, childVars, outside, Interrupted
<1> QED BY <1>1, <1>2, <1>3, <1>4, <1>5 DEF ChildNext, Interrupted

\* A record that says integrating has a handler (integrateChild) at work unless
\* a crash cut it off, or the commit could not be read after the work landed:
\* with the pieces it consists of, all that IntegrationSettles takes but fairness.
THEOREM InterruptionsHaveCause == ChildSpec => []InterruptedHasCause
<1>1. ChildInit => InterruptedHasCause
  BY DEF ChildInit, Init, NoRecord, InterruptedHasCause, Interrupted
<1>2. ChildInv /\ InterruptedHasCause /\ [ChildNext]_allVars => InterruptedHasCause'
  BY InterruptedStep DEF InterruptedHasCause
<1> QED BY <1>1, <1>2, ChildInvariant, PTL DEF ChildSpec

\* A child whose integration was cut off keeps its record, its merges and its
\* annotations for ever: neither a request nor a restart reconciles it
\* (lifecycle.ts:49, index.ts:456).
THEOREM InterruptedForGood == ChildSpec => InterruptedStays
<1>1. ChildInv /\ [ChildNext]_allVars =>
        [\A t \in Tasks : Interrupted(t) =>
            /\ Interrupted(t)'
            /\ merges'[t] = merges[t]
            /\ notes'[t] = notes[t]]_allVars
  BY InterruptedStep
<1> QED BY <1>1, ChildInvariant, PTL DEF ChildSpec, InterruptedStays

-----------------------------------------------------------------------------
(* Refinement *)

\* The phase of a task whose record, delivery and landing do not change.
LEMMA PhaseFrame ==
    ASSUME NEW t \in Tasks, journal'[t].state = journal[t].state,
           merges'[t] = merges[t], told'[t] = told[t]
    PROVE  PhaseOf(t)' = PhaseOf(t)
  BY DEF PhaseOf

\* A step that moves one task along the phases is a step of ChildOutcome.
LEMMA OutcomeStep ==
    ASSUME NEW t \in Tasks, merges \in [Tasks -> Nat],
           \A u \in Tasks : u # t => PhaseOf(u)' = PhaseOf(u),
           \/ /\ merges' = merges
              /\ \/ PhaseOf(t)' = PhaseOf(t)
                 \/ PhaseOf(t) = "absent" /\ PhaseOf(t)' = "creating"
                 \/ PhaseOf(t) = "creating" /\ PhaseOf(t)' \in {"ready", "failed"}
                 \/ PhaseOf(t) = "ready" /\ PhaseOf(t)' = "retained"
           \/ /\ merges' = [merges EXCEPT ![t] = @ + 1]
              /\ PhaseOf(t) = "ready" /\ PhaseOf(t)' = "integrated"
    PROVE  [Outcome!Next]_(Outcome!vars)
<1> DEFINE phase == [u \in Tasks |-> PhaseOf(u)]
<1>1. \A to : PhaseOf(t)' = to => phase' = [phase EXCEPT ![t] = to]
  OBVIOUS
<1>2. PhaseOf(t)' = PhaseOf(t) => phase' = phase
  OBVIOUS
<1> QED
  BY <1>1, <1>2
  DEF Outcome!Next, Outcome!vars, Outcome!Start, Outcome!Deliver, Outcome!Fail,
      Outcome!Retain, Outcome!Land, Outcome!Move

\* The phases of a child before its worker has the task, and after.
LEMMA Phases ==
    ASSUME ChildInv, NEW t \in Tasks
    PROVE  /\ journal[t].state \in {"absent", "authorization_pending"} => PhaseOf(t) = "absent"
           /\ journal[t].state \in CreationStates /\ told[t] = Nobody => PhaseOf(t) = "creating"
           /\ journal[t].state \in CreationStates \cup {"complete", "awaiting_review"}
                 /\ told[t] # Nobody => PhaseOf(t) = "ready"
           /\ step[t] # "idle" => journal[t].state \in CreationStates
           /\ step[t] \notin {"idle", "commit"} => told[t] = Nobody
           /\ Nobody # t
<1>1. TaskInv(t)
  BY DEF ChildInv, SpawnInv
<1>2. journal[t].state \notin Late => merges[t] = 0
  BY LandFacts
<1>3. journal[t].state = "awaiting_review" => merges[t] = 0
  BY LandFacts
<1>4. ~(merges[t] > 0) <=> merges[t] = 0
  BY DEF ChildInv, ChildTypeOK
<1>5. journal[t].state \in {"absent", "authorization_pending"} => told[t] = Nobody
  BY <1>1 DEF TaskInv, RecordInv, Untouched
<1>6. step[t] \notin {"idle", "commit"} => told[t] = Nobody
  BY <1>1 DEF TaskInv, DeliveryInv
<1>7. step[t] # "idle" => journal[t].state \in CreationStates
  BY <1>1 DEF TaskInv, RecordInv
<1>8. Nobody # t
  BY SpawnAssumption
<1> QED
  BY <1>2, <1>3, <1>4, <1>5, <1>6, <1>7, <1>8 DEF PhaseOf, CreationStates, Late

\* The requests and the handler of a creation start, deliver or fail a task.
LEMMA CreationRefines ==
    ASSUME ChildInv, NEW t \in Tasks, Request(t) \/ Handler(t), UNCHANGED childVars
    PROVE  [Outcome!Next]_(Outcome!vars)
<1> USE DEF outside, historyVars, serverVars, Goto
<1>1. TypeOK /\ TaskInv(t) /\ journal[t] \in TransactionRecord /\ merges \in [Tasks -> Nat]
  BY DEF ChildInv, ChildTypeOK, SpawnInv, TypeOK
<1>2. merges' = merges
  BY DEF childVars
<1>3. ASSUME \A u \in Tasks : u # t => journal'[u] = journal[u] /\ told'[u] = told[u],
             \/ PhaseOf(t)' = PhaseOf(t)
             \/ PhaseOf(t) = "absent" /\ PhaseOf(t)' = "creating"
             \/ PhaseOf(t) = "creating" /\ PhaseOf(t)' \in {"ready", "failed"}
      PROVE  [Outcome!Next]_(Outcome!vars)
  <2>1. \A u \in Tasks : u # t => PhaseOf(u)' = PhaseOf(u)
    BY <1>2, <1>3, PhaseFrame
  <2> QED BY <1>1, <1>2, <1>3, <2>1, OutcomeStep
<1>4. CASE Request(t)
  <2>1. journal[t].state \in {"absent", "authorization_pending"} /\ told' = told
    BY <1>4 DEF Request, Authorize, Begin, Admits
  <2>2. PhaseOf(t) = "absent" /\ merges[t] = 0 /\ told[t] = Nobody
    BY <1>1, <2>1, Phases, LandFacts DEF Late, TaskInv, RecordInv, Untouched
  <2>3. CASE Authorize(t)
    <3>1. journal'[t].state = "authorization_pending"
      BY <1>1, <2>3 DEF Authorize, Update, TypeOK, Preparing, NoRecord
    <3>2. PhaseOf(t)' = "absent"
      BY <1>2, <2>1, <2>2, <3>1 DEF PhaseOf
    <3> QED BY <1>3, <2>2, <2>3, <3>2 DEF Authorize, Update
  <2>4. ASSUME NEW presented \in BOOLEAN, Begin(t, presented)
        PROVE  [Outcome!Next]_(Outcome!vars)
    <3>1. journal'[t].state = "preparing"
      BY <1>1, <2>4 DEF Begin, Update, TypeOK, Preparing, NoRecord
    <3>2. PhaseOf(t)' = "creating"
      BY <1>2, <2>1, <2>2, <3>1 DEF PhaseOf
    <3> QED BY <1>3, <2>2, <2>4, <3>2 DEF Begin, Update
  <2> QED BY <1>4, <2>3, <2>4 DEF Request
<1>5. ASSUME step[t] \notin {"idle", "commit"}, UNCHANGED <<journal, told>>
      PROVE  [Outcome!Next]_(Outcome!vars)
  BY <1>2, <1>3, <1>5, PhaseFrame
<1>6. CASE \/ PrepareRefused(t) \/ AddWorktree(t) \/ AddWorktreeFails(t) \/ Launch(t)
           \/ LaunchFails(t) \/ RegisterTimeout(t) \/ SendFails(t) \/ AbortWorker(t)
           \/ RemoveWorktree(t)
  BY <1>5, <1>6
  DEF PrepareRefused, AddWorktree, AddWorktreeFails, Launch, LaunchFails,
      RegisterTimeout, SendFails, AbortWorker, RemoveWorktree
<1>7. ASSUME step[t] \notin {"idle", "commit"}, told' = told,
             NEW record, Update(t, record), record.state \in CreationStates \cup {"failed"}
      PROVE  [Outcome!Next]_(Outcome!vars)
  <2>1. PhaseOf(t) = "creating" /\ merges[t] = 0 /\ told[t] = Nobody
    BY <1>7, Phases, LandFacts DEF CreationStates, Late
  <2>2. journal'[t] = record
    BY <1>1, <1>7 DEF Update, TypeOK
  <2>3. PhaseOf(t)' \in {"creating", "failed"}
    BY <1>2, <1>7, <2>1, <2>2 DEF PhaseOf, CreationStates
  <2> QED BY <1>3, <1>7, <2>1, <2>3 DEF Update
<1>8. CASE RecordWorktree(t) \/ RecordSpawn(t) \/ RecordFailure(t)
  <2>1. PICK s \in {"worktree_created", "spawned", "failed"} : SetState(t, s)
    BY <1>8 DEF RecordWorktree, RecordSpawn, RecordFailure
  <2>2. [journal[t] EXCEPT !.state = s].state \in CreationStates \cup {"failed"}
    BY <1>1 DEF TransactionRecord, CreationStates
  <2> QED BY <1>7, <1>8, <2>1, <2>2 DEF RecordWorktree, RecordSpawn, RecordFailure, SetState
<1>9. CASE FindSession(t)
  <2>1. PICK s : Update(t, [journal[t] EXCEPT !.state = "sending", !.session = s])
    BY <1>9 DEF FindSession
  <2>2. [journal[t] EXCEPT !.state = "sending", !.session = s].state \in CreationStates
    BY <1>1 DEF TransactionRecord, CreationStates
  <2> QED BY <1>7, <1>9, <2>1, <2>2 DEF FindSession
<1>10. CASE SendTask(t)
  <2>1. step[t] = "send" /\ journal[t].session = t /\ journal' = journal
    BY <1>1, <1>10 DEF SendTask, TaskInv, DeliveryInv
  <2>2. told' = [told EXCEPT ![t] = t]
    BY <1>10, <2>1 DEF SendTask
  <2>3. PhaseOf(t) = "creating" /\ journal[t].state \in CreationStates /\ t # Nobody
    BY <2>1, Phases
  <2>4. merges[t] = 0
    BY <2>3, LandFacts DEF CreationStates, Late
  <2>5. PhaseOf(t)' = "ready"
    BY <1>1, <1>2, <2>1, <2>2, <2>3, <2>4 DEF PhaseOf, TypeOK, CreationStates
  <2> QED BY <1>3, <2>1, <2>2, <2>3, <2>5
<1>11. CASE Commit(t)
  <2>1. told[t] = t /\ t # Nobody /\ journal[t].state \in CreationStates
    BY <1>1, <1>11, Phases DEF Commit, TaskInv, DeliveryInv
  <2>2. PhaseOf(t) = "ready" /\ merges[t] = 0
    BY <2>1, Phases, LandFacts DEF CreationStates, Late
  <2>3. journal'[t].state = "complete" /\ told' = told
    BY <1>1, <1>11 DEF Commit, SetState, Update, TypeOK, TransactionRecord
  <2>4. PhaseOf(t)' = "ready"
    BY <1>2, <2>1, <2>2, <2>3 DEF PhaseOf
  <2> QED BY <1>3, <1>11, <2>2, <2>3, <2>4 DEF Commit, SetState, Update
<1> QED BY <1>4, <1>6, <1>8, <1>9, <1>10, <1>11 DEF Handler

\* A step that changes no record's state, no delivery and no landing.
LEMMA Stutters ==
    ASSUME \A t \in Tasks : journal'[t].state = journal[t].state,
           told' = told, merges' = merges
    PROVE  UNCHANGED Outcome!vars
<1>1. \A t \in Tasks : PhaseOf(t)' = PhaseOf(t)
  BY PhaseFrame
<1> QED BY <1>1 DEF Outcome!vars

\* Requests about a child and its integration land or retain it.
LEMMA LifecycleRefines ==
    ASSUME ChildInv, NEW t \in Tasks, LifecycleRequest(t) \/ Integration(t)
    PROVE  [Outcome!Next]_(Outcome!vars)
<1> USE DEF outside, historyVars, serverVars, childVars
<1>1. /\ TypeOK /\ LandInv(t) /\ TaskInv(t) /\ journal[t] \in TransactionRecord
      /\ merges \in [Tasks -> Nat] /\ Nobody # t
  BY SpawnAssumption DEF ChildInv, ChildTypeOK, SpawnInv, TypeOK
<1>2. ASSUME told' = told, merges' = merges, NEW record, Update(t, record),
             \/ record.state = journal[t].state
             \/ /\ journal[t].state \in {"complete", "awaiting_review"}
                /\ record.state \in {"awaiting_review", "retained"}
             \/ /\ journal[t].state = "awaiting_review"
                /\ record.state = "integrating"
             \/ /\ journal[t].state = "integrating" /\ merges[t] = 0
                /\ record.state = "awaiting_review"
             \/ /\ journal[t].state = "integrating" /\ merges[t] = 1
                /\ record.state = "integrated"
      PROVE  [Outcome!Next]_(Outcome!vars)
  <2>1. journal'[t] = record /\ \A u \in Tasks : u # t => journal'[u] = journal[u]
    BY <1>1, <1>2 DEF Update, TypeOK
  <2>2. \A u \in Tasks : u # t => PhaseOf(u)' = PhaseOf(u)
    BY <1>2, <2>1, PhaseFrame
  <2>3. CASE record.state = journal[t].state
    BY <1>1, <1>2, <2>1, <2>2, <2>3, PhaseFrame, OutcomeStep
  <2>4. CASE journal[t].state \in {"complete", "awaiting_review", "integrating"}
    <3>1. told[t] = t
      BY <1>1, <2>4, LandFacts DEF Late
    <3>2. journal[t].state \in {"complete", "awaiting_review"} => merges[t] = 0
      BY <1>1, LandFacts DEF Late
    <3>3. \/ PhaseOf(t)' = PhaseOf(t)
          \/ PhaseOf(t) = "ready" /\ PhaseOf(t)' = "retained"
      BY <1>1, <1>2, <2>1, <2>4, <3>1, <3>2 DEF PhaseOf
    <3> QED BY <1>1, <1>2, <2>2, <3>3, OutcomeStep
  <2> QED BY <1>2, <2>3, <2>4
<1>3. CASE Review(t)
  <2>1. [journal[t] EXCEPT !.state = "awaiting_review"].state = "awaiting_review"
    BY <1>1 DEF TransactionRecord
  <2> QED BY <1>2, <1>3, <2>1 DEF Review, SetState
<1>4. CASE LeaveBranch(t)
  <2>1. [journal[t] EXCEPT !.state = "retained", !.strategy = "leave_branch"].state
            = "retained"
    BY <1>1 DEF TransactionRecord
  <2> QED BY <1>2, <1>4, <2>1 DEF LeaveBranch, Integrable
<1>5. ASSUME NEW strategy \in Landing, StartIntegration(t, strategy)
      PROVE  [Outcome!Next]_(Outcome!vars)
  <2>1. [journal[t] EXCEPT !.state = "integrating", !.strategy = strategy].state
            = "integrating"
    BY <1>1 DEF TransactionRecord
  <2> QED BY <1>2, <1>5, <2>1 DEF StartIntegration, Integrable
<1>6. CASE GitIntegrates(t)
  <2>1. /\ journal' = journal /\ told' = told /\ merges' = [merges EXCEPT ![t] = @ + 1]
        /\ journal[t].state = "integrating" /\ merges[t] = 0 /\ told[t] = t
    BY <1>1, <1>6 DEF GitIntegrates, LandInv, Late
  <2>2. PhaseOf(t) = "ready"
    BY <1>1, <2>1 DEF PhaseOf
  <2>3. merges'[t] = 1
    BY <1>1, <2>1
  <2>4. PhaseOf(t)' = "integrated"
    BY <2>1, <2>3 DEF PhaseOf
  <2>5. \A u \in Tasks : u # t => PhaseOf(u)' = PhaseOf(u)
    BY <1>1, <2>1, PhaseFrame
  <2> QED BY <1>1, <2>1, <2>2, <2>4, <2>5, OutcomeStep
<1>7. CASE GitFails(t)
  <2>1. [journal[t] EXCEPT !.state = "awaiting_review", !.strategy = "none"].state
            = "awaiting_review"
    BY <1>1 DEF TransactionRecord
  <2>2. journal[t].state = "integrating" /\ merges[t] = 0
    BY <1>1, <1>7 DEF GitFails, LandInv
  <2> QED BY <1>2, <1>7, <2>1, <2>2 DEF GitFails
<1>8. CASE RecordIntegrated(t)
  <2>1. [journal[t] EXCEPT !.state = "integrated", !.annotated = FALSE].state = "integrated"
    BY <1>1 DEF TransactionRecord
  <2>2. journal[t].state = "integrating" /\ merges[t] = 1
    BY <1>1, <1>8 DEF RecordIntegrated, LandInv
  <2> QED BY <1>2, <1>8, <2>1, <2>2 DEF RecordIntegrated
<1>9. CASE Annotate(t) \/ \E strategy \in Landing : RetryAnnotation(t, strategy)
  <2>1. recordAnnotation(t) /\ told' = told /\ merges' = merges
    BY <1>9 DEF Annotate, RetryAnnotation
  <2>2. PICK emitted \in BOOLEAN : Update(t, [journal[t] EXCEPT !.annotated = emitted])
    BY <2>1 DEF recordAnnotation
  <2>3. [journal[t] EXCEPT !.annotated = emitted].state = journal[t].state
    BY <1>1 DEF TransactionRecord
  <2> QED BY <1>2, <2>1, <2>2, <2>3
<1>10. CASE HeadUnread(t)
  BY <1>10, Stutters DEF HeadUnread
<1> QED
  BY <1>3, <1>4, <1>5, <1>6, <1>7, <1>8, <1>9, <1>10
  DEF LifecycleRequest, Integration, Landing

\* Creation, review, integration, conflicts and crashes of the Dashboard
\* together implement the promise of ChildOutcome.
THEOREM Implements == ChildSpec => ImplementsOutcome
<1>1. ChildInit => Outcome!Init
  <2> SUFFICES ASSUME ChildInit PROVE Outcome!Init
    OBVIOUS
  <2>1. ASSUME NEW t \in Tasks PROVE PhaseOf(t) = "absent"
    <3>1. journal[t].state = "absent" /\ told[t] = Nobody
      BY DEF ChildInit, Init, NoRecord
    <3>2. ~(merges[t] > 0)
      BY DEF ChildInit
    <3> QED BY <3>1, <3>2 DEF PhaseOf
  <2> QED BY <2>1 DEF Outcome!Init, ChildInit
<1>2. ASSUME ChildInv, [ChildNext]_allVars PROVE [Outcome!Next]_(Outcome!vars)
  <2> USE DEF outside, historyVars, serverVars, childVars
  <2>1. ASSUME NEW t \in Tasks, Request(t) \/ Handler(t), UNCHANGED childVars
        PROVE  [Outcome!Next]_(Outcome!vars)
    BY <1>2, <2>1, CreationRefines
  <2>2. CASE Environment /\ UNCHANGED childVars
    <3>1. told' = told /\ merges' = merges
      BY <2>2 DEF Environment, ExpireToken, Register, WorkerEnds, EditPrimary,
         CommitPrimary, SwitchPrimary
    <3>2. ASSUME NEW t \in Tasks PROVE journal'[t].state = journal[t].state
      <4>1. journal \in [Tasks -> TransactionRecord]
        BY <1>2 DEF ChildInv, ChildTypeOK, TypeOK
      <4>2. ASSUME NEW u \in Tasks, ExpireToken(u)
            PROVE  journal'[t].state = journal[t].state
        BY <4>1, <4>2 DEF ExpireToken, Update, TransactionRecord
      <4>3. ASSUME ~ \E u \in Tasks : ExpireToken(u) PROVE journal' = journal
        BY <2>2, <4>3 DEF Environment, Register, WorkerEnds, EditPrimary,
           CommitPrimary, SwitchPrimary
      <4> QED BY <4>2, <4>3
    <3> QED BY <3>1, <3>2, Stutters
  <2>3. ASSUME NEW t \in Tasks, LifecycleRequest(t) \/ Integration(t)
        PROVE  [Outcome!Next]_(Outcome!vars)
    BY <1>2, <2>3, LifecycleRefines
  <2>4. ASSUME UNCHANGED <<journal, told, merges>> PROVE [Outcome!Next]_(Outcome!vars)
    BY <2>4, Stutters
  <2>5. ASSUME NEW t \in Tasks, Worker(t) \/ AnnotateThenCrash(t)
        PROVE  UNCHANGED <<journal, told, merges>>
    BY <2>5 DEF Worker, WorkerSettles, WorkerPrompted, SetSession, WorkerEdits,
       WorkerCommits, SetWork, AnnotateThenCrash, Crash, vars
  <2>6. ASSUME ChildCrash \/ UNCHANGED allVars PROVE UNCHANGED <<journal, told, merges>>
    BY <2>6 DEF ChildCrash, Crash, allVars, vars
  <2> QED
    BY <1>2, <2>1, <2>2, <2>3, <2>4, <2>5, <2>6 DEF ChildNext, SpawnStep
<1>3. ChildInv /\ [ChildNext]_allVars => [Outcome!Next]_(Outcome!vars)
  BY <1>2
<1> QED
  BY <1>1, <1>3, ChildInvariant, PTL DEF ChildSpec, ImplementsOutcome, Outcome!Spec
=============================================================================
