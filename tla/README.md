# Verification of the Hermes–Pi orchestrator

TLA+ models of the orchestrator in this repository, TLC configurations that
check them on small instances, and TLAPS proofs for any number of tasks,
repositories, conversations, events, runs and crashes. Paths are relative to
`src/`; "SDS" is `docs/SOFTWARE_DESIGN_SPEC.md`.

## 1. The system

A user talks to Hermes (Server B). A Hermes plugin written in Python,
`hermes-plugin/pi_orchestrator`, turns what the user asks into tasks for Pi
coding agents that run on Server C under the PI Dashboard. The repository is a
fork of that Dashboard with one plugin of its own,
`packages/orchestrator-plugin`. A project has one primary Pi session; the first
task of a project starts it, a task that finds it busy needs the user's choice
between *queue*, *steer* and *parallel*, and a parallel task gets a worktree, a
branch and a Pi process of its own, which is later reviewed and integrated. The
Dashboard also starts Pi on its own account, for the runs of automations.

```
 user ── Hermes ── tools ── service.py ── store.py (SQLite)
                     │          │   ▲
   notifications.py ◄┘          │   │ agent_settled, session state
                                ▼   │
                     dashboard/client.py ──── WebSocket, REST ────┐
                                                                  ▼
   Git worktrees ◄── orchestrator-plugin (index.ts, lifecycle.ts) in Dashboard
   Pi processes  ◄── spawnSession, abortSpawnedRun, sendToSession ▲
                     │                                  transactions.ts
   automation-plugin (engine.ts, runner.ts, run-store.ts) ────────┘
```

### Inventory

| Component | State | Operations | What is hard | What makes it correct |
|---|---|---|---|---|
| Parallel creation, `orchestrator-plugin/src/server/index.ts` | `activeProjects`, journal, worktrees, processes | authorize, start, rollback | two requests between two awaits; failure in each phase; restart; a primary checkout that moves | one creation per repository, one worker per task, complete and failed are what they say, a dirty start is the authorized one, a worktree in use is kept |
| Transaction journal, `transactions.ts` | one JSON file | put, update, load | crash between two writes | a record is old or new, never half |
| Review and integration, `lifecycle.ts` | journal, primary checkout, primary history | review, integrate (merge, cherry-pick, leave branch), annotate, retry | crash between Git and journal; conflicts; lost annotation; a child prompted again | work lands at most once, only after review, outcome final, history follows code |
| Task policy and gate, `service.py`, `runtime.py`, `choice_parser.py` | tasks, decisions, preflights, turn evidence | submit, resolve, parallel resolve, turns | the model answering for the user; lost answers; restarts between commits; stale questions | no effect without the user's matching later answer, work started once, the record tells the truth, a waiting task can be answered |
| First start and binding, `service.py`, `session-action-handler.ts`, `pending-initial-prompt-registry.ts`, `event-wiring.ts` | binding, tasks, prompts queued per folder | submit to an unbound project, spawn, register, bind | two first tasks at once; a session that registers before the launch returns; an explicit registration in between; a queue per folder | a prompt is delivered at most once, one binding starts one task, a start nothing disturbs runs where its prompt went |
| Store, `store.py` | SQLite | single statements | each commits alone; read–modify–write outside the transaction | see its users |
| Dashboard client, `dashboard/client.py` | connection, snapshots, cursor | connect, subscribe, ingest, send, REST | duplicates, gaps, renumbering, reconnects; cursor ahead of the work | each event processed once, in order; nothing lost but what a fault took away |
| Notifications, `notifications.py` | outbox | inject, mark | crash between inject and mark; retries that end | told once, told in the end |
| Automation runs, `automation-plugin/src/server` | records on disk, contexts, counters, stamps, the runner's slot | fire, Run now, spawn, register, five ways to end a child, reap, restart | signals racing for one outcome; a stop before there is a handle; correlation by folder, also with sessions of the user; a Run now beside a fire; lost signals | an outcome is written once, the parent follows the last child, every fire ends and gives the slot back, a stop costs a process its life |
| Event reducer, `reducer.py` | none | worker_state, summaries | stale snapshot | used by the gate |
| Bridge and panel, `bridge/`, `client/` | React state, request counters | poll, control | late answers | newest answer wins |
| Dashboard server, extension, client, other plugins, tools | their own | – | – | upstream; only the interface the components above use |

They interact by calls (tools into the service, REST and WebSocket from B to
C, host hooks from the plugins into the server), by messages in the other
direction (events, session updates), and by shared state: the journal and the
primary checkout between creation and integration, the store between tool
calls, the WebSocket thread and the notification thread, the queues per folder
between whoever starts a session there and whichever session registers.

`PROJECT.json` lists the components with their status and the hazards, each at
its line with the properties that would notice it going wrong.

## 2. Modules

| Module | Models | Relation |
|---|---|---|
| `ParallelSpawn` | authorization, creation, rollback, journal, restart on C | – |
| `ChildLifecycle` | worker, review, integration, annotation on C | extends `ParallelSpawn`; they share journal, checkout and event loop |
| `ChildOutcome` | what Hermes and the user may rely on about a child | abstract; implemented by `ChildLifecycle` |
| `HumanGate` | submit, questions, answers, parallel start as B sees it | its creation transaction is `ParallelSpawn` seen from outside |
| `TaskEvents` | events, cursor, task completion, outbox on B | – |
| `PrimaryStart` | the first tasks of an unbound project, on B and C | what follows the binding is `HumanGate` and `TaskEvents` |
| `AutomationRuns` | fires, children, sessions and processes of one automation | – |
| `FireLedger` | what an automation promises about its fires | abstract; implemented by `AutomationRuns` |
| `ParallelSpawnProofs`, `ChildLifecycleProofs`, `HumanGateProofs`, `TaskEventsProofs`, `PrimaryStartProofs`, `FireLedgerProofs`, `AutomationRunsProofs` | theorems | each extends its module and `TLAPS`; the second also extends the first, the last instantiates the one before it |
| `MC…` | values for the constants | extend the module they are named after |

### ParallelSpawn

The journal, the worktrees and the processes survive a restart of the
Dashboard; `active`, `step` and `turn` do not. `step[t]` is the program counter
of the POST `/parallel` handler of a task, one value for each piece of
`spawnParallelTransaction`, `prepareParallelWorktree`, `waitForSession` and
`rollbackParallel` between two points where something else can happen. Node
runs one handler at a time between awaits, which is `turn`: while a handler
holds it no other request and no other continuation runs, but Git commands of
the user, Pi processes and a crash do. Each journal write is one atomic step
(`flush` writes a temporary file and renames it). A lost answer to an
authorization is `held[t] = FALSE`. `told`, `launches`, `grant` and `held` are
history variables.

### ChildLifecycle and ChildOutcome

`integrateChild` is synchronous, so it holds `turn` from its first check to the
end; `istep` exists for the crashes in between. A merge succeeds, conflicts (and
its `--abort` may leave the checkout dirty) or finds nothing to do. After it the
commit that landed is read outside the try (`lifecycle.ts:83`); when that fails
(`HeadUnread`) the request does, and the record goes on saying `integrating`. The
annotation is a message to the primary's bridge that arrives or does not, or
arrives before a crash. `emitEventToSession` answers true once the frame is
written to an open socket (`server.ts:2274-2283`); the model takes it for granted
that the bridge then has it, so `HistoryFollowsCode` is about frames written.

`ChildOutcome` has five moves: start, deliver, fail, retain, land. The refinement
mapping takes the phase from the journal, from `told` and from the history of
merges; in particular a child counts as landed from the moment Git has merged it,
whatever the journal still says.

### HumanGate

A tool call runs while the WebSocket thread, the Dashboard and the clock go on
and each statement of the store commits by itself, so `call[h]` says which
statement the running tool call of a session does next, and a crash may come
before any of them. `parse_choice` and `parse_dirty_choice` map the words of
the user; "one" and "two" mean different things to each, as in the code. The
creation transaction is reduced to its states; it may be refused, complete or
fail, and its answer may come after B has stopped waiting (15 seconds).
`state_version` is left out: once a project is bound, nothing changes it. A
prompt that was written to the socket counts as sent, although a socket may
accept bytes and die.

### PrimaryStart

One project in one folder; the session launched for a task has the name of the
task, `Others` are sessions the user starts there. On B, `call[t]` is the
submitting tool call (`wait_for` polls `answered`, gives up after a minute and
leaves the task as it was created), and `reader` the WebSocket thread in
`_bind_started_session`: list the projects, bind, start the newest starting
task are three commits, and `register_project` of another thread may come
between them. On C, `spawn[t]` is `handleSpawnSession`, which queues the
prompt before it awaits the launch, `queue` the prompts of the folder, which
`consume` hands to whichever session registers next, `correlated` the map from
spawn token to request. `wire` is the connection, in order; what is sent while
it is down is lost, and the snapshot after a reconnect binds nothing.

### TaskEvents

One session, and of its events the `agent_settled` ones, each named by the run of
the agent that settled; the numbers between them are left out. `log` is the event
buffer of the Dashboard (`memory-event-store.ts`): what is kept at each number,
which is a settling, an event that is none, or nothing any more. `wire` is the
connection of B, in order. `Replay` is what `handleSubscribe` sends: the events
after `lastSeq`, or everything when `lastSeq` is ahead of the buffer. The server
holds live events back during a replay and sends them afterwards, so a replay is
one step. `ingest` is the program counter of the WebSocket thread after the
cursor was saved: activity row, notification row, then one `update_task` after
the other. `sender` is the notification thread between `inject` and `mark`.

`submit_task` sends the prompt in one step and marks the task running in a later
one; the run may settle and be processed in between. `ended[r]` remembers for
each run its tasks and those of them whose rows said running when it settled
(`marked`).

Faults, each enabled by the constant `Faults`: a restart of B; an exception in
its handler, which ends the connection; a restart of the Dashboard; `wipe`, the
deletion of the session's events while the Dashboard stays up, when its bridge
registers without `canSkipWipe` (`event-wiring.ts:1258`) or when the session is
evicted from the buffer (`memory-event-store.ts:1076`); `trim`, the loss of the
oldest events that are no messages from a long buffer (`:215`); `drop`, any
stretch of consecutive frames dropped by `sendTo` when the connection is full,
live ones or a piece of a replay; `unseen`, a settling the Dashboard never
records, because the bridge was away and its buffer full, or because it was
replaying. After a restart or a wipe the numbers begin again from one
(`renumbered`) with what the session brings, in which nothing settles. `hit` are
the runs whose settling a fault took away: the event B was working on when it
died or raised, and those a trim or a drop removed that the cursor had not
passed.

Left out: events of other types, so also their numbers; the first replay of a
very long session, which is shortened to a window; the frame of a snapshot that
is dropped, after which B would not subscribe until it is announced again; a
replay that fails half way without being caught up. The placeholder a trimmed
event leaves stands for the gap in the numbers, which a replay passes over.

### AutomationRuns and FireLedger

`parent[f]` and `child[c]` join the record on disk (`rec`) with what the engine
keeps in memory: the counter and outcomes of the parent (`tracked`,
`remaining`, `outcomes`), the context of a child (`live`), its session and its
spawn token. The runs of the trigger are numbered first (`Fires`), then those the
user starts with Run now (`Manual`): `runNowViaEngine` calls `startRunFor` beside
whatever is active and the runner does not hear of it. `finalizeChild`,
`finalizeParent`, `completeRun` and the start of a deferred fire are one turn of
the event loop and one operator here, which every one of the five paths to the
end of a child goes through (`End`); `completeRun` knows the automation and not
the run, so the end of a Run now frees or hands on the slot of a fire as well.
The awaits of `spawnSession` and `abortSpawnedRun` are the steps between
`spawn = "waiting"` and `SpawnReturns` or `SpawnFails`, and between a stop
(`stopping`) and `StopReturns`.

`stamps` is the queue per folder from which a registering session takes the child
it will serve, whichever session it is: that of a process the automation
launched, or one of the user's (`Strangers`), started from the Dashboard or in
his own terminal (`Terminals`, whose processes the registry does not know). A
session takes a stamp each time it registers, also when its connection comes
back, so it may serve several children. A full queue drops the newest stamps.
`Target` is how `abortSpawnedRun` finds a process, by session and then by token.
A signalled process is `killed` until it dies; a connection may close without
that (`Disconnects`). A restart keeps records and processes and forgets
everything else.

When the connection of a session that serves several children closes, the model
ends any one of them, where `findBySession` takes the first in the order of
creation; the model has more behaviours than the code there. That a Pi process
registers only after its spawn was answered is the code's own assumption
(spawnPiSession watches a new process for 300 ms, Pi takes longer to load).

`FireLedger` is the same automation without sessions, processes, signals, stops,
stamps and timers: a fire is missed, deferred or running, its children end one
by one, the last one ends the run with a verdict. The end of a run, also of one
the user started, hands the slot (`holder`) to the fire that has waited longest,
and a restart gives up what is under way. The mapping takes the stage of a run
from the record of the parent, from whether the engine still counts its children
(a record that says `running` and is counted by nobody is `orphaned`) and from
the queue of deferred fires (a fire without a record that is not in the queue is
`missed`), and the outcome of a child from its record.

## 3. Runs

"Violated" runs check one property taken from a document or a comment of the
repository and show that the code behaves otherwise.

| Run | Instance | Shows |
|---|---|---|
| `spawn_safety` | 2 tasks, 1 repository, 1 branch, 1 commit, 1 crash; tasks symmetric | the five safety properties, the inductive invariant, and that a worktree in use is kept |
| `spawn_settles` | 2 tasks, no crash, fair handlers | a creation ends complete or failed, its repository is freed |
| `spawn_restart` | the same with 1 crash | violated: `CreationSettles` (SDS:1444) |
| `child_safety` | 1 task, 2 commits of the worker, 1 of the user, 1 crash | landing once and after review, final outcome, history follows code, implements `ChildOutcome`; an integration ends unless the Dashboard stops or the landed commit cannot be read |
| `gate_safety` | 2 tasks, 2 conversations, words *one*, *parallel*, *head*, 3 turns, 1 lost answer or restart; tasks and conversations symmetric | a task that was asked about has no effect without the consent of the conversation that was asked (a primary that looked idle is prompted without asking); recorded means started; until the fault work starts once, failed is not started and a question is open |
| `gate_repeats` | 1 task, 1 lost answer | violated: `StartedOnce` (SDS:1999) |
| `start_safety` | 2 tasks, 1 session of the user's, 2 registrations, 1 broken connection | a prompt is delivered at most once, one binding starts one task, an undisturbed start runs where its prompt went |
| `events_safety` | 1 task, 2 runs, 1 lost connection or second subscription, 1 fault of any of the seven kinds, 2 attempts; fair reader, server and notifier | processed once and in order; told once; while the numbers go on only a settling that a fault took away is lost; a task marked running when its run settles is completed and the user told, unless that settling was taken away or the numbers began again |
| `automation_runs` | 1 fire of 2 children, room for 2 stamps, 2 sessions of the user, one of a terminal, 1 restart, fair reaper | the parent follows its children with the aggregate of both, the books agree with the records, a recorded stop cost a process its life unless the terminal serves the child, an accepted run ends |
| `automation_fires` | policies skip and queue, 2 fires and 1 Run now of 1 child each, room for 1 stamp | implements `FireLedger`; the slot is that of a fire that counts, and overlap costs an ended Run now |
| `automation_stop` | 1 child | violated: `StopIsRecorded` (`openspec/specs/automation-run-lifecycle/spec.md:429`) |
| `automation_siblings` | 1 fire of 2 children | violated: `SiblingsSpared` (`spec.md:423`) |

### The disagreements

Four have a run:

- A restart of the Dashboard in the middle of a creation leaves the transaction
  in its creation state, its process and its worktree, for ever: `register()`
  loads the journal and nothing resumes or undoes what it finds
  (`spawn_restart`).
- A late answer of the Dashboard (15 seconds) leaves the decision pending while
  the child exists; the next answer that queues or steers sends the same work to
  the primary (`gate_repeats`).
- A child that the user stops is recorded as failed with an error:
  `stopChild` awaits `abortSpawnedRun` before it finalizes, the process closes
  its connection before that returns, and `onSessionDeath` comes first
  (`automation_stop`).
- The children of a fire share the folder and its queue of stamps. When they
  register in another order than they were spawned, stopping one by the token of
  its own process ends the process that serves its sibling
  (`automation_siblings`).

The models reach more that no run singles out. Five are disagreements with a
document or a comment as well, and are the reason why a checked property has the
exception it has:

- The end of a Run now completes the run the runner tracks, whichever it is
  (`engine.ts:447`): a fire that is still running loses the slot, or the queued one
  starts beside it, against `spec.md:400-404`. `SlotHeld` and `FireLedger`
  therefore allow one fire more for each Run now that has ended.
- A session of the user's terminal that registers in the folder takes the stamp
  that waits there. The registry does not know its process, so a stop before the
  spawn was answered ends nothing while the record says stopped, and the process
  that was launched lives on, against `spec.md:423`. `StopKills` excepts it.
- When the session that takes the stamp is one the user started from the
  Dashboard, the run's end shuts it down, although the comment at
  `event-wiring.ts:432-433` says such sessions never get there. That process is
  the one whose life `StopKills` then counts.
- A run that settles and is processed between `send_prompt` and `update_task`
  (`service.py:170-171`) leaves its task running for ever without any fault,
  against the completion boundary of SDS:2112. `TaskCompletes` and
  `SettledIsTold` therefore speak of rows that say running when the run settles.
- The cursor is saved before the event is processed (`client.py:145`); a crash of
  B in between loses the event, against the at-least-once consumption of
  SDS:1962. `LossExplained` counts it among what a fault takes away (`hit`).

Of the others no document promises otherwise, or a checked property would only
restate the code:

- The name of a worktree keeps 32 characters of the prompt and 8 of the task
  id. When two tasks share it, `git worktree add` refuses the second and its
  rollback deletes the worktree and branch of the first. The proofs assume
  `DistinctNames` for this reason.
- A child in `awaiting_review` may be prompted again and is then merged while it
  works; `NoUnreviewedMerge` says only that there was a review.
- A crash between `integrating` and the outcome, or a `git rev-parse HEAD` that
  fails after the merge, leaves a child that every later request refuses, whether
  Git had merged it or not (`InterruptedForGood`).
- A task submitted to a primary that looks idle is sent without a question, also
  when the primary has begun to work between the look and the send
  (`service.py:130-170`); `ConsentBeforeEffect` is about tasks that were asked
  about.
- A decision outlives the situation it was asked in: after the primary has
  settled, "parallel" still creates a child. One turn answers every decision its
  conversation has pending.
- A tool call that dies between `resolve_decision` and `update_task`, or between
  closing the first question and asking the second (`service.py:235-270`),
  leaves a task that waits for a closed question; `QuestionIsOpen` therefore
  ends with the first fault.
- A run that settles unseen, is trimmed from the buffer before B reads it, or is
  dropped with a frame is neither announced nor completed, and after the numbers
  began again everything is dropped until they catch up with the cursor.
  `LossExplained` says that nothing else is lost.
- `agent_settled` completes every running task of a session: when B reconnects
  and submits a task before the replay brings the settling of an earlier run,
  the task is recorded as completed before Pi has read it (`service.py:430-446`).
- `_bind_started_session` reads the project unbound and binds it a statement
  later; an explicit registration in between is overwritten. A prompt in the
  folder's queue goes to whichever session registers there next. A spawn whose
  answer comes too late leaves its task as it was created, and a session
  announced while the connection was down binds nothing.
- After a restart nobody counts the children of an automation run any more; the
  reaper ends their records and never that of the parent. A reaped child whose
  process runs on keeps it.
- `startRunFor` that throws between two children, or a deferred fire whose
  `begin` fails, leaves a counter or a queue that nobody works off. Writing a
  record is taken to succeed in the model.

### Bounds

The bounds are constants that guard user commits (`MaxTip`), worker commits
(`MaxWork`), crashes, turns, faults, runs, connections, registrations, fires and
restarts. Two tasks are enough for the exclusion of creations and for a rollback
that hits another task's worktree, since handlers interact in pairs through one
repository and one name; one crash reaches every step of a handler, and what it
leaves is what a second crash would find. Two worker commits tell an empty, a
one-commit and a longer branch apart. The three words of `gate_safety` give each
parser one word that only it understands and one both read differently; the four
words *queue*, *two*, *parallel* and a word that chooses nothing were explored
once on the same instance without an error (6.1 million states). Three turns are
a question, its answer and a later one; two conversations let one answer for the
other. Two runs of the agent let an event be lost or trimmed while the other is
not, and a dropped stretch hold one event or both; a fault after a lost
connection gives two reconnections. `MaxAttempts` is 8 in the code; two attempts
tell the first failure from the last. Two registrations let two sessions, or one
twice, compete for two prompts; `QueueCap` is the code's 8. Two children have a
first and a last to end and can swap stamps, and two sessions of the user
(`Strangers`), one of them in his terminal (`Terminals`), can take both stamps
or one. One Run now (`MaxManual`) beside two fires ends while the first is
running and the second waits, and finds the folder's room for stamps taken
(`StampCap`, 8 in the code). A restart together with several fires, and a queue
of more than one fire, are left to the theorems (`ImplementsTheLedger`,
`BooksAlways`); that a deferred fire ends is `FireEnds` of the fire before it,
checked on a single one, with the hand-over that `ImplementsLedger` checks.
Bounded systems stop, so deadlock is not checked in `TaskEvents`, `PrimaryStart`
and `AutomationRuns`; in the other modules something of the environment can
always happen.

### Fairness

- `ParallelSpawn!FairSpec`: weak fairness of each handler. Node resumes a
  promise that has settled, and every await of the handler ends: Git, spawn and
  registration have timeouts.
- `ChildLifecycle!ChildFairSpec`: weak fairness of an integration, which runs
  to its end without yielding; strong fairness of a handler, because others may
  take the event loop in between, which serves callbacks in order.
- `TaskEvents!FairSpec`: the reader reconnects and reads, the Dashboard serves
  a subscription, the notification thread runs. Connections break finitely
  often. Nothing is assumed of the agent or of the user.
- `AutomationRuns!FairSpec`: the reaper's timer comes round for a record that
  stays running (`setInterval` with `maxRunAgeMs`). That alone is enough for
  `FireEnds`: no agent, session, answer or end of a process is assumed.

No fairness is assumed of the user, of Pi or of faults.

## 4. Proofs

All theorems hold for any values of the constants that satisfy the named
assumption of the module; TLC evaluates the assumptions in the runs.
`SpawnAssumption`, `GateAssumption`, `EventsAssumption`, `StartAssumption` and
`AutomationAssumption` only give types and keep "nobody" apart from somebody.
`LifecycleAssumption` also contains `DistinctNames` (no two tasks share the name
of a worktree), which the theorems about creation assume where they need it.

| Module | Theorems (property) |
|---|---|
| `ParallelSpawnProofs` | `SpawnInvariant` (`SpawnInv`), `Typing` (`TypeOK`), `Exclusion` (`OneCreationPerProject`), `OneWorker` (`OneWorkerPerTask`), `CompletionIsReal` (`CompleteIsReal`), `FailureLeavesNothing` (`FailedLeavesNothing`), `DirtyStartsAreAuthorized` (`DirtyStartAuthorized`), `TaskedWorktreeIsKept` (`TaskedWorktreeKept`, an action property); `TurnAlwaysRuns`, `HandlersFinish`, `LocksHaveHandlers`, `OnlyCrashesStrand`, `StrandedForGood` (how a creation ends) |
| `ChildLifecycleProofs` | `ChildTyping` (`ChildTypeOK`), `LandsOnce` (`OutcomeMatchesGit`), `NothingLandsUnreviewed` (`NoUnreviewedMerge`), `HistoryIsTrue` (`HistoryFollowsCode`), `OutcomesStay` (`OutcomeFinal`, an action property), `Implements` (`ImplementsOutcome`, the refinement); `CreationPromisesKept` (what creation promises, in the composition), `LoopAlwaysRuns`, `InterruptionsHaveCause`, `InterruptedForGood` (how an integration ends) |
| `HumanGateProofs` | `GateTyping` (`TypeOK`), `ConsentComesFirst` (`ConsentBeforeEffect`), `RecordsAreTrue` (`RecordedIsStarted`), `WorkStartsOnce` (`UndisturbedStartedOnce`), `FailuresAreReal` (`FailedIsNotStarted`), `QuestionsStayOpen` (`QuestionIsOpen`) |
| `TaskEventsProofs` | `EventsTyping` (`TypeOK`), `SettledInOrder` (`HandledInOrder`), `AnnouncedOnce` (`ToldOnce`), `FaultsCostWhatTheyHit` (`LossExplained`); `NothingIsForgotten` (what is settled and not taken away) |
| `PrimaryStartProofs` | `StartTyping` (`TypeOK`), `OneStart` (`OneTaskStarted`), `PromptGivenOnce` (`PromptedOnce`), `SoleStartTold` (`SoleStartIsTold`) |
| `FireLedgerProofs` | `LedgerPromise` (fires overlap only by the ended runs of the user, no overtaking, waiting only for one that runs, verdicts over all children), `LedgerFinal` (outcomes and verdicts stay, an action property) |
| `AutomationRunsProofs` | `Typing` (`TypeOK`), `BooksAlways` (`BooksBalance`), `ParentsFollow` (`ParentFollowsChildren`), `OutcomesFinal` (`OutcomeFinal`, an action property), `SlotAlwaysHeld` (`SlotHeld`), `StopsKill` (`StopKills`), `ImplementsTheLedger` (`ImplementsLedger`, the refinement), `FiresInOrder` (`LedgerPromise` of the automation itself); `OwnProcessIsSpared` (who is hit by a stop, an action property), `ScheduleNeverWedged` (what a waiting or running fire waits for) |

**Creation.** `Exclusion` needs only `TypeOK`: the lock is taken in the step
that starts a handler and given back in the step that ends it (lemma
`LockStep`). The others rest on `SpawnInv` and assume
`DistinctNames`. None of them is inductive by itself: that a failed transaction
left no worktree depends on what its handler still had to do when it failed, and
after a crash nothing but the record is left to tell. `SpawnInv` therefore says,
for each state of the record *and* each step of the handler, what exists:
nothing before `prepare`, the own worktree from `progress` to `abort`, no
process from `cleanup` on, a delivered task only at `commit` or in a record that
is neither failed nor undone, the authorized tip as the base wherever a dirty
start was admitted. A crash keeps it because each clause about a record holds
with any step, or the handler at none. The proof goes action by action
(`SpawnInvStep`); lemma `Frame` covers the tasks an action does not touch, for
which `DistinctNames` is needed, since cleanup goes by name.

How a creation ends is proved up to fairness. Lemma `HandlerAdvances` says of
every continuation where it leads, that it is nearer to the end (`Left`: ten
continuations at most), what it does to the event loop and the lock, and that it
ends only in a settled record. From it follow that the event loop is held by the
handler whose synchronous piece is next (`TurnAlwaysRuns`), that nothing sets a
handler back (`HandlersFinish`), that a busy project has a handler that will free
it (`LocksHaveHandlers`) and that only a crash leaves a creation without one
(`OnlyCrashesStrand`). `StrandedForGood` is the other side: what a crash stranded
is never completed, failed or cleaned up, which is the counterexample of
`spawn_restart` for every instance.

**Review and integration.** `ChildInv` adds to `SpawnInv` two parts. `TurnInv`
says that a handler between two awaits and an integration never hold the event
loop together, without which one could overwrite the record the other has just
read. `LandInv` says what is known of a child at each step of an integration
*and* in each state of its record: a record that says `integrating` may belong
to work that has landed or not, and after a crash only the history of merges can
tell; that no second integration is admitted from there is what makes landing
happen at most once. `Implements` proves that the initial states and every step
of creation, worker, review, integration, user and crash map to the initial
states and to a step or a stutter of `ChildOutcome`.

The composition keeps what creation promised: `SpawnInv` is part of `ChildInv`,
so the theorems about a creation hold with reviews, integrations and busy workers
between its steps (`CreationPromisesKept`), and the event loop the two share is
held only by the one whose piece is next (`LoopAlwaysRuns`). A record that says
`integrating` and that nobody works on was left by a crash, or its work had
landed and the commit could not be read (`InterruptionsHaveCause`); it stays as it
is, merged or not (`InterruptedForGood`): no second merge, but no reconciliation
either.

**The gate.** `GateInv` has a clause for each tool call (`SubmitInv`,
`DecisionInv`, `PreflightInv`: what it knows of its task at each step) and one
for each task. `OneCall`, a task is worked on by one tool call at a time, is not
enforced by any lock: it follows because only the conversation that was asked may
answer, a question is closed before the next one is asked, and a conversation
runs one tool at a time. `AskedInv` carries the consent: when the conversation
that was asked had a later turn while the question was pending, the word of that
turn was heard. What may fail is kept apart in `CalmInv`, which holds until the
first fault. Lemma `Frame` leaves the other tasks and calls alone, `Alone` says
who works on the task of a call; then each statement of a tool call is a lemma.

**Events.** `EventsInv` holds the order together from the buffer to the outbox:
a later number carries a later run, in the buffer, on the connection and from the
one to the other (`LogInv`), what the cursor has not passed is later than
everything received, processed or announced (`AheadInv`), and what is being
processed is later than what was (`OrderInv`). A replay, a dropped or trimmed
stretch, a renumbering and a settling that is never recorded keep this because
they only ever move the cursor forward, take events away, or put events without a
settling in their place. `ToldInv` counts the announcements of a notification
against the faults.

`FaultsCostWhatTheyHit` says which events are lost. `LossInv` says that while the
numbers go on a run that settled was hit by a fault, is being processed, was
processed, or is *coming*. The difficulty is to say what is coming without
counting on a subscription that nobody has sent yet: a run beyond the cursor comes
when the connection has no subscription that was served, so that the next one will
cover it, or when its event is on the wire with only earlier ones before it.
`NumberInv` (cursor and connection stay within the buffer until the numbers begin
again) and `LinkInv` (a subscription asks for no more than the cursor had passed,
and nothing is on a connection without one) make this survive each step: in
particular a dropped stretch takes no later event with it, and a trimmed one that
the cursor had passed costs nothing.

`NothingIsForgotten` goes on to the end of the processing: each run that settled
is excused, coming, in the hands of the WebSocket thread, or processed, and then
the tasks whose rows said running are completed and it was announced if there were
any. It holds with every fault. *Coming* is taken from `LossInv`; `WorkInv` adds
what the tool call and the thread know at each statement: an event is recorded
for the first time, so it is announced before the tasks are listed, and a task of
its run is on the list the thread works off or completed already. That only rows
that said running count is what the window between `send_prompt` and
`update_task` costs.

**First start.** `StartInv`: a bound project stays bound, and the WebSocket
thread starts a task only on its way from finding the project unbound; so it
comes there once. `PromptInv` says where a prompt is: with the handler that
spawns, in the folder's queue, or given to a session, and at one of these places
once, which yields `PromptGivenOnce`. For `SoleStartTold` a prompt must also not
vanish: `KeptInv` says that a prompt of a sole start that has not expired is
still queued or given, and that whoever got it is the session of that start, the
only one there is; `ConnectedInv` says that whoever is announced, bound, at work
or was given a prompt is connected. `Times`, the number of copies in a sequence, is the size of a set of
positions, so that lemmas about appending and removing one element are enough.

**Automation runs.** `BooksBalance` is inductive as it stands (with the types)
and yields `ParentFollowsChildren`; `OutcomeFinal` follows step by step from it.
For `StopKills` the invariant `StopInv` also accounts for every token, session and
pending stop: each names a process that was launched, so a stop that returns has
found one and a stop that came before any handle is carried out by the
continuation of the spawn. The exception is a session of the user's terminal:
nothing can find its process. These theorems also cover
the policy "parallel", which no run includes, and any number of sessions of the
user.

`OwnProcessIsSpared` delimits the disagreement of `automation_siblings`: a child
served by the process that was launched for it, whose session serves no other,
loses that process only when it ends or is stopped itself, so the stop that hits a
sibling needs stamps taken out of turn. It needs of the invariants only that a
stop is asked for a child that has not ended (`StopAsked`); the rest is who each
action can find (`Target`).

For the ledger, `FireLedgerProofs` proves the promise of the abstract module from
`LedgerInv`, which adds `Line`: the queue is exactly the deferred fires in the
order of the trigger, what was not triggered is behind all the rest, and a fire
waits only under the policy "queue" and while another one holds the slot; and
`Paid`: a fire that runs without the slot is paid for by a run of the user that
has ended, each of which pays for one. `ImplementsTheLedger` then maps every step
of `AutomationRuns` to a step or a stutter. The ways a child can end go through
one lemma, `EndLedger`, in which the counter of the engine decides between
`ChildEnds` and `RunEnds`; that the counter is right is `BooksBalance`. A child
the reaper ends after a restart maps to `OrphanEnds`, one that is still counted to
an ordinary end. `FiresInOrder` is the abstract promise carried over by
instantiation, and `SlotAlwaysHeld` is read off it: the runner's slot is the
ledger's, and a fire that runs in the ledger is one the engine counts. It says as
much as the code keeps once a Run now can end beside a fire; that runner and
engine agree altogether is what the end of a Run now refutes.
`ScheduleNeverWedged` is the safety part of `FireEnds`: a fire that waits has one
that is counted before it, which is read off the ledger, and a run that is counted
has a child whose record still says running, which is read off the books; the
reaper's timer does the rest.

Only model-checked: liveness (`CreationSettles`, `ProjectReleased`,
`IntegrationSettles`, `TaskCompletes`, `SettledIsTold`, `FireEnds`), because the
prover handles neither fairness nor ENABLED. What can be proved of each without
fairness is: that whoever must act is there and nothing takes its work away
(`OnlyCrashesStrand` with `HandlersFinish`, `LocksHaveHandlers`,
`InterruptionsHaveCause`, `NothingIsForgotten`, `ScheduleNeverWedged`); that it acts
is what the runs add, on their instances. Every invariant and every action
property that a passing run checks is also a theorem.

## 5. Not modelled

- Review and integration as tools of B (`review_child`, `integrate_child`): they
  repeat the validation that `HumanGate` models for the first question and call
  what `ChildLifecycle` models.
- The automation scheduler, triggers, discovery, retention and routes; a
  creation of runs that throws half way.
- The React panel and its request counters; the bridge, which forwards one event.
- An unreadable journal or database, a full disk.
- Everything of the upstream Dashboard, its extension, web client, Electron
  shell, knowledge base, converters and the other plugins, beyond the interface
  named above. This is by far the largest part of the repository and the
  orchestrator does not use it; most of it is presentation, conversion and
  tooling without shared state.
- Text (prompts, summaries, diffs, notification wording), which is data no
  property distinguishes.

## 6. Plan

Done: the modules and proofs above. What is left, in the order of its use:

1. A composition of gate, first start and events, for the settling that
   completes a task submitted after it.
2. The integration gate of `service.py` over `ChildOutcome`.
3. The request counters of `useOrchestrator.ts`.
4. Goal and flows plugins, if the orchestrator comes to use them.
