---------------------------- MODULE PrimaryStart ----------------------------
(***************************************************************************)
(* The first task of a project that has no primary session yet.            *)
(*                                                                         *)
(* Hermes asks the Dashboard to spawn Pi in the repository with the task   *)
(* as its initial prompt (service.py submit_task, dashboard/client.py      *)
(* spawn).  The Dashboard queues the prompt per directory, launches Pi and *)
(* gives the oldest queued prompt to whichever session of that directory   *)
(* registers next (session-action-handler.ts,                              *)
(* pending-initial-prompt-registry.ts, event-wiring.ts).  It announces the *)
(* session to Hermes, whose WebSocket thread binds the project to it and   *)
(* marks a starting task as running (_bind_started_session), while tool    *)
(* calls of other threads go on, register_project among them.              *)
(*                                                                         *)
(* One project, one directory.  The session launched for task t is named   *)
(* t; Others are sessions the user starts in the directory.  What happens  *)
(* to tasks of a bound project is in HumanGate and TaskEvents.             *)
(***************************************************************************)
EXTENDS Naturals, Sequences, FiniteSets, SequencesExt

CONSTANTS
    Tasks,          \* tasks submitted while the project is unbound
    Others,         \* sessions the user starts in the directory
    NoSession,      \* the project is unbound, a task has no worker
    QueueCap,       \* prompts the Dashboard keeps for a directory
    MaxRegisters,   \* bound: registrations of sessions
    MaxLinks        \* bound: broken connections of Hermes

Sessions == Tasks \cup Others

ASSUME StartAssumption ==
    /\ Tasks \cap Others = {}
    /\ NoSession \notin Sessions
    /\ {QueueCap, MaxRegisters, MaxLinks} \subseteq Nat

-----------------------------------------------------------------------------
VARIABLES
    bound,      \* projects.primary_session_id in the store
    task,       \* status and worker of each task in the store
    created,    \* the tasks of the store, newest first
    call,       \* what the tool call of a task waits for
    answered,   \* tasks whose spawn request is answered (_responses)
    link,       \* Hermes is connected to the Dashboard
    wire,       \* messages on that connection, in order
    reader,     \* what the WebSocket thread does with an announced session
    spawn,      \* what the Dashboard does for a spawn request
    correlated, \* tasks whose spawn token maps to their request
    queue,      \* initial prompts of the directory, oldest first
    pi,         \* the Pi processes
    registers,  \* registrations so far
    got,        \* history: the initial prompts each session was given
    expired,    \* history: a queued prompt grew too old or was refused
    links       \* broken connections so far

hermes == <<bound, task, created, call, answered, reader>>
dashboard == <<spawn, correlated, queue, pi, registers, got, expired>>
connection == <<link, wire, links>>
vars == <<hermes, dashboard, connection>>

Status == {"absent", "created", "starting", "running", "failed"}
Message == [type: {"spawn_result"}, task: Tasks]
           \cup [type: {"session_added"}, session: Sessions, correlated: BOOLEAN]

TypeOK ==
    /\ bound \in Sessions \cup {NoSession}
    /\ task \in [Tasks -> [status: Status, worker: Sessions \cup {NoSession}]]
    /\ created \in Seq(Tasks)
    /\ call \in [Tasks -> {"none", "waiting", "marking", "returned"}]
    /\ answered \subseteq Tasks
    /\ link \in BOOLEAN
    /\ wire \in Seq(Message)
    /\ reader \in [at: {"idle", "list", "bind", "start"},
                   session: Sessions \cup {NoSession}]
    /\ spawn \in [Tasks -> {"none", "requested", "launching", "done"}]
    /\ correlated \subseteq Tasks
    /\ queue \in Seq(Tasks)
    /\ pi \in [Sessions -> {"absent", "launched", "connected"}]
    /\ registers \in 0 .. MaxRegisters
    /\ got \in [Sessions -> Seq(Tasks)]
    /\ expired \in BOOLEAN
    /\ links \in 0 .. MaxLinks

ReaderIdle == [at |-> "idle", session |-> NoSession]

Init ==
    /\ bound = NoSession
    /\ task = [t \in Tasks |-> [status |-> "absent", worker |-> NoSession]]
    /\ created = <<>>
    /\ call = [t \in Tasks |-> "none"]
    /\ answered = {}
    /\ link = TRUE
    /\ wire = <<>>
    /\ reader = ReaderIdle
    /\ spawn = [t \in Tasks |-> "none"]
    /\ correlated = {}
    /\ queue = <<>>
    /\ pi = [s \in Sessions |-> "absent"]
    /\ registers = 0
    /\ got = [s \in Sessions |-> <<>>]
    /\ expired = FALSE
    /\ links = 0

\* sendTo and broadcastToAll reach Hermes only while it is connected.
Send(message) == wire' = IF link THEN Append(wire, message) ELSE wire

-----------------------------------------------------------------------------
(* Tool calls of Hermes *)

\* submit_task of an unbound project: create_task, then spawn sends the
\* request, or the task fails because there is no connection.
Submit(t) ==
    /\ bound = NoSession
    /\ call[t] = "none"
    /\ created' = <<t>> \o created
    /\ task' = [task EXCEPT ![t].status = IF link THEN "created" ELSE "failed"]
    /\ call' = [call EXCEPT ![t] = IF link THEN "waiting" ELSE "returned"]
    /\ spawn' = IF link THEN [spawn EXCEPT ![t] = "requested"] ELSE spawn
    /\ UNCHANGED <<bound, answered, reader, correlated, queue, pi, registers, got,
                   expired, connection>>

\* wait_for returns the first message that carries the request, whether it
\* says that the spawn succeeded or not.
TakeAnswer(t) ==
    /\ call[t] = "waiting"
    /\ t \in answered
    /\ answered' = answered \ {t}
    /\ call' = [call EXCEPT ![t] = "marking"]
    /\ UNCHANGED <<bound, task, created, reader, dashboard, connection>>

\* wait_for gives up after 60 seconds; the task stays as it was created.
WaitTimesOut(t) ==
    /\ call[t] = "waiting"
    /\ t \notin answered
    /\ call' = [call EXCEPT ![t] = "returned"]
    /\ UNCHANGED <<bound, task, created, answered, reader, dashboard, connection>>

\* Mutant: the store keeps the status that the tool returns.
MarkStartingPrimary(t) ==
    /\ call[t] = "marking"
    /\ task' = [task EXCEPT ![t].status = "starting_primary"]
    /\ call' = [call EXCEPT ![t] = "returned"]
    /\ UNCHANGED <<bound, created, answered, reader, dashboard, connection>>

\* update_task(status="starting").
MarkStarting(t) ==
    /\ call[t] = "marking"
    /\ task' = [task EXCEPT ![t].status = "starting"]
    /\ call' = [call EXCEPT ![t] = "returned"]
    /\ UNCHANGED <<bound, created, answered, reader, dashboard, connection>>

\* register_project with a session of the repository, named by the user or
\* the only one there is; the upsert replaces the binding.
RegisterProject(s) ==
    /\ link
    /\ pi[s] = "connected"
    /\ bound' = s
    /\ UNCHANGED <<task, created, call, answered, reader, dashboard, connection>>

-----------------------------------------------------------------------------
(* The WebSocket thread of Hermes *)

\* ingest: an answer wakes the tool call that waits for it; an announced
\* session goes to _bind_started_session.
Ingest ==
    /\ reader.at = "idle"
    /\ wire # <<>>
    /\ LET message == Head(wire) IN
       /\ wire' = Tail(wire)
       /\ \/ /\ message.type = "spawn_result"
             /\ answered' = answered \cup {message.task}
             /\ UNCHANGED reader
          \/ /\ message.type = "session_added"
             /\ answered' = IF message.correlated
                            THEN answered \cup {message.session} ELSE answered
             /\ reader' = [at |-> "list", session |-> message.session]
    /\ UNCHANGED <<bound, task, created, call, dashboard, link, links>>

\* Mutant: a bound project is not passed over.
ListProjectsAll ==
    /\ reader.at = "list"
    /\ reader' = [reader EXCEPT !.at = "bind"]
    /\ UNCHANGED <<bound, task, created, call, answered, dashboard, connection>>

\* list_projects: a bound project is passed over.
ListProjects ==
    /\ reader.at = "list"
    /\ reader' = IF bound = NoSession THEN [reader EXCEPT !.at = "bind"] ELSE ReaderIdle
    /\ UNCHANGED <<bound, task, created, call, answered, dashboard, connection>>

BindPrimary ==
    /\ reader.at = "bind"
    /\ bound' = reader.session
    /\ reader' = [reader EXCEPT !.at = "start"]
    /\ UNCHANGED <<task, created, call, answered, dashboard, connection>>

\* The newest starting task, if there is one, runs in the new primary.
Starting == {i \in DOMAIN created : task[created[i]].status = "starting"}
StartTask ==
    /\ reader.at = "start"
    /\ \/ Starting = {} /\ UNCHANGED task
       \/ \E i \in Starting :
             /\ \A j \in Starting : i <= j
             /\ task' = [task EXCEPT ![created[i]] =
                           [status |-> "running", worker |-> reader.session]]
    /\ reader' = ReaderIdle
    /\ UNCHANGED <<bound, created, call, answered, dashboard, connection>>

\* The connection breaks between two messages.
Disconnect ==
    /\ link
    /\ reader.at = "idle"
    /\ links < MaxLinks
    /\ link' = FALSE
    /\ wire' = <<>>
    /\ links' = links + 1
    /\ UNCHANGED <<hermes, dashboard>>

\* The snapshot that follows subscribes to sessions and binds none of them.
Connect ==
    /\ ~link
    /\ link' = TRUE
    /\ UNCHANGED <<hermes, dashboard, wire, links>>

-----------------------------------------------------------------------------
(* The Dashboard *)

\* enqueue and consume of pending-initial-prompt-registry.ts.
Enqueue(t) == IF Len(queue) < QueueCap THEN Append(queue, t) ELSE queue
\* Mutant: the prompt is read and stays in the queue.
ConsumeNot == queue
Consume == IF queue = <<>> THEN queue ELSE Tail(queue)

\* handleSpawnSession queues the prompt before anything can fail ...
RequestFails(t) ==
    /\ spawn[t] = "requested"
    /\ queue' = Enqueue(t)
    /\ expired' = (expired \/ Len(queue) = QueueCap)
    /\ spawn' = [spawn EXCEPT ![t] = "done"]
    /\ Send([type |-> "spawn_result", task |-> t])
    /\ UNCHANGED <<hermes, correlated, pi, registers, got, link, links>>

\* Mutant: the prompt is not queued before the launch.
LaunchUnqueued(t) ==
    /\ spawn[t] = "requested"
    /\ spawn' = [spawn EXCEPT ![t] = "launching"]
    /\ pi' = [pi EXCEPT ![t] = "launched"]
    /\ UNCHANGED <<hermes, correlated, queue, registers, got, expired, connection>>

\* ... and awaits the launch, during which the process runs already.
Launch(t) ==
    /\ spawn[t] = "requested"
    /\ queue' = Enqueue(t)
    /\ expired' = (expired \/ Len(queue) = QueueCap)
    /\ spawn' = [spawn EXCEPT ![t] = "launching"]
    /\ pi' = [pi EXCEPT ![t] = "launched"]
    /\ UNCHANGED <<hermes, correlated, registers, got, connection>>

LaunchReturns(t) ==
    /\ spawn[t] = "launching"
    /\ spawn' = [spawn EXCEPT ![t] = "done"]
    /\ correlated' = correlated \cup {t}
    /\ Send([type |-> "spawn_result", task |-> t])
    /\ UNCHANGED <<hermes, queue, pi, registers, got, expired, link, links>>

\* The user starts Pi in the directory.
UserStarts(s) ==
    /\ pi[s] = "absent"
    /\ pi' = [pi EXCEPT ![s] = "launched"]
    /\ UNCHANGED <<hermes, spawn, correlated, queue, registers, got, expired, connection>>

\* session_register, the first one or the one of a bridge that reconnects:
\* the session gets the oldest prompt of its directory and is announced.
Register(s) ==
    /\ pi[s] # "absent"
    /\ registers < MaxRegisters
    /\ pi' = [pi EXCEPT ![s] = "connected"]
    /\ registers' = registers + 1
    /\ got' = IF queue = <<>> THEN got ELSE [got EXCEPT ![s] = Append(@, Head(queue))]
    /\ queue' = Consume
    /\ correlated' = correlated \ {s}
    /\ Send([type |-> "session_added", session |-> s, correlated |-> s \in correlated])
    /\ UNCHANGED <<hermes, spawn, expired, link, links>>

\* A prompt older than 60 seconds is dropped when the queue is next used.
Expire ==
    /\ queue # <<>>
    /\ queue' = Tail(queue)
    /\ expired' = TRUE
    /\ UNCHANGED <<hermes, spawn, correlated, pi, registers, got, connection>>

-----------------------------------------------------------------------------
ToolCall(t) == Submit(t) \/ TakeAnswer(t) \/ WaitTimesOut(t) \/ MarkStarting(t)
SpawnRequest(t) == RequestFails(t) \/ Launch(t) \/ LaunchReturns(t)
Reader == Ingest \/ ListProjects \/ BindPrimary \/ StartTask

Next ==
    \/ \E t \in Tasks : ToolCall(t) \/ SpawnRequest(t)
    \/ \E s \in Sessions : RegisterProject(s) \/ Register(s)
    \/ \E s \in Others : UserStarts(s)
    \/ Reader \/ Disconnect \/ Connect \/ Expire

Spec == Init /\ [][Next]_vars

-----------------------------------------------------------------------------
(* Properties *)

Times(t, seq) == Cardinality({i \in DOMAIN seq : seq[i] = t})

\* The prompt of a task is given to one session, once: failing launches,
\* reconnecting bridges and prompts that grow too old neither repeat it nor
\* leave a copy behind (consume of pending-initial-prompt-registry.ts).
PromptedOnce ==
    \A t \in Tasks :
        LET given == {s \in Sessions : Times(t, got[s]) > 0} IN
        /\ Cardinality(given) + Times(t, queue) <= 1
        /\ \A s \in given : Times(t, got[s]) = 1

\* When a single task was submitted and no other session came in between, a
\* task that Hermes calls running was given to the session it is bound to,
\* however early Pi registers: the prompt is queued before the launch.
SoleStartIsTold ==
    \A t \in Tasks :
        /\ created = <<t>>
        /\ task[t].status = "running"
        /\ \A s \in Others : pi[s] # "connected"
        /\ ~expired
        => Times(t, got[task[t].worker]) = 1

\* One binding starts one task: two tasks that both found the project unbound
\* never both run in the session that answered (_bind_started_session).
OneTaskStarted == Cardinality({t \in Tasks : task[t].status = "running"}) <= 1
=============================================================================
