------------------------- MODULE PrimaryStartProofs -------------------------
(***************************************************************************)
(* Proofs about PrimaryStart, for any tasks, sessions and bounds: its      *)
(* types, that one binding starts one task, that a prompt is given once,   *)
(* and that a start nothing disturbs runs where its prompt went.           *)
(***************************************************************************)
EXTENDS PrimaryStart, SequenceTheorems, FiniteSetTheorems, TLAPS

\* Only a session spawned for a task is announced with a request.
Sound == {m \in Message : m.type = "session_added" /\ m.correlated => m.session \in Tasks}

\* A project that is bound stays bound, and the WebSocket thread starts a task
\* only on its way from finding it unbound to having bound it.
StartInv ==
    /\ wire \in Seq(Sound)
    /\ reader.at = "start" => bound # NoSession
    /\ reader.at \in {"bind", "start"} => \A t \in Tasks : task[t].status # "running"
    /\ reader.at \in {"list", "bind", "start"} => reader.session \in Sessions
    /\ \A t \in Tasks : task[t].status = "running" => bound # NoSession
    /\ \A t, u \in Tasks :
          task[t].status = "running" /\ task[u].status = "running" => t = u

LEMMA TypesInit == Init => TypeOK
<1> SUFFICES ASSUME Init PROVE TypeOK
  OBVIOUS
<1>1. created \in Seq(Tasks) /\ queue \in Seq(Tasks) /\ wire \in Seq(Message)
      /\ <<>> \in Seq(Tasks)
  BY EmptySeq DEF Init
<1>2. registers \in 0 .. MaxRegisters /\ links \in 0 .. MaxLinks
  BY StartAssumption DEF Init
<1>3. got \in [Sessions -> Seq(Tasks)]
  BY <1>1 DEF Init
<1>4. task \in [Tasks -> [status: Status, worker: Sessions \cup {NoSession}]]
  BY DEF Init, Status
<1>5. reader \in [at: {"idle", "list", "bind", "start"}, session: Sessions \cup {NoSession}]
  BY DEF Init, ReaderIdle
<1> QED BY <1>1, <1>2, <1>3, <1>4, <1>5 DEF Init, TypeOK

\* A message that is sent, or not, leaves a sequence of messages.
LEMMA SendTypes ==
    ASSUME StartInv, NEW m \in Sound, Send(m)
    PROVE  wire' \in Seq(Sound)
BY AppendProperties DEF StartInv, Send

LEMMA SoundMessages ==
    /\ \A t \in Tasks : [type |-> "spawn_result", task |-> t] \in Sound
    /\ \A s \in Sessions, b \in BOOLEAN : (b => s \in Tasks)
          => [type |-> "session_added", session |-> s, correlated |-> b] \in Sound
BY DEF Sound, Message

LEMMA SoundTypes == \A seq \in Seq(Sound) : seq \in Seq(Message)
<1> SUFFICES ASSUME NEW seq \in Seq(Sound) PROVE seq \in Seq(Message)
  OBVIOUS
<1>1. /\ Len(seq) \in Nat /\ seq \in [1 .. Len(seq) -> Sound]
  BY LenProperties
<1>2. Sound \subseteq Message
  BY DEF Sound
<1>3. seq \in [1 .. Len(seq) -> Message]
  BY <1>1, <1>2
<1> QED BY <1>1, <1>3, SeqDef

\* The queue of the directory keeps prompts.
LEMMA QueueTypes ==
    ASSUME TypeOK, NEW t \in Tasks
    PROVE  Enqueue(t) \in Seq(Tasks) /\ Consume \in Seq(Tasks)
<1>1. Enqueue(t) \in Seq(Tasks)
  BY AppendProperties DEF TypeOK, Enqueue
<1>2. Consume \in Seq(Tasks)
  BY HeadTailProperties DEF TypeOK, Consume
<1> QED BY <1>1, <1>2
\* What is on the connection stays sound.
LEMMA WireStep == TypeOK /\ StartInv /\ [Next]_vars => wire' \in Seq(Sound)
<1> SUFFICES ASSUME TypeOK, StartInv, [Next]_vars PROVE wire' \in Seq(Sound)
  OBVIOUS
<1>1. ASSUME NEW t \in Tasks, RequestFails(t) \/ LaunchReturns(t)
      PROVE  wire' \in Seq(Sound)
  BY <1>1, SendTypes, SoundMessages DEF RequestFails, LaunchReturns
<1>2. ASSUME NEW s \in Sessions, Register(s) PROVE wire' \in Seq(Sound)
  <2>1. PICK b \in BOOLEAN : b <=> s \in correlated
    OBVIOUS
  <2>2. b => s \in Tasks
    BY <2>1 DEF TypeOK
  <2>3. b = (s \in correlated)
    BY <2>1
  <2>4. Send([type |-> "session_added", session |-> s, correlated |-> b])
    BY <1>2, <2>3 DEF Register
  <2> QED BY <2>2, <2>4, SendTypes, SoundMessages
<1>3. CASE Ingest
  BY <1>3, HeadTailProperties DEF StartInv, Ingest
<1>4. CASE Disconnect
  BY <1>4, EmptySeq DEF Disconnect
<1>5. CASE UNCHANGED wire
  BY <1>5 DEF StartInv
<1> QED BY <1>1, <1>2, <1>3, <1>4, <1>5
        DEF Next, ToolCall, SpawnRequest, Reader, Submit, TakeAnswer, WaitTimesOut,
            MarkStarting, Launch, RegisterProject, UserStarts, ListProjects, BindPrimary,
            StartTask, Connect, Expire, vars, hermes, dashboard, connection

\* Every step keeps the types.
LEMMA TypesStep == TypeOK /\ StartInv /\ [Next]_vars => TypeOK'
<1> SUFFICES ASSUME TypeOK, StartInv, [Next]_vars PROVE TypeOK'
  OBVIOUS
<1> USE DEF hermes, dashboard, connection
<1>0. wire' \in Seq(Message)
  BY WireStep, SoundTypes
<1>1. ASSUME NEW t \in Tasks, Submit(t) PROVE TypeOK'
  <2>1. <<t>> \o created \in Seq(Tasks)
    BY ConcatProperties DEF TypeOK
  <2>2. task' \in [Tasks -> [status: Status, worker: Sessions \cup {NoSession}]]
    <3>1. PICK status \in {"created", "failed"} : task' = [task EXCEPT ![t].status = status]
      BY <1>1 DEF Submit
    <3> QED BY <3>1 DEF TypeOK, Status
  <2>3. /\ call' \in [Tasks -> {"none", "waiting", "marking", "returned"}]
        /\ spawn' \in [Tasks -> {"none", "requested", "launching", "done"}]
    BY <1>1 DEF TypeOK, Submit
  <2> QED BY <1>1, <2>1, <2>2, <2>3 DEF TypeOK, Submit
<1>2. ASSUME NEW t \in Tasks, TakeAnswer(t) \/ WaitTimesOut(t) PROVE TypeOK'
  BY <1>2 DEF TypeOK, TakeAnswer, WaitTimesOut
<1>3. ASSUME NEW t \in Tasks, MarkStarting(t) PROVE TypeOK'
  BY <1>3 DEF TypeOK, MarkStarting, Status
<1>4. ASSUME NEW s \in Sessions, RegisterProject(s) PROVE TypeOK'
  BY <1>4 DEF TypeOK, RegisterProject
<1>5. CASE Ingest
  <2>1. Head(wire) \in Message /\ Tail(wire) \in Seq(Message)
    BY <1>5, HeadTailProperties DEF TypeOK, Ingest
  <2>2. /\ Head(wire).type = "spawn_result" => Head(wire).task \in Tasks
        /\ Head(wire).type = "session_added" => Head(wire).session \in Sessions
    BY <2>1 DEF Message
  <2>3. Head(wire) \in Sound
    BY <1>5, HeadTailProperties DEF StartInv, Ingest
  <2>5. answered' \subseteq Tasks
    BY <1>5, <2>2, <2>3 DEF TypeOK, Ingest, Sound
  <2>4. reader' \in [at: {"idle", "list", "bind", "start"},
                     session: Sessions \cup {NoSession}]
    BY <1>5, <2>2 DEF TypeOK, Ingest
  <2> QED BY <1>5, <2>1, <2>4, <2>5 DEF TypeOK, Ingest
<1>6. CASE ListProjects
  BY <1>6 DEF TypeOK, ListProjects, ReaderIdle
<1>7. CASE BindPrimary
  BY <1>7 DEF TypeOK, BindPrimary
<1>8. CASE StartTask
  <2>1. task' \in [Tasks -> [status: Status, worker: Sessions \cup {NoSession}]]
    <3> DEFINE row == [status |-> "running", worker |-> reader.session]
    <3>1. row \in [status: Status, worker: Sessions \cup {NoSession}]
      BY DEF TypeOK, Status
    <3>2. task' = task \/ \E u : task' = [task EXCEPT ![u] = row]
      BY <1>8 DEF StartTask
    <3> HIDE DEF row
    <3> QED BY <3>1, <3>2 DEF TypeOK
  <2> QED BY <1>8, <2>1 DEF TypeOK, StartTask, ReaderIdle
<1>9. CASE Disconnect
  <2>1. links' \in 0 .. MaxLinks
    BY <1>9, StartAssumption DEF TypeOK, Disconnect
  <2> QED BY <1>0, <1>9, <2>1 DEF TypeOK, Disconnect
<1>10. CASE Connect
  BY <1>10 DEF TypeOK, Connect
<1>11. ASSUME NEW t \in Tasks, RequestFails(t) PROVE TypeOK'
  BY <1>11, <1>0, QueueTypes DEF TypeOK, RequestFails
<1>12. ASSUME NEW t \in Tasks, Launch(t) PROVE TypeOK'
  BY <1>12, QueueTypes DEF TypeOK, Launch
<1>13. ASSUME NEW t \in Tasks, LaunchReturns(t) PROVE TypeOK'
  BY <1>13, <1>0 DEF TypeOK, LaunchReturns
<1>14. ASSUME NEW s \in Others, UserStarts(s) PROVE TypeOK'
  BY <1>14 DEF TypeOK, UserStarts
<1>15. ASSUME NEW s \in Sessions, Register(s) PROVE TypeOK'
  <2>2. queue # <<>> => Head(queue) \in Tasks
    BY HeadTailProperties DEF TypeOK
  <2>3. got' \in [Sessions -> Seq(Tasks)]
    <3>1. CASE queue = <<>>
      BY <1>15, <3>1 DEF TypeOK, Register
    <3>2. CASE queue # <<>>
      <4>1. Append(got[s], Head(queue)) \in Seq(Tasks)
        BY <2>2, <3>2, AppendProperties DEF TypeOK
      <4> QED BY <1>15, <3>2, <4>1 DEF TypeOK, Register
    <3> QED BY <3>1, <3>2
  <2>4. queue' \in Seq(Tasks)
    BY <1>15, HeadTailProperties DEF TypeOK, Register, Consume
  <2>5. registers' \in 0 .. MaxRegisters
    BY <1>15, StartAssumption DEF TypeOK, Register
  <2> QED BY <1>0, <1>15, <2>3, <2>4, <2>5 DEF TypeOK, Register
<1>16. CASE Expire
  BY <1>16, HeadTailProperties DEF TypeOK, Expire
<1>17. CASE UNCHANGED vars
  BY <1>17 DEF TypeOK, vars
<1> QED BY <1>1, <1>2, <1>3, <1>4, <1>5, <1>6, <1>7, <1>8, <1>9, <1>10, <1>11, <1>12,
        <1>13, <1>14, <1>15, <1>16, <1>17
        DEF Next, ToolCall, SpawnRequest, Reader
LEMMA StartInit == Init => StartInv
BY EmptySeq DEF Init, ReaderIdle, StartInv

\* Who runs, and where the reader is, once the project is bound.
LEMMA StartStep == TypeOK /\ StartInv /\ [Next]_vars => StartInv'
<1> SUFFICES ASSUME TypeOK, StartInv, [Next]_vars PROVE StartInv'
  OBVIOUS
<1>0. wire' \in Seq(Sound)
  BY WireStep
<1>1. ASSUME NEW t \in Tasks, UNCHANGED <<bound, reader>>,
             \A u \in Tasks \ {t} : task'[u] = task[u], task'[t].status # "running"
      PROVE  StartInv'
  BY <1>0, <1>1 DEF StartInv
<1>2. ASSUME NEW t \in Tasks, ToolCall(t) PROVE StartInv'
  <2>1. CASE Submit(t)
    BY <1>1, <2>1 DEF Submit, TypeOK
  <2>2. CASE TakeAnswer(t) \/ WaitTimesOut(t)
    BY <1>0, <2>2 DEF StartInv, TakeAnswer, WaitTimesOut
  <2>3. CASE MarkStarting(t)
    BY <1>1, <2>3 DEF MarkStarting, TypeOK
  <2> QED BY <1>2, <2>1, <2>2, <2>3 DEF ToolCall
<1>3. ASSUME NEW s \in Sessions, RegisterProject(s) PROVE StartInv'
  BY <1>0, <1>3, StartAssumption DEF StartInv, RegisterProject
<1>4. CASE Ingest
  <2>1. Head(wire) \in Sound /\ Sound \subseteq Message
    BY <1>4, HeadTailProperties DEF StartInv, Ingest, Sound
  <2>2. Head(wire).type = "session_added" => Head(wire).session \in Sessions
    BY <2>1 DEF Message
  <2>3. UNCHANGED <<bound, task>>
    BY <1>4 DEF Ingest
  <2>4. CASE reader' = reader
    BY <1>0, <2>3, <2>4 DEF StartInv
  <2>5. CASE Head(wire).type = "session_added"
    <3>1. reader' = [at |-> "list", session |-> Head(wire).session]
      BY <1>4, <2>5 DEF Ingest
    <3>2. reader'.at = "list" /\ reader'.session \in Sessions
      BY <2>2, <2>5, <3>1
    <3> QED BY <1>0, <2>3, <3>2 DEF StartInv
  <2> QED BY <1>4, <2>4, <2>5 DEF Ingest
<1>5. CASE ListProjects
  <2>1. /\ UNCHANGED <<bound, task>> /\ reader.session \in Sessions
        /\ \/ reader'.at = "bind" /\ reader'.session = reader.session /\ bound = NoSession
           \/ reader'.at = "idle"
    BY <1>5 DEF TypeOK, StartInv, ListProjects, ReaderIdle
  <2> QED BY <1>0, <2>1 DEF StartInv
<1>6. CASE BindPrimary
  <2>1. /\ UNCHANGED task /\ reader.at = "bind" /\ reader.session \in Sessions
        /\ bound' = reader.session
        /\ reader'.at = "start" /\ reader'.session = reader.session
    BY <1>6 DEF TypeOK, StartInv, BindPrimary
  <2> QED BY <1>0, <2>1, StartAssumption DEF StartInv
<1>7. CASE StartTask
  <2>1. /\ \A t \in Tasks : task[t].status # "running"
        /\ bound # NoSession /\ bound' = bound /\ reader'.at = "idle"
    BY <1>7 DEF StartInv, StartTask, ReaderIdle
  <2>2. \E u : \A t \in Tasks : t # u => task'[t] = task[t]
    BY <1>7 DEF TypeOK, StartTask
  <2>3. \A t, u \in Tasks :
           task'[t].status = "running" /\ task'[u].status = "running" => t = u
    BY <2>1, <2>2
  <2> QED BY <1>0, <2>1, <2>3 DEF StartInv
<1>8. CASE UNCHANGED <<bound, task, reader>>
  BY <1>0, <1>8 DEF StartInv
<1> QED BY <1>2, <1>3, <1>4, <1>5, <1>6, <1>7, <1>8
        DEF Next, SpawnRequest, Reader, RequestFails, Launch, LaunchReturns, UserStarts,
            Register, Disconnect, Connect, Expire, vars, hermes, dashboard

LEMMA StartInvariant == Spec => [](TypeOK /\ StartInv)
BY TypesInit, StartInit, TypesStep, StartStep, PTL DEF Spec

\* The rows of the store, the queue of the directory and the connection keep
\* their types.
THEOREM StartTyping == Spec => []TypeOK
BY StartInvariant, PTL

\* _bind_started_session: however many tasks were submitted to the unbound
\* project and whoever binds it, at most one of them is started.
THEOREM OneStart == Spec => []OneTaskStarted
<1>1. StartInv => OneTaskStarted
  <2> SUFFICES ASSUME StartInv PROVE OneTaskStarted
    OBVIOUS
  <2> DEFINE running == {t \in Tasks : task[t].status = "running"}
  <2>1. running = {} \/ \E t \in Tasks : running = {t}
    BY DEF StartInv
  <2> HIDE DEF running
  <2>2. ASSUME NEW t, running = {t} PROVE Cardinality(running) = 1
    BY <2>2, FS_Singleton
  <2>3. Cardinality(running) = 0 \/ Cardinality(running) = 1
    BY <2>1, <2>2, FS_EmptySet
  <2> QED BY <2>3 DEF OneTaskStarted, running
<1> QED BY <1>1, StartInvariant, PTL

-----------------------------------------------------------------------------
(* Where the prompts are *)

Queued(t) == \E i \in 1 .. Len(queue) : queue[i] = t
Given(s, t) == \E i \in 1 .. Len(got[s]) : got[s][i] = t

\* A prompt is queued when its spawn is requested, once, and leaves the queue
\* for one session or for none.
PromptInv ==
    /\ \A t \in Tasks : call[t] = "none" => spawn[t] = "none"
    /\ \A t \in Tasks : spawn[t] \in {"none", "requested"} =>
          ~Queued(t) /\ \A s \in Sessions : ~Given(s, t)
    /\ \A i, j \in 1 .. Len(queue) : queue[i] = queue[j] => i = j
    /\ \A s \in Sessions, i \in 1 .. Len(queue) : ~Given(s, queue[i])
    /\ \A s, r \in Sessions : \A i \in 1 .. Len(got[s]), j \in 1 .. Len(got[r]) :
          got[s][i] = got[r][j] => s = r /\ i = j

\* Who is on the connection, who is being bound and who works is connected; a
\* session that is connected and was launched for a task belongs to a request.
ConnectedInv ==
    /\ \A i \in 1 .. Len(wire) :
          wire[i].type = "session_added" => pi[wire[i].session] = "connected"
    /\ reader.at \in {"list", "bind", "start"} => pi[reader.session] = "connected"
    /\ \A t \in Tasks : task[t].status = "running" =>
          task[t].worker \in Sessions /\ pi[task[t].worker] = "connected"
    /\ \A s \in Sessions : got[s] # <<>> => pi[s] = "connected"
    /\ \A t \in Tasks : pi[t] # "absent" => spawn[t] \in {"launching", "done"}
    /\ \A t \in Tasks : spawn[t] # "none" => \E i \in 1 .. Len(created) : created[i] = t

\* As long as the queue refuses and drops nothing, a prompt is in it or was
\* given; and the only session there is was given the only prompt there is.
KeptInv ==
    /\ Len(queue) <= QueueCap
    /\ ~expired => \A t \in Tasks : spawn[t] \in {"launching", "done"} =>
          Queued(t) \/ \E s \in Sessions : Given(s, t)
    /\ \A t \in Tasks :
          /\ created = <<t>> /\ ~expired /\ pi[t] = "connected"
          /\ \A s \in Others : pi[s] # "connected"
          => Given(t, t)

LEMMA SoleInit == Init => PromptInv /\ ConnectedInv /\ KeptInv
<1> SUFFICES ASSUME Init PROVE PromptInv /\ ConnectedInv /\ KeptInv
  OBVIOUS
<1>1. /\ Len(queue) = 0 /\ Len(wire) = 0 /\ Len(created) = 0
      /\ \A s \in Sessions : got[s] = <<>> /\ Len(got[s]) = 0 /\ pi[s] = "absent"
      /\ \A t \in Tasks : spawn[t] = "none" /\ task[t].status = "absent"
      /\ reader.at = "idle"
  BY DEF Init, ReaderIdle
<1>2. QueueCap \in Nat
  BY StartAssumption
<1>3. PromptInv
  BY <1>1 DEF PromptInv, Queued, Given
<1>4. ConnectedInv
  BY <1>1 DEF ConnectedInv, Sessions
<1>5. KeptInv
  BY <1>1, <1>2 DEF KeptInv, Sessions
<1> QED BY <1>3, <1>4, <1>5

\* The numbers of the sequences, and what Append and Tail do to the queue.
LEMMA Lengths ==
    ASSUME TypeOK
    PROVE  /\ Len(queue) \in Nat /\ Len(created) \in Nat /\ Len(wire) \in Nat
           /\ \A i \in 1 .. Len(queue) : queue[i] \in Tasks
           /\ \A s \in Sessions : got[s] \in Seq(Tasks) /\ Len(got[s]) \in Nat
           /\ \A s \in Sessions : \A i \in 1 .. Len(got[s]) : got[s][i] \in Tasks
BY LenProperties, ElementOfSeq DEF TypeOK

LEMMA Enqueued ==
    ASSUME TypeOK, NEW t \in Tasks, queue' = Enqueue(t)
    PROVE  /\ Len(queue') \in Nat
           /\ \A i \in 1 .. Len(queue') :
                 \/ i \in 1 .. Len(queue) /\ queue'[i] = queue[i]
                 \/ i = Len(queue) + 1 /\ queue'[i] = t
           /\ \A i \in 1 .. Len(queue) : i \in 1 .. Len(queue') /\ queue'[i] = queue[i]
           /\ Len(queue) < QueueCap =>
                 /\ Len(queue) + 1 \in 1 .. Len(queue') /\ queue'[Len(queue) + 1] = t
                 /\ Len(queue') = Len(queue) + 1
           /\ ~(Len(queue) < QueueCap) => queue' = queue
<1>1. queue \in Seq(Tasks) /\ Len(queue) \in Nat
  BY Lengths DEF TypeOK
<1>2. CASE Len(queue) < QueueCap
  <2>1. /\ Len(queue') = Len(queue) + 1 /\ queue'[Len(queue) + 1] = t
        /\ \A i \in 1 .. Len(queue) : queue'[i] = queue[i]
    BY <1>1, <1>2 DEF Enqueue
  <2> QED BY <1>1, <1>2, <2>1
<1>3. CASE ~(Len(queue) < QueueCap)
  BY <1>1, <1>3 DEF Enqueue
<1> QED BY <1>2, <1>3

LEMMA Dequeued ==
    ASSUME TypeOK, queue # <<>>, queue' = Tail(queue)
    PROVE  /\ Len(queue) \in Nat \ {0} /\ Head(queue) = queue[1] /\ 1 \in 1 .. Len(queue)
           /\ Len(queue') = Len(queue) - 1 /\ Len(queue') \in Nat
           /\ \A i \in 1 .. Len(queue') :
                 i + 1 \in 1 .. Len(queue) /\ queue'[i] = queue[i + 1]
           /\ \A i \in 1 .. Len(queue) : i = 1 \/ (i - 1 \in 1 .. Len(queue') /\ queue'[i - 1] = queue[i])
<1>1. queue \in Seq(Tasks) /\ Len(queue) \in Nat \ {0}
  BY EmptySeq DEF TypeOK
<1>2. /\ Head(queue) = queue[1] /\ Len(Tail(queue)) = Len(queue) - 1
      /\ \A i \in 1 .. Len(Tail(queue)) : Tail(queue)[i] = queue[i + 1]
  BY <1>1, HeadTailProperties
<1>3. ASSUME NEW i \in 1 .. Len(queue), i # 1
      PROVE  i - 1 \in 1 .. Len(queue') /\ queue'[i - 1] = queue[i]
  <2>1. i - 1 \in 1 .. Len(queue')
    BY <1>1, <1>2, <1>3
  <2>2. queue'[i - 1] = queue[(i - 1) + 1]
    BY <1>2, <2>1
  <2> QED BY <1>1, <2>1, <2>2
<1> QED BY <1>1, <1>2, <1>3

\* What session_register gives to the session.
LEMMA GivenNext ==
    ASSUME TypeOK, NEW s \in Sessions, Register(s), queue # <<>>
    PROVE  /\ queue' = Tail(queue)
           /\ \A r \in Sessions : r # s => got'[r] = got[r]
           /\ Len(got'[s]) = Len(got[s]) + 1 /\ got'[s][Len(got[s]) + 1] = queue[1]
           /\ \A i \in 1 .. Len(got[s]) : got'[s][i] = got[s][i]
           /\ \A i \in 1 .. Len(got'[s]) : i \in 1 .. Len(got[s]) \/ i = Len(got[s]) + 1
<1>1. got[s] \in Seq(Tasks) /\ Len(got[s]) \in Nat /\ got \in [Sessions -> Seq(Tasks)]
  BY Lengths DEF TypeOK
<1>2. queue' = Tail(queue) /\ got' = [got EXCEPT ![s] = Append(@, Head(queue))]
  BY DEF Register, Consume
<1>3. Head(queue) = queue[1] /\ got'[s] = Append(got[s], queue[1])
  BY <1>1, <1>2, Dequeued
<1>4. /\ Len(got'[s]) = Len(got[s]) + 1 /\ got'[s][Len(got[s]) + 1] = queue[1]
      /\ \A i \in 1 .. Len(got[s]) : got'[s][i] = got[s][i]
  BY <1>1, <1>3
<1> QED BY <1>1, <1>2, <1>4

\* Every step keeps a prompt in one place.
LEMMA PromptStep == TypeOK /\ PromptInv /\ [Next]_vars => PromptInv'
<1> SUFFICES ASSUME TypeOK, PromptInv, [Next]_vars PROVE PromptInv'
  OBVIOUS
<1> USE DEF hermes, dashboard, connection
<1>1. ASSUME UNCHANGED <<queue, got>>,
             \A t \in Tasks : call'[t] = "none" => spawn'[t] = "none",
             \A t \in Tasks : spawn'[t] \in {"none", "requested"} =>
                spawn[t] \in {"none", "requested"}
      PROVE  PromptInv'
  BY <1>1 DEF PromptInv, Queued, Given
<1>2. ASSUME NEW t \in Tasks, ToolCall(t) PROVE PromptInv'
  <2>1. UNCHANGED <<queue, got>>
    BY <1>2 DEF ToolCall, Submit, TakeAnswer, WaitTimesOut, MarkStarting
  <2>2. CASE Submit(t)
    <3>1. /\ call[t] = "none" /\ call'[t] # "none" /\ spawn[t] = "none"
          /\ \A u \in Tasks \ {t} : call'[u] = call[u] /\ spawn'[u] = spawn[u]
      BY <2>2 DEF Submit, TypeOK, PromptInv
    <3> QED BY <1>1, <2>1, <3>1 DEF PromptInv
  <2>3. CASE TakeAnswer(t) \/ WaitTimesOut(t) \/ MarkStarting(t)
    <3>1. /\ spawn' = spawn /\ call'[t] # "none"
          /\ \A u \in Tasks \ {t} : call'[u] = call[u]
      BY <2>3 DEF TakeAnswer, WaitTimesOut, MarkStarting, TypeOK
    <3> QED BY <1>1, <2>1, <3>1 DEF PromptInv
  <2> QED BY <1>2, <2>2, <2>3 DEF ToolCall
<1>3. ASSUME NEW t \in Tasks, RequestFails(t) \/ Launch(t) PROVE PromptInv'
  <2>1. /\ spawn[t] = "requested" /\ spawn'[t] \in {"launching", "done"}
        /\ \A u \in Tasks \ {t} : spawn'[u] = spawn[u]
        /\ queue' = Enqueue(t) /\ UNCHANGED <<call, got>>
    BY <1>3 DEF RequestFails, Launch, TypeOK
  <2>2. call[t] # "none" /\ ~Queued(t) /\ \A s \in Sessions : ~Given(s, t)
    BY <2>1 DEF PromptInv
  <2>3. \A i \in 1 .. Len(queue') : \/ i \in 1 .. Len(queue) /\ queue'[i] = queue[i]
                                    \/ i = Len(queue) + 1 /\ queue'[i] = t
    BY <2>1, Enqueued
  <2>4. \A u \in Tasks : spawn'[u] \in {"none", "requested"} =>
          ~Queued(u)' /\ \A s \in Sessions : ~Given(s, u)'
    BY <2>1, <2>3 DEF PromptInv, Queued, Given
  <2>5. \A i, j \in 1 .. Len(queue') : queue'[i] = queue'[j] => i = j
    BY <2>2, <2>3 DEF PromptInv, Queued
  <2>6. \A s \in Sessions, i \in 1 .. Len(queue') : ~Given(s, queue[i])'
    BY <2>1, <2>2, <2>3 DEF PromptInv, Given
  <2> QED BY <2>1, <2>2, <2>4, <2>5, <2>6 DEF PromptInv, Given
<1>4. ASSUME NEW t \in Tasks, LaunchReturns(t) PROVE PromptInv'
  <2>1. /\ spawn[t] = "launching" /\ spawn'[t] = "done" /\ UNCHANGED <<queue, got, call>>
        /\ \A u \in Tasks \ {t} : spawn'[u] = spawn[u]
    BY <1>4 DEF LaunchReturns, TypeOK
  <2> QED BY <1>1, <2>1 DEF PromptInv
<1>5. CASE Expire
  <2>1. UNCHANGED <<call, spawn, got>> /\ queue # <<>> /\ queue' = Tail(queue)
    BY <1>5 DEF Expire
  <2>2. \A i \in 1 .. Len(queue') : i + 1 \in 1 .. Len(queue) /\ queue'[i] = queue[i + 1]
    BY <2>1, Dequeued
  <2>3. \A i, j \in 1 .. Len(queue') : queue'[i] = queue'[j] => i = j
    BY <2>2, Lengths DEF PromptInv
  <2> QED BY <2>1, <2>2, <2>3 DEF PromptInv, Queued, Given
<1>6. ASSUME NEW s \in Sessions, Register(s) PROVE PromptInv'
  <2>1. UNCHANGED <<call, spawn>>
    BY <1>6 DEF Register
  <2>2. CASE queue = <<>>
    BY <1>1, <1>6, <2>1, <2>2 DEF Register, Consume, PromptInv
  <2>3. CASE queue # <<>>
    <3> DEFINE n == Len(got[s]) + 1
    <3>1. /\ queue' = Tail(queue)
          /\ \A r \in Sessions : r # s => got'[r] = got[r]
          /\ Len(got'[s]) = n /\ got'[s][n] = queue[1] /\ n - 1 = Len(got[s])
          /\ \A i \in 1 .. Len(got[s]) : got'[s][i] = got[s][i]
          /\ \A i \in 1 .. Len(got'[s]) : i \in 1 .. Len(got[s]) \/ i = n
      BY <1>6, <2>3, GivenNext, Lengths
    <3>2. /\ 1 \in 1 .. Len(queue) /\ Len(queue) \in Nat /\ Len(queue') = Len(queue) - 1
          /\ \A i \in 1 .. Len(queue') :
                i + 1 \in 1 .. Len(queue) /\ queue'[i] = queue[i + 1]
      BY <2>3, <3>1, Dequeued
    <3> HIDE DEF n
    <3>3. ASSUME NEW r \in Sessions, NEW i \in 1 .. Len(got'[r])
          PROVE  \/ i \in 1 .. Len(got[r]) /\ got'[r][i] = got[r][i]
                 \/ r = s /\ i = n /\ got'[r][i] = queue[1]
      BY <3>1
    <3>4. \A u : \A r \in Sessions : Given(r, u)' => Given(r, u) \/ u = queue[1]
      BY <3>3 DEF Given
    <3>5. \A u : Queued(u)' => Queued(u)
      BY <3>2 DEF Queued
    <3>6. \A u \in Tasks : spawn'[u] \in {"none", "requested"} =>
            ~Queued(u)' /\ \A r \in Sessions : ~Given(r, u)'
      BY <2>1, <3>2, <3>4, <3>5 DEF PromptInv, Queued
    <3>7. \A i, j \in 1 .. Len(queue') : queue'[i] = queue'[j] => i = j
      BY <3>2, Lengths DEF PromptInv
    <3>8. \A r \in Sessions, i \in 1 .. Len(queue') : ~Given(r, queue[i])'
      <4> SUFFICES ASSUME NEW r \in Sessions, NEW i \in 1 .. Len(queue'), Given(r, queue[i])'
                   PROVE  FALSE
        OBVIOUS
      <4>1. i + 1 \in 1 .. Len(queue) /\ queue'[i] = queue[i + 1] /\ i + 1 # 1
        BY <3>2
      <4>2. \E k \in 1 .. Len(got'[r]) : got'[r][k] = queue[i + 1]
        BY <4>1 DEF Given
      <4>3. Given(r, queue[i + 1]) \/ queue[i + 1] = queue[1]
        BY <3>3, <4>2 DEF Given
      <4> QED BY <3>2, <4>1, <4>3 DEF PromptInv
    <3>9. \A q, r \in Sessions : \A i \in 1 .. Len(got'[q]), j \in 1 .. Len(got'[r]) :
            got'[q][i] = got'[r][j] => q = r /\ i = j
      <4>1. \A q \in Sessions : \A i \in 1 .. Len(got[q]) : got[q][i] # queue[1]
        BY <3>2 DEF PromptInv, Given
      <4> QED BY <3>3, <4>1 DEF PromptInv
    <3> QED BY <2>1, <3>6, <3>7, <3>8, <3>9 DEF PromptInv
  <2> QED BY <2>2, <2>3
<1>7. CASE UNCHANGED <<queue, got, call, spawn>>
  BY <1>1, <1>7 DEF PromptInv
<1> QED BY <1>2, <1>3, <1>4, <1>5, <1>6, <1>7
        DEF Next, SpawnRequest, Reader, RegisterProject, UserStarts, Ingest, ListProjects,
            BindPrimary, StartTask, Disconnect, Connect, vars

SoleInv == TypeOK /\ StartInv /\ PromptInv /\ ConnectedInv /\ KeptInv

\* A session that is connected stays so: it is launched only once.
LEMMA StaysConnected ==
    ASSUME TypeOK, ConnectedInv, [Next]_vars
    PROVE  \A s \in Sessions : pi[s] = "connected" => pi'[s] = "connected"
<1> USE DEF hermes, dashboard, connection
<1>1. ASSUME NEW t \in Tasks, Launch(t)
      PROVE  \A s \in Sessions : pi[s] = "connected" => pi'[s] = "connected"
  <2>1. pi[t] = "absent"
    BY <1>1 DEF ConnectedInv, Launch
  <2> QED BY <1>1, <2>1 DEF Launch, TypeOK
<1>2. ASSUME NEW s \in Sessions, Register(s)
      PROVE  \A r \in Sessions : pi[r] = "connected" => pi'[r] = "connected"
  BY <1>2 DEF Register, TypeOK
<1>3. ASSUME NEW s \in Others, UserStarts(s)
      PROVE  \A r \in Sessions : pi[r] = "connected" => pi'[r] = "connected"
  BY <1>3 DEF UserStarts, TypeOK
<1> QED BY <1>1, <1>2, <1>3
        DEF Next, ToolCall, SpawnRequest, Reader, Submit, TakeAnswer, WaitTimesOut,
            MarkStarting, RequestFails, LaunchReturns, RegisterProject, Ingest,
            ListProjects, BindPrimary, StartTask, Disconnect, Connect, Expire, vars

\* A message on the connection was there before, or is the one just sent.
LEMMA Sent ==
    ASSUME TypeOK, NEW m, Send(m)
    PROVE  \A i \in 1 .. Len(wire') :
              (i \in 1 .. Len(wire) /\ wire'[i] = wire[i]) \/ wire'[i] = m
<1>1. wire \in Seq(Message) /\ Len(wire) \in Nat
  BY Lengths DEF TypeOK
<1>2. CASE wire' = wire
  BY <1>2
<1>3. CASE wire' = Append(wire, m)
  <2>1. /\ Len(wire') = Len(wire) + 1 /\ wire'[Len(wire) + 1] = m
        /\ \A i \in 1 .. Len(wire) : wire'[i] = wire[i]
    BY <1>1, <1>3
  <2> QED BY <1>1, <2>1
<1> QED BY <1>2, <1>3 DEF Send

\* Every session that is announced is connected.
LEMMA AnnouncedStep ==
    TypeOK /\ ConnectedInv /\ [Next]_vars =>
        \A i \in 1 .. Len(wire') :
            wire'[i].type = "session_added" => pi'[wire'[i].session] = "connected"
<1> SUFFICES ASSUME TypeOK, ConnectedInv, [Next]_vars, NEW i \in 1 .. Len(wire'),
                    wire'[i].type = "session_added"
             PROVE  pi'[wire'[i].session] = "connected"
  OBVIOUS
<1> USE DEF hermes, dashboard, connection
<1>1. ASSUME NEW k \in 1 .. Len(wire), wire'[i] = wire[k]
      PROVE  pi'[wire'[i].session] = "connected"
  <2>1. wire[k] \in Message /\ wire[k].type = "session_added"
    BY <1>1, ElementOfSeq DEF TypeOK
  <2>2. wire[k].session \in Sessions
    BY <2>1 DEF Message
  <2>3. pi[wire[k].session] = "connected"
    BY <2>1 DEF ConnectedInv
  <2> QED BY <1>1, <2>2, <2>3, StaysConnected
<1>2. ASSUME NEW t \in Tasks, RequestFails(t) \/ LaunchReturns(t)
      PROVE  pi'[wire'[i].session] = "connected"
  <2>1. Send([type |-> "spawn_result", task |-> t])
    BY <1>2 DEF RequestFails, LaunchReturns
  <2>2. wire'[i] # [type |-> "spawn_result", task |-> t]
    OBVIOUS
  <2> QED BY <1>1, <2>1, <2>2, Sent
<1>3. ASSUME NEW s \in Sessions, Register(s) PROVE pi'[wire'[i].session] = "connected"
  <2> DEFINE m == [type |-> "session_added", session |-> s, correlated |-> s \in correlated]
  <2>1. Send(m) /\ m.session = s /\ pi'[s] = "connected"
    BY <1>3 DEF Register, TypeOK
  <2> HIDE DEF m
  <2> QED BY <1>1, <2>1, Sent
<1>4. CASE Ingest
  <2>1. /\ wire' = Tail(wire) /\ wire # <<>> /\ wire \in Seq(Message)
        /\ Len(wire) \in Nat
    BY <1>4, Lengths DEF Ingest, TypeOK
  <2>2. wire'[i] = wire[i + 1] /\ i + 1 \in 1 .. Len(wire)
    BY <2>1, HeadTailProperties
  <2> QED BY <1>1, <2>2
<1>5. CASE Disconnect
  BY <1>5 DEF Disconnect
<1>6. CASE UNCHANGED wire
  BY <1>1, <1>6
<1> QED BY <1>2, <1>3, <1>4, <1>5, <1>6
        DEF Next, ToolCall, SpawnRequest, Reader, Submit, TakeAnswer, WaitTimesOut,
            MarkStarting, Launch, RegisterProject, UserStarts, ListProjects, BindPrimary,
            StartTask, Connect, Expire, vars

\* What Submit does to the list of tasks.
LEMMA Created ==
    ASSUME TypeOK, NEW t \in Tasks, Submit(t)
    PROVE  /\ Len(created') = Len(created) + 1 /\ created'[1] = t
           /\ \A i \in 1 .. Len(created) :
                 i + 1 \in 1 .. Len(created') /\ created'[i + 1] = created[i]
<1>1. created \in Seq(Tasks) /\ <<t>> \in Seq(Tasks) /\ Len(created) \in Nat
  BY Lengths DEF TypeOK
<1>2. created' = <<t>> \o created /\ Len(<<t>>) = 1 /\ <<t>>[1] = t
  BY DEF Submit
<1>3. /\ Len(<<t>> \o created) = Len(created) + 1
      /\ \A i \in 1 .. Len(created) + 1 :
            (<<t>> \o created)[i] = IF i <= 1 THEN <<t>>[i] ELSE created[i - 1]
  BY <1>1, <1>2, ConcatProperties
<1>4. ASSUME NEW i \in 1 .. Len(created)
      PROVE  i + 1 \in 1 .. Len(created') /\ created'[i + 1] = created[i]
  <2>1. i + 1 \in 1 .. Len(created) + 1 /\ ~(i + 1 <= 1) /\ (i + 1) - 1 = i
    BY <1>1
  <2> QED BY <1>2, <1>3, <2>1
<1> QED BY <1>1, <1>2, <1>3, <1>4

\* The rest of ConnectedInv, action by action.
LEMMA ConnectedStep ==
    TypeOK /\ StartInv /\ PromptInv /\ ConnectedInv /\ [Next]_vars => ConnectedInv'
<1> SUFFICES ASSUME TypeOK, StartInv, PromptInv, ConnectedInv, [Next]_vars
             PROVE  ConnectedInv'
  OBVIOUS
<1> USE DEF hermes, dashboard, connection
<1>0. /\ \A i \in 1 .. Len(wire') :
            wire'[i].type = "session_added" => pi'[wire'[i].session] = "connected"
      /\ \A s \in Sessions : pi[s] = "connected" => pi'[s] = "connected"
      /\ Tasks \subseteq Sessions /\ Others \subseteq Sessions
  BY AnnouncedStep, StaysConnected DEF Sessions
\* The WebSocket thread.
<1>1. reader'.at \in {"list", "bind", "start"} => pi'[reader'.session] = "connected"
  <2>1. ASSUME reader'.session = reader.session, reader'.at \in {"list", "bind", "start"} =>
                   reader.at \in {"list", "bind", "start"}
        PROVE  reader'.at \in {"list", "bind", "start"} => pi'[reader'.session] = "connected"
    BY <1>0, <2>1 DEF ConnectedInv, StartInv
  <2>2. CASE UNCHANGED reader
    BY <2>1, <2>2
  <2>3. CASE Ingest
    <3>1. CASE reader' = reader
      BY <2>1, <3>1
    <3>2. CASE /\ Head(wire).type = "session_added"
               /\ reader' = [at |-> "list", session |-> Head(wire).session]
      <4>1. /\ wire \in Seq(Message) /\ wire # <<>> /\ Head(wire) = wire[1]
            /\ Head(wire) \in Message /\ Len(wire) \in Nat \ {0}
        BY <2>3, HeadTailProperties, EmptySeq DEF Ingest, TypeOK
      <4>2. pi[Head(wire).session] = "connected" /\ Head(wire).session \in Sessions
        BY <3>2, <4>1 DEF ConnectedInv, Message
      <4>3. reader'.session = Head(wire).session
        BY <3>2
      <4> QED BY <1>0, <4>2, <4>3
    <3> QED BY <2>3, <3>1, <3>2 DEF Ingest
  <2>4. CASE ListProjects
    <3>1. \/ reader' = [reader EXCEPT !.at = "bind"]
          \/ reader' = ReaderIdle
      BY <2>4 DEF ListProjects
    <3> QED BY <2>1, <2>4, <3>1 DEF ListProjects, TypeOK, ReaderIdle
  <2>5. CASE BindPrimary
    BY <2>1, <2>5 DEF BindPrimary, TypeOK
  <2>6. CASE StartTask
    BY <2>6 DEF StartTask, ReaderIdle
  <2> QED BY <2>2, <2>3, <2>4, <2>5, <2>6
          DEF Next, ToolCall, SpawnRequest, Reader, Submit, TakeAnswer, WaitTimesOut,
              MarkStarting, RequestFails, Launch, LaunchReturns, RegisterProject,
              UserStarts, Register, Disconnect, Connect, Expire, vars
\* The tasks that run.
<1>2. \A t \in Tasks : task'[t].status = "running" =>
          task'[t].worker \in Sessions /\ pi'[task'[t].worker] = "connected"
  <2>1. ASSUME NEW t \in Tasks, task'[t] = task[t] \/ task'[t].status # "running"
        PROVE  task'[t].status = "running" =>
                  task'[t].worker \in Sessions /\ pi'[task'[t].worker] = "connected"
    BY <1>0, <2>1 DEF ConnectedInv
  <2>2. ASSUME NEW t \in Tasks, ToolCall(t)
        PROVE  \A u \in Tasks : task'[u] = task[u] \/ task'[u].status # "running"
    BY <2>2 DEF ToolCall, Submit, TakeAnswer, WaitTimesOut, MarkStarting, TypeOK
  <2>3. CASE StartTask
    <3> DEFINE row == [status |-> "running", worker |-> reader.session]
    <3>1. row.worker \in Sessions /\ pi[row.worker] = "connected"
      BY <2>3 DEF StartTask, ConnectedInv, StartInv
    <3>2. task' = task \/ \E u : task' = [task EXCEPT ![u] = row]
      BY <2>3 DEF StartTask
    <3> HIDE DEF row
    <3>3. \A t \in Tasks : task'[t] = task[t] \/ task'[t] = row
      BY <3>2 DEF TypeOK
    <3> QED BY <1>0, <2>1, <3>1, <3>3
  <2>4. CASE UNCHANGED task
    BY <2>1, <2>4
  <2> QED BY <2>1, <2>2, <2>3, <2>4
          DEF Next, SpawnRequest, Reader, RequestFails, Launch, LaunchReturns,
              RegisterProject, UserStarts, Register, Ingest, ListProjects, BindPrimary,
              Disconnect, Connect, Expire, vars
\* The sessions.
<1>3. \A s \in Sessions : got'[s] # <<>> => pi'[s] = "connected"
  <2>1. ASSUME NEW s \in Sessions, Register(s)
        PROVE  pi'[s] = "connected" /\ \A r \in Sessions : r # s => got'[r] = got[r]
    BY <2>1 DEF Register, TypeOK
  <2>2. ASSUME UNCHANGED got
        PROVE  \A s \in Sessions : got'[s] # <<>> => pi'[s] = "connected"
    BY <1>0, <2>2 DEF ConnectedInv
  <2> QED BY <1>0, <2>1, <2>2
          DEF Next, ToolCall, SpawnRequest, Reader, Submit, TakeAnswer, WaitTimesOut,
              MarkStarting, RequestFails, Launch, LaunchReturns, RegisterProject,
              UserStarts, Ingest, ListProjects, BindPrimary, StartTask, Disconnect,
              Connect, Expire, vars, ConnectedInv
<1>4. /\ \A t \in Tasks : pi'[t] # "absent" => spawn'[t] \in {"launching", "done"}
      /\ \A t \in Tasks : spawn'[t] # "none" =>
            \E i \in 1 .. Len(created') : created'[i] = t
  <2> DEFINE Launched == \A t \in Tasks :
                pi'[t] # "absent" => spawn'[t] \in {"launching", "done"}
             Listed == \A t \in Tasks : spawn'[t] # "none" =>
                \E i \in 1 .. Len(created') : created'[i] = t
  <2>1. ASSUME NEW t \in Tasks, Submit(t) PROVE Launched /\ Listed
    <3>1. /\ pi' = pi /\ spawn[t] = "none" /\ pi[t] = "absent"
          /\ \A u \in Tasks \ {t} : spawn'[u] = spawn[u]
      BY <2>1 DEF Submit, TypeOK, PromptInv, ConnectedInv, Sessions
    <3>2. /\ Len(created') = Len(created) + 1 /\ created'[1] = t /\ Len(created) \in Nat
          /\ \A i \in 1 .. Len(created) :
                i + 1 \in 1 .. Len(created') /\ created'[i + 1] = created[i]
      BY <2>1, Created, Lengths
    <3>3. 1 \in 1 .. Len(created')
      BY <3>2
    <3> QED BY <3>1, <3>2, <3>3 DEF ConnectedInv
  <2>2. ASSUME NEW t \in Tasks, RequestFails(t) \/ Launch(t) \/ LaunchReturns(t)
        PROVE  Launched /\ Listed
    <3>1. /\ spawn'[t] \in {"launching", "done"} /\ spawn[t] # "none" /\ created' = created
          /\ \A u \in Tasks \ {t} : spawn'[u] = spawn[u] /\ pi'[u] = pi[u]
      BY <2>2 DEF RequestFails, Launch, LaunchReturns, TypeOK, Sessions
    <3> QED BY <3>1 DEF ConnectedInv
  <2>3. ASSUME UNCHANGED <<spawn, created>>, \A t \in Tasks : pi[t] = "absent" => pi'[t] = "absent"
        PROVE  Launched /\ Listed
    BY <2>3 DEF ConnectedInv
  <2>4. ASSUME NEW s \in Others, UserStarts(s) PROVE Launched /\ Listed
    BY <2>3, <2>4, StartAssumption DEF UserStarts, TypeOK, Sessions
  <2>5. ASSUME NEW s \in Sessions, Register(s) PROVE Launched /\ Listed
    BY <2>3, <2>5 DEF Register, TypeOK, Sessions
  <2>6. CASE UNCHANGED <<pi, spawn, created>>
    BY <2>3, <2>6
  <2> QED BY <2>1, <2>2, <2>4, <2>5, <2>6
          DEF Next, ToolCall, SpawnRequest, Reader, TakeAnswer, WaitTimesOut, MarkStarting,
              RegisterProject, Ingest, ListProjects, BindPrimary, StartTask, Disconnect,
              Connect, Expire, vars
<1> QED BY <1>0, <1>1, <1>2, <1>3, <1>4 DEF ConnectedInv

\* A step that neither queues nor gives nor drops a prompt.
LEMMA KeptFrame ==
    ASSUME KeptInv, ConnectedInv, TypeOK, UNCHANGED <<queue, got, expired, created>>,
           \A t \in Tasks : spawn'[t] \in {"launching", "done"} =>
              spawn[t] \in {"launching", "done"},
           \A s \in Sessions : pi[s] = "connected" <=> pi'[s] = "connected"
    PROVE  KeptInv'
<1>1. /\ Len(queue') <= QueueCap
      /\ \A t \in Tasks, s \in Sessions :
            (Queued(t)' <=> Queued(t)) /\ (Given(s, t)' <=> Given(s, t))
  BY DEF KeptInv, Queued, Given
<1>2. Tasks \subseteq Sessions /\ Others \subseteq Sessions
  BY DEF Sessions
<1> QED BY <1>1, <1>2 DEF KeptInv

\* Every step keeps the prompts where they are looked for.
LEMMA KeptStep == SoleInv /\ [Next]_vars => KeptInv'
<1> SUFFICES ASSUME SoleInv, [Next]_vars PROVE KeptInv'
  OBVIOUS
<1> USE DEF hermes, dashboard, connection
<1>0. /\ TypeOK /\ PromptInv /\ ConnectedInv /\ KeptInv
      /\ Tasks \subseteq Sessions /\ Others \subseteq Sessions /\ Tasks \cap Others = {}
      /\ Len(queue) \in Nat /\ QueueCap \in Nat
  BY StartAssumption, Lengths DEF SoleInv, Sessions
<1>1. ASSUME NEW t \in Tasks, Submit(t) PROVE KeptInv'
  <2>1. /\ UNCHANGED <<queue, got, expired, pi>> /\ spawn[t] = "none" /\ pi[t] = "absent"
        /\ spawn'[t] \in {"none", "requested"}
        /\ \A u \in Tasks \ {t} : spawn'[u] = spawn[u]
    <3>1. call[t] = "none" /\ spawn[t] = "none" /\ UNCHANGED <<queue, got, expired, pi>>
      BY <1>0, <1>1 DEF Submit, PromptInv
    <3>2. pi[t] = "absent"
      BY <1>0, <3>1 DEF ConnectedInv
    <3>3. spawn' = spawn \/ spawn' = [spawn EXCEPT ![t] = "requested"]
      BY <1>1 DEF Submit
    <3> QED BY <1>0, <3>1, <3>2, <3>3 DEF TypeOK
  <2>2. ASSUME NEW u \in Tasks, created' = <<u>> PROVE pi'[u] # "connected"
    <3>1. Len(created) + 1 = 1 /\ Len(created) \in Nat
      <4>1. Len(created') = Len(created) + 1 /\ Len(created) \in Nat
        BY <1>0, <1>1, Created, Lengths
      <4>2. Len(created') = 1
        BY <2>2
      <4> QED BY <4>1, <4>2
    <3>2. \A n \in Nat : n + 1 = 1 => n = 0
      OBVIOUS
    <3>3. Len(created) = 0
      BY <3>1, <3>2
    <3>4. spawn[u] = "none"
      BY <1>0, <3>3 DEF ConnectedInv
    <3> QED BY <1>0, <2>1, <3>4 DEF ConnectedInv
  <2>3. \A u \in Tasks, s \in Sessions :
            (Queued(u)' <=> Queued(u)) /\ (Given(s, u)' <=> Given(s, u))
    BY <2>1 DEF Queued, Given
  <2>4. ~expired' => \A u \in Tasks : spawn'[u] \in {"launching", "done"} =>
            Queued(u)' \/ \E s \in Sessions : Given(s, u)'
    BY <1>0, <2>1, <2>3 DEF KeptInv
  <2> QED BY <1>0, <2>1, <2>2, <2>4 DEF KeptInv
\* The prompt of a request goes to the queue, unless that is full.
<1>2. ASSUME NEW t \in Tasks, RequestFails(t) \/ Launch(t) PROVE KeptInv'
  <2>1. /\ UNCHANGED <<got, created>> /\ queue' = Enqueue(t)
        /\ ~expired' => ~expired /\ Len(queue) # QueueCap
        /\ spawn[t] = "requested" /\ pi'[t] # "connected"
        /\ \A u \in Tasks \ {t} : spawn'[u] = spawn[u]
        /\ \A s \in Sessions \ {t} : pi'[s] = pi[s]
    <3>1. pi[t] = "absent"
      BY <1>0, <1>2 DEF RequestFails, Launch, ConnectedInv
    <3> QED BY <1>0, <1>2, <3>1 DEF RequestFails, Launch, TypeOK
  <2>2. Len(queue') <= QueueCap
    BY <1>0, <2>1, Enqueued DEF KeptInv
  <2>3. \A u \in Tasks : Queued(u) => Queued(u)'
    BY <1>0, <2>1, Enqueued DEF Queued
  <2>4. ~expired' => Queued(t)'
    <3>1. ASSUME ~expired' PROVE Len(queue) < QueueCap
      BY <1>0, <2>1, <3>1 DEF KeptInv
    <3> QED BY <1>0, <2>1, <3>1, Enqueued DEF Queued
  <2>5. \A u \in Tasks, s \in Sessions : Given(s, u)' <=> Given(s, u)
    BY <2>1 DEF Given
  <2>6. ~expired' => \A u \in Tasks : spawn'[u] \in {"launching", "done"} =>
            Queued(u)' \/ \E s \in Sessions : Given(s, u)'
    BY <1>0, <2>1, <2>3, <2>4, <2>5 DEF KeptInv
  <2>7. ASSUME NEW u \in Tasks, created' = <<u>>, ~expired', pi'[u] = "connected",
               \A s \in Others : pi'[s] # "connected"
        PROVE  Given(u, u)'
    <3>1. u # t /\ pi[u] = "connected" /\ ~expired /\ created = <<u>>
      BY <1>0, <2>1, <2>7
    <3>2. \A s \in Others : pi[s] # "connected"
      BY <1>0, <2>1, <2>7
    <3> QED BY <1>0, <2>5, <3>1, <3>2 DEF KeptInv
  <2> QED BY <2>2, <2>6, <2>7 DEF KeptInv
<1>3. ASSUME NEW t \in Tasks, LaunchReturns(t) PROVE KeptInv'
  BY <1>0, <1>3, KeptFrame DEF LaunchReturns, TypeOK
<1>4. ASSUME NEW s \in Others, UserStarts(s) PROVE KeptInv'
  BY <1>0, <1>4, KeptFrame DEF UserStarts, TypeOK
\* The session that registers is given the oldest prompt.
<1>5. ASSUME NEW s \in Sessions, Register(s) PROVE KeptInv'
  <2>1. /\ UNCHANGED <<spawn, expired, created>> /\ pi[s] # "absent"
        /\ pi'[s] = "connected" /\ \A r \in Sessions \ {s} : pi'[r] = pi[r]
    BY <1>0, <1>5 DEF Register, TypeOK
  <2>2. \A r \in Sessions, u \in Tasks : Given(r, u) => Given(r, u)'
    <3>1. CASE queue = <<>>
      BY <1>5, <3>1 DEF Register, Given
    <3>2. CASE queue # <<>>
      <4>1. /\ \A r \in Sessions : r # s => got'[r] = got[r]
            /\ Len(got'[s]) = Len(got[s]) + 1 /\ Len(got[s]) \in Nat
            /\ \A i \in 1 .. Len(got[s]) : got'[s][i] = got[s][i]
        BY <1>0, <1>5, <3>2, GivenNext, Lengths
      <4> QED BY <4>1 DEF Given
    <3> QED BY <3>1, <3>2
  <2>3. \A u \in Tasks : Queued(u) => Queued(u)' \/ Given(s, u)'
    <3>1. CASE queue = <<>>
      BY <3>1 DEF Queued
    <3>2. CASE queue # <<>>
      <4>1. /\ queue' = Tail(queue) /\ Len(got[s]) + 1 \in 1 .. Len(got'[s])
            /\ got'[s][Len(got[s]) + 1] = queue[1]
        BY <1>0, <1>5, <3>2, GivenNext, Lengths
      <4>2. \A i \in 1 .. Len(queue) :
                i = 1 \/ (i - 1 \in 1 .. Len(queue') /\ queue'[i - 1] = queue[i])
        BY <1>0, <3>2, <4>1, Dequeued
      <4> QED BY <4>1, <4>2 DEF Queued, Given
    <3> QED BY <3>1, <3>2
  <2>4. Len(queue') <= QueueCap
    <3>1. CASE queue = <<>>
      BY <1>0, <1>5, <3>1 DEF Register, Consume, KeptInv
    <3>2. CASE queue # <<>>
      <4>1. Len(queue') = Len(queue) - 1
        BY <1>0, <1>5, <3>2, Dequeued DEF Register, Consume
      <4> QED BY <1>0, <4>1 DEF KeptInv
    <3> QED BY <3>1, <3>2
  <2>5. ~expired' => \A u \in Tasks : spawn'[u] \in {"launching", "done"} =>
            Queued(u)' \/ \E r \in Sessions : Given(r, u)'
    BY <1>0, <2>1, <2>2, <2>3 DEF KeptInv
  <2>6. ASSUME NEW t \in Tasks, created' = <<t>>, ~expired', pi'[t] = "connected",
               \A r \in Others : pi'[r] # "connected"
        PROVE  Given(t, t)'
    <3>1. created = <<t>> /\ ~expired /\ s \in Tasks
      BY <2>1, <2>6 DEF Sessions
    <3>2. \A u \in Tasks : spawn[u] # "none" => u = t
      <4>1. Len(created) = 1 /\ created[1] = t
        BY <3>1
      <4> QED BY <1>0, <4>1 DEF ConnectedInv
    <3>3. s = t
      BY <1>0, <2>1, <3>1, <3>2 DEF ConnectedInv
    <3>4. Queued(t) \/ \E r \in Sessions : Given(r, t)
      BY <1>0, <2>1, <3>1, <3>3 DEF KeptInv, ConnectedInv
    <3>5. ASSUME NEW r \in Sessions, Given(r, t) PROVE r = t
      <4>1. got[r] # <<>>
        BY <3>5 DEF Given
      <4>2. pi[r] = "connected" /\ pi'[r] = "connected"
        BY <1>0, <2>1, <4>1 DEF ConnectedInv
      <4>3. r \in Tasks
        BY <2>6, <4>2 DEF Sessions
      <4> QED BY <1>0, <3>2, <4>2, <4>3 DEF ConnectedInv
    <3>6. CASE \E r \in Sessions : Given(r, t)
      BY <1>0, <2>2, <3>5, <3>6
    <3>7. CASE Queued(t)
      <4>1. queue # <<>>
        BY <3>7 DEF Queued
      <4>2. 1 \in 1 .. Len(queue) /\ queue[1] \in Tasks
        BY <1>0, <1>5, <4>1, Dequeued, Lengths DEF Register, Consume
      <4>3. Queued(queue[1])
        BY <4>2 DEF Queued
      <4>4. queue[1] = t
        BY <1>0, <3>2, <4>2, <4>3 DEF PromptInv
      <4>5. Len(got[t]) + 1 \in 1 .. Len(got'[t]) /\ got'[t][Len(got[t]) + 1] = queue[1]
        BY <1>0, <1>5, <3>3, <4>1, GivenNext, Lengths
      <4> QED BY <4>4, <4>5 DEF Given
    <3> QED BY <3>4, <3>6, <3>7
  <2> QED BY <2>4, <2>5, <2>6 DEF KeptInv
<1>6. CASE Expire
  <2>1. expired' = TRUE /\ queue # <<>> /\ queue' = Tail(queue)
    BY <1>6 DEF Expire
  <2>2. Len(queue') <= QueueCap
    <3>1. Len(queue') = Len(queue) - 1
      BY <1>0, <2>1, Dequeued
    <3> QED BY <1>0, <3>1 DEF KeptInv
  <2> QED BY <2>1, <2>2 DEF KeptInv
<1>7. CASE UNCHANGED <<queue, got, expired, created, spawn, pi>>
  BY <1>0, <1>7, KeptFrame
<1> QED BY <1>1, <1>2, <1>3, <1>4, <1>5, <1>6, <1>7
        DEF Next, ToolCall, SpawnRequest, Reader, TakeAnswer, WaitTimesOut, MarkStarting,
            RegisterProject, Ingest, ListProjects, BindPrimary, StartTask, Disconnect,
            Connect, vars

LEMMA SoleInvariant == Spec => []SoleInv
<1>1. Init => SoleInv
  BY TypesInit, StartInit, SoleInit DEF SoleInv
<1>2. SoleInv /\ [Next]_vars => SoleInv'
  BY TypesStep, StartStep, PromptStep, ConnectedStep, KeptStep DEF SoleInv
<1> QED BY <1>1, <1>2, PTL DEF Spec

\* How often a task occurs in a sequence that repeats nothing.
LEMMA TimesOnce ==
    ASSUME NEW seq \in Seq(Tasks), NEW t \in Tasks,
           \A i, j \in 1 .. Len(seq) : seq[i] = seq[j] => i = j
    PROVE  /\ (\E i \in 1 .. Len(seq) : seq[i] = t) => Times(t, seq) = 1
           /\ ~(\E i \in 1 .. Len(seq) : seq[i] = t) => Times(t, seq) = 0
<1> DEFINE places == {i \in DOMAIN seq : seq[i] = t}
<1>1. DOMAIN seq = 1 .. Len(seq)
  BY LenProperties
<1>2. ASSUME NEW i \in 1 .. Len(seq), seq[i] = t PROVE Cardinality(places) = 1
  <2>1. places = {i}
    BY <1>1, <1>2
  <2> HIDE DEF places
  <2> QED BY <2>1, FS_Singleton
<1>3. ASSUME ~ \E i \in 1 .. Len(seq) : seq[i] = t PROVE Cardinality(places) = 0
  <2>1. places = {}
    BY <1>1, <1>3
  <2> HIDE DEF places
  <2> QED BY <2>1, FS_EmptySet
<1> QED BY <1>2, <1>3 DEF Times

LEMMA TimesGiven ==
    ASSUME TypeOK, PromptInv, NEW t \in Tasks, NEW s \in Sessions
    PROVE  /\ Given(s, t) => Times(t, got[s]) = 1
           /\ ~Given(s, t) => Times(t, got[s]) = 0
           /\ Queued(t) => Times(t, queue) = 1
           /\ ~Queued(t) => Times(t, queue) = 0
<1>1. got[s] \in Seq(Tasks) /\ queue \in Seq(Tasks)
  BY Lengths DEF TypeOK
<1>2. /\ \A i, j \in 1 .. Len(got[s]) : got[s][i] = got[s][j] => i = j
      /\ \A i, j \in 1 .. Len(queue) : queue[i] = queue[j] => i = j
  BY DEF PromptInv
<1> QED BY <1>1, <1>2, TimesOnce DEF Given, Queued

\* pending-initial-prompt-registry.ts: a queued prompt is given to one session
\* and once, whatever fails, registers again or grows too old.
THEOREM PromptGivenOnce == Spec => []PromptedOnce
<1>1. ASSUME TypeOK, PromptInv PROVE PromptedOnce
  <2> SUFFICES ASSUME NEW t \in Tasks
               PROVE  LET given == {s \in Sessions : Times(t, got[s]) > 0} IN
                      /\ Cardinality(given) + Times(t, queue) <= 1
                      /\ \A s \in given : Times(t, got[s]) = 1
    BY DEF PromptedOnce
  <2> DEFINE given == {s \in Sessions : Times(t, got[s]) > 0}
  <2>0. Sessions # {}
    BY DEF Sessions
  <2>1. given = {s \in Sessions : Given(s, t)}
    BY <1>1, TimesGiven
  <2>2. \A s \in given : Times(t, got[s]) = 1
    BY <1>1, <2>1, TimesGiven
  <2>3. /\ Queued(t) => Times(t, queue) = 1
        /\ ~Queued(t) => Times(t, queue) = 0
    BY <1>1, <2>0, TimesGiven
  <2>4. CASE given = {}
    <3>1. Cardinality(given) = 0
      BY <2>4, FS_EmptySet
    <3> QED BY <2>2, <2>3, <3>1
  <2>5. ASSUME NEW s \in given PROVE Cardinality(given) = 1 /\ ~Queued(t)
    <3>1. PICK i \in 1 .. Len(got[s]) : got[s][i] = t
      BY <2>1, <2>5 DEF Given
    <3>2. ASSUME NEW r \in given PROVE r = s
      <4>1. PICK j \in 1 .. Len(got[r]) : got[r][j] = t
        BY <2>1, <3>2 DEF Given
      <4> QED BY <1>1, <2>1, <3>1, <4>1 DEF PromptInv
    <3>3. given = {s}
      BY <2>5, <3>2
    <3> HIDE DEF given
    <3>4. Cardinality(given) = 1
      BY <3>3, FS_Singleton
    <3>5. s \in Sessions /\ Given(s, t)
      BY <2>1, <2>5
    <3>6. ~Queued(t)
      BY <1>1, <3>5 DEF PromptInv, Queued
    <3> QED BY <3>4, <3>6
  <2> HIDE DEF given
  <2>6. Cardinality(given) + Times(t, queue) <= 1
    <3>1. CASE given = {}
      BY <2>4, <3>1 DEF given
    <3>2. CASE given # {}
      <4>1. Cardinality(given) = 1 /\ ~Queued(t)
        BY <2>5, <3>2
      <4> QED BY <2>3, <4>1
    <3> QED BY <3>1, <3>2
  <2> QED BY <2>2, <2>6 DEF given
<1>2. SoleInv => PromptedOnce
  BY <1>1 DEF SoleInv
<1> QED BY <1>2, SoleInvariant, PTL

\* handleSpawnSession queues the prompt before it launches Pi: a task that was
\* alone and is called running was given to the session it is bound to.
THEOREM SoleStartTold == Spec => []SoleStartIsTold
<1>1. ASSUME SoleInv PROVE SoleStartIsTold
  <2> SUFFICES ASSUME NEW t \in Tasks, created = <<t>>, task[t].status = "running",
                      \A s \in Others : pi[s] # "connected", ~expired
               PROVE  Times(t, got[task[t].worker]) = 1
    BY DEF SoleStartIsTold
  <2>1. TypeOK /\ PromptInv /\ ConnectedInv /\ KeptInv
    BY <1>1 DEF SoleInv
  <2>2. task[t].worker \in Tasks /\ pi[task[t].worker] = "connected"
    BY <2>1 DEF ConnectedInv, Sessions
  <2>3. task[t].worker = t
    <3>1. Len(created) = 1 /\ created[1] = t
      OBVIOUS
    <3>2. spawn[task[t].worker] # "none"
      BY <2>1, <2>2 DEF ConnectedInv
    <3> QED BY <2>1, <2>2, <3>1, <3>2 DEF ConnectedInv
  <2>4. Given(t, t)
    BY <2>1, <2>2, <2>3 DEF KeptInv
  <2>5. t \in Sessions
    BY DEF Sessions
  <2> QED BY <2>1, <2>3, <2>4, <2>5, TimesGiven
<1>2. SoleInv => SoleStartIsTold
  BY <1>1
<1> QED BY <1>2, SoleInvariant, PTL
=============================================================================
