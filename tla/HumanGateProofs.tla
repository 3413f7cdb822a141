-------------------------- MODULE HumanGateProofs --------------------------
(***************************************************************************)
(* Proofs about HumanGate, for any tasks, conversations, words, faults and *)
(* bounds: its types, that nothing happens to a busy project without the   *)
(* consent of the user, that the record of a task is true, and that work   *)
(* starts once and a question stays open as long as nothing fails.         *)
(***************************************************************************)
EXTENDS HumanGate, TLAPS

NotStarted(t) == prompts[t] = 0 /\ child[t] \notin {"creating", "complete"}
Works(t, gate, steps) ==
    \E h \in Sessions :
        call[h].task = t /\ call[h].gate = gate /\ call[h].step \in steps

\* A task has one tool call at a time.
OneCall ==
    \A g, h \in Sessions :
        call[g].task = call[h].task /\ call[g].task # Nobody => g = h

\* What a tool call knows of its task, for each of the three tools.
SubmitInv(h, t) ==
    /\ call[h].step \in {"block", "decide", "prompt", "update"}
    /\ call[h].outcome \in {"blocked", "running"}
    /\ call[h].step = "block" => call[h].outcome = "blocked"
    /\ call[h].step = "prompt" => call[h].outcome = "running"
    /\ task[t] # "absent"
    /\ decision[t].status = "none"
    /\ child[t] = "none"
    /\ IF call[h].step = "update" /\ call[h].outcome = "running"
       THEN prompts[t] = 1 ELSE prompts[t] = 0

DecisionInv(h, t) ==
    /\ decision[t].by = h
    /\ decision[t].status =
          IF call[h].step \in {"ask", "update"} THEN "resolved" ELSE "pending"
    /\ \/ /\ call[h].outcome \in {"queued", "running"}
          /\ call[h].step \in {"prompt", "resolve", "update"}
          /\ Choices(said[t]) \cap {"queue", "steer"} # {}
          /\ call[h].step # "prompt" => prompts[t] > 0
       \/ /\ call[h].outcome = "running_child"
          /\ call[h].step \notin {"block", "decide", "prompt"}
          /\ "parallel" \in Choices(said[t])
          /\ call[h].step \in {"close", "ask"} => child[t] = "authorized"
          /\ call[h].step \in {"resolve", "update"} => child[t] = "complete"
          /\ call[h].step \in {"close", "ask", "spawn", "await"} /\ faults = 0
                => prompts[t] = 0

PreflightInv(h, t) ==
    /\ preflight[t].by = h
    /\ preflight[t].status =
          IF call[h].step = "update" THEN "resolved" ELSE "pending"
    /\ call[h].step \in {"spawn", "await", "resolve", "update"}
    /\ call[h].outcome \in {"waiting", "running_child", "failed"}
    /\ call[h].step \in {"spawn", "await"} => call[h].outcome = "running_child"
    /\ call[h].outcome = "running_child" => "head" \in DirtyChoices(saidDirty[t])
    /\ call[h].outcome = "running_child" /\ call[h].step \in {"resolve", "update"}
          => child[t] = "complete"
    /\ call[h].outcome = "failed" /\ faults = 0 => NotStarted(t)

CallInv(h) ==
    /\ call[h].step = "idle" <=> call[h].task = Nobody
    /\ call[h].task # Nobody =>
          /\ call[h].gate = "submit" => SubmitInv(h, call[h].task)
          /\ call[h].gate = "decision" => DecisionInv(h, call[h].task)
          /\ call[h].gate = "preflight" => PreflightInv(h, call[h].task)

\* Who was asked about a task, and that an answer was heard.
AskedInv(t) ==
    /\ task[t] = "absent" =>
          decision[t].status = "none" /\ child[t] = "none" /\ prompts[t] = 0
    /\ decision[t].status # "none" => decision[t].by \in Sessions
    /\ preflight[t].status # "none" =>
          /\ decision[t].status = "resolved"
          /\ preflight[t].by = decision[t].by
          /\ child[t] # "none"
          /\ faults = 0 => prompts[t] = 0
    /\ \A h \in Sessions :
          /\ decision[t].status = "pending" /\ decision[t].by = h
             /\ latest[h].turn > decision[t].turn => latest[h].word \in said[t]
          /\ preflight[t].status = "pending" /\ preflight[t].by = h
             /\ latest[h].turn > preflight[t].turn => latest[h].word \in saidDirty[t]

\* The properties of one task.
Consented(t) ==
    Gated(t) =>
        /\ prompts[t] > 0 => Choices(said[t]) \cap {"queue", "steer"} # {}
        /\ child[t] # "none" => "parallel" \in Choices(said[t])
        /\ preflight[t].status # "none" /\ child[t] \in {"creating", "complete"}
              => "head" \in DirtyChoices(saidDirty[t])
Recorded(t) ==
    /\ task[t] \in {"queued", "running", "completed"} => prompts[t] > 0
    /\ task[t] = "running_child" => child[t] = "complete"

\* What holds until something fails.
CalmInv(t) ==
    /\ prompts[t] <= 1
    /\ child[t] \in {"creating", "complete"} => prompts[t] = 0
    /\ decision[t].status = "pending" =>
          NotStarted(t) \/ Works(t, "decision", {"await", "resolve"})
    /\ preflight[t].status = "pending" =>
          NotStarted(t) \/ Works(t, "preflight", {"await", "resolve"})
    /\ task[t] = "failed" =>
          /\ NotStarted(t)
          /\ decision[t].status = "resolved"
          /\ preflight[t].status = "resolved"
          /\ \A h \in Sessions : call[h].task # t
    /\ task[t] = "decision_required" =>
          decision[t].status = "pending" \/ Works(t, "decision", {"ask", "update"})
    /\ task[t] = "parallel_decision_required" =>
          preflight[t].status = "pending" \/ Works(t, "preflight", {"update"})

TaskInv(t) ==
    /\ AskedInv(t)
    /\ Consented(t)
    /\ Recorded(t)
    /\ faults = 0 => CalmInv(t)

GateInv ==
    /\ TypeOK
    /\ OneCall
    /\ \A h \in Sessions : CallInv(h)
    /\ \A t \in Tasks : TaskInv(t)
-----------------------------------------------------------------------------
(* What the steps of a tool call do to the table of calls *)

LEMMA GotoEffect ==
    ASSUME TypeOK, NEW h \in Sessions, NEW s, Goto(h, s)
    PROVE  /\ call'[h] = [call[h] EXCEPT !.step = s]
           /\ call'[h].step = s
           /\ call'[h].task = call[h].task
           /\ call'[h].gate = call[h].gate
           /\ call'[h].outcome = call[h].outcome
           /\ \A g \in Sessions \ {h} : call'[g] = call[g]
BY DEF TypeOK, Call, Goto

LEMMA ReturnEffect ==
    ASSUME TypeOK, NEW h \in Sessions, Return(h)
    PROVE  /\ call'[h] = NoCall
           /\ call'[h].step = "idle"
           /\ call'[h].task = Nobody
           /\ \A g \in Sessions \ {h} : call'[g] = call[g]
BY DEF TypeOK, Return, NoCall

LEMMA StartEffect ==
    ASSUME TypeOK, NEW h \in Sessions, NEW t, NEW gate, NEW s, NEW outcome,
           Start(h, t, gate, s, outcome)
    PROVE  /\ call'[h].step = s
           /\ call'[h].task = t
           /\ call'[h].gate = gate
           /\ call'[h].outcome = outcome
           /\ \A g \in Sessions \ {h} : call'[g] = call[g]
BY DEF TypeOK, Start

\* A session that is in a tool call works on a task.
LEMMA CallHasTask ==
    ASSUME GateInv, NEW h \in Sessions, ~Idle(h)
    PROVE  /\ call[h].task \in Tasks
           /\ \A g \in Sessions : call[g].task = call[h].task => g = h
<1>1. call[h].task # Nobody
  BY DEF GateInv, CallInv, Idle
<1>2. call[h].task \in Tasks
  BY <1>1 DEF GateInv, TypeOK, Call
<1> QED BY <1>1, <1>2 DEF GateInv, OneCall

\* Who works on the task of a call, before and after a step of the call.
LEMMA Alone ==
    ASSUME NEW h \in Sessions, NEW t \in Tasks, NEW gate, NEW steps,
           \A g \in Sessions : call[g].task = t => g = h,
           \A g \in Sessions \ {h} : call'[g] = call[g]
    PROVE  /\ Works(t, gate, steps) <=>
                 call[h].task = t /\ call[h].gate = gate /\ call[h].step \in steps
           /\ Works(t, gate, steps)' <=>
                 call'[h].task = t /\ call'[h].gate = gate /\ call'[h].step \in steps
BY DEF Works

\* A step of one call, on one task, leaves all others as they were.
LEMMA Frame ==
    ASSUME GateInv, TypeOK', NEW h \in Sessions, NEW t \in Tasks,
           call[h].task \in {t, Nobody}, call'[h].task \in {t, Nobody},
           \A g \in Sessions : call[g].task = t => g = h,
           \A g \in Sessions \ {h} : call'[g] = call[g],
           \A u \in Tasks \ {t} :
               /\ task'[u] = task[u] /\ decision'[u] = decision[u]
               /\ preflight'[u] = preflight[u] /\ child'[u] = child[u]
               /\ prompts'[u] = prompts[u],
           UNCHANGED <<latest, said, saidDirty>>,
           faults' = 0 => faults = 0,
           CallInv(h)', TaskInv(t)'
    PROVE  GateInv'
<1>1. OneCall'
  BY DEF GateInv, OneCall
<1>2. ASSUME NEW g \in Sessions PROVE CallInv(g)'
  <2>1. CASE g = h
    BY <2>1
  <2>2. CASE g # h
    <3>1. call'[g] = call[g] /\ CallInv(g)
      BY <2>2 DEF GateInv
    <3>2. CASE call[g].task = Nobody
      BY <3>1, <3>2 DEF CallInv
    <3>3. CASE call[g].task # Nobody
      <4>1. call[g].task \in Tasks \ {t}
        BY <2>2, <3>3 DEF GateInv, TypeOK, Call
      <4>2. SubmitInv(g, call[g].task) => SubmitInv(g, call[g].task)'
        BY <3>1, <4>1 DEF SubmitInv
      <4>3. DecisionInv(g, call[g].task) => DecisionInv(g, call[g].task)'
        BY <3>1, <4>1 DEF DecisionInv, Choices
      <4>4. PreflightInv(g, call[g].task) => PreflightInv(g, call[g].task)'
        BY <3>1, <4>1 DEF PreflightInv, DirtyChoices, NotStarted
      <4> QED BY <3>1, <3>3, <4>2, <4>3, <4>4 DEF CallInv
    <3> QED BY <3>2, <3>3
  <2> QED BY <2>1, <2>2
<1>3. ASSUME NEW u \in Tasks PROVE TaskInv(u)'
  <2>1. CASE u = t
    BY <2>1
  <2>2. CASE u # t
    <3>1. TaskInv(u)
      BY DEF GateInv
    <3>2. AskedInv(u)'
      BY <2>2, <3>1 DEF TaskInv, AskedInv
    <3>3. Consented(u)'
      BY <2>2, <3>1 DEF TaskInv, Consented, Gated, Choices, DirtyChoices
    <3>4. Recorded(u)'
      BY <2>2, <3>1 DEF TaskInv, Recorded
    <3>5. ASSUME NEW gate, NEW steps, Works(u, gate, steps)
          PROVE  Works(u, gate, steps)'
      <4>1. PICK g \in Sessions : call[g].task = u /\ call[g].gate = gate
                                  /\ call[g].step \in steps
        BY <3>5 DEF Works
      <4>2. g # h
        BY <2>2, <4>1, GateAssumption
      <4> QED BY <4>1, <4>2 DEF Works
    <3>6. ASSUME NEW g \in Sessions, call[g].task # u PROVE call'[g].task # u
      BY <2>2, <3>6, GateAssumption
    <3>7. NotStarted(u) => NotStarted(u)'
      BY <2>2 DEF NotStarted
    <3>8. faults' = 0 => CalmInv(u)'
      <4> SUFFICES ASSUME faults' = 0 PROVE CalmInv(u)'
        OBVIOUS
      <4>1. CalmInv(u)
        BY <3>1 DEF TaskInv
      <4>2. /\ Works(u, "decision", {"await", "resolve"})
                 => Works(u, "decision", {"await", "resolve"})'
            /\ Works(u, "preflight", {"await", "resolve"})
                 => Works(u, "preflight", {"await", "resolve"})'
            /\ Works(u, "decision", {"ask", "update"})
                 => Works(u, "decision", {"ask", "update"})'
            /\ Works(u, "preflight", {"update"}) => Works(u, "preflight", {"update"})'
        BY <3>5
      <4> QED BY <2>2, <3>6, <3>7, <4>1, <4>2 DEF CalmInv
    <3> QED BY <3>2, <3>3, <3>4, <3>8 DEF TaskInv
  <2> QED BY <2>1, <2>2
<1> QED BY <1>1, <1>2, <1>3 DEF GateInv
-----------------------------------------------------------------------------
(* Types *)

LEMMA ParseRange ==
    \A w : /\ parse_choice(w) \in {"queue", "steer", "parallel", "none"}
           /\ parse_dirty_choice(w) \in {"wait", "head", "none"}
BY DEF parse_choice, parse_dirty_choice

\* A tool call that only moves on or ends.
LEMMA GotoTypes ==
    ASSUME TypeOK, NEW h \in Sessions, NEW s \in Steps, Goto(h, s)
    PROVE  call' \in [Sessions -> Call]
BY DEF TypeOK, Call, Goto

LEMMA ReturnTypes ==
    ASSUME TypeOK, NEW h \in Sessions, Return(h)
    PROVE  call' \in [Sessions -> Call]
BY DEF TypeOK, Call, Return, NoCall, Steps, Gates, TaskStates

LEMMA StartTypes ==
    ASSUME TypeOK, NEW h \in Sessions, NEW t \in Tasks, NEW gate \in Gates,
           NEW s \in Steps, NEW outcome \in TaskStates, Start(h, t, gate, s, outcome)
    PROVE  call' \in [Sessions -> Call]
BY DEF TypeOK, Call, Start

LEMMA FailedTypes ==
    ASSUME TypeOK, NEW h \in Sessions, StartFailed(h)
    PROVE  call' \in [Sessions -> Call]
<1>1. CASE call[h].gate = "preflight"
  <2>1. [call[h] EXCEPT !.step = "resolve", !.outcome = "failed"] \in Call
    BY DEF TypeOK, Call, Steps, TaskStates
  <2>2. call' = [call EXCEPT ![h] = [call[h] EXCEPT !.step = "resolve",
                                                   !.outcome = "failed"]]
    BY <1>1 DEF StartFailed
  <2> QED BY <2>1, <2>2 DEF TypeOK
<1>2. CASE call[h].gate # "preflight"
  BY <1>2, ReturnTypes DEF StartFailed
<1> QED BY <1>1, <1>2

LEMMA AskedType ==
    ASSUME TypeOK, NEW h \in Sessions
    PROVE  Asked(h) \in Question
BY DEF TypeOK, Asked, Question, QuestionStates

LEMMA QuestionTypes ==
    ASSUME NEW q \in Question
    PROVE  /\ [q EXCEPT !.status = "resolved"] \in Question
           /\ [q EXCEPT !.status = IF @ = "pending" THEN "resolved" ELSE @] \in Question
           /\ [q EXCEPT !.expired = TRUE] \in Question
BY DEF Question, QuestionStates

LEMMA TypesInit == Init => TypeOK
BY GateAssumption DEF Init, TypeOK, NoCall, NoQuestion, Call, Question, QuestionStates,
   TaskStates, ChildStates, WorkerStates, Steps, Gates

\* Every step keeps the types.
LEMMA TypesStep == GateInv /\ [Next]_vars => TypeOK'
<1> SUFFICES ASSUME GateInv, TypeOK, [Next]_vars PROVE TypeOK'
  BY DEF GateInv
<1> USE DEF storeVars, turnVars
<1>1. ASSUME NEW h \in Sessions, NEW word \in Words, Turn(h, word) PROVE TypeOK'
  BY <1>1 DEF TypeOK, Turn
<1>2. ASSUME NEW h \in Sessions, NEW t \in Tasks, Submit(h, t) PROVE TypeOK'
  <2>1. call' \in [Sessions -> Call]
    BY <1>2, StartTypes DEF TypeOK, Submit, WorkerStates, Steps, Gates, TaskStates
  <2> QED BY <1>2, <2>1 DEF TypeOK, Submit, TaskStates
<1>3. ASSUME NEW h \in Sessions, NEW t \in Tasks, Resolve(h, t) PROVE TypeOK'
  <2>1. call' \in [Sessions -> Call]
    BY <1>3, StartTypes, ParseRange DEF Resolve, Steps, Gates, TaskStates
  <2> QED BY <1>3, <2>1 DEF TypeOK, Resolve
<1>4. ASSUME NEW h \in Sessions, NEW t \in Tasks, ResolvePreflight(h, t) PROVE TypeOK'
  <2>1. call' \in [Sessions -> Call]
    BY <1>4, StartTypes, ParseRange DEF ResolvePreflight, Steps, Gates, TaskStates
  <2> QED BY <1>4, <2>1 DEF TypeOK, ResolvePreflight
<1>5. ASSUME NEW h \in Sessions, ToolCall(h), call[h].task \in Tasks PROVE TypeOK'
  <2>1. CASE Block(h)
    <3>1. call' \in [Sessions -> Call]
      BY <2>1, GotoTypes, ReturnTypes, FailedTypes DEF Block, Steps
    <3> QED BY <1>5, <2>1, <3>1, AskedType
            DEF TypeOK, Block, Fault, ChildStates, TaskStates, Question, QuestionStates, Call
  <2>2. CASE CreateDecision(h)
    <3>1. call' \in [Sessions -> Call]
      BY <2>2, GotoTypes, ReturnTypes, FailedTypes DEF CreateDecision, Steps
    <3> QED BY <1>5, <2>2, <3>1, AskedType
            DEF TypeOK, CreateDecision, Fault, ChildStates, TaskStates, Question, QuestionStates, Call
  <2>3. CASE SendPrompt(h)
    <3>1. call' \in [Sessions -> Call]
      BY <2>3, GotoTypes, ReturnTypes, FailedTypes DEF SendPrompt, Steps
    <3> QED BY <1>5, <2>3, <3>1, AskedType
            DEF TypeOK, SendPrompt, Fault, ChildStates, TaskStates, Question, QuestionStates, Call
  <2>4. CASE PromptRaises(h)
    <3>1. call' \in [Sessions -> Call]
      BY <2>4, GotoTypes, ReturnTypes, FailedTypes DEF PromptRaises, Steps
    <3> QED BY <1>5, <2>4, <3>1, AskedType
            DEF TypeOK, PromptRaises, Fault, ChildStates, TaskStates, Question, QuestionStates, Call
  <2>5. CASE Inspect(h)
    <3>1. call' \in [Sessions -> Call]
      BY <2>5, GotoTypes, ReturnTypes, FailedTypes DEF Inspect, Steps
    <3> QED BY <1>5, <2>5, <3>1, AskedType
            DEF TypeOK, Inspect, Fault, ChildStates, TaskStates, Question, QuestionStates, Call
  <2>6. CASE Authorize(h)
    <3>1. call' \in [Sessions -> Call]
      BY <2>6, GotoTypes, ReturnTypes, FailedTypes DEF Authorize, Steps
    <3> QED BY <1>5, <2>6, <3>1, AskedType
            DEF TypeOK, Authorize, Fault, ChildStates, TaskStates, Question, QuestionStates, Call
  <2>7. CASE AuthorizeRefused(h)
    <3>1. call' \in [Sessions -> Call]
      BY <2>7, GotoTypes, ReturnTypes, FailedTypes DEF AuthorizeRefused, Steps
    <3> QED BY <1>5, <2>7, <3>1, AskedType
            DEF TypeOK, AuthorizeRefused, Fault, ChildStates, TaskStates, Question, QuestionStates, Call
  <2>8. CASE AuthorizeTimesOut(h)
    <3>1. call' \in [Sessions -> Call]
      BY <2>8, GotoTypes, ReturnTypes, FailedTypes DEF AuthorizeTimesOut, Steps
    <3> QED BY <1>5, <2>8, <3>1, AskedType
            DEF TypeOK, AuthorizeTimesOut, Fault, ChildStates, TaskStates, Question, QuestionStates, Call
  <2>9. CASE CloseDecision(h)
    <3>1. call' \in [Sessions -> Call]
      BY <2>9, GotoTypes, ReturnTypes, FailedTypes DEF CloseDecision, Steps
    <3>2. [decision[call[h].task] EXCEPT !.status = "resolved"] \in Question
      BY <1>5, QuestionTypes DEF TypeOK
    <3>3. decision' \in [Tasks -> Question]
      BY <2>9, <3>2 DEF TypeOK, CloseDecision
    <3> QED BY <2>9, <3>1, <3>3 DEF TypeOK, CloseDecision
  <2>10. CASE AskPreflight(h)
    <3>1. call' \in [Sessions -> Call]
      BY <2>10, GotoTypes, ReturnTypes, FailedTypes DEF AskPreflight, Steps
    <3> QED BY <1>5, <2>10, <3>1, AskedType
            DEF TypeOK, AskPreflight, Fault, ChildStates, TaskStates, Question, QuestionStates, Call
  <2>11. CASE Spawn(h)
    <3>1. call' \in [Sessions -> Call]
      BY <2>11, GotoTypes, ReturnTypes, FailedTypes DEF Spawn, Steps
    <3> QED BY <1>5, <2>11, <3>1, AskedType
            DEF TypeOK, Spawn, Fault, ChildStates, TaskStates, Question, QuestionStates, Call
  <2>12. CASE SpawnReplayed(h)
    <3>1. call' \in [Sessions -> Call]
      BY <2>12, GotoTypes, ReturnTypes, FailedTypes DEF SpawnReplayed, Steps
    <3> QED BY <1>5, <2>12, <3>1, AskedType
            DEF TypeOK, SpawnReplayed, Fault, ChildStates, TaskStates, Question, QuestionStates, Call
  <2>13. CASE SpawnRefused(h)
    <3>1. call' \in [Sessions -> Call]
      BY <2>13, GotoTypes, ReturnTypes, FailedTypes DEF SpawnRefused, Steps
    <3> QED BY <1>5, <2>13, <3>1, AskedType
            DEF TypeOK, SpawnRefused, Fault, ChildStates, TaskStates, Question, QuestionStates, Call
  <2>14. CASE Answer(h)
    <3>1. call' \in [Sessions -> Call]
      BY <2>14, GotoTypes, ReturnTypes, FailedTypes DEF Answer, Steps
    <3> QED BY <1>5, <2>14, <3>1, AskedType
            DEF TypeOK, Answer, Fault, ChildStates, TaskStates, Question, QuestionStates, Call
  <2>15. CASE AnswerTimesOut(h)
    <3>1. call' \in [Sessions -> Call]
      BY <2>15, GotoTypes, ReturnTypes, FailedTypes DEF AnswerTimesOut, Steps
    <3> QED BY <1>5, <2>15, <3>1, AskedType
            DEF TypeOK, AnswerTimesOut, Fault, ChildStates, TaskStates, Question, QuestionStates, Call
  <2>16. CASE RecordResolution(h)
    <3>1. call' \in [Sessions -> Call]
      BY <2>16, GotoTypes, ReturnTypes, FailedTypes DEF RecordResolution, Steps
    <3> DEFINE t == call[h].task
               closed(q) == [q EXCEPT !.status = IF @ = "pending" THEN "resolved" ELSE @]
    <3>2. closed(decision[t]) \in Question /\ closed(preflight[t]) \in Question
      BY <1>5, QuestionTypes DEF TypeOK
    <3>3. /\ \/ decision' = [decision EXCEPT ![t] = closed(@)]
             \/ decision' = decision
          /\ \/ preflight' = [preflight EXCEPT ![t] = closed(@)]
             \/ preflight' = preflight
      BY <2>16 DEF RecordResolution
    <3> HIDE DEF closed
    <3>4. decision' \in [Tasks -> Question]
      BY <1>5, <3>2, <3>3 DEF TypeOK
    <3>5. preflight' \in [Tasks -> Question]
      BY <1>5, <3>2, <3>3 DEF TypeOK
    <3> QED BY <2>16, <3>1, <3>4, <3>5 DEF TypeOK, RecordResolution
  <2>17. CASE UpdateTask(h)
    <3>1. call' \in [Sessions -> Call]
      BY <2>17, GotoTypes, ReturnTypes, FailedTypes DEF UpdateTask, Steps
    <3> QED BY <1>5, <2>17, <3>1, AskedType
            DEF TypeOK, UpdateTask, Fault, ChildStates, TaskStates, Question, QuestionStates, Call
  <2> QED BY <1>5, <2>1, <2>2, <2>3, <2>4, <2>5, <2>6, <2>7, <2>8, <2>9, <2>10, <2>11, <2>12, <2>13, <2>14, <2>15, <2>16, <2>17 DEF ToolCall
<1>6. ASSUME NEW h \in Sessions, ToolCall(h) PROVE call[h].task \in Tasks
  <2>1. ~Idle(h)
    BY <1>6 DEF Idle, At, ToolCall, Block, CreateDecision, SendPrompt, PromptRaises,
            Inspect, Authorize, AuthorizeRefused, AuthorizeTimesOut, CloseDecision,
            AskPreflight, Spawn, SpawnReplayed, SpawnRefused, Answer, AnswerTimesOut,
            RecordResolution, UpdateTask
  <2> QED BY <2>1, CallHasTask
<1>7. ASSUME NEW t \in Tasks, CreationEnds(t) PROVE TypeOK'
  BY <1>7 DEF TypeOK, CreationEnds, ChildStates
<1>8. ASSUME NEW t \in Tasks, Expire(t) PROVE TypeOK'
  <2>1. /\ [decision[t] EXCEPT !.expired = TRUE] \in Question
        /\ [preflight[t] EXCEPT !.expired = TRUE] \in Question
    BY QuestionTypes DEF TypeOK
  <2>2. decision' \in [Tasks -> Question]
    BY <1>8, <2>1 DEF TypeOK, Expire
  <2>3. preflight' \in [Tasks -> Question]
    BY <1>8, <2>1 DEF TypeOK, Expire
  <2> QED BY <1>8, <2>2, <2>3 DEF TypeOK, Expire
<1>9. ASSUME NEW state \in WorkerStates, PrimaryChanges(state) PROVE TypeOK'
  BY <1>9 DEF TypeOK, PrimaryChanges
<1>10. CASE PrimarySettled
  BY <1>10 DEF TypeOK, PrimarySettled, TaskStates
<1>11. CASE Crash
  BY <1>11 DEF TypeOK, Crash, Fault, NoCall, Call, Steps, Gates, TaskStates
<1>12. CASE UNCHANGED vars
  BY <1>12 DEF TypeOK, vars
<1> QED BY <1>1, <1>2, <1>3, <1>4, <1>5, <1>6, <1>7, <1>8, <1>9, <1>10, <1>11, <1>12
        DEF Next, Request

-----------------------------------------------------------------------------
(* The steps of a tool call *)

-----------------------------------------------------------------------------
(* The steps of a tool call *)

LEMMA BlockStep ==
    ASSUME GateInv, TypeOK', NEW h \in Sessions, Block(h)
    PROVE  GateInv'
<1>1. PICK t \in Tasks : /\ call[h].task = t
                        /\ \A g \in Sessions : call[g].task = t => g = h
  BY CallHasTask DEF Block, At, Idle
<1>2. TypeOK /\ CallInv(h) /\ TaskInv(t)
  BY <1>1 DEF GateInv
<1>3. /\ call'[h].step = "update"
      /\ call'[h].task = t /\ call'[h].gate = call[h].gate
      /\ call'[h].outcome = call[h].outcome
      /\ \A g \in Sessions \ {h} : call'[g] = call[g]
  BY <1>1, <1>2, GotoEffect DEF Block
<1>4. /\ call[h].step = "block"
      /\ UNCHANGED <<task, decision, preflight, child, prompts, latest, said, saidDirty, faults>>
  BY <1>1, <1>2 DEF TypeOK, Block, At, storeVars, turnVars
<1>5. t # Nobody /\ prompts[t] \in Nat /\ latest[h].turn \in Nat
  BY <1>2, GateAssumption DEF TypeOK
<1>6. call[h].gate = "submit" /\ SubmitInv(h, t)
  BY <1>1, <1>2, <1>4, <1>5
     DEF CallInv, SubmitInv, DecisionInv, PreflightInv, TypeOK, Call, Gates
<1>7. CallInv(h)'
  BY <1>1, <1>2, <1>3, <1>4, <1>5, <1>6 DEF CallInv, SubmitInv, DecisionInv,
     PreflightInv, NotStarted, TaskInv, CalmInv, AskedInv, Choices, DirtyChoices
<1>8. AskedInv(t)'
  BY <1>1, <1>2, <1>3, <1>4, <1>5, <1>6
     DEF SubmitInv, DecisionInv, PreflightInv, TaskInv, AskedInv, CalmInv
<1>9. Consented(t)'
  BY <1>1, <1>2, <1>3, <1>4, <1>5, <1>6 DEF SubmitInv, DecisionInv, PreflightInv, TaskInv,
     AskedInv, Consented, Gated, Choices, DirtyChoices
<1>10. Recorded(t)'
  BY <1>1, <1>2, <1>3, <1>4, <1>5, <1>6
     DEF SubmitInv, DecisionInv, PreflightInv, TaskInv, Recorded
<1>11. faults' = 0 => CalmInv(t)'
  BY <1>1, <1>2, <1>3, <1>4, <1>5, <1>6, Alone DEF SubmitInv, DecisionInv,
     PreflightInv, NotStarted, TaskInv, AskedInv, CalmInv
<1> QED BY <1>1, <1>2, <1>3, <1>4, <1>7, <1>8, <1>9, <1>10, <1>11, Frame DEF TaskInv

LEMMA CreateDecisionStep ==
    ASSUME GateInv, TypeOK', NEW h \in Sessions, CreateDecision(h)
    PROVE  GateInv'
<1>1. PICK t \in Tasks : /\ call[h].task = t
                        /\ \A g \in Sessions : call[g].task = t => g = h
  BY CallHasTask DEF CreateDecision, At, Idle
<1>2. TypeOK /\ CallInv(h) /\ TaskInv(t)
  BY <1>1 DEF GateInv
<1>3. /\ call'[h].step = "idle" /\ call'[h].task = Nobody
      /\ \A g \in Sessions \ {h} : call'[g] = call[g]
  BY <1>2, ReturnEffect DEF CreateDecision
<1>4. /\ call[h].step = "decide"
      /\ decision'[t] = [status |-> "pending", by |-> h, turn |-> latest[h].turn, expired |-> FALSE]
      /\ task'[t] = "decision_required"
      /\ UNCHANGED <<preflight, child, prompts, latest, said, saidDirty, faults>>
      /\ \A u \in Tasks \ {t} : decision'[u] = decision[u] /\ task'[u] = task[u]
  BY <1>1, <1>2 DEF TypeOK, CreateDecision, At, storeVars, turnVars, Asked
<1>5. t # Nobody /\ prompts[t] \in Nat /\ latest[h].turn \in Nat
  BY <1>2, GateAssumption DEF TypeOK
<1>6. call[h].gate = "submit" /\ SubmitInv(h, t)
  BY <1>1, <1>2, <1>4, <1>5
     DEF CallInv, SubmitInv, DecisionInv, PreflightInv, TypeOK, Call, Gates
<1>7. CallInv(h)'
  BY <1>1, <1>2, <1>3, <1>4, <1>5, <1>6 DEF CallInv, SubmitInv, DecisionInv,
     PreflightInv, NotStarted, TaskInv, CalmInv, AskedInv, Choices, DirtyChoices
<1>8. AskedInv(t)'
  BY <1>1, <1>2, <1>3, <1>4, <1>5, <1>6
     DEF SubmitInv, DecisionInv, PreflightInv, TaskInv, AskedInv, CalmInv
<1>9. Consented(t)'
  BY <1>1, <1>2, <1>3, <1>4, <1>5, <1>6 DEF SubmitInv, DecisionInv, PreflightInv, TaskInv,
     AskedInv, Consented, Gated, Choices, DirtyChoices
<1>10. Recorded(t)'
  BY <1>1, <1>2, <1>3, <1>4, <1>5, <1>6
     DEF SubmitInv, DecisionInv, PreflightInv, TaskInv, Recorded
<1>11. faults' = 0 => CalmInv(t)'
  BY <1>1, <1>2, <1>3, <1>4, <1>5, <1>6, Alone DEF SubmitInv, DecisionInv,
     PreflightInv, NotStarted, TaskInv, AskedInv, CalmInv
<1> QED BY <1>1, <1>2, <1>3, <1>4, <1>7, <1>8, <1>9, <1>10, <1>11, Frame DEF TaskInv

LEMMA SendPromptStep ==
    ASSUME GateInv, TypeOK', NEW h \in Sessions, SendPrompt(h)
    PROVE  GateInv'
<1>1. PICK t \in Tasks : /\ call[h].task = t
                        /\ \A g \in Sessions : call[g].task = t => g = h
  BY CallHasTask DEF SendPrompt, At, Idle
<1>2. TypeOK /\ CallInv(h) /\ TaskInv(t)
  BY <1>1 DEF GateInv
<1>3. /\ call'[h].step = (IF call[h].gate = "submit" THEN "update" ELSE "resolve")
      /\ call'[h].task = t /\ call'[h].gate = call[h].gate
      /\ call'[h].outcome = call[h].outcome
      /\ \A g \in Sessions \ {h} : call'[g] = call[g]
  BY <1>1, <1>2, GotoEffect DEF SendPrompt
<1>4. /\ call[h].step = "prompt"
      /\ prompts'[t] = prompts[t] + 1
      /\ UNCHANGED <<task, decision, preflight, child, latest, said, saidDirty, faults>>
      /\ \A u \in Tasks \ {t} : prompts'[u] = prompts[u]
  BY <1>1, <1>2 DEF TypeOK, SendPrompt, At, storeVars, turnVars
<1>5. t # Nobody /\ prompts[t] \in Nat /\ latest[h].turn \in Nat
  BY <1>2, GateAssumption DEF TypeOK
<1>6. \/ call[h].gate = "submit" /\ SubmitInv(h, t)
      \/ call[h].gate = "decision" /\ DecisionInv(h, t)
  BY <1>1, <1>2, <1>4, <1>5
     DEF CallInv, SubmitInv, DecisionInv, PreflightInv, TypeOK, Call, Gates
<1>7. CallInv(h)'
  BY <1>1, <1>2, <1>3, <1>4, <1>5, <1>6 DEF CallInv, SubmitInv, DecisionInv,
     PreflightInv, NotStarted, TaskInv, CalmInv, AskedInv, Choices, DirtyChoices
<1>8. AskedInv(t)'
  BY <1>1, <1>2, <1>3, <1>4, <1>5, <1>6
     DEF SubmitInv, DecisionInv, PreflightInv, TaskInv, AskedInv, CalmInv
<1>9. Consented(t)'
  BY <1>1, <1>2, <1>3, <1>4, <1>5, <1>6 DEF SubmitInv, DecisionInv, PreflightInv, TaskInv,
     AskedInv, Consented, Gated, Choices, DirtyChoices
<1>10. Recorded(t)'
  BY <1>1, <1>2, <1>3, <1>4, <1>5, <1>6
     DEF SubmitInv, DecisionInv, PreflightInv, TaskInv, Recorded
<1>11. faults' = 0 => CalmInv(t)'
  BY <1>1, <1>2, <1>3, <1>4, <1>5, <1>6, Alone DEF SubmitInv, DecisionInv,
     PreflightInv, NotStarted, TaskInv, AskedInv, CalmInv
<1> QED BY <1>1, <1>2, <1>3, <1>4, <1>7, <1>8, <1>9, <1>10, <1>11, Frame DEF TaskInv

LEMMA PromptRaisesStep ==
    ASSUME GateInv, TypeOK', NEW h \in Sessions, PromptRaises(h)
    PROVE  GateInv'
<1>1. PICK t \in Tasks : /\ call[h].task = t
                        /\ \A g \in Sessions : call[g].task = t => g = h
  BY CallHasTask DEF PromptRaises, At, Idle
<1>2. TypeOK /\ CallInv(h) /\ TaskInv(t)
  BY <1>1 DEF GateInv
<1>3. /\ call'[h].step = "idle" /\ call'[h].task = Nobody
      /\ \A g \in Sessions \ {h} : call'[g] = call[g]
  BY <1>2, ReturnEffect DEF PromptRaises
<1>4. /\ call[h].step = "prompt"
      /\ UNCHANGED <<task, decision, preflight, child, prompts, latest, said, saidDirty, faults>>
  BY <1>1, <1>2 DEF TypeOK, PromptRaises, At, storeVars, turnVars
<1>5. t # Nobody /\ prompts[t] \in Nat /\ latest[h].turn \in Nat
  BY <1>2, GateAssumption DEF TypeOK
<1>6. \/ call[h].gate = "submit" /\ SubmitInv(h, t)
      \/ call[h].gate = "decision" /\ DecisionInv(h, t)
  BY <1>1, <1>2, <1>4, <1>5
     DEF CallInv, SubmitInv, DecisionInv, PreflightInv, TypeOK, Call, Gates
<1>7. CallInv(h)'
  BY <1>1, <1>2, <1>3, <1>4, <1>5, <1>6 DEF CallInv, SubmitInv, DecisionInv,
     PreflightInv, NotStarted, TaskInv, CalmInv, AskedInv, Choices, DirtyChoices
<1>8. AskedInv(t)'
  BY <1>1, <1>2, <1>3, <1>4, <1>5, <1>6
     DEF SubmitInv, DecisionInv, PreflightInv, TaskInv, AskedInv, CalmInv
<1>9. Consented(t)'
  BY <1>1, <1>2, <1>3, <1>4, <1>5, <1>6 DEF SubmitInv, DecisionInv, PreflightInv, TaskInv,
     AskedInv, Consented, Gated, Choices, DirtyChoices
<1>10. Recorded(t)'
  BY <1>1, <1>2, <1>3, <1>4, <1>5, <1>6
     DEF SubmitInv, DecisionInv, PreflightInv, TaskInv, Recorded
<1>11. faults' = 0 => CalmInv(t)'
  BY <1>1, <1>2, <1>3, <1>4, <1>5, <1>6, Alone DEF SubmitInv, DecisionInv,
     PreflightInv, NotStarted, TaskInv, AskedInv, CalmInv
<1> QED BY <1>1, <1>2, <1>3, <1>4, <1>7, <1>8, <1>9, <1>10, <1>11, Frame DEF TaskInv

LEMMA AuthorizeStep ==
    ASSUME GateInv, TypeOK', NEW h \in Sessions, Authorize(h)
    PROVE  GateInv'
<1>1. PICK t \in Tasks : /\ call[h].task = t
                        /\ \A g \in Sessions : call[g].task = t => g = h
  BY CallHasTask DEF Authorize, At, Idle
<1>2. TypeOK /\ CallInv(h) /\ TaskInv(t)
  BY <1>1 DEF GateInv
<1>3. /\ call'[h].step = "close"
      /\ call'[h].task = t /\ call'[h].gate = call[h].gate
      /\ call'[h].outcome = call[h].outcome
      /\ \A g \in Sessions \ {h} : call'[g] = call[g]
  BY <1>1, <1>2, GotoEffect DEF Authorize
<1>4. /\ call[h].step = "authorize"
      /\ child'[t] = "authorized"
      /\ child[t] = "none"
      /\ UNCHANGED <<task, decision, preflight, prompts, latest, said, saidDirty, faults>>
      /\ \A u \in Tasks \ {t} : child'[u] = child[u]
  BY <1>1, <1>2 DEF TypeOK, Authorize, At, storeVars, turnVars
<1>5. t # Nobody /\ prompts[t] \in Nat /\ latest[h].turn \in Nat
  BY <1>2, GateAssumption DEF TypeOK
<1>6. call[h].gate = "decision" /\ DecisionInv(h, t)
  BY <1>1, <1>2, <1>4, <1>5
     DEF CallInv, SubmitInv, DecisionInv, PreflightInv, TypeOK, Call, Gates
<1>7. CallInv(h)'
  BY <1>1, <1>2, <1>3, <1>4, <1>5, <1>6, Alone DEF CallInv, SubmitInv, DecisionInv,
     PreflightInv, NotStarted, TaskInv, CalmInv, AskedInv, Choices, DirtyChoices
<1>8. AskedInv(t)'
  BY <1>1, <1>2, <1>3, <1>4, <1>5, <1>6
     DEF SubmitInv, DecisionInv, PreflightInv, TaskInv, AskedInv, CalmInv
<1>9. Consented(t)'
  BY <1>1, <1>2, <1>3, <1>4, <1>5, <1>6 DEF SubmitInv, DecisionInv, PreflightInv, TaskInv,
     AskedInv, Consented, Gated, Choices, DirtyChoices
<1>10. Recorded(t)'
  BY <1>1, <1>2, <1>3, <1>4, <1>5, <1>6
     DEF SubmitInv, DecisionInv, PreflightInv, TaskInv, Recorded
<1>11. faults' = 0 => CalmInv(t)'
  BY <1>1, <1>2, <1>3, <1>4, <1>5, <1>6, Alone DEF SubmitInv, DecisionInv,
     PreflightInv, NotStarted, TaskInv, AskedInv, CalmInv
<1> QED BY <1>1, <1>2, <1>3, <1>4, <1>7, <1>8, <1>9, <1>10, <1>11, Frame DEF TaskInv

LEMMA AuthorizeRefusedStep ==
    ASSUME GateInv, TypeOK', NEW h \in Sessions, AuthorizeRefused(h)
    PROVE  GateInv'
<1>1. PICK t \in Tasks : /\ call[h].task = t
                        /\ \A g \in Sessions : call[g].task = t => g = h
  BY CallHasTask DEF AuthorizeRefused, At, Idle
<1>2. TypeOK /\ CallInv(h) /\ TaskInv(t)
  BY <1>1 DEF GateInv
<1>3. /\ call'[h].step = "idle" /\ call'[h].task = Nobody
      /\ \A g \in Sessions \ {h} : call'[g] = call[g]
  BY <1>2, ReturnEffect DEF AuthorizeRefused
<1>4. /\ call[h].step = "authorize"
      /\ UNCHANGED <<task, decision, preflight, child, prompts, latest, said, saidDirty, faults>>
  BY <1>1, <1>2 DEF TypeOK, AuthorizeRefused, At, storeVars, turnVars
<1>5. t # Nobody /\ prompts[t] \in Nat /\ latest[h].turn \in Nat
  BY <1>2, GateAssumption DEF TypeOK
<1>6. call[h].gate = "decision" /\ DecisionInv(h, t)
  BY <1>1, <1>2, <1>4, <1>5
     DEF CallInv, SubmitInv, DecisionInv, PreflightInv, TypeOK, Call, Gates
<1>7. CallInv(h)'
  BY <1>1, <1>2, <1>3, <1>4, <1>5, <1>6 DEF CallInv, SubmitInv, DecisionInv,
     PreflightInv, NotStarted, TaskInv, CalmInv, AskedInv, Choices, DirtyChoices
<1>8. AskedInv(t)'
  BY <1>1, <1>2, <1>3, <1>4, <1>5, <1>6
     DEF SubmitInv, DecisionInv, PreflightInv, TaskInv, AskedInv, CalmInv
<1>9. Consented(t)'
  BY <1>1, <1>2, <1>3, <1>4, <1>5, <1>6 DEF SubmitInv, DecisionInv, PreflightInv, TaskInv,
     AskedInv, Consented, Gated, Choices, DirtyChoices
<1>10. Recorded(t)'
  BY <1>1, <1>2, <1>3, <1>4, <1>5, <1>6
     DEF SubmitInv, DecisionInv, PreflightInv, TaskInv, Recorded
<1>11. faults' = 0 => CalmInv(t)'
  BY <1>1, <1>2, <1>3, <1>4, <1>5, <1>6, Alone DEF SubmitInv, DecisionInv,
     PreflightInv, NotStarted, TaskInv, AskedInv, CalmInv
<1> QED BY <1>1, <1>2, <1>3, <1>4, <1>7, <1>8, <1>9, <1>10, <1>11, Frame DEF TaskInv

LEMMA AuthorizeTimesOutStep ==
    ASSUME GateInv, TypeOK', NEW h \in Sessions, AuthorizeTimesOut(h)
    PROVE  GateInv'
<1>1. PICK t \in Tasks : /\ call[h].task = t
                        /\ \A g \in Sessions : call[g].task = t => g = h
  BY CallHasTask DEF AuthorizeTimesOut, At, Idle
<1>2. TypeOK /\ CallInv(h) /\ TaskInv(t)
  BY <1>1 DEF GateInv
<1>3. /\ call'[h].step = "idle" /\ call'[h].task = Nobody
      /\ \A g \in Sessions \ {h} : call'[g] = call[g]
  BY <1>2, ReturnEffect DEF AuthorizeTimesOut
<1>4. /\ call[h].step = "authorize"
      /\ child'[t] = "authorized"
      /\ child[t] = "none" /\ faults' # 0
      /\ UNCHANGED <<task, decision, preflight, prompts, latest, said, saidDirty>>
      /\ \A u \in Tasks \ {t} : child'[u] = child[u]
  BY <1>1, <1>2 DEF TypeOK, AuthorizeTimesOut, At, storeVars, turnVars, Fault
<1>5. t # Nobody /\ prompts[t] \in Nat /\ latest[h].turn \in Nat
  BY <1>2, GateAssumption DEF TypeOK
<1>6. call[h].gate = "decision" /\ DecisionInv(h, t)
  BY <1>1, <1>2, <1>4, <1>5
     DEF CallInv, SubmitInv, DecisionInv, PreflightInv, TypeOK, Call, Gates
<1>7. CallInv(h)'
  BY <1>1, <1>2, <1>3, <1>4, <1>5, <1>6 DEF CallInv, SubmitInv, DecisionInv,
     PreflightInv, NotStarted, TaskInv, CalmInv, AskedInv, Choices, DirtyChoices
<1>8. AskedInv(t)'
  BY <1>1, <1>2, <1>3, <1>4, <1>5, <1>6
     DEF SubmitInv, DecisionInv, PreflightInv, TaskInv, AskedInv, CalmInv
<1>9. Consented(t)'
  BY <1>1, <1>2, <1>3, <1>4, <1>5, <1>6 DEF SubmitInv, DecisionInv, PreflightInv, TaskInv,
     AskedInv, Consented, Gated, Choices, DirtyChoices
<1>10. Recorded(t)'
  BY <1>1, <1>2, <1>3, <1>4, <1>5, <1>6
     DEF SubmitInv, DecisionInv, PreflightInv, TaskInv, Recorded
<1>11. faults' = 0 => CalmInv(t)'
  BY <1>1, <1>2, <1>3, <1>4, <1>5, <1>6, Alone DEF SubmitInv, DecisionInv,
     PreflightInv, NotStarted, TaskInv, AskedInv, CalmInv
<1> QED BY <1>1, <1>2, <1>3, <1>4, <1>7, <1>8, <1>9, <1>10, <1>11, Frame DEF TaskInv

LEMMA CloseDecisionStep ==
    ASSUME GateInv, TypeOK', NEW h \in Sessions, CloseDecision(h)
    PROVE  GateInv'
<1>1. PICK t \in Tasks : /\ call[h].task = t
                        /\ \A g \in Sessions : call[g].task = t => g = h
  BY CallHasTask DEF CloseDecision, At, Idle
<1>2. TypeOK /\ CallInv(h) /\ TaskInv(t)
  BY <1>1 DEF GateInv
<1>3. /\ call'[h].step = "ask"
      /\ call'[h].task = t /\ call'[h].gate = call[h].gate
      /\ call'[h].outcome = call[h].outcome
      /\ \A g \in Sessions \ {h} : call'[g] = call[g]
  BY <1>1, <1>2, GotoEffect DEF CloseDecision
<1>4. /\ call[h].step = "close"
      /\ decision'[t] = [decision[t] EXCEPT !.status = "resolved"]
      /\ UNCHANGED <<task, preflight, child, prompts, latest, said, saidDirty, faults>>
      /\ \A u \in Tasks \ {t} : decision'[u] = decision[u]
  BY <1>1, <1>2 DEF TypeOK, CloseDecision, At, storeVars, turnVars
<1>5. t # Nobody /\ prompts[t] \in Nat /\ latest[h].turn \in Nat
  BY <1>2, GateAssumption DEF TypeOK
<1>6. call[h].gate = "decision" /\ DecisionInv(h, t)
  BY <1>1, <1>2, <1>4, <1>5
     DEF CallInv, SubmitInv, DecisionInv, PreflightInv, TypeOK, Call, Gates
<1>7. CallInv(h)'
  BY <1>1, <1>2, <1>3, <1>4, <1>5, <1>6 DEF CallInv, SubmitInv, DecisionInv,
     PreflightInv, NotStarted, TaskInv, CalmInv, AskedInv, Choices, DirtyChoices
<1>8. AskedInv(t)'
  BY <1>1, <1>2, <1>3, <1>4, <1>5, <1>6
     DEF SubmitInv, DecisionInv, PreflightInv, TaskInv, AskedInv, CalmInv
<1>9. Consented(t)'
  BY <1>1, <1>2, <1>3, <1>4, <1>5, <1>6 DEF SubmitInv, DecisionInv, PreflightInv, TaskInv,
     AskedInv, Consented, Gated, Choices, DirtyChoices
<1>10. Recorded(t)'
  BY <1>1, <1>2, <1>3, <1>4, <1>5, <1>6
     DEF SubmitInv, DecisionInv, PreflightInv, TaskInv, Recorded
<1>11. faults' = 0 => CalmInv(t)'
  BY <1>1, <1>2, <1>3, <1>4, <1>5, <1>6, Alone DEF SubmitInv, DecisionInv,
     PreflightInv, NotStarted, TaskInv, AskedInv, CalmInv
<1> QED BY <1>1, <1>2, <1>3, <1>4, <1>7, <1>8, <1>9, <1>10, <1>11, Frame DEF TaskInv

LEMMA AskPreflightStep ==
    ASSUME GateInv, TypeOK', NEW h \in Sessions, AskPreflight(h)
    PROVE  GateInv'
<1>1. PICK t \in Tasks : /\ call[h].task = t
                        /\ \A g \in Sessions : call[g].task = t => g = h
  BY CallHasTask DEF AskPreflight, At, Idle
<1>2. TypeOK /\ CallInv(h) /\ TaskInv(t)
  BY <1>1 DEF GateInv
<1>3. /\ call'[h].step = "idle" /\ call'[h].task = Nobody
      /\ \A g \in Sessions \ {h} : call'[g] = call[g]
  BY <1>2, ReturnEffect DEF AskPreflight
<1>4. /\ call[h].step = "ask"
      /\ preflight'[t] = [status |-> "pending", by |-> h, turn |-> latest[h].turn, expired |-> FALSE]
      /\ task'[t] = "parallel_decision_required"
      /\ UNCHANGED <<decision, child, prompts, latest, said, saidDirty, faults>>
      /\ \A u \in Tasks \ {t} : preflight'[u] = preflight[u] /\ task'[u] = task[u]
  BY <1>1, <1>2 DEF TypeOK, AskPreflight, At, storeVars, turnVars, Asked
<1>5. t # Nobody /\ prompts[t] \in Nat /\ latest[h].turn \in Nat
  BY <1>2, GateAssumption DEF TypeOK
<1>6. call[h].gate = "decision" /\ DecisionInv(h, t)
  BY <1>1, <1>2, <1>4, <1>5
     DEF CallInv, SubmitInv, DecisionInv, PreflightInv, TypeOK, Call, Gates
<1>7. CallInv(h)'
  BY <1>1, <1>2, <1>3, <1>4, <1>5, <1>6 DEF CallInv, SubmitInv, DecisionInv,
     PreflightInv, NotStarted, TaskInv, CalmInv, AskedInv, Choices, DirtyChoices
<1>8. AskedInv(t)'
  BY <1>1, <1>2, <1>3, <1>4, <1>5, <1>6
     DEF SubmitInv, DecisionInv, PreflightInv, TaskInv, AskedInv, CalmInv
<1>9. Consented(t)'
  BY <1>1, <1>2, <1>3, <1>4, <1>5, <1>6 DEF SubmitInv, DecisionInv, PreflightInv, TaskInv,
     AskedInv, Consented, Gated, Choices, DirtyChoices
<1>10. Recorded(t)'
  BY <1>1, <1>2, <1>3, <1>4, <1>5, <1>6
     DEF SubmitInv, DecisionInv, PreflightInv, TaskInv, Recorded
<1>11. faults' = 0 => CalmInv(t)'
  BY <1>1, <1>2, <1>3, <1>4, <1>5, <1>6, Alone DEF SubmitInv, DecisionInv,
     PreflightInv, NotStarted, TaskInv, AskedInv, CalmInv
<1> QED BY <1>1, <1>2, <1>3, <1>4, <1>7, <1>8, <1>9, <1>10, <1>11, Frame DEF TaskInv

LEMMA SpawnStep ==
    ASSUME GateInv, TypeOK', NEW h \in Sessions, Spawn(h)
    PROVE  GateInv'
<1>1. PICK t \in Tasks : /\ call[h].task = t
                        /\ \A g \in Sessions : call[g].task = t => g = h
  BY CallHasTask DEF Spawn, At, Idle
<1>2. TypeOK /\ CallInv(h) /\ TaskInv(t)
  BY <1>1 DEF GateInv
<1>3. /\ call'[h].step = "await"
      /\ call'[h].task = t /\ call'[h].gate = call[h].gate
      /\ call'[h].outcome = call[h].outcome
      /\ \A g \in Sessions \ {h} : call'[g] = call[g]
  BY <1>1, <1>2, GotoEffect DEF Spawn
<1>4. /\ call[h].step = "spawn"
      /\ child'[t] = "creating"
      /\ child[t] = IF call[h].gate = "preflight" THEN "authorized" ELSE "none"
      /\ UNCHANGED <<task, decision, preflight, prompts, latest, said, saidDirty, faults>>
      /\ \A u \in Tasks \ {t} : child'[u] = child[u]
  BY <1>1, <1>2 DEF TypeOK, Spawn, At, storeVars, turnVars, Admitted
<1>5. t # Nobody /\ prompts[t] \in Nat /\ latest[h].turn \in Nat
  BY <1>2, GateAssumption DEF TypeOK
<1>6. \/ call[h].gate = "decision" /\ DecisionInv(h, t)
      \/ call[h].gate = "preflight" /\ PreflightInv(h, t)
  BY <1>1, <1>2, <1>4, <1>5
     DEF CallInv, SubmitInv, DecisionInv, PreflightInv, TypeOK, Call, Gates
<1>7. CallInv(h)'
  BY <1>1, <1>2, <1>3, <1>4, <1>5, <1>6 DEF CallInv, SubmitInv, DecisionInv,
     PreflightInv, NotStarted, TaskInv, CalmInv, AskedInv, Choices, DirtyChoices
<1>8. AskedInv(t)'
  BY <1>1, <1>2, <1>3, <1>4, <1>5, <1>6
     DEF SubmitInv, DecisionInv, PreflightInv, TaskInv, AskedInv, CalmInv
<1>9. Consented(t)'
  BY <1>1, <1>2, <1>3, <1>4, <1>5, <1>6 DEF SubmitInv, DecisionInv, PreflightInv, TaskInv,
     AskedInv, Consented, Gated, Choices, DirtyChoices
<1>10. Recorded(t)'
  BY <1>1, <1>2, <1>3, <1>4, <1>5, <1>6
     DEF SubmitInv, DecisionInv, PreflightInv, TaskInv, Recorded
<1>11. faults' = 0 => CalmInv(t)'
  BY <1>1, <1>2, <1>3, <1>4, <1>5, <1>6, Alone DEF SubmitInv, DecisionInv,
     PreflightInv, NotStarted, TaskInv, AskedInv, CalmInv
<1> QED BY <1>1, <1>2, <1>3, <1>4, <1>7, <1>8, <1>9, <1>10, <1>11, Frame DEF TaskInv

LEMMA SpawnReplayedStep ==
    ASSUME GateInv, TypeOK', NEW h \in Sessions, SpawnReplayed(h)
    PROVE  GateInv'
<1>1. PICK t \in Tasks : /\ call[h].task = t
                        /\ \A g \in Sessions : call[g].task = t => g = h
  BY CallHasTask DEF SpawnReplayed, At, Idle
<1>2. TypeOK /\ CallInv(h) /\ TaskInv(t)
  BY <1>1 DEF GateInv
<1>3. /\ call'[h].step = "resolve"
      /\ call'[h].task = t /\ call'[h].gate = call[h].gate
      /\ call'[h].outcome = call[h].outcome
      /\ \A g \in Sessions \ {h} : call'[g] = call[g]
  BY <1>1, <1>2, GotoEffect DEF SpawnReplayed
<1>4. /\ call[h].step = "spawn"
      /\ child[t] = "complete"
      /\ UNCHANGED <<task, decision, preflight, child, prompts, latest, said, saidDirty, faults>>
  BY <1>1, <1>2 DEF TypeOK, SpawnReplayed, At, storeVars, turnVars
<1>5. t # Nobody /\ prompts[t] \in Nat /\ latest[h].turn \in Nat
  BY <1>2, GateAssumption DEF TypeOK
<1>6. \/ call[h].gate = "decision" /\ DecisionInv(h, t)
      \/ call[h].gate = "preflight" /\ PreflightInv(h, t)
  BY <1>1, <1>2, <1>4, <1>5
     DEF CallInv, SubmitInv, DecisionInv, PreflightInv, TypeOK, Call, Gates
<1>7. CallInv(h)'
  BY <1>1, <1>2, <1>3, <1>4, <1>5, <1>6 DEF CallInv, SubmitInv, DecisionInv,
     PreflightInv, NotStarted, TaskInv, CalmInv, AskedInv, Choices, DirtyChoices
<1>8. AskedInv(t)'
  BY <1>1, <1>2, <1>3, <1>4, <1>5, <1>6
     DEF SubmitInv, DecisionInv, PreflightInv, TaskInv, AskedInv, CalmInv
<1>9. Consented(t)'
  BY <1>1, <1>2, <1>3, <1>4, <1>5, <1>6 DEF SubmitInv, DecisionInv, PreflightInv, TaskInv,
     AskedInv, Consented, Gated, Choices, DirtyChoices
<1>10. Recorded(t)'
  BY <1>1, <1>2, <1>3, <1>4, <1>5, <1>6
     DEF SubmitInv, DecisionInv, PreflightInv, TaskInv, Recorded
<1>11. faults' = 0 => CalmInv(t)'
  BY <1>1, <1>2, <1>3, <1>4, <1>5, <1>6, Alone DEF SubmitInv, DecisionInv,
     PreflightInv, NotStarted, TaskInv, AskedInv, CalmInv
<1> QED BY <1>1, <1>2, <1>3, <1>4, <1>7, <1>8, <1>9, <1>10, <1>11, Frame DEF TaskInv

LEMMA UpdateTaskStep ==
    ASSUME GateInv, TypeOK', NEW h \in Sessions, UpdateTask(h)
    PROVE  GateInv'
<1>1. PICK t \in Tasks : /\ call[h].task = t
                        /\ \A g \in Sessions : call[g].task = t => g = h
  BY CallHasTask DEF UpdateTask, At, Idle
<1>2. TypeOK /\ CallInv(h) /\ TaskInv(t)
  BY <1>1 DEF GateInv
<1>3. /\ call'[h].step = "idle" /\ call'[h].task = Nobody
      /\ \A g \in Sessions \ {h} : call'[g] = call[g]
  BY <1>2, ReturnEffect DEF UpdateTask
<1>4. /\ call[h].step = "update"
      /\ task'[t] = call[h].outcome
      /\ UNCHANGED <<decision, preflight, child, prompts, latest, said, saidDirty, faults>>
      /\ \A u \in Tasks \ {t} : task'[u] = task[u]
  BY <1>1, <1>2 DEF TypeOK, UpdateTask, At, storeVars, turnVars
<1>5. t # Nobody /\ prompts[t] \in Nat /\ latest[h].turn \in Nat
  BY <1>2, GateAssumption DEF TypeOK
<1>6. \/ call[h].gate = "submit" /\ SubmitInv(h, t)
      \/ call[h].gate = "decision" /\ DecisionInv(h, t)
      \/ call[h].gate = "preflight" /\ PreflightInv(h, t)
  BY <1>1, <1>2, <1>4, <1>5
     DEF CallInv, SubmitInv, DecisionInv, PreflightInv, TypeOK, Call, Gates
<1>7. CallInv(h)'
  BY <1>1, <1>2, <1>3, <1>4, <1>5, <1>6 DEF CallInv, SubmitInv, DecisionInv,
     PreflightInv, NotStarted, TaskInv, CalmInv, AskedInv, Choices, DirtyChoices
<1>8. AskedInv(t)'
  BY <1>1, <1>2, <1>3, <1>4, <1>5, <1>6
     DEF SubmitInv, DecisionInv, PreflightInv, TaskInv, AskedInv, CalmInv
<1>9. Consented(t)'
  BY <1>1, <1>2, <1>3, <1>4, <1>5, <1>6 DEF SubmitInv, DecisionInv, PreflightInv, TaskInv,
     AskedInv, Consented, Gated, Choices, DirtyChoices
<1>10. Recorded(t)'
  BY <1>1, <1>2, <1>3, <1>4, <1>5, <1>6
     DEF SubmitInv, DecisionInv, PreflightInv, TaskInv, Recorded
<1>11. faults' = 0 => CalmInv(t)'
  BY <1>1, <1>2, <1>3, <1>4, <1>5, <1>6, Alone DEF SubmitInv, DecisionInv,
     PreflightInv, NotStarted, TaskInv, AskedInv, CalmInv
<1> QED BY <1>1, <1>2, <1>3, <1>4, <1>7, <1>8, <1>9, <1>10, <1>11, Frame DEF TaskInv

LEMMA FailedEffect ==
    ASSUME TypeOK, NEW h \in Sessions, StartFailed(h)
    PROVE  /\ \/ /\ call[h].gate = "preflight" /\ call'[h].gate = "preflight"
                 /\ call'[h].step = "resolve"
                 /\ call'[h].task = call[h].task
                 /\ call'[h].outcome = "failed"
              \/ /\ call[h].gate # "preflight"
                 /\ call'[h].step = "idle"
                 /\ call'[h].task = Nobody
           /\ \A g \in Sessions \ {h} : call'[g] = call[g]
<1>1. CASE call[h].gate = "preflight"
  BY <1>1 DEF TypeOK, Call, StartFailed
<1>2. CASE call[h].gate # "preflight"
  BY <1>2, ReturnEffect DEF StartFailed
<1> QED BY <1>1, <1>2

LEMMA InspectStep ==
    ASSUME GateInv, TypeOK', NEW h \in Sessions, Inspect(h)
    PROVE  GateInv'
<1>1. PICK t \in Tasks : /\ call[h].task = t
                        /\ \A g \in Sessions : call[g].task = t => g = h
  BY CallHasTask DEF Inspect, At, Idle
<1>2. TypeOK /\ CallInv(h) /\ TaskInv(t)
  BY <1>1 DEF GateInv
<1>3. /\ \/ /\ call'[h].step \in {"spawn", "authorize"}
            /\ call'[h].task = t /\ call'[h].gate = call[h].gate
            /\ call'[h].outcome = call[h].outcome
         \/ call'[h].step = "idle" /\ call'[h].task = Nobody
      /\ \A g \in Sessions \ {h} : call'[g] = call[g]
  BY <1>1, <1>2, GotoEffect, ReturnEffect DEF Inspect
<1>4. /\ call[h].step = "inspect"
      /\ UNCHANGED <<task, decision, preflight, child, prompts, latest, said, saidDirty, faults>>
  BY <1>1, <1>2 DEF TypeOK, Inspect, At, storeVars, turnVars
<1>5. t # Nobody /\ prompts[t] \in Nat /\ latest[h].turn \in Nat
  BY <1>2, GateAssumption DEF TypeOK
<1>6. call[h].gate = "decision" /\ DecisionInv(h, t)
  BY <1>1, <1>2, <1>4, <1>5
     DEF CallInv, SubmitInv, DecisionInv, PreflightInv, TypeOK, Call, Gates
<1>7. CallInv(h)'
  BY <1>1, <1>2, <1>3, <1>4, <1>5, <1>6, Alone DEF CallInv, SubmitInv, DecisionInv,
     PreflightInv, NotStarted, TaskInv, CalmInv, AskedInv, Choices, DirtyChoices
<1>8. AskedInv(t)'
  BY <1>1, <1>2, <1>3, <1>4, <1>5, <1>6
     DEF SubmitInv, DecisionInv, PreflightInv, TaskInv, AskedInv, CalmInv
<1>9. Consented(t)'
  BY <1>1, <1>2, <1>3, <1>4, <1>5, <1>6 DEF SubmitInv, DecisionInv, PreflightInv,
     TaskInv, AskedInv, Consented, Gated, Choices, DirtyChoices
<1>10. Recorded(t)'
  BY <1>1, <1>2, <1>3, <1>4, <1>5, <1>6
     DEF SubmitInv, DecisionInv, PreflightInv, TaskInv, Recorded
<1>11. faults' = 0 => CalmInv(t)'
  BY <1>1, <1>2, <1>3, <1>4, <1>5, <1>6, Alone DEF SubmitInv, DecisionInv,
     PreflightInv, NotStarted, TaskInv, AskedInv, CalmInv
<1> QED BY <1>1, <1>2, <1>3, <1>4, <1>7, <1>8, <1>9, <1>10, <1>11, Frame DEF TaskInv

LEMMA SpawnRefusedStep ==
    ASSUME GateInv, TypeOK', NEW h \in Sessions, SpawnRefused(h)
    PROVE  GateInv'
<1>1. PICK t \in Tasks : /\ call[h].task = t
                        /\ \A g \in Sessions : call[g].task = t => g = h
  BY CallHasTask DEF SpawnRefused, At, Idle
<1>2. TypeOK /\ CallInv(h) /\ TaskInv(t)
  BY <1>1 DEF GateInv
<1>3. /\ \/ /\ call[h].gate = "preflight" /\ call'[h].gate = "preflight"
            /\ call'[h].step = "resolve" /\ call'[h].task = t
            /\ call'[h].outcome = "failed"
         \/ /\ call[h].gate # "preflight"
            /\ call'[h].step = "idle" /\ call'[h].task = Nobody
      /\ \A g \in Sessions \ {h} : call'[g] = call[g]
  BY <1>1, <1>2, FailedEffect DEF SpawnRefused
<1>4. /\ call[h].step = "spawn"
      /\ UNCHANGED <<task, decision, preflight, child, prompts, latest, said, saidDirty, faults>>
  BY <1>1, <1>2 DEF TypeOK, SpawnRefused, At, storeVars, turnVars
<1>5. t # Nobody /\ prompts[t] \in Nat /\ latest[h].turn \in Nat
  BY <1>2, GateAssumption DEF TypeOK
<1>6. \/ call[h].gate = "decision" /\ DecisionInv(h, t)
      \/ call[h].gate = "preflight" /\ PreflightInv(h, t)
  BY <1>1, <1>2, <1>4, <1>5
     DEF CallInv, SubmitInv, DecisionInv, PreflightInv, TypeOK, Call, Gates
<1>7. CallInv(h)'
  BY <1>1, <1>2, <1>3, <1>4, <1>5, <1>6, Alone DEF CallInv, SubmitInv, DecisionInv,
     PreflightInv, NotStarted, TaskInv, CalmInv, AskedInv, Choices, DirtyChoices
<1>8. AskedInv(t)'
  BY <1>1, <1>2, <1>3, <1>4, <1>5, <1>6
     DEF SubmitInv, DecisionInv, PreflightInv, TaskInv, AskedInv, CalmInv
<1>9. Consented(t)'
  BY <1>1, <1>2, <1>3, <1>4, <1>5, <1>6 DEF SubmitInv, DecisionInv, PreflightInv,
     TaskInv, AskedInv, Consented, Gated, Choices, DirtyChoices
<1>10. Recorded(t)'
  BY <1>1, <1>2, <1>3, <1>4, <1>5, <1>6
     DEF SubmitInv, DecisionInv, PreflightInv, TaskInv, Recorded
<1>11. faults' = 0 => CalmInv(t)'
  BY <1>1, <1>2, <1>3, <1>4, <1>5, <1>6, Alone DEF SubmitInv, DecisionInv,
     PreflightInv, NotStarted, TaskInv, AskedInv, CalmInv
<1> QED BY <1>1, <1>2, <1>3, <1>4, <1>7, <1>8, <1>9, <1>10, <1>11, Frame DEF TaskInv

LEMMA AnswerStep ==
    ASSUME GateInv, TypeOK', NEW h \in Sessions, Answer(h)
    PROVE  GateInv'
<1>1. PICK t \in Tasks : /\ call[h].task = t
                        /\ \A g \in Sessions : call[g].task = t => g = h
  BY CallHasTask DEF Answer, At, Idle
<1>2. TypeOK /\ CallInv(h) /\ TaskInv(t)
  BY <1>1 DEF GateInv
<1>3. /\ \/ /\ child[t] = "complete" /\ call'[h].step = "resolve"
            /\ call'[h].task = t /\ call'[h].gate = call[h].gate
            /\ call'[h].outcome = call[h].outcome
         \/ /\ child[t] = "failed"
            /\ \/ /\ call[h].gate = "preflight" /\ call'[h].gate = "preflight"
                  /\ call'[h].step = "resolve" /\ call'[h].task = t
                  /\ call'[h].outcome = "failed"
               \/ /\ call[h].gate # "preflight"
                  /\ call'[h].step = "idle" /\ call'[h].task = Nobody
      /\ \A g \in Sessions \ {h} : call'[g] = call[g]
  BY <1>1, <1>2, GotoEffect, FailedEffect DEF Answer
<1>4. /\ call[h].step = "await"
      /\ UNCHANGED <<task, decision, preflight, child, prompts, latest, said, saidDirty, faults>>
  BY <1>1, <1>2 DEF TypeOK, Answer, At, storeVars, turnVars
<1>5. t # Nobody /\ prompts[t] \in Nat /\ latest[h].turn \in Nat
  BY <1>2, GateAssumption DEF TypeOK
<1>6. \/ call[h].gate = "decision" /\ DecisionInv(h, t)
      \/ call[h].gate = "preflight" /\ PreflightInv(h, t)
  BY <1>1, <1>2, <1>4, <1>5
     DEF CallInv, SubmitInv, DecisionInv, PreflightInv, TypeOK, Call, Gates
<1>7. CallInv(h)'
  BY <1>1, <1>2, <1>3, <1>4, <1>5, <1>6, Alone DEF CallInv, SubmitInv, DecisionInv,
     PreflightInv, NotStarted, TaskInv, CalmInv, AskedInv, Choices, DirtyChoices
<1>8. AskedInv(t)'
  BY <1>1, <1>2, <1>3, <1>4, <1>5, <1>6
     DEF SubmitInv, DecisionInv, PreflightInv, TaskInv, AskedInv, CalmInv
<1>9. Consented(t)'
  BY <1>1, <1>2, <1>3, <1>4, <1>5, <1>6 DEF SubmitInv, DecisionInv, PreflightInv,
     TaskInv, AskedInv, Consented, Gated, Choices, DirtyChoices
<1>10. Recorded(t)'
  BY <1>1, <1>2, <1>3, <1>4, <1>5, <1>6
     DEF SubmitInv, DecisionInv, PreflightInv, TaskInv, Recorded
<1>11. faults' = 0 => CalmInv(t)'
  BY <1>1, <1>2, <1>3, <1>4, <1>5, <1>6, Alone DEF SubmitInv, DecisionInv,
     PreflightInv, NotStarted, TaskInv, AskedInv, CalmInv
<1> QED BY <1>1, <1>2, <1>3, <1>4, <1>7, <1>8, <1>9, <1>10, <1>11, Frame DEF TaskInv

LEMMA AnswerTimesOutStep ==
    ASSUME GateInv, TypeOK', NEW h \in Sessions, AnswerTimesOut(h)
    PROVE  GateInv'
<1>1. PICK t \in Tasks : /\ call[h].task = t
                        /\ \A g \in Sessions : call[g].task = t => g = h
  BY CallHasTask DEF AnswerTimesOut, At, Idle
<1>2. TypeOK /\ CallInv(h) /\ TaskInv(t)
  BY <1>1 DEF GateInv
<1>3. /\ \/ /\ call[h].gate = "preflight" /\ call'[h].gate = "preflight"
            /\ call'[h].step = "resolve" /\ call'[h].task = t
            /\ call'[h].outcome = "failed"
         \/ /\ call[h].gate # "preflight"
            /\ call'[h].step = "idle" /\ call'[h].task = Nobody
      /\ \A g \in Sessions \ {h} : call'[g] = call[g]
  BY <1>1, <1>2, FailedEffect DEF AnswerTimesOut
<1>4. /\ call[h].step = "await" /\ faults' # 0
      /\ UNCHANGED <<task, decision, preflight, child, prompts, latest, said, saidDirty>>
  BY <1>1, <1>2 DEF TypeOK, AnswerTimesOut, At, Fault, storeVars, turnVars
<1>5. t # Nobody /\ prompts[t] \in Nat /\ latest[h].turn \in Nat
  BY <1>2, GateAssumption DEF TypeOK
<1>6. \/ call[h].gate = "decision" /\ DecisionInv(h, t)
      \/ call[h].gate = "preflight" /\ PreflightInv(h, t)
  BY <1>1, <1>2, <1>4, <1>5
     DEF CallInv, SubmitInv, DecisionInv, PreflightInv, TypeOK, Call, Gates
<1>7. CallInv(h)'
  BY <1>1, <1>2, <1>3, <1>4, <1>5, <1>6 DEF CallInv, SubmitInv, DecisionInv,
     PreflightInv, NotStarted, TaskInv, CalmInv, AskedInv, Choices, DirtyChoices
<1>8. AskedInv(t)'
  BY <1>1, <1>2, <1>3, <1>4, <1>5, <1>6
     DEF SubmitInv, DecisionInv, PreflightInv, TaskInv, AskedInv, CalmInv
<1>9. Consented(t)'
  BY <1>1, <1>2, <1>3, <1>4, <1>5, <1>6 DEF SubmitInv, DecisionInv, PreflightInv,
     TaskInv, AskedInv, Consented, Gated, Choices, DirtyChoices
<1>10. Recorded(t)'
  BY <1>1, <1>2, <1>3, <1>4, <1>5, <1>6
     DEF SubmitInv, DecisionInv, PreflightInv, TaskInv, Recorded
<1>11. faults' = 0 => CalmInv(t)'
  BY <1>1, <1>2, <1>3, <1>4, <1>5, <1>6, Alone DEF SubmitInv, DecisionInv,
     PreflightInv, NotStarted, TaskInv, AskedInv, CalmInv
<1> QED BY <1>1, <1>2, <1>3, <1>4, <1>7, <1>8, <1>9, <1>10, <1>11, Frame DEF TaskInv

LEMMA RecordResolutionStep ==
    ASSUME GateInv, TypeOK', NEW h \in Sessions, RecordResolution(h)
    PROVE  GateInv'
<1>1. PICK t \in Tasks : /\ call[h].task = t
                        /\ \A g \in Sessions : call[g].task = t => g = h
  BY CallHasTask DEF RecordResolution, At, Idle
<1>2. TypeOK /\ CallInv(h) /\ TaskInv(t)
  BY <1>1 DEF GateInv
<1>3. /\ call'[h].step = "update"
      /\ call'[h].task = t /\ call'[h].gate = call[h].gate
      /\ call'[h].outcome = call[h].outcome
      /\ \A g \in Sessions \ {h} : call'[g] = call[g]
  BY <1>1, <1>2, GotoEffect DEF RecordResolution
<1>4. /\ call[h].step = "resolve"
      /\ UNCHANGED <<task, child, prompts, latest, said, saidDirty, faults>>
      /\ \/ /\ call[h].gate = "decision" /\ preflight' = preflight
            /\ decision'[t].status = (IF decision[t].status = "pending"
                                        THEN "resolved" ELSE decision[t].status)
            /\ decision'[t].by = decision[t].by
            /\ \A u \in Tasks \ {t} : decision'[u] = decision[u]
         \/ /\ call[h].gate = "preflight" /\ decision' = decision
            /\ preflight'[t].status = (IF preflight[t].status = "pending"
                                        THEN "resolved" ELSE preflight[t].status)
            /\ preflight'[t].by = preflight[t].by
            /\ \A u \in Tasks \ {t} : preflight'[u] = preflight[u]
  BY <1>1, <1>2 DEF TypeOK, RecordResolution, At, Question, storeVars, turnVars
<1>5. t # Nobody /\ prompts[t] \in Nat /\ latest[h].turn \in Nat
  BY <1>2, GateAssumption DEF TypeOK
<1>6. \/ call[h].gate = "decision" /\ DecisionInv(h, t)
      \/ call[h].gate = "preflight" /\ PreflightInv(h, t)
  BY <1>1, <1>2, <1>4, <1>5
     DEF CallInv, SubmitInv, DecisionInv, PreflightInv, TypeOK, Call, Gates
<1>7. CallInv(h)'
  BY <1>1, <1>2, <1>3, <1>4, <1>5, <1>6 DEF CallInv, SubmitInv, DecisionInv,
     PreflightInv, NotStarted, TaskInv, CalmInv, AskedInv, Choices, DirtyChoices
<1>8. AskedInv(t)'
  BY <1>1, <1>2, <1>3, <1>4, <1>5, <1>6
     DEF SubmitInv, DecisionInv, PreflightInv, TaskInv, AskedInv, CalmInv
<1>9. Consented(t)'
  BY <1>1, <1>2, <1>3, <1>4, <1>5, <1>6 DEF SubmitInv, DecisionInv, PreflightInv,
     TaskInv, AskedInv, Consented, Gated, Choices, DirtyChoices
<1>10. Recorded(t)'
  BY <1>1, <1>2, <1>3, <1>4, <1>5, <1>6
     DEF SubmitInv, DecisionInv, PreflightInv, TaskInv, Recorded
<1>11. faults' = 0 => CalmInv(t)'
  BY <1>1, <1>2, <1>3, <1>4, <1>5, <1>6, Alone DEF SubmitInv, DecisionInv,
     PreflightInv, NotStarted, TaskInv, AskedInv, CalmInv
<1> QED BY <1>1, <1>2, <1>3, <1>4, <1>7, <1>8, <1>9, <1>10, <1>11, Frame DEF TaskInv

-----------------------------------------------------------------------------
(* The user's turns and the beginnings of tool calls *)

LEMMA TurnStep ==
    ASSUME GateInv, TypeOK', NEW h \in Sessions, NEW word \in Words, Turn(h, word)
    PROVE  GateInv'
<1>1. /\ latest'[h] = [turn |-> turns + 1, word |-> word]
      /\ \A g \in Sessions \ {h} : latest'[g] = latest[g]
      /\ UNCHANGED <<task, decision, preflight, call, child, prompts, faults>>
  BY DEF GateInv, TypeOK, Turn, storeVars
<1>2. ASSUME NEW t \in Tasks
      PROVE  /\ said[t] \subseteq said'[t]
             /\ saidDirty[t] \subseteq saidDirty'[t]
             /\ decision[t].status = "pending" /\ decision[t].by = h => word \in said'[t]
             /\ preflight[t].status = "pending" /\ preflight[t].by = h
                   => word \in saidDirty'[t]
  BY DEF GateInv, TypeOK, Turn
<1>3. ASSUME NEW t \in Tasks
      PROVE  /\ Choices(said[t]) \subseteq Choices(said[t])'
             /\ DirtyChoices(saidDirty[t]) \subseteq DirtyChoices(saidDirty[t])'
  BY <1>2 DEF Choices, DirtyChoices
<1>4. OneCall'
  BY <1>1 DEF GateInv, OneCall
<1>5. ASSUME NEW g \in Sessions PROVE CallInv(g)'
  <2>1. CallInv(g)
    BY DEF GateInv
  <2>2. CASE call[g].task = Nobody
    BY <1>1, <2>1, <2>2 DEF CallInv
  <2>3. CASE call[g].task # Nobody
    <3>1. PICK t \in Tasks : t = call[g].task
      BY <2>3 DEF GateInv, TypeOK, Call
    <3>2. SubmitInv(g, t) => SubmitInv(g, t)'
      BY <1>1 DEF SubmitInv
    <3>3. DecisionInv(g, t) => DecisionInv(g, t)'
      BY <1>1, <1>3 DEF DecisionInv
    <3>4. PreflightInv(g, t) => PreflightInv(g, t)'
      BY <1>1, <1>3 DEF PreflightInv, NotStarted
    <3> QED BY <1>1, <2>1, <3>1, <3>2, <3>3, <3>4 DEF CallInv
  <2> QED BY <2>2, <2>3
<1>6. ASSUME NEW t \in Tasks PROVE TaskInv(t)'
  <2>1. TaskInv(t)
    BY DEF GateInv
  <2>2. AskedInv(t)'
    <3>1. ASSUME NEW g \in Sessions
          PROVE  /\ decision[t].status = "pending" /\ decision[t].by = g
                    /\ latest'[g].turn > decision[t].turn => latest'[g].word \in said'[t]
                 /\ preflight[t].status = "pending" /\ preflight[t].by = g
                    /\ latest'[g].turn > preflight[t].turn
                       => latest'[g].word \in saidDirty'[t]
      <4>1. CASE g = h
        BY <1>1, <1>2, <4>1
      <4>2. CASE g # h
        BY <1>1, <1>2, <2>1, <4>2 DEF TaskInv, AskedInv
      <4> QED BY <4>1, <4>2
    <3> QED BY <1>1, <2>1, <3>1 DEF TaskInv, AskedInv
  <2>3. Consented(t)'
    BY <1>1, <1>3, <2>1 DEF TaskInv, Consented, Gated
  <2>4. Recorded(t)'
    BY <1>1, <2>1 DEF TaskInv, Recorded
  <2>5. CalmInv(t)' <=> CalmInv(t)
    BY <1>1 DEF CalmInv, NotStarted, Works
  <2> QED BY <1>1, <2>1, <2>2, <2>3, <2>4, <2>5 DEF TaskInv
<1> QED BY <1>4, <1>5, <1>6 DEF GateInv

LEMMA SubmitStep ==
    ASSUME GateInv, TypeOK', NEW h \in Sessions, NEW t \in Tasks, Submit(h, t)
    PROVE  GateInv'
<1>1. /\ call[h].task = Nobody
      /\ \A g \in Sessions : call[g].task # t
  <2>1. call[h].task = Nobody
    BY DEF GateInv, CallInv, Submit, Idle
  <2>2. ASSUME NEW g \in Sessions, call[g].task = t PROVE FALSE
    <3>1. CallInv(g) /\ TaskInv(t) /\ task[t] = "absent" /\ t # Nobody
      BY GateAssumption DEF GateInv, Submit
    <3>2. call[g].gate \in Gates
      BY DEF GateInv, TypeOK, Call
    <3> QED BY <2>2, <3>1, <3>2 DEF CallInv, Gates, SubmitInv, DecisionInv, PreflightInv,
            TaskInv, AskedInv
  <2> QED BY <2>1, <2>2
<1>2. TypeOK /\ TaskInv(t)
  BY DEF GateInv
<1>3. PICK s, outcome :
        /\ s \in {"decide", "block", "prompt"}
        /\ s = "block" => outcome = "blocked"
        /\ s # "block" => outcome = "running"
        /\ Start(h, t, "submit", s, outcome)
  BY <1>2 DEF TypeOK, WorkerStates, Submit
<1>4. /\ call'[h].step = s /\ call'[h].task = t /\ call'[h].gate = "submit"
      /\ call'[h].outcome = outcome
      /\ \A g \in Sessions \ {h} : call'[g] = call[g]
  BY <1>2, <1>3, StartEffect
<1>5. /\ task[t] = "absent" /\ task'[t] = "created"
      /\ \A u \in Tasks \ {t} : task'[u] = task[u]
      /\ UNCHANGED <<decision, preflight, child, prompts, latest, said, saidDirty, faults>>
  BY <1>2 DEF TypeOK, Submit, turnVars
<1>6. CallInv(h)'
  BY <1>2, <1>3, <1>4, <1>5, GateAssumption DEF CallInv, SubmitInv, TaskInv, AskedInv
<1>7. AskedInv(t)'
  BY <1>2, <1>5 DEF TaskInv, AskedInv
<1>8. Consented(t)'
  BY <1>2, <1>5 DEF TaskInv, AskedInv, Consented, Gated
<1>9. Recorded(t)'
  BY <1>5 DEF Recorded
<1>10. faults' = 0 => CalmInv(t)'
  BY <1>2, <1>5 DEF TaskInv, AskedInv, CalmInv, NotStarted
<1> QED BY <1>1, <1>4, <1>5, <1>6, <1>7, <1>8, <1>9, <1>10, Frame DEF TaskInv

\* A pending question belongs to a task nobody else works on.
LEMMA PendingAlone ==
    ASSUME GateInv, NEW h \in Sessions, NEW t \in Tasks, Idle(h),
           Answerable(decision[t], h) \/ Answerable(preflight[t], h)
    PROVE  call[h].task = Nobody /\ \A g \in Sessions : call[g].task # t
<1>1. call[h].task = Nobody
  BY DEF GateInv, CallInv, Idle
<1>2. ASSUME NEW g \in Sessions, call[g].task = t PROVE FALSE
  <2>1. CallInv(g) /\ TaskInv(t) /\ t # Nobody /\ call[g].gate \in Gates
    BY GateAssumption DEF GateInv, TypeOK, Call
  <2>2. g # h
    BY <1>1, <1>2, <2>1
  <2> QED BY <1>2, <2>1, <2>2 DEF CallInv, Gates, SubmitInv, DecisionInv, PreflightInv,
          TaskInv, AskedInv, Answerable
<1> QED BY <1>1, <1>2

LEMMA ResolveStep ==
    ASSUME GateInv, TypeOK', NEW h \in Sessions, NEW t \in Tasks, Resolve(h, t)
    PROVE  GateInv'
<1>1. call[h].task = Nobody /\ \A g \in Sessions : call[g].task # t
  BY PendingAlone DEF Resolve
<1>2. TypeOK /\ TaskInv(t)
  BY DEF GateInv
<1>3. PICK choice :
        /\ choice \in Choices(said[t])
        /\ \/ /\ choice = "queue" /\ Start(h, t, "decision", "prompt", "queued")
           \/ /\ choice = "steer" /\ Start(h, t, "decision", "prompt", "running")
           \/ /\ choice = "parallel"
              /\ Start(h, t, "decision", "inspect", "running_child")
  <2>1. latest[h].word \in said[t]
    BY <1>2 DEF Resolve, Answerable, TaskInv, AskedInv
  <2>2. parse_choice(latest[h].word) \in Choices(said[t])
    BY <2>1 DEF Choices
  <2> QED BY <2>2, ParseRange DEF Resolve
<1>4. /\ \/ /\ choice \in {"queue", "steer"}
            /\ call'[h].step = "prompt" /\ call'[h].outcome \in {"queued", "running"}
         \/ /\ choice = "parallel"
            /\ call'[h].step = "inspect" /\ call'[h].outcome = "running_child"
      /\ call'[h].task = t /\ call'[h].gate = "decision"
      /\ \A g \in Sessions \ {h} : call'[g] = call[g]
  BY <1>2, <1>3, StartEffect
<1>5. t # Nobody
  BY GateAssumption
<1>6. /\ decision[t].status = "pending" /\ decision[t].by = h
      /\ UNCHANGED <<task, decision, preflight, child, prompts, latest, said, saidDirty,
                     faults>>
  BY DEF Resolve, Answerable, storeVars, turnVars
<1>7. CallInv(h)'
  BY <1>2, <1>3, <1>4, <1>5, <1>6
     DEF CallInv, DecisionInv, PreflightInv, Choices, DirtyChoices
<1>8. AskedInv(t)' /\ Consented(t)' /\ Recorded(t)'
  BY <1>2, <1>6 DEF TaskInv, AskedInv, Consented, Gated, Recorded, Choices, DirtyChoices
<1>9. faults' = 0 => CalmInv(t)'
  BY <1>1, <1>2, <1>4, <1>6, Alone DEF TaskInv, AskedInv, CalmInv, NotStarted
<1> QED BY <1>1, <1>4, <1>6, <1>7, <1>8, <1>9, Frame DEF TaskInv

LEMMA ResolvePreflightStep ==
    ASSUME GateInv, TypeOK', NEW h \in Sessions, NEW t \in Tasks, ResolvePreflight(h, t)
    PROVE  GateInv'
<1>1. call[h].task = Nobody /\ \A g \in Sessions : call[g].task # t
  BY PendingAlone DEF ResolvePreflight
<1>2. TypeOK /\ TaskInv(t)
  BY DEF GateInv
<1>3. PICK choice :
        /\ choice \in DirtyChoices(saidDirty[t])
        /\ \/ choice = "wait" /\ Start(h, t, "preflight", "resolve", "waiting")
           \/ choice = "head" /\ Start(h, t, "preflight", "spawn", "running_child")
  <2>1. latest[h].word \in saidDirty[t]
    BY <1>2 DEF ResolvePreflight, Answerable, TaskInv, AskedInv
  <2>2. parse_dirty_choice(latest[h].word) \in DirtyChoices(saidDirty[t])
    BY <2>1 DEF DirtyChoices
  <2> QED BY <2>2, ParseRange DEF ResolvePreflight
<1>4. /\ \/ call'[h].step = "resolve" /\ call'[h].outcome = "waiting"
         \/ /\ choice = "head"
            /\ call'[h].step = "spawn" /\ call'[h].outcome = "running_child"
      /\ call'[h].task = t /\ call'[h].gate = "preflight"
      /\ \A g \in Sessions \ {h} : call'[g] = call[g]
  BY <1>2, <1>3, StartEffect
<1>5. t # Nobody
  BY GateAssumption
<1>6. /\ preflight[t].status = "pending" /\ preflight[t].by = h
      /\ UNCHANGED <<task, decision, preflight, child, prompts, latest, said, saidDirty,
                     faults>>
  BY DEF ResolvePreflight, Answerable, storeVars, turnVars
<1>7. CallInv(h)'
  BY <1>2, <1>3, <1>4, <1>5, <1>6
     DEF CallInv, DecisionInv, PreflightInv, Choices, DirtyChoices
<1>8. AskedInv(t)' /\ Consented(t)' /\ Recorded(t)'
  BY <1>2, <1>6 DEF TaskInv, AskedInv, Consented, Gated, Recorded, Choices, DirtyChoices
<1>9. faults' = 0 => CalmInv(t)'
  BY <1>1, <1>2, <1>4, <1>6, Alone DEF TaskInv, AskedInv, CalmInv, NotStarted
<1> QED BY <1>1, <1>4, <1>6, <1>7, <1>8, <1>9, Frame DEF TaskInv

-----------------------------------------------------------------------------
(* The world around a tool call *)

\* A step that leaves the calls alone keeps the books if it keeps them for
\* each call and each task.
LEMMA World ==
    ASSUME GateInv, TypeOK', UNCHANGED call,
           \A h \in Sessions, t \in Tasks : call[h].task = t =>
               /\ SubmitInv(h, t) /\ call[h].gate = "submit" => SubmitInv(h, t)'
               /\ DecisionInv(h, t) /\ call[h].gate = "decision" => DecisionInv(h, t)'
               /\ PreflightInv(h, t) /\ call[h].gate = "preflight" => PreflightInv(h, t)',
           \A t \in Tasks : TaskInv(t)'
    PROVE  GateInv'
<1>1. OneCall'
  BY DEF GateInv, OneCall
<1>2. ASSUME NEW h \in Sessions PROVE CallInv(h)'
  <2>1. CallInv(h) /\ call[h].task \in Tasks \cup {Nobody}
    BY DEF GateInv, TypeOK, Call
  <2>2. CASE call[h].task = Nobody
    BY <2>1, <2>2 DEF CallInv
  <2>3. CASE call[h].task # Nobody
    <3>1. PICK t \in Tasks : t = call[h].task
      BY <2>1, <2>3
    <3> QED BY <2>1, <2>3, <3>1 DEF CallInv
  <2> QED BY <2>2, <2>3
<1> QED BY <1>1, <1>2 DEF GateInv

LEMMA CreationEndsStep ==
    ASSUME GateInv, TypeOK', NEW c \in Tasks, CreationEnds(c)
    PROVE  GateInv'
<1>1. /\ child[c] = "creating" /\ child'[c] \in {"complete", "failed"}
      /\ \A t \in Tasks \ {c} : child'[t] = child[t]
      /\ UNCHANGED <<task, decision, preflight, prompts, call, latest, said, saidDirty,
                     faults>>
  BY DEF GateInv, TypeOK, CreationEnds, storeVars, turnVars
<1>2. ASSUME NEW h \in Sessions, NEW t \in Tasks
      PROVE  /\ SubmitInv(h, t) => SubmitInv(h, t)'
             /\ DecisionInv(h, t) => DecisionInv(h, t)'
             /\ PreflightInv(h, t) => PreflightInv(h, t)'
  BY <1>1 DEF SubmitInv, DecisionInv, PreflightInv, NotStarted, Choices, DirtyChoices
<1>3. ASSUME NEW t \in Tasks PROVE TaskInv(t)'
  <2>1. TaskInv(t)
    BY DEF GateInv
  <2>2. AskedInv(t)'
    BY <1>1, <2>1 DEF TaskInv, AskedInv
  <2>3. Consented(t)'
    BY <1>1, <2>1 DEF TaskInv, Consented, Gated, Choices, DirtyChoices
  <2>4. Recorded(t)'
    BY <1>1, <2>1 DEF TaskInv, Recorded
  <2>5. CalmInv(t) => CalmInv(t)'
    BY <1>1 DEF CalmInv, NotStarted, Works
  <2> QED BY <1>1, <2>1, <2>2, <2>3, <2>4, <2>5 DEF TaskInv
<1> QED BY <1>1, <1>2, <1>3, World

LEMMA ExpireStep ==
    ASSUME GateInv, TypeOK', NEW c \in Tasks, Expire(c)
    PROVE  GateInv'
<1>1. /\ \A t \in Tasks :
            /\ decision'[t].status = decision[t].status
            /\ decision'[t].by = decision[t].by
            /\ decision'[t].turn = decision[t].turn
            /\ preflight'[t].status = preflight[t].status
            /\ preflight'[t].by = preflight[t].by
            /\ preflight'[t].turn = preflight[t].turn
      /\ UNCHANGED <<task, child, prompts, call, latest, said, saidDirty, faults>>
  BY DEF GateInv, TypeOK, Question, Expire, turnVars
<1>2. ASSUME NEW h \in Sessions, NEW t \in Tasks
      PROVE  /\ SubmitInv(h, t) => SubmitInv(h, t)'
             /\ DecisionInv(h, t) => DecisionInv(h, t)'
             /\ PreflightInv(h, t) => PreflightInv(h, t)'
  BY <1>1 DEF SubmitInv, DecisionInv, PreflightInv, NotStarted, Choices, DirtyChoices
<1>3. ASSUME NEW t \in Tasks PROVE TaskInv(t)'
  <2>1. TaskInv(t)
    BY DEF GateInv
  <2>2. AskedInv(t)'
    BY <1>1, <2>1 DEF TaskInv, AskedInv
  <2>3. Consented(t)' /\ Recorded(t)'
    BY <1>1, <2>1 DEF TaskInv, Consented, Recorded, Gated, Choices, DirtyChoices
  <2>4. CalmInv(t) => CalmInv(t)'
    BY <1>1 DEF CalmInv, NotStarted, Works
  <2> QED BY <1>1, <2>1, <2>2, <2>3, <2>4 DEF TaskInv
<1> QED BY <1>1, <1>2, <1>3, World

LEMMA SettledStep ==
    ASSUME GateInv, TypeOK', PrimarySettled
    PROVE  GateInv'
<1>1. /\ \A t \in Tasks :
            \/ task[t] \in {"queued", "running"} /\ task'[t] = "completed"
            \/ task'[t] = task[t]
      /\ UNCHANGED <<decision, preflight, child, prompts, call, latest, said, saidDirty,
                     faults>>
  BY DEF PrimarySettled, turnVars
<1>2. ASSUME NEW h \in Sessions, NEW t \in Tasks
      PROVE  /\ SubmitInv(h, t) => SubmitInv(h, t)'
             /\ DecisionInv(h, t) => DecisionInv(h, t)'
             /\ PreflightInv(h, t) => PreflightInv(h, t)'
  BY <1>1 DEF SubmitInv, DecisionInv, PreflightInv, NotStarted, Choices, DirtyChoices
<1>3. ASSUME NEW t \in Tasks PROVE TaskInv(t)'
  <2>1. TaskInv(t)
    BY DEF GateInv
  <2>2. AskedInv(t)'
    BY <1>1, <2>1 DEF TaskInv, AskedInv
  <2>3. Consented(t)' /\ Recorded(t)'
    BY <1>1, <2>1 DEF TaskInv, Consented, Recorded, Gated, Choices, DirtyChoices
  <2>4. CalmInv(t) => CalmInv(t)'
    BY <1>1 DEF CalmInv, NotStarted, Works
  <2> QED BY <1>1, <2>1, <2>2, <2>3, <2>4 DEF TaskInv
<1> QED BY <1>1, <1>2, <1>3, World

\* What the invariant does not mention may change.
LEMMA Unseen ==
    ASSUME GateInv, TypeOK',
           UNCHANGED <<task, decision, preflight, child, prompts, call, latest, said,
                       saidDirty, faults>>
    PROVE  GateInv'
<1>1. ASSUME NEW h \in Sessions, NEW t \in Tasks
      PROVE  /\ SubmitInv(h, t) => SubmitInv(h, t)'
             /\ DecisionInv(h, t) => DecisionInv(h, t)'
             /\ PreflightInv(h, t) => PreflightInv(h, t)'
  BY DEF SubmitInv, DecisionInv, PreflightInv, NotStarted, Choices, DirtyChoices
<1>2. ASSUME NEW t \in Tasks PROVE TaskInv(t)'
  <2>1. TaskInv(t)
    BY DEF GateInv
  <2> QED BY <2>1 DEF TaskInv, AskedInv, Consented, Recorded, Gated, Choices,
          DirtyChoices, CalmInv, NotStarted, Works
<1> QED BY <1>1, <1>2, World

LEMMA CrashStep ==
    ASSUME GateInv, TypeOK', Crash
    PROVE  GateInv'
<1>1. /\ \A h \in Sessions : call'[h].step = "idle" /\ call'[h].task = Nobody
      /\ faults' # 0
      /\ UNCHANGED <<task, decision, preflight, child, prompts, latest, said, saidDirty>>
  BY DEF GateInv, TypeOK, Crash, Fault, NoCall, storeVars, turnVars
<1>2. OneCall'
  BY <1>1 DEF OneCall
<1>3. \A h \in Sessions : CallInv(h)'
  BY <1>1 DEF CallInv
<1>4. ASSUME NEW t \in Tasks PROVE TaskInv(t)'
  <2>1. TaskInv(t)
    BY DEF GateInv
  <2> QED BY <1>1, <2>1 DEF TaskInv, AskedInv, Consented, Recorded, Gated, Choices,
          DirtyChoices
<1> QED BY <1>2, <1>3, <1>4 DEF GateInv

-----------------------------------------------------------------------------
(* The invariant and what follows from it *)

\* Nothing is submitted at first.
LEMMA GateInit == Init => GateInv
<1> SUFFICES ASSUME Init PROVE GateInv
  OBVIOUS
<1>1. OneCall /\ \A h \in Sessions : CallInv(h)
  BY DEF Init, NoCall, OneCall, CallInv
<1>2. \A t \in Tasks : TaskInv(t)
  BY DEF Init, NoQuestion, NoCall, TaskInv, AskedInv, Consented, Recorded, Gated, CalmInv,
     NotStarted
<1> QED BY <1>1, <1>2, TypesInit DEF GateInv

LEMMA ToolCallStep ==
    ASSUME GateInv, TypeOK', NEW h \in Sessions, ToolCall(h)
    PROVE  GateInv'
BY BlockStep, CreateDecisionStep, SendPromptStep, PromptRaisesStep, InspectStep,
   AuthorizeStep, AuthorizeRefusedStep, AuthorizeTimesOutStep, CloseDecisionStep,
   AskPreflightStep, SpawnStep, SpawnReplayedStep, SpawnRefusedStep, AnswerStep,
   AnswerTimesOutStep, RecordResolutionStep, UpdateTaskStep DEF ToolCall

LEMMA GateStep == GateInv /\ [Next]_vars => GateInv'
<1> SUFFICES ASSUME GateInv, [Next]_vars PROVE GateInv'
  OBVIOUS
<1>1. TypeOK'
  BY TypesStep
<1>2. ASSUME NEW h \in Sessions, Request(h) PROVE GateInv'
  BY <1>1, <1>2, TurnStep, SubmitStep, ResolveStep, ResolvePreflightStep DEF Request
<1>3. ASSUME NEW h \in Sessions, ToolCall(h) PROVE GateInv'
  BY <1>1, <1>3, ToolCallStep
<1>4. ASSUME NEW t \in Tasks, CreationEnds(t) \/ Expire(t) PROVE GateInv'
  BY <1>1, <1>4, CreationEndsStep, ExpireStep
<1>5. ASSUME NEW state \in WorkerStates, PrimaryChanges(state) PROVE GateInv'
  BY <1>1, <1>5, Unseen DEF PrimaryChanges, storeVars, turnVars
<1>6. CASE PrimarySettled
  BY <1>1, <1>6, SettledStep
<1>7. CASE Crash
  BY <1>1, <1>7, CrashStep
<1>8. CASE UNCHANGED vars
  BY <1>1, <1>8, Unseen DEF vars, storeVars, turnVars
<1> QED BY <1>2, <1>3, <1>4, <1>5, <1>6, <1>7, <1>8 DEF Next

LEMMA GateInvariant == Spec => []GateInv
BY GateInit, GateStep, PTL DEF Spec

\* The rows of the store and the tool calls keep their types.
THEOREM GateTyping == Spec => []TypeOK
<1>1. GateInv => TypeOK
  BY DEF GateInv
<1> QED BY <1>1, GateInvariant, PTL

\* service.py and choice_parser.py (INV-5, INV-6, INV-7): whatever fails, a
\* task a busy project was asked about reaches the primary or a child only
\* with the matching answer of the conversation that was asked.
THEOREM ConsentComesFirst == Spec => []ConsentBeforeEffect
<1>1. GateInv => ConsentBeforeEffect
  BY DEF GateInv, TaskInv, Consented, ConsentBeforeEffect
<1> QED BY <1>1, GateInvariant, PTL

\* update_task comes last: what the store calls running, queued or completed
\* was started, whatever failed on the way.
THEOREM RecordsAreTrue == Spec => []RecordedIsStarted
<1>1. GateInv => RecordedIsStarted
  BY DEF GateInv, TaskInv, Recorded, RecordedIsStarted
<1> QED BY <1>1, GateInvariant, PTL

\* submit_task, resolve_task and resolve_parallel_preflight start the work of a
\* task once, as long as no answer is lost and Hermes stays up.
THEOREM WorkStartsOnce == Spec => []UndisturbedStartedOnce
<1>1. GateInv => UndisturbedStartedOnce
  <2> SUFFICES ASSUME GateInv, faults = 0, NEW t \in Tasks PROVE Started(t) <= 1
    BY DEF UndisturbedStartedOnce, StartedOnce
  <2>1. CalmInv(t) /\ prompts[t] \in Nat
    BY DEF GateInv, TaskInv, TypeOK
  <2> QED BY <2>1 DEF CalmInv, Started
<1> QED BY <1>1, GateInvariant, PTL

\* resolve_parallel_preflight: a start recorded as failed did not happen and
\* will not, unless an answer of the Dashboard was lost.
THEOREM FailuresAreReal == Spec => []FailedIsNotStarted
<1>1. GateInv => FailedIsNotStarted
  <2> SUFFICES ASSUME GateInv, NEW t \in Tasks, task[t] = "failed", faults = 0
               PROVE  Started(t) = 0 /\ child[t] # "creating"
    BY DEF FailedIsNotStarted
  <2>1. NotStarted(t)
    BY DEF GateInv, TaskInv, CalmInv
  <2> QED BY <2>1 DEF NotStarted, Started
<1> QED BY <1>1, GateInvariant, PTL

\* create_decision and create_parallel_preflight: a task that waits for an
\* answer has its question, unless a fault interrupted the call that asked.
THEOREM QuestionsStayOpen == Spec => []QuestionIsOpen
<1>1. GateInv => QuestionIsOpen
  BY DEF GateInv, TaskInv, CalmInv, Works, QuestionIsOpen
<1> QED BY <1>1, GateInvariant, PTL
=============================================================================
