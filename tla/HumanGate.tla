----------------------------- MODULE HumanGate -----------------------------
(***************************************************************************)
(* The mandatory human choice of the Hermes plugin on Server B             *)
(* (hermes-plugin/pi_orchestrator: service.py, store.py, runtime.py,       *)
(* choice_parser.py): a task for a busy project becomes a decision, which  *)
(* only a later turn of the same Hermes session may resolve, and a         *)
(* parallel start over a dirty checkout asks a second time.                *)
(*                                                                         *)
(* A tool call runs while the WebSocket thread, the Dashboard and the      *)
(* clock go on, and each statement of the store commits by itself: `call`  *)
(* says what the running tool call of a session does next.  The creation   *)
(* transaction of the Dashboard (ParallelSpawn) is seen from outside: it   *)
(* starts once, ends complete or failed, and may refuse for reasons of its *)
(* own.  `Faults` names what may go wrong on the way to it.                *)
(*                                                                         *)
(* The project is bound to a primary session.  Then its state_version no   *)
(* longer changes (bind_primary, the one statement that increments it,     *)
(* applies to unbound projects), so the comparison of versions in          *)
(* validate_resolution always succeeds and is left out.                    *)
(***************************************************************************)
EXTENDS Naturals, FiniteSets

CONSTANTS
    Tasks,      \* requests the user makes
    Sessions,   \* Hermes sessions, each the conversation of one gateway thread
    Words,      \* user messages the model says
    Faults,     \* what may go wrong: a subset of FaultKinds
    MaxTurns,   \* bound: user turns
    MaxFaults,  \* bound: faults
    Nobody      \* no task, no session

FaultKinds == {"timeout", "crash"}

-----------------------------------------------------------------------------
(* What a raw user message says; the numbered options mean one thing to    *)
(* each parser. *)

parse_choice(word) ==
    CASE word \in {"queue", "one", "wait"} -> "queue"
      [] word \in {"steer", "two"} -> "steer"
      [] word = "parallel" -> "parallel"
      [] OTHER -> "none"

parse_dirty_choice(word) ==
    CASE word \in {"one", "wait"} -> "wait"
      [] word \in {"two", "head"} -> "head"
      [] OTHER -> "none"

KnownWords ==
    {"queue", "one", "wait", "steer", "two", "parallel", "head", "other"}

ASSUME GateAssumption ==
    /\ Faults \subseteq FaultKinds
    /\ Words \subseteq KnownWords
    /\ MaxTurns \in Nat
    /\ MaxFaults \in Nat
    /\ Nobody \notin Tasks \cup Sessions

-----------------------------------------------------------------------------
VARIABLES
    task,       \* status of each task in the store
    decision,   \* decisions: one per task
    preflight,  \* parallel_preflights: one per task
    latest,     \* latest turn_evidence of each session
    turns,      \* turn_evidence rows so far
    call,       \* the tool call a session runs
    child,      \* the Dashboard's creation transaction for a task
    worker,     \* worker_state of the primary session, as B last heard
    prompts,    \* history: times a task's text was sent to the primary
    said,       \* history: what the user said since the decision was asked
    saidDirty,  \* history: what the user said since the preflight was asked
    faults      \* faults so far

storeVars == <<task, decision, preflight>>
turnVars == <<latest, turns, said, saidDirty>>
vars == <<storeVars, turnVars, call, child, worker, prompts, faults>>

\* "running_child" is the status running with the kind parallel.
TaskStates ==
    {"absent", "created", "blocked", "decision_required",
     "parallel_decision_required", "queued", "running", "running_child",
     "waiting", "completed", "failed"}
QuestionStates == {"none", "pending", "resolved"}
ChildStates == {"none", "authorized", "creating", "complete", "failed"}
\* "idle" stands for inactive too: submit_task treats the two alike.
WorkerStates == {"idle", "working", "degraded"}

\* What decides a pending question: who was asked, in which turn, until when.
Question == [status: QuestionStates, by: Sessions \cup {Nobody}, turn: Nat,
             expired: BOOLEAN]
NoQuestion == [status |-> "none", by |-> Nobody, turn |-> 0, expired |-> FALSE]
Asked(h) == [status |-> "pending", by |-> h, turn |-> latest[h].turn,
             expired |-> FALSE]

Gates == {"submit", "decision", "preflight"}
Steps == {"idle", "block", "decide", "prompt", "inspect", "authorize", "close",
          "ask", "spawn", "await", "resolve", "update"}
Call == [step: Steps, task: Tasks \cup {Nobody}, gate: Gates,
         outcome: TaskStates]
NoCall == [step |-> "idle", task |-> Nobody, gate |-> "submit",
           outcome |-> "absent"]

TypeOK ==
    /\ task \in [Tasks -> TaskStates]
    /\ decision \in [Tasks -> Question]
    /\ preflight \in [Tasks -> Question]
    /\ latest \in [Sessions -> [turn: Nat, word: Words \cup {"other"}]]
    /\ turns \in Nat
    /\ call \in [Sessions -> Call]
    /\ child \in [Tasks -> ChildStates]
    /\ worker \in WorkerStates
    /\ prompts \in [Tasks -> Nat]
    /\ said \in [Tasks -> SUBSET Words]
    /\ saidDirty \in [Tasks -> SUBSET Words]
    /\ faults \in Nat

Init ==
    /\ task = [t \in Tasks |-> "absent"]
    /\ decision = [t \in Tasks |-> NoQuestion]
    /\ preflight = [t \in Tasks |-> NoQuestion]
    /\ latest = [h \in Sessions |-> [turn |-> 0, word |-> "other"]]
    /\ turns = 0
    /\ call = [h \in Sessions |-> NoCall]
    /\ child = [t \in Tasks |-> "none"]
    /\ worker \in WorkerStates
    /\ prompts = [t \in Tasks |-> 0]
    /\ said = [t \in Tasks |-> {}]
    /\ saidDirty = [t \in Tasks |-> {}]
    /\ faults = 0

-----------------------------------------------------------------------------
(* Helpers *)

Idle(h) == call[h].step = "idle"
At(h, s) == call[h].step = s
Goto(h, s) == call' = [call EXCEPT ![h].step = s]
Return(h) == call' = [call EXCEPT ![h] = NoCall]
Start(h, t, gate, s, outcome) ==
    call' = [call EXCEPT ![h] = [step |-> s, task |-> t, gate |-> gate,
                                 outcome |-> outcome]]

Fault(kind) ==
    /\ kind \in Faults
    /\ faults < MaxFaults
    /\ faults' = faults + 1

\* The exception of a failed parallel start: resolve_task lets it through,
\* resolve_parallel_preflight records the failure.
StartFailed(h) ==
    IF call[h].gate = "preflight"
    THEN call' = [call EXCEPT ![h].step = "resolve", ![h].outcome = "failed"]
    ELSE Return(h)

\* Mutant: the same turn may answer the question it was asked in.
AnswerableAtOnce(q, h) ==
    /\ q.status = "pending"
    /\ ~q.expired
    /\ q.by = h
    /\ latest[h].turn >= q.turn

\* Mutant: a resolved question may be answered again.
AnswerableAgain(q, h) ==
    /\ q.status \in {"pending", "resolved"}
    /\ ~q.expired
    /\ q.by = h
    /\ latest[h].turn > q.turn

\* The checks validate_resolution and validate_parallel_preflight share.
Answerable(q, h) ==
    /\ q.status = "pending"
    /\ ~q.expired
    /\ q.by = h
    /\ latest[h].turn > q.turn

-----------------------------------------------------------------------------
(* The user *)

\* pre_llm_call captures the raw message of a turn.  The tool calls of the
\* session's previous turn have returned.
Turn(h, word) ==
    LET hears(q, heard) ==
          [t \in Tasks |-> IF q[t].status = "pending" /\ q[t].by = h
                           THEN heard[t] \cup {word} ELSE heard[t]]
    IN
    /\ Idle(h)
    /\ turns < MaxTurns
    /\ turns' = turns + 1
    /\ latest' = [latest EXCEPT ![h] = [turn |-> turns + 1, word |-> word]]
    /\ said' = hears(decision, said)
    /\ saidDirty' = hears(preflight, saidDirty)
    /\ UNCHANGED <<storeVars, call, child, worker, prompts, faults>>

-----------------------------------------------------------------------------
(* pi_task_submit *)

\* submit_task reads the state of the primary, then creates the task.
Submit(h, t) ==
    /\ Idle(h)
    /\ task[t] = "absent"
    /\ task' = [task EXCEPT ![t] = "created"]
    /\ Start(h, t, "submit",
             CASE worker = "working" -> "decide"
               [] worker = "degraded" -> "block"
               [] worker = "idle" -> "prompt",
             IF worker = "degraded" THEN "blocked" ELSE "running")
    /\ UNCHANGED <<decision, preflight, turnVars, child, worker, prompts, faults>>

Block(h) ==
    /\ At(h, "block")
    /\ Goto(h, "update")
    /\ UNCHANGED <<storeVars, turnVars, child, worker, prompts, faults>>

\* create_decision, in one transaction with the status of the task.
CreateDecision(h) ==
    LET t == call[h].task IN
    /\ At(h, "decide")
    /\ decision' = [decision EXCEPT ![t] = Asked(h)]
    /\ task' = [task EXCEPT ![t] = "decision_required"]
    /\ Return(h)
    /\ UNCHANGED <<preflight, turnVars, child, worker, prompts, faults>>

-----------------------------------------------------------------------------
(* pi_task_resolve *)

\* validate_resolution.  The choice of the model is the one the parser reads.
Resolve(h, t) ==
    LET choice == parse_choice(latest[h].word) IN
    /\ Idle(h)
    /\ Answerable(decision[t], h)
    /\ choice # "none"
    /\ Start(h, t, "decision",
             IF choice = "parallel" THEN "inspect" ELSE "prompt",
             CASE choice = "queue" -> "queued"
               [] choice = "steer" -> "running"
               [] choice = "parallel" -> "running_child")
    /\ UNCHANGED <<storeVars, turnVars, child, worker, prompts, faults>>

\* Mutant: the exception of send_prompt is not noticed.
PromptRaisesUnnoticed(h) ==
    /\ At(h, "prompt")
    /\ Goto(h, IF call[h].gate = "submit" THEN "update" ELSE "resolve")
    /\ UNCHANGED <<storeVars, turnVars, child, worker, prompts, faults>>

\* send_prompt raises when the WebSocket is down.
PromptRaises(h) ==
    /\ At(h, "prompt")
    /\ Return(h)
    /\ UNCHANGED <<storeVars, turnVars, child, worker, prompts, faults>>

\* send_prompt: queue, steer or, for an idle primary, a fresh prompt.
SendPrompt(h) ==
    LET t == call[h].task IN
    /\ At(h, "prompt")
    /\ prompts' = [prompts EXCEPT ![t] = @ + 1]
    /\ Goto(h, IF call[h].gate = "submit" THEN "update" ELSE "resolve")
    /\ UNCHANGED <<storeVars, turnVars, child, worker, faults>>

\* inspect_project finds the checkout clean or dirty, or raises.
Inspect(h) ==
    /\ At(h, "inspect")
    /\ \/ Goto(h, "spawn")
       \/ Goto(h, "authorize")
       \/ Return(h)
    /\ UNCHANGED <<storeVars, turnVars, child, worker, prompts, faults>>

\* parallel_authorize.
Authorize(h) ==
    LET t == call[h].task IN
    /\ At(h, "authorize")
    /\ child[t] = "none"
    /\ child' = [child EXCEPT ![t] = "authorized"]
    /\ Goto(h, "close")
    /\ UNCHANGED <<storeVars, turnVars, worker, prompts, faults>>

AuthorizeRefused(h) ==
    /\ At(h, "authorize")
    /\ Return(h)
    /\ UNCHANGED <<storeVars, turnVars, child, worker, prompts, faults>>

\* The answer, and with it the only copy of the token, is lost.
AuthorizeTimesOut(h) ==
    LET t == call[h].task IN
    /\ At(h, "authorize")
    /\ Fault("timeout")
    /\ child[t] = "none"
    /\ child' = [child EXCEPT ![t] = "authorized"]
    /\ Return(h)
    /\ UNCHANGED <<storeVars, turnVars, worker, prompts>>

\* resolve_decision of the dirty branch ...
CloseDecision(h) ==
    LET t == call[h].task IN
    /\ At(h, "close")
    /\ decision' = [decision EXCEPT ![t].status = "resolved"]
    /\ Goto(h, "ask")
    /\ UNCHANGED <<task, preflight, turnVars, child, worker, prompts, faults>>

\* ... then create_parallel_preflight, which asks the second question.
AskPreflight(h) ==
    LET t == call[h].task IN
    /\ At(h, "ask")
    /\ preflight' = [preflight EXCEPT ![t] = Asked(h)]
    /\ task' = [task EXCEPT ![t] = "parallel_decision_required"]
    /\ Return(h)
    /\ UNCHANGED <<decision, turnVars, child, worker, prompts, faults>>

-----------------------------------------------------------------------------
(* pi_parallel_resolve *)

\* validate_parallel_preflight; "wait" starts nothing, "head" presents the token.
ResolvePreflight(h, t) ==
    LET choice == parse_dirty_choice(latest[h].word) IN
    /\ Idle(h)
    /\ Answerable(preflight[t], h)
    /\ choice # "none"
    /\ IF choice = "wait"
       THEN Start(h, t, "preflight", "resolve", "waiting")
       ELSE Start(h, t, "preflight", "spawn", "running_child")
    /\ UNCHANGED <<storeVars, turnVars, child, worker, prompts, faults>>

-----------------------------------------------------------------------------
(* parallel_spawn, for both *)

\* A task without a record starts without a token, an authorized one with it.
Admitted(h) ==
    child[call[h].task]
        = (IF call[h].gate = "preflight" THEN "authorized" ELSE "none")

Spawn(h) ==
    LET t == call[h].task IN
    /\ At(h, "spawn")
    /\ Admitted(h)
    /\ child' = [child EXCEPT ![t] = "creating"]
    /\ Goto(h, "await")
    /\ UNCHANGED <<storeVars, turnVars, worker, prompts, faults>>

\* A repeated request for a complete transaction is answered at once.
SpawnReplayed(h) ==
    /\ At(h, "spawn")
    /\ child[call[h].task] = "complete"
    /\ Goto(h, "resolve")
    /\ UNCHANGED <<storeVars, turnVars, child, worker, prompts, faults>>

SpawnRefused(h) ==
    /\ At(h, "spawn")
    /\ StartFailed(h)
    /\ UNCHANGED <<storeVars, turnVars, child, worker, prompts, faults>>

\* The Dashboard finishes the transaction, whoever still waits for it.
CreationEnds(t) ==
    /\ child[t] = "creating"
    /\ \E result \in {"complete", "failed"} :
          child' = [child EXCEPT ![t] = result]
    /\ UNCHANGED <<storeVars, turnVars, call, worker, prompts, faults>>

Answer(h) ==
    LET t == call[h].task IN
    /\ At(h, "await")
    /\ \/ child[t] = "complete" /\ Goto(h, "resolve")
       \/ child[t] = "failed" /\ StartFailed(h)
    /\ UNCHANGED <<storeVars, turnVars, child, worker, prompts, faults>>

\* rest() gives up after fifteen seconds.
AnswerTimesOut(h) ==
    /\ At(h, "await")
    /\ Fault("timeout")
    /\ StartFailed(h)
    /\ UNCHANGED <<storeVars, turnVars, child, worker, prompts>>

-----------------------------------------------------------------------------
(* The end of a tool call *)

\* Mutant: a resolved decision stays pending.
RecordResolutionNot(h) ==
    /\ At(h, "resolve")
    /\ Goto(h, "update")
    /\ UNCHANGED <<storeVars, turnVars, child, worker, prompts, faults>>

\* resolve_decision or resolve_parallel_preflight, which act only on a
\* question that is still pending ...
RecordResolution(h) ==
    LET t == call[h].task
        closed(q) == [q EXCEPT ![t].status =
                        IF @ = "pending" THEN "resolved" ELSE @]
    IN
    /\ At(h, "resolve")
    /\ \/ /\ call[h].gate = "decision"
          /\ decision' = closed(decision)
          /\ UNCHANGED preflight
       \/ /\ call[h].gate = "preflight"
          /\ preflight' = closed(preflight)
          /\ UNCHANGED decision
    /\ Goto(h, "update")
    /\ UNCHANGED <<task, turnVars, child, worker, prompts, faults>>

\* Mutant: the choice is stored instead of the status.
UpdateTaskChoice(h) ==
    LET t == call[h].task IN
    /\ At(h, "update")
    /\ task' = [task EXCEPT ![t] = parse_choice(latest[h].word)]
    /\ Return(h)
    /\ UNCHANGED <<decision, preflight, turnVars, child, worker, prompts, faults>>

\* Mutant: the task is not updated.
UpdateTaskSkipped(h) ==
    /\ At(h, "update")
    /\ Return(h)
    /\ UNCHANGED <<storeVars, turnVars, child, worker, prompts, faults>>

\* ... then update_task.
UpdateTask(h) ==
    LET t == call[h].task IN
    /\ At(h, "update")
    /\ task' = [task EXCEPT ![t] = call[h].outcome]
    /\ Return(h)
    /\ UNCHANGED <<decision, preflight, turnVars, child, worker, prompts, faults>>

-----------------------------------------------------------------------------
(* The world around a tool call *)

\* The fifteen minutes of a question are over.
Expire(t) ==
    /\ \/ /\ decision[t].status = "pending"
          /\ decision' = [decision EXCEPT ![t].expired = TRUE]
          /\ UNCHANGED preflight
       \/ /\ preflight[t].status = "pending"
          /\ preflight' = [preflight EXCEPT ![t].expired = TRUE]
          /\ UNCHANGED decision
    /\ UNCHANGED <<task, turnVars, call, child, worker, prompts, faults>>

\* session_updated: the primary session starts or stops working, or fails.
\* Neither state_version nor the decisions are touched.
PrimaryChanges(state) ==
    /\ worker # state
    /\ worker' = state
    /\ UNCHANGED <<storeVars, turnVars, call, child, prompts, faults>>

\* agent_settled: what runs or waits in the primary session is completed.
PrimarySettled ==
    /\ \E t \in Tasks : task[t] \in {"queued", "running"}
    /\ task' = [t \in Tasks |-> IF task[t] \in {"queued", "running"}
                               THEN "completed" ELSE task[t]]
    /\ UNCHANGED <<decision, preflight, turnVars, call, child, worker, prompts, faults>>

\* Hermes dies and starts again: the store is all that is left.
Crash ==
    /\ Fault("crash")
    /\ call' = [h \in Sessions |-> NoCall]
    /\ UNCHANGED <<storeVars, turnVars, child, worker, prompts>>

-----------------------------------------------------------------------------
ToolCall(h) ==
    \/ Block(h) \/ CreateDecision(h)
    \/ SendPrompt(h) \/ PromptRaises(h)
    \/ Inspect(h)
    \/ Authorize(h) \/ AuthorizeRefused(h) \/ AuthorizeTimesOut(h)
    \/ CloseDecision(h) \/ AskPreflight(h)
    \/ Spawn(h) \/ SpawnReplayed(h) \/ SpawnRefused(h)
    \/ Answer(h) \/ AnswerTimesOut(h)
    \/ RecordResolution(h) \/ UpdateTask(h)

Request(h) ==
    \/ \E word \in Words : Turn(h, word)
    \/ \E t \in Tasks : Submit(h, t) \/ Resolve(h, t) \/ ResolvePreflight(h, t)

Next ==
    \/ \E h \in Sessions : Request(h) \/ ToolCall(h)
    \/ \E t \in Tasks : CreationEnds(t) \/ Expire(t)
    \/ \E state \in WorkerStates : PrimaryChanges(state)
    \/ PrimarySettled
    \/ Crash

Spec == Init /\ [][Next]_vars

-----------------------------------------------------------------------------
(* Properties *)

Gated(t) == decision[t].status # "none"
Choices(words) == {parse_choice(w) : w \in words}
DirtyChoices(words) == {parse_dirty_choice(w) : w \in words}

\* Whatever fails on the way, the text of a task a busy project was asked
\* about is sent to the primary only after the asked session said queue or
\* steer, and a child is created only after it said parallel and, when the
\* Dashboard wanted an authorization, agreed to the committed head as well
\* (INV-5, INV-6, INV-7).
ConsentBeforeEffect ==
    \A t \in Tasks : Gated(t) =>
        /\ prompts[t] > 0 => Choices(said[t]) \cap {"queue", "steer"} # {}
        /\ child[t] # "none" => "parallel" \in Choices(said[t])
        /\ preflight[t].status # "none" /\ child[t] \in {"creating", "complete"}
              => "head" \in DirtyChoices(saidDirty[t])

\* How often the work of a task was started, by prompt or by child.
Started(t) == prompts[t] + (IF child[t] = "complete" THEN 1 ELSE 0)

\* The work of a task is started at most once (SOFTWARE_DESIGN_SPEC.md 28.7).
StartedOnce == \A t \in Tasks : Started(t) <= 1

\* It is, as long as every answer of the Dashboard arrives and Hermes stays up.
UndisturbedStartedOnce == faults = 0 => StartedOnce

\* A task recorded as failed, which the user is told to submit again, has not
\* been started and will not be, unless an answer of the Dashboard was lost.
FailedIsNotStarted ==
    \A t \in Tasks : task[t] = "failed" /\ faults = 0 =>
        Started(t) = 0 /\ child[t] # "creating"

\* A task recorded as running, queued or completed has been started, a
\* parallel one as a child.
RecordedIsStarted ==
    \A t \in Tasks :
        /\ task[t] \in {"queued", "running", "completed"} => prompts[t] > 0
        /\ task[t] = "running_child" => child[t] = "complete"

\* A task that waits for an answer can be answered, unless the time is over:
\* its question is pending, or a tool call is working on it, or a fault
\* interrupted the call that was.
QuestionIsOpen ==
    \A t \in Tasks :
        (\A h \in Sessions : call[h].task # t) /\ faults = 0 =>
            /\ task[t] = "decision_required" => decision[t].status = "pending"
            /\ task[t] = "parallel_decision_required"
                  => preflight[t].status = "pending"
=============================================================================
