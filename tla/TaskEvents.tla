----------------------------- MODULE TaskEvents -----------------------------
(***************************************************************************)
(* How the Hermes plugin on Server B learns that Pi has finished, and how  *)
(* the user is told (hermes-plugin/pi_orchestrator: dashboard/client.py,   *)
(* service.py, store.py, notifications.py).                                *)
(*                                                                         *)
(* The Dashboard numbers the events of a session in memory and sends them  *)
(* to the connections that subscribed, first those after `lastSeq`, then   *)
(* the live ones.  B drops what its durable cursor covers, records the     *)
(* rest, puts a notification into an outbox and completes the tasks of the *)
(* session; a second thread empties the outbox.  The connection, either    *)
(* process and any statement of the store may fail in between, and the     *)
(* Dashboard forgets: it trims a long log, deletes one whose session       *)
(* registers anew, drops frames, and misses what settles while the session *)
(* is away.                                                                *)
(*                                                                         *)
(* One session is modelled, and of its events those of type agent_settled, *)
(* one for each run of the agent: the numbers of the other events are left *)
(* out.  A prompt that arrives while the agent runs joins the run.         *)
(***************************************************************************)
EXTENDS Naturals, Sequences, FiniteSets

CONSTANTS
    Tasks,        \* tasks submitted while the session looks idle to B
    Faults,       \* what may go wrong: a subset of FaultKinds
    MaxAttempts,  \* injections of one notification before it is given up
    MaxRuns,      \* bound: runs of the agent
    MaxLinks,     \* bound: broken connections and repeated subscriptions
    MaxFaults,    \* bound: faults
    Nobody        \* no task

\* A restart of B, an exception in its event handler; a restart of the
\* Dashboard, the deletion or the trimming of the session's events; frames
\* dropped because the connection is full; a settling it never records.
FaultKinds == {"crash", "raise", "restart", "wipe", "trim", "drop", "unseen"}

ASSUME EventsAssumption ==
    /\ Faults \subseteq FaultKinds
    /\ MaxAttempts \in Nat \ {0}
    /\ MaxRuns \in Nat
    /\ MaxLinks \in Nat
    /\ MaxFaults \in Nat
    /\ Nobody \notin Tasks

-----------------------------------------------------------------------------
VARIABLES
    task,       \* status of each task in the store
    call,       \* the task whose prompt is sent and whose row is not updated
    inbox,      \* tasks whose prompt is on its way to the agent
    run,        \* what the agent works on
    ended,      \* history: the tasks of each run that settled
    log,        \* event buffer of the Dashboard: what is kept at each number
    link,       \* connection of B
    wire,       \* events on the connection, in order
    cursor,     \* cursors.last_seq in the store
    activity,   \* sequence numbers of the activity rows in the store
    ingest,     \* what the WebSocket thread does with an event
    outbox,     \* notifications, in the order of their creation
    sender,     \* the notification injected and not yet marked, or 0
    handled,    \* history: the runs whose settling was processed to the end
    links,      \* broken connections and repeated subscriptions so far
    hit,        \* history: the runs whose settling a fault took away
    renumbered, \* history: the numbers have begun again from one
    faults      \* faults so far

agentVars == <<inbox, run, ended>>
linkVars == <<link, wire>>
storeVars == <<cursor, activity, outbox>>
boundVars == <<links, hit, renumbered, faults>>
vars == <<task, call, agentVars, log, linkVars, storeVars, ingest, sender,
          handled, boundVars>>

Runs == 1 .. MaxRuns
TaskStates == {"absent", "created", "running", "completed"}

\* A subscription on its way carries the cursor of B.
NoRequest == MaxRuns + 1
Link == [up: BOOLEAN, subscribed: BOOLEAN, request: 0 .. NoRequest]
Down == [up |-> FALSE, subscribed |-> FALSE, request |-> NoRequest]

\* What a number of the buffer holds: the settling of a run, an event that is
\* none, or nothing any more, which a replay passes over.
Other == 0
Trimmed == MaxRuns + 1
Entry == 0 .. Trimmed

\* The tasks a run worked on, and those whose rows were running when it settled.
Settling == [tasks: SUBSET Tasks, marked: SUBSET Tasks]

Event == [seq: Runs, run: Entry]
Ingest == [at: {"idle", "record", "notify", "list", "complete"},
           seq: 0 .. MaxRuns, run: 0 .. MaxRuns, tasks: SUBSET Tasks]
NoIngest == [at |-> "idle", seq |-> 0, run |-> 0, tasks |-> {}]

\* told counts the injections that succeeded.
Note == [run: Runs, status: {"pending", "sent", "failed"},
         attempts: 0 .. MaxAttempts, told: Nat]

TypeOK ==
    /\ task \in [Tasks -> TaskStates]
    /\ call \in Tasks \cup {Nobody}
    /\ inbox \subseteq Tasks
    /\ run \in [busy: BOOLEAN, tasks: SUBSET Tasks]
    /\ ended \in Seq(Settling)
    /\ log \in Seq(Entry)
    /\ link \in Link
    /\ wire \in Seq(Event)
    /\ cursor \in 0 .. MaxRuns
    /\ activity \subseteq Runs
    /\ ingest \in Ingest
    /\ outbox \in Seq(Note)
    /\ sender \in 0 .. Len(outbox)
    /\ handled \in Seq(Runs)
    /\ links \in Nat
    /\ hit \subseteq Runs
    /\ renumbered \in BOOLEAN
    /\ faults \in Nat

Init ==
    /\ task = [t \in Tasks |-> "absent"]
    /\ call = Nobody
    /\ inbox = {}
    /\ run = [busy |-> FALSE, tasks |-> {}]
    /\ ended = <<>>
    /\ log = <<>>
    /\ link = Down
    /\ wire = <<>>
    /\ cursor = 0
    /\ activity = {}
    /\ ingest = NoIngest
    /\ outbox = <<>>
    /\ sender = 0
    /\ handled = <<>>
    /\ links = 0
    /\ hit = {}
    /\ renumbered = FALSE
    /\ faults = 0

-----------------------------------------------------------------------------
(* A tool call: submit_task for a session that looks idle *)

\* create_task, then send_prompt, which raises when the connection is down
\* and leaves the task as created.
Submit(t) ==
    /\ call = Nobody
    /\ task[t] = "absent"
    /\ task' = [task EXCEPT ![t] = "created"]
    /\ IF link.up
       THEN call' = t /\ inbox' = inbox \cup {t}
       ELSE UNCHANGED <<call, inbox>>
    /\ UNCHANGED <<run, ended, log, linkVars, storeVars, ingest, sender,
                   handled, boundVars>>

\* update_task(status="running", worker_session_id=...).
MarkRunning ==
    /\ call # Nobody
    /\ task' = [task EXCEPT ![call] = "running"]
    /\ call' = Nobody
    /\ UNCHANGED <<agentVars, log, linkVars, storeVars, ingest, sender, handled,
                   boundVars>>

-----------------------------------------------------------------------------
(* The session on Server C *)

\* A prompt of B starts a run or joins it, one of the local user starts one.
PromptArrives(t) ==
    /\ t \in inbox
    /\ Len(ended) < MaxRuns
    /\ inbox' = inbox \ {t}
    /\ run' = [busy |-> TRUE, tasks |-> run.tasks \cup {t}]
    /\ UNCHANGED <<task, call, ended, log, linkVars, storeVars, ingest, sender,
                   handled, boundVars>>

LocalPrompt ==
    /\ ~run.busy
    /\ Len(ended) < MaxRuns
    /\ run' = [busy |-> TRUE, tasks |-> {}]
    /\ UNCHANGED <<task, call, inbox, ended, log, linkVars, storeVars, ingest,
                   sender, handled, boundVars>>

\* What is known of the run when it settles, be it before the row of its task
\* says that it runs.
Settle ==
    /\ run.busy
    /\ ended' = Append(ended,
                [tasks |-> run.tasks,
                 marked |-> {t \in run.tasks : task[t] = "running"}])
    /\ run' = [busy |-> FALSE, tasks |-> {}]

\* agent_settled: the event gets the next number and goes to the subscribers.
RunSettles ==
    /\ Settle
    /\ log' = Append(log, Len(ended) + 1)
    /\ wire' = IF link.subscribed
               THEN Append(wire, [seq |-> Len(log) + 1, run |-> Len(ended) + 1])
               ELSE wire
    /\ UNCHANGED <<task, call, inbox, link, storeVars, ingest, sender, handled,
                   boundVars>>

-----------------------------------------------------------------------------
(* The connection *)

\* Mutant: the replay begins with the event after the one asked for.
ReplayLate(after) ==
    LET first == IF after > Len(log) THEN 1 ELSE after + 2 IN
    [i \in 1 .. (IF first > Len(log) THEN 0 ELSE Len(log) + 1 - first) |->
        [seq |-> first + i - 1, run |-> log[first + i - 1]]]

\* What handleSubscribe sends: the events after lastSeq, or all of them when
\* lastSeq is ahead of the buffer.
Replay(after) ==
    LET first == IF after > Len(log) THEN 1 ELSE after + 1 IN
    [i \in 1 .. (IF first > Len(log) THEN 0 ELSE Len(log) + 1 - first) |->
        [seq |-> first + i - 1, run |-> log[first + i - 1]]]

\* Mutant: a connection does not subscribe to the sessions of its snapshot.
ConnectSilently ==
    /\ ~link.up
    /\ ingest.at = "idle"
    /\ link' = [Down EXCEPT !.up = TRUE]
    /\ UNCHANGED <<task, call, agentVars, log, wire, storeVars, ingest, sender,
                   handled, boundVars>>

\* The reconnecting thread: the snapshot of a new connection subscribes.
Connect ==
    /\ ~link.up
    /\ ingest.at = "idle"
    /\ link' = [up |-> TRUE, subscribed |-> FALSE, request |-> cursor]
    /\ UNCHANGED <<task, call, agentVars, log, wire, storeVars, ingest, sender,
                   handled, boundVars>>

\* session_added on a connection that has subscribed already.
Resubscribe ==
    /\ link.up
    /\ link.request = NoRequest
    /\ ingest.at = "idle"
    /\ links < MaxLinks
    /\ links' = links + 1
    /\ link' = [link EXCEPT !.request = cursor]
    /\ UNCHANGED <<task, call, agentVars, log, wire, storeVars, ingest, sender,
                   handled, hit, renumbered, faults>>

\* Live events wait for the end of the replay and follow it.
ServeSubscription ==
    /\ link.request # NoRequest
    /\ wire' = wire \o Replay(link.request)
    /\ link' = [link EXCEPT !.subscribed = TRUE, !.request = NoRequest]
    /\ UNCHANGED <<task, call, agentVars, log, storeVars, ingest, sender,
                   handled, boundVars>>

\* What was on the connection is gone; the thread finishes its event first.
Disconnect ==
    /\ link.up
    /\ links < MaxLinks
    /\ links' = links + 1
    /\ link' = Down
    /\ wire' = <<>>
    /\ UNCHANGED <<task, call, agentVars, log, storeVars, ingest, sender,
                   handled, hit, renumbered, faults>>

-----------------------------------------------------------------------------
(* The WebSocket thread *)

\* Mutant: the cursor is not compared, only kept from falling.
ReceiveUncompared ==
    LET event == Head(wire) IN
    /\ ingest.at = "idle"
    /\ wire # <<>>
    /\ wire' = Tail(wire)
    /\ cursor' = IF event.seq > cursor THEN event.seq ELSE cursor
    /\ ingest' = IF event.run \in Runs
                 THEN [at |-> "record", seq |-> event.seq, run |-> event.run,
                       tasks |-> {}]
                 ELSE NoIngest
    /\ UNCHANGED <<task, call, agentVars, log, link, activity, outbox, sender,
                   handled, boundVars>>

\* _ingest_event: what the cursor covers is dropped, for the rest the cursor
\* is saved first.
Receive ==
    LET event == Head(wire)
        fresh == event.run # Trimmed /\ event.seq > cursor IN
    /\ ingest.at = "idle"
    /\ wire # <<>>
    /\ wire' = Tail(wire)
    /\ cursor' = IF fresh THEN event.seq ELSE cursor
    /\ ingest' = IF fresh /\ event.run # Other
                 THEN [at |-> "record", seq |-> event.seq, run |-> event.run,
                       tasks |-> {}]
                 ELSE NoIngest
    /\ UNCHANGED <<task, call, agentVars, log, link, activity, outbox, sender,
                   handled, boundVars>>

\* add_activity, which tells whether the row is new.
Record ==
    /\ ingest.at = "record"
    /\ activity' = activity \cup {ingest.seq}
    /\ ingest' = [ingest EXCEPT !.at = IF ingest.seq \in activity
                                       THEN "list" ELSE "notify"]
    /\ UNCHANGED <<task, call, agentVars, log, linkVars, cursor, outbox, sender,
                   handled, boundVars>>

\* Mutant: only a task that still runs is announced.
NotifyRunning ==
    /\ ingest.at = "notify"
    /\ outbox' = IF \E t \in Tasks : task[t] = "running"
                 THEN Append(outbox, [run |-> ingest.run, status |-> "pending",
                                      attempts |-> 0, told |-> 0])
                 ELSE outbox
    /\ ingest' = [ingest EXCEPT !.at = "list"]
    /\ UNCHANGED <<task, call, agentVars, log, linkVars, cursor, activity,
                   sender, handled, boundVars>>

\* _notify_event: a session that never had a task has no route.
Notify ==
    /\ ingest.at = "notify"
    /\ outbox' = IF \E t \in Tasks : task[t] \in {"running", "completed"}
                 THEN Append(outbox, [run |-> ingest.run, status |-> "pending",
                                      attempts |-> 0, told |-> 0])
                 ELSE outbox
    /\ ingest' = [ingest EXCEPT !.at = "list"]
    /\ UNCHANGED <<task, call, agentVars, log, linkVars, cursor, activity,
                   sender, handled, boundVars>>

ListTasks ==
    /\ ingest.at = "list"
    /\ ingest' = [ingest EXCEPT !.at = "complete",
                     !.tasks = {t \in Tasks : task[t] = "running"}]
    /\ UNCHANGED <<task, call, agentVars, log, linkVars, storeVars, sender,
                   handled, boundVars>>

Complete(t) ==
    /\ ingest.at = "complete"
    /\ t \in ingest.tasks
    /\ task' = [task EXCEPT ![t] = "completed"]
    /\ ingest' = [ingest EXCEPT !.tasks = @ \ {t}]
    /\ UNCHANGED <<call, agentVars, log, linkVars, storeVars, sender, handled,
                   boundVars>>

\* Back to the socket.
Return ==
    /\ ingest.at = "complete"
    /\ ingest.tasks = {}
    /\ handled' = Append(handled, ingest.run)
    /\ ingest' = NoIngest
    /\ UNCHANGED <<task, call, agentVars, log, linkVars, storeVars, sender,
                   boundVars>>

-----------------------------------------------------------------------------
(* The notification thread *)

\* pending_notifications are due in the order of their creation, except that
\* one that failed waits for its next attempt.
Due(i) ==
    /\ outbox[i].status = "pending"
    /\ \A j \in 1 .. i - 1 :
          outbox[j].status = "pending" => outbox[j].attempts > 0

Inject(i) ==
    /\ sender = 0
    /\ Due(i)
    /\ outbox' = [outbox EXCEPT ![i].told = @ + 1]
    /\ sender' = i
    /\ UNCHANGED <<task, call, agentVars, log, linkVars, cursor, activity,
                   ingest, handled, boundVars>>

\* Mutant: given up one attempt late.
InjectFailsLate(i) ==
    LET attempts == outbox[i].attempts + 1 IN
    /\ sender = 0
    /\ Due(i)
    /\ outbox' = [outbox EXCEPT
                    ![i].attempts = attempts,
                    ![i].status = IF attempts > MaxAttempts THEN "failed"
                                  ELSE "pending"]
    /\ UNCHANGED <<task, call, agentVars, log, linkVars, cursor, activity,
                   ingest, sender, handled, boundVars>>

\* mark_notification_failed: the last attempt gives up.
InjectFails(i) ==
    LET attempts == outbox[i].attempts + 1 IN
    /\ sender = 0
    /\ Due(i)
    /\ outbox' = [outbox EXCEPT
                    ![i].attempts = attempts,
                    ![i].status = IF attempts >= MaxAttempts THEN "failed"
                                  ELSE "pending"]
    /\ UNCHANGED <<task, call, agentVars, log, linkVars, cursor, activity,
                   ingest, sender, handled, boundVars>>

\* Mutant: the notification stays pending.
MarkSentNot ==
    /\ sender # 0
    /\ sender' = 0
    /\ UNCHANGED <<task, call, agentVars, log, linkVars, storeVars, ingest,
                   handled, boundVars>>

\* mark_notification_sent.
MarkSent ==
    /\ sender # 0
    /\ outbox' = [outbox EXCEPT ![sender].status = "sent"]
    /\ sender' = 0
    /\ UNCHANGED <<task, call, agentVars, log, linkVars, cursor, activity,
                   ingest, handled, boundVars>>

-----------------------------------------------------------------------------
(* Faults *)

Fault(kind) ==
    /\ kind \in Faults
    /\ faults < MaxFaults
    /\ faults' = faults + 1

\* An exception in the handler ends the connection, not the thread.
Raise ==
    /\ ingest.at # "idle"
    /\ Fault("raise")
    /\ hit' = hit \cup {ingest.run}
    /\ ingest' = NoIngest
    /\ link' = Down
    /\ wire' = <<>>
    /\ UNCHANGED <<task, call, agentVars, log, storeVars, sender, handled, links,
                   renumbered>>

\* B dies and starts again with its store.
Crash ==
    /\ Fault("crash")
    /\ hit' = hit \cup ({ingest.run} \cap Runs)
    /\ ingest' = NoIngest
    /\ link' = Down
    /\ wire' = <<>>
    /\ call' = Nobody
    /\ sender' = 0
    /\ UNCHANGED <<task, agentVars, log, storeVars, handled, links, renumbered>>

\* The history the session brings is numbered from one; what settled in it is
\* over.  The bound keeps the numbers in use below the runs.
Renumbered(n) == [i \in 1 .. n |-> Other]
Renumber(n) ==
    /\ n \in 0 .. Len(ended)
    /\ log' = Renumbered(n)
    /\ renumbered' = TRUE

\* The Dashboard starts again without its buffer.
Restart(n) ==
    /\ Fault("restart")
    /\ Renumber(n)
    /\ link' = Down
    /\ wire' = <<>>
    /\ UNCHANGED <<task, call, agentVars, storeVars, ingest, sender, handled,
                   links, hit>>

\* A session that registers anew has its events deleted, one nobody asked for
\* in a long time is evicted; the connections stay and get the new ones.
Wipe(n) ==
    /\ Fault("wipe")
    /\ Renumber(n)
    /\ wire' = IF link.subscribed
               THEN wire \o [i \in 1 .. n |-> [seq |-> i, run |-> Other]]
               ELSE wire
    /\ UNCHANGED <<task, call, agentVars, link, storeVars, ingest, sender,
                   handled, links, hit>>

\* A long buffer loses the oldest of its events that are not messages.
Trim(last) ==
    /\ last \in DOMAIN log
    /\ Fault("trim")
    /\ log' = [seq \in DOMAIN log |-> IF seq <= last THEN Trimmed ELSE log[seq]]
    /\ hit' = hit \cup ({log[seq] : seq \in cursor + 1 .. last} \cap Runs)
    /\ UNCHANGED <<task, call, agentVars, linkVars, storeVars, ingest, sender,
                   handled, links, renumbered>>

\* What is left of the connection without its events first .. last.
Without(first, last) ==
    SubSeq(wire, 1, first - 1) \o SubSeq(wire, last + 1, Len(wire))

\* sendTo drops the frames of a connection that is full: live events, and
\* those of a replay, of up to 200 events each.
DropFrame(first, last) ==
    /\ first \in DOMAIN wire
    /\ last \in first .. Len(wire)
    /\ Fault("drop")
    /\ wire' = Without(first, last)
    /\ hit' = hit \cup ({wire[i].run : i \in {k \in first .. last :
                                            wire[k].seq > cursor}} \cap Runs)
    /\ UNCHANGED <<task, call, agentVars, log, link, storeVars, ingest, sender,
                   handled, links, renumbered>>

\* The event finds the bridge without a connection and its buffer full, or
\* arrives while the history of the session is replayed.
SettlesUnseen ==
    /\ Fault("unseen")
    /\ Settle
    /\ hit' = hit \cup {Len(ended) + 1}
    /\ UNCHANGED <<task, call, inbox, log, linkVars, storeVars, ingest, sender,
                   handled, links, renumbered>>

-----------------------------------------------------------------------------
Reader ==
    \/ Connect \/ Receive \/ Record \/ Notify \/ ListTasks \/ Return
    \/ \E t \in Tasks : Complete(t)

Notifier ==
    \/ \E i \in 1 .. Len(outbox) : Inject(i) \/ InjectFails(i)
    \/ MarkSent

Agent ==
    \/ \E t \in Tasks : PromptArrives(t)
    \/ LocalPrompt \/ RunSettles

Mishap ==
    \/ Raise \/ Crash \/ SettlesUnseen
    \/ \E n \in 0 .. MaxRuns : Restart(n) \/ Wipe(n) \/ Trim(n)
    \/ \E first, last \in DOMAIN wire : DropFrame(first, last)

Next ==
    \/ \E t \in Tasks : Submit(t)
    \/ MarkRunning
    \/ Agent
    \/ Resubscribe \/ ServeSubscription \/ Disconnect
    \/ Reader
    \/ Notifier
    \/ Mishap

Spec == Init /\ [][Next]_vars

\* The reader and the notification thread run, and the Dashboard serves
\* subscriptions.  Nothing is assumed of the agent or the user.
FairSpec ==
    Spec /\ WF_vars(Reader) /\ WF_vars(ServeSubscription) /\ WF_vars(Notifier)

-----------------------------------------------------------------------------
(* Properties *)

\* The settling of a run is processed at most once and never after that of a
\* later run, whatever is replayed and whatever fails.
HandledInOrder ==
    \A i, j \in 1 .. Len(handled) : i < j => handled[i] < handled[j]

\* While the numbers go on, the settling of a run that is neither processed nor
\* being processed lies in the buffer past the cursor, so that it will be sent
\* again, unless a fault took that very event away: no broken connection,
\* repeated subscription or other fault loses any.
LossExplained ==
    ~renumbered => \A r \in DOMAIN ended :
        \/ r \in hit
        \/ r = ingest.run
        \/ \E i \in DOMAIN handled : handled[i] = r
        \/ \E seq \in DOMAIN log : seq > cursor /\ log[seq] = r

\* No run is announced by two notifications, and no notification is injected
\* twice unless B crashed in between.
ToldOnce ==
    /\ \A i, j \in DOMAIN outbox : i # j => outbox[i].run # outbox[j].run
    /\ \A i \in DOMAIN outbox : outbox[i].told <= 1 + faults

\* The settling of a run r was taken away, or the numbers began again and the
\* cursor may be ahead of it.
Excused(r) == r \in hit \/ renumbered

\* A task whose row says running when its run settles is completed in the end.
TaskCompletes ==
    \A t \in Tasks, r \in Runs :
        (r \in DOMAIN ended /\ t \in ended[r].marked)
            ~> (task[t] = "completed" \/ Excused(r))

\* The user hears of every run that settled under a running task, however often
\* the connection breaks, unless all the attempts fail.
SettledIsTold ==
    \A r \in Runs :
        (r \in DOMAIN ended /\ ended[r].marked # {})
            ~> (\/ Excused(r)
                \/ \E i \in DOMAIN outbox : /\ outbox[i].run = r
                                             /\ outbox[i].status # "pending")
=============================================================================
