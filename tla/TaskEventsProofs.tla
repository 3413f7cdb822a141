-------------------------- MODULE TaskEventsProofs --------------------------
(***************************************************************************)
(* Proofs about TaskEvents, for any tasks, faults and bounds: its types,   *)
(* that the settling of a run is processed in order and at most once, that *)
(* no run is announced twice, that only the event a fault hits is lost,    *)
(* and that any other has been, is or will be processed to the end.        *)
(***************************************************************************)
EXTENDS TaskEvents, SequenceTheorems, TLAPS

\* What the types rely on: the numbers in use stay below the number of runs,
\* an event being processed is a real one, a notification that is still
\* pending has an attempt left.
Bounds ==
    /\ Len(ended) <= MaxRuns
    /\ run.busy => Len(ended) < MaxRuns
    /\ Len(log) <= Len(ended)
    /\ ingest.at # "idle" => ingest.seq > 0 /\ ingest.run > 0
    /\ \A i \in 1 .. Len(outbox) :
          outbox[i].status = "pending" => outbox[i].attempts < MaxAttempts

\* Later numbers carry later runs, in the buffer and on the connection, and the
\* buffer's are the later ones: what is on the connection may be gone from it.
LogInv ==
    /\ \A i \in 1 .. Len(log) : log[i] \in Runs => log[i] <= Len(ended)
    /\ \A i, j \in 1 .. Len(log) :
          i < j /\ log[i] \in Runs /\ log[j] \in Runs => log[i] < log[j]
    /\ \A i \in 1 .. Len(wire) : wire[i].run \in Runs => wire[i].run <= Len(ended)
    /\ \A i \in 1 .. Len(wire), j \in 1 .. Len(log) :
          wire[i].seq < j /\ wire[i].run \in Runs /\ log[j] \in Runs
              => wire[i].run < log[j]
    /\ \A i, j \in 1 .. Len(wire) :
          i < j /\ wire[i].seq < wire[j].seq
          /\ wire[i].run \in Runs /\ wire[j].run \in Runs
              => wire[i].run < wire[j].run

\* Run r is later than all that was received, processed or announced.
Later(r) ==
    /\ ingest.run < r
    /\ \A k \in 1 .. Len(handled) : handled[k] < r
    /\ \A k \in 1 .. Len(outbox) : outbox[k].run < r

\* What the cursor has not passed is later than all that was received.
AheadInv ==
    /\ \A i \in 1 .. Len(log) : i > cursor /\ log[i] \in Runs => Later(log[i])
    /\ \A i \in 1 .. Len(wire) :
          wire[i].seq > cursor /\ wire[i].run \in Runs => Later(wire[i].run)

\* The run being processed is later than all that were processed or announced.
OrderInv ==
    /\ ingest.run <= Len(ended)
    /\ \A k \in 1 .. Len(handled) : handled[k] <= Len(ended)
    /\ \A k \in 1 .. Len(outbox) : outbox[k].run <= Len(ended)
    /\ ingest.at # "idle" => \A k \in 1 .. Len(handled) : handled[k] < ingest.run
    /\ ingest.at \in {"record", "notify"} =>
          \A k \in 1 .. Len(outbox) : outbox[k].run < ingest.run
    /\ HandledInOrder
    /\ \A i, j \in 1 .. Len(outbox) : i < j => outbox[i].run < outbox[j].run

\* A notification that waits for its injection was told once per fault.
ToldInv ==
    \A i \in 1 .. Len(outbox) :
        /\ outbox[i].told <= faults + 1
        /\ outbox[i].status = "pending" /\ sender # i => outbox[i].told <= faults

EventsInv == TypeOK /\ Bounds /\ LogInv /\ AheadInv /\ OrderInv /\ ToldInv

\* Nothing has happened at first.
LEMMA EventsInit == Init => EventsInv
<1> SUFFICES ASSUME Init PROVE EventsInv
  OBVIOUS
<1> USE EventsAssumption DEF Init
<1>1. /\ ended \in Seq(Settling) /\ log \in Seq(Entry)
      /\ wire \in Seq(Event) /\ outbox \in Seq(Note) /\ handled \in Seq(Runs)
  BY EmptySeq
<1>2. /\ Len(ended) = 0 /\ Len(log) = 0 /\ Len(wire) = 0 /\ Len(outbox) = 0
      /\ Len(handled) = 0
  BY DEF Init
<1>3. /\ link \in Link /\ ingest \in Ingest
      /\ ingest.at = "idle" /\ ingest.run = 0
      /\ run \in [busy: BOOLEAN, tasks: SUBSET Tasks] /\ ~run.busy
  BY DEF Link, Down, NoRequest, Ingest, NoIngest
<1>4. TypeOK
  <2>1. /\ task \in [Tasks -> TaskStates] /\ call \in Tasks \cup {Nobody}
        /\ inbox \subseteq Tasks /\ activity \subseteq Runs /\ hit \subseteq Runs
        /\ renumbered \in BOOLEAN
    BY DEF TaskStates
  <2>2. /\ cursor \in 0 .. MaxRuns /\ sender \in 0 .. Len(outbox)
        /\ links \in Nat /\ faults \in Nat
    BY <1>2
  <2> QED BY <1>1, <1>3, <2>1, <2>2 DEF TypeOK
<1> HIDE DEF Init
<1>5. Bounds /\ LogInv /\ AheadInv /\ ToldInv
  BY <1>2, <1>3 DEF Bounds, LogInv, AheadInv, ToldInv
<1>6. OrderInv
  BY <1>1, <1>2, <1>3 DEF OrderInv, HandledInOrder
<1> QED BY <1>4, <1>5, <1>6 DEF EventsInv

\* The events a subscription is answered with are those of the buffer.
LEMMA ReplayProperties ==
    ASSUME log \in Seq(Entry), Len(log) <= MaxRuns, NEW after \in Nat
    PROVE  /\ Replay(after) \in Seq(Event)
           /\ \A i \in 1 .. Len(Replay(after)) :
                 /\ Replay(after)[i].seq \in 1 .. Len(log)
                 /\ Replay(after)[i].run = log[Replay(after)[i].seq]
<1> DEFINE first == IF after > Len(log) THEN 1 ELSE after + 1
           count == IF first > Len(log) THEN 0 ELSE Len(log) + 1 - first
           replay == [i \in 1 .. count |->
                        [seq |-> first + i - 1, run |-> log[first + i - 1]]]
<1>1. first \in Nat \ {0} /\ count \in Nat
  OBVIOUS
<1>2. ASSUME NEW i \in 1 .. count PROVE first + i - 1 \in 1 .. Len(log)
  BY <1>1, <1>2
<1> HIDE DEF first, count
<1>3. ASSUME NEW i \in 1 .. count
      PROVE  [seq |-> first + i - 1, run |-> log[first + i - 1]] \in Event
  <2>1. log[first + i - 1] \in Entry
    BY <1>2, ElementOfSeq
  <2>2. first + i - 1 \in Runs
    BY EventsAssumption, <1>2 DEF Runs
  <2> QED BY <2>1, <2>2 DEF Event
<1>4. replay \in Seq(Event) /\ Len(replay) = count
  <2>1. replay \in [1 .. count -> Event]
    BY <1>3
  <2> HIDE DEF replay
  <2>2. replay \in Seq(Event)
    BY <1>1, <2>1, SeqDef
  <2>3. DOMAIN replay = 1 .. Len(replay) /\ Len(replay) \in Nat
    BY <2>2, LenProperties
  <2> QED BY <1>1, <2>1, <2>2, <2>3
<1>5. ASSUME NEW i \in 1 .. count
      PROVE  replay[i].seq \in 1 .. Len(log) /\ replay[i].run = log[replay[i].seq]
  BY <1>2, <1>5
<1>6. Replay(after) = replay
  BY DEF Replay, first, count
<1> QED BY <1>4, <1>5, <1>6

\* The buffer of a session that is numbered anew.
LEMMA RenumberedProperties ==
    ASSUME NEW n \in Nat, n <= MaxRuns
    PROVE  /\ Renumbered(n) \in Seq(Entry) /\ Len(Renumbered(n)) = n
           /\ \A i \in 1 .. n : Renumbered(n)[i] \notin Runs
           /\ [i \in 1 .. n |-> [seq |-> i, run |-> Other]] \in Seq(Event)
           /\ Len([i \in 1 .. n |-> [seq |-> i, run |-> Other]]) = n
<1>1. Other \in Entry /\ Other \notin Runs /\ MaxRuns \in Nat
  BY EventsAssumption DEF Other, Entry, Trimmed, Runs
<1>2. ASSUME NEW i \in 1 .. n PROVE [seq |-> i, run |-> Other] \in Event
  BY <1>1 DEF Event, Runs
<1> DEFINE events == [i \in 1 .. n |-> [seq |-> i, run |-> Other]]
<1>3. events \in Seq(Event) /\ Len(events) = n
  <2>1. events \in [1 .. n -> Event]
    BY <1>2
  <2>2. DOMAIN events = 1 .. n
    OBVIOUS
  <2> HIDE DEF events
  <2>3. events \in Seq(Event)
    BY <2>1, SeqDef
  <2> QED BY <2>2, <2>3, LenProperties
<1> QED BY <1>1, <1>3 DEF Renumbered

\* What is left of a connection from which the frames first .. last are dropped.
LEMMA CutProperties ==
    ASSUME wire \in Seq(Event), NEW first \in 1 .. Len(wire),
           NEW last \in first .. Len(wire)
    PROVE  /\ Without(first, last) \in Seq(Event)
           /\ Len(Without(first, last)) = Len(wire) - (last - first + 1)
           /\ \A i \in 1 .. Len(Without(first, last)) :
                 /\ i < first => /\ i \in 1 .. Len(wire)
                                 /\ Without(first, last)[i] = wire[i]
                 /\ i >= first =>
                       /\ i + (last - first + 1) \in 1 .. Len(wire)
                       /\ Without(first, last)[i] = wire[i + (last - first + 1)]
<1> DEFINE before == SubSeq(wire, 1, first - 1)
           after == SubSeq(wire, last + 1, Len(wire))
<1>1. /\ Len(wire) \in Nat /\ first \in Int /\ last \in Int
      /\ 1 <= first /\ first <= last /\ last <= Len(wire)
      /\ \A i \in 1 .. Len(wire) : wire[i] \in Event
  BY ElementOfSeq
<1>2. /\ before \in Seq(Event) /\ Len(before) = first - 1
      /\ \A i \in 1 .. first - 1 : before[i] = wire[i]
  <2> DEFINE n == first - 1
  <2>1. n \in Int /\ n >= 0 /\ \A i \in 1 .. n : wire[i] \in Event
    BY <1>1
  <2> HIDE DEF n
  <2>2. /\ SubSeq(wire, 1, n) \in Seq(Event)
        /\ Len(SubSeq(wire, 1, n)) = n
        /\ \A i \in 1 .. n : SubSeq(wire, 1, n)[i] = wire[i]
    BY <2>1, SubSeqProperties
  <2> QED BY <2>2 DEF n
<1>3. /\ after \in Seq(Event) /\ Len(after) = Len(wire) - last
      /\ \A i \in 1 .. Len(wire) - last : after[i] = wire[last + i]
  <2> DEFINE m == last + 1
             n == Len(wire)
  <2>1. m \in Int /\ n \in Int /\ \A i \in m .. n : wire[i] \in Event
    BY <1>1
  <2>2. n - m + 1 = Len(wire) - last /\ m <= n + 1
    BY <1>1
  <2>3. m = last + 1 /\ n = Len(wire)
    OBVIOUS
  <2> HIDE DEF m, n
  <2>4. /\ SubSeq(wire, m, n) \in Seq(Event)
        /\ Len(SubSeq(wire, m, n)) = (IF m <= n THEN n - m + 1 ELSE 0)
        /\ \A i \in 1 .. n - m + 1 : SubSeq(wire, m, n)[i] = wire[m + i - 1]
    BY <2>1, SubSeqProperties
  <2>5. \A i \in 1 .. Len(wire) - last : m + i - 1 = last + i
    BY <1>1, <2>3
  <2> DEFINE length == Len(SubSeq(wire, m, n))
  <2>6. length = Len(wire) - last
    <3>1. length = IF m <= n THEN n - m + 1 ELSE 0
      BY <2>4
    <3> HIDE DEF length
    <3>2. CASE m <= n
      BY <2>2, <3>1, <3>2
    <3>3. CASE ~(m <= n)
      <4>1. n - m + 1 = 0
        BY <2>1, <2>2, <3>3
      <4> QED BY <2>2, <3>1, <3>3, <4>1
    <3> QED BY <3>2, <3>3
  <2> QED BY <2>2, <2>3, <2>4, <2>5, <2>6
<1> HIDE DEF before, after
<1>4. Without(first, last) = before \o after
  BY DEF Without, before, after
<1> DEFINE cut == Without(first, last)
<1> DEFINE left == first - 1
           right == Len(wire) - last
<1>5. /\ cut \in Seq(Event) /\ Len(cut) = left + right
      /\ \A i \in 1 .. left + right :
            cut[i] = IF i <= left THEN before[i] ELSE after[i - left]
  <2>1. before \in Seq(Event) /\ after \in Seq(Event)
    BY <1>2, <1>3
  <2>2. /\ before \o after \in Seq(Event)
        /\ Len(before \o after) = Len(before) + Len(after)
        /\ \A i \in 1 .. Len(before) + Len(after) : (before \o after)[i] =
              IF i <= Len(before) THEN before[i] ELSE after[i - Len(before)]
    BY <2>1, ConcatProperties
  <2>3. Len(before) = left /\ Len(after) = right
    BY <1>2, <1>3
  <2> HIDE DEF left, right
  <2> QED BY <1>4, <2>2, <2>3
<1> HIDE DEF cut
<1>6. Len(cut) = Len(wire) - (last - first + 1)
  BY <1>1, <1>5
<1>7. ASSUME NEW i \in 1 .. Len(cut), i < first
      PROVE  i \in 1 .. Len(wire) /\ cut[i] = wire[i]
  BY <1>1, <1>2, <1>5, <1>6, <1>7
<1>8. ASSUME NEW i \in 1 .. Len(cut), i >= first
      PROVE  /\ i + (last - first + 1) \in 1 .. Len(wire)
             /\ cut[i] = wire[i + (last - first + 1)]
  <2>1. i - (first - 1) \in 1 .. Len(wire) - last
    BY <1>1, <1>6, <1>8
  <2>2. cut[i] = after[i - (first - 1)]
    BY <1>1, <1>5, <1>6, <1>8
  <2>3. last + (i - (first - 1)) = i + (last - first + 1)
    BY <1>1, <1>6
  <2> QED BY <1>1, <1>3, <1>6, <2>1, <2>2, <2>3
<1> QED BY <1>5, <1>6, <1>7, <1>8 DEF cut

\* Every action keeps the types and their bounds.
LEMMA TypesStep == TypeOK /\ Bounds /\ [Next]_vars => TypeOK' /\ Bounds'
<1> SUFFICES ASSUME TypeOK, Bounds, [Next]_vars PROVE TypeOK' /\ Bounds'
  OBVIOUS
<1> USE EventsAssumption
    DEF agentVars, linkVars, storeVars, boundVars, Fault
<1>1. ASSUME NEW t \in Tasks, Submit(t) PROVE TypeOK' /\ Bounds'
  BY <1>1 DEF Submit, TypeOK, Bounds, TaskStates
<1>2. CASE MarkRunning
  BY <1>2 DEF MarkRunning, TypeOK, Bounds, TaskStates
<1>3. ASSUME NEW t \in Tasks, PromptArrives(t) PROVE TypeOK' /\ Bounds'
  BY <1>3 DEF PromptArrives, TypeOK, Bounds
<1>4. CASE LocalPrompt
  BY <1>4 DEF LocalPrompt, TypeOK, Bounds
<1>5. CASE RunSettles \/ SettlesUnseen
  <2>1. /\ run.busy /\ run.tasks \in SUBSET Tasks /\ Settle
        /\ Len(ended) \in Nat /\ Len(log) \in Nat
        /\ Len(ended) + 1 \in Runs /\ Len(log) + 1 \in Runs
    BY <1>5 DEF RunSettles, SettlesUnseen, Settle, TypeOK, Bounds, Runs
  <2> DEFINE settling == [tasks |-> run.tasks,
                          marked |-> {t \in run.tasks : task[t] = "running"}]
  <2>2. settling \in Settling
    BY <2>1 DEF Settling
  <2>3. /\ ended' \in Seq(Settling) /\ Len(ended') = Len(ended) + 1
        /\ run' = [busy |-> FALSE, tasks |-> {}]
    <3>1. ended' = Append(ended, settling) /\ run' = [busy |-> FALSE, tasks |-> {}]
      BY <2>1 DEF Settle
    <3> HIDE DEF settling
    <3> QED BY <2>2, <3>1, AppendProperties DEF TypeOK
  <2>4. run' \in [busy: BOOLEAN, tasks: SUBSET Tasks] /\ ~run'.busy
    BY <2>3
  <2>5. CASE RunSettles
    <3>1. Len(ended) + 1 \in Entry
      BY <2>1 DEF Entry, Trimmed, Runs
    <3>2. log' \in Seq(Entry) /\ Len(log') = Len(log) + 1
      BY <2>5, <3>1, AppendProperties DEF RunSettles, TypeOK
    <3>3. [seq |-> Len(log) + 1, run |-> Len(ended) + 1] \in Event
      BY <2>1, <3>1 DEF Event
    <3>4. wire' \in Seq(Event)
      BY <2>5, <3>3, AppendProperties DEF RunSettles, TypeOK
    <3>5. TypeOK'
      BY <2>3, <2>4, <2>5, <3>2, <3>4 DEF RunSettles, TypeOK
    <3>6. Bounds'
      BY <2>1, <2>3, <2>4, <2>5, <3>2 DEF RunSettles, Bounds, TypeOK, Runs
    <3> QED BY <3>5, <3>6
  <2>6. CASE SettlesUnseen
    <3>1. hit' \subseteq Runs /\ faults' \in Nat
      BY <2>1, <2>6 DEF SettlesUnseen, TypeOK
    <3>2. TypeOK'
      BY <2>3, <2>4, <2>6, <3>1 DEF SettlesUnseen, TypeOK
    <3>3. Bounds'
      BY <2>1, <2>3, <2>4, <2>6 DEF SettlesUnseen, Bounds, TypeOK, Runs
    <3> QED BY <3>2, <3>3
  <2> QED BY <1>5, <2>5, <2>6
<1>6. CASE Connect \/ Resubscribe
  <2>1. cursor \in 0 .. NoRequest /\ link \in Link
    BY DEF TypeOK, NoRequest
  <2>2. link' \in Link
    <3>1. /\ [up |-> TRUE, subscribed |-> FALSE, request |-> cursor] \in Link
          /\ [link EXCEPT !.request = cursor] \in Link
      BY <2>1 DEF Link
    <3> QED BY <1>6, <3>1 DEF Connect, Resubscribe
  <2>3. links' \in Nat
    BY <1>6 DEF Connect, Resubscribe, TypeOK
  <2> QED BY <1>6, <2>2, <2>3 DEF Connect, Resubscribe, TypeOK, Bounds
<1>7. CASE ServeSubscription
  <2>1. link.request \in Nat /\ Len(log) <= MaxRuns /\ Len(log) \in Nat
    BY DEF TypeOK, Bounds, Link, NoRequest
  <2>2. Replay(link.request) \in Seq(Event)
    BY <2>1, ReplayProperties DEF TypeOK
  <2>3. wire' \in Seq(Event)
    BY <1>7, <2>2, ConcatProperties DEF ServeSubscription, TypeOK
  <2>4. link' \in Link
    <3>1. link \in Link /\ NoRequest \in 0 .. NoRequest
      BY DEF TypeOK, NoRequest
    <3> DEFINE served == [link EXCEPT !.subscribed = TRUE, !.request = NoRequest]
    <3>2. served \in Link
      BY <3>1 DEF Link
    <3> QED BY <1>7, <3>2 DEF ServeSubscription
  <2> QED BY <1>7, <2>3, <2>4 DEF ServeSubscription, TypeOK, Bounds
<1>8. Down \in Link /\ NoIngest \in Ingest /\ NoIngest.at = "idle"
  BY DEF Down, Link, NoRequest, NoIngest, Ingest
<1>9. <<>> \in Seq(Event)
  BY EmptySeq
<1>10. CASE Disconnect
  BY <1>8, <1>9, <1>10 DEF Disconnect, TypeOK, Bounds
<1>11. CASE Receive
  <2>1. Head(wire) \in Event /\ Tail(wire) \in Seq(Event)
    BY <1>11, HeadTailProperties DEF Receive, TypeOK
  <2>2. /\ Head(wire).seq \in Runs /\ Head(wire).run \in 0 .. Trimmed
        /\ cursor \in 0 .. MaxRuns
    BY <2>1 DEF Event, Entry, TypeOK
  <2>3. cursor' \in 0 .. MaxRuns
    BY <1>11, <2>2 DEF Receive, Runs
  <2> DEFINE fresh == Head(wire).run # Trimmed /\ Head(wire).seq > cursor
  <2>4. CASE fresh /\ Head(wire).run # Other
    <3>1. ingest' = [at |-> "record", seq |-> Head(wire).seq, run |-> Head(wire).run,
                     tasks |-> {}]
      BY <1>11, <2>4 DEF Receive
    <3>2. Head(wire).run \in Runs
      BY <2>2, <2>4 DEF Runs, Trimmed, Other
    <3>3. ingest' \in Ingest /\ ingest'.seq > 0 /\ ingest'.run > 0
      BY <2>2, <3>1, <3>2 DEF Ingest, Runs
    <3> QED BY <1>11, <2>1, <2>3, <3>3 DEF Receive, TypeOK, Bounds
  <2>5. CASE ~(fresh /\ Head(wire).run # Other)
    <3>1. ingest' = NoIngest
      BY <1>11, <2>5 DEF Receive
    <3> QED BY <1>8, <1>11, <2>1, <2>3, <3>1 DEF Receive, TypeOK, Bounds
  <2> QED BY <2>4, <2>5
<1>12. CASE Record
  <2>1. activity' \subseteq Runs
    BY <1>12 DEF Record, TypeOK, Bounds, Ingest, Runs
  <2>2. ingest' \in Ingest /\ ingest'.seq = ingest.seq /\ ingest'.run = ingest.run
    BY <1>12 DEF Record, TypeOK, Ingest
  <2> QED BY <1>12, <2>1, <2>2 DEF Record, TypeOK, Bounds
<1>13. CASE Notify
  <2> DEFINE note == [run |-> ingest.run, status |-> "pending", attempts |-> 0, told |-> 0]
  <2>1. note \in Note /\ note.attempts < MaxAttempts
    BY <1>13 DEF Notify, TypeOK, Bounds, Ingest, Note, Runs
  <2>2. outbox' = outbox \/ outbox' = Append(outbox, note)
    BY <1>13 DEF Notify
  <2> HIDE DEF note
  <2>3. /\ outbox' \in Seq(Note)
        /\ \A i \in 1 .. Len(outbox') :
              \/ i \in 1 .. Len(outbox) /\ outbox'[i] = outbox[i]
              \/ outbox'[i] = note
        /\ Len(outbox') >= Len(outbox)
    <3>1. outbox \in Seq(Note) /\ Len(outbox) \in Nat
      BY DEF TypeOK
    <3>2. CASE outbox' = outbox
      BY <3>1, <3>2
    <3>3. CASE outbox' = Append(outbox, note)
      <4>1. /\ outbox' \in Seq(Note) /\ Len(outbox') = Len(outbox) + 1
            /\ \A i \in 1 .. Len(outbox) : outbox'[i] = outbox[i]
            /\ outbox'[Len(outbox) + 1] = note
        BY <2>1, <3>1, <3>3, AppendProperties
      <4>2. ASSUME NEW i \in 1 .. Len(outbox')
            PROVE  i \in 1 .. Len(outbox) \/ i = Len(outbox) + 1
        BY <3>1, <4>1, <4>2
      <4> QED BY <3>1, <4>1, <4>2
    <3> QED BY <2>2, <3>2, <3>3
  <2>4. ingest' \in Ingest /\ ingest'.seq = ingest.seq /\ ingest'.run = ingest.run
    BY <1>13 DEF Notify, TypeOK, Ingest
  <2>5. TypeOK'
    BY <1>13, <2>3, <2>4 DEF Notify, TypeOK
  <2>6. Bounds'
    BY <1>13, <2>1, <2>3, <2>4 DEF Notify, Bounds
  <2> QED BY <2>5, <2>6
<1>14. CASE ListTasks
  <2>1. ingest' \in Ingest /\ ingest'.seq = ingest.seq /\ ingest'.run = ingest.run
    BY <1>14 DEF ListTasks, TypeOK, Ingest
  <2> QED BY <1>14, <2>1 DEF ListTasks, TypeOK, Bounds
<1>15. ASSUME NEW t \in Tasks, Complete(t) PROVE TypeOK' /\ Bounds'
  <2>1. ingest' \in Ingest /\ ingest'.seq = ingest.seq /\ ingest'.run = ingest.run
    BY <1>15 DEF Complete, TypeOK, Ingest
  <2> QED BY <1>15, <2>1 DEF Complete, TypeOK, Bounds, TaskStates
<1>16. CASE Return
  <2>1. ingest.run \in Runs
    BY <1>16 DEF Return, TypeOK, Bounds, Ingest, Runs
  <2>2. handled' \in Seq(Runs)
    BY <1>16, <2>1, AppendProperties DEF Return, TypeOK
  <2> QED BY <1>8, <1>16, <2>2 DEF Return, TypeOK, Bounds
<1>17. ASSUME NEW i \in 1 .. Len(outbox), Inject(i) PROVE TypeOK' /\ Bounds'
  <2>1. outbox[i] \in Note
    BY DEF TypeOK
  <2>2. [outbox[i] EXCEPT !.told = @ + 1] \in Note
    BY <2>1 DEF Note
  <2>3. outbox' \in Seq(Note) /\ Len(outbox') = Len(outbox)
    BY <1>17, <2>2, ExceptSeq DEF Inject, TypeOK
  <2>4. ASSUME NEW k \in 1 .. Len(outbox)
        PROVE  /\ outbox'[k].status = outbox[k].status
               /\ outbox'[k].attempts = outbox[k].attempts
    <3>1. CASE k = i
      BY <1>17, <2>1, <3>1 DEF Inject, TypeOK, Note
    <3>2. CASE k # i
      BY <1>17, <3>2 DEF Inject, TypeOK
    <3> QED BY <3>1, <3>2
  <2>5. TypeOK'
    BY <1>17, <2>3 DEF Inject, TypeOK
  <2>6. Bounds'
    BY <1>17, <2>3, <2>4 DEF Inject, Bounds
  <2> QED BY <2>5, <2>6
<1>18. ASSUME NEW i \in 1 .. Len(outbox), InjectFails(i) PROVE TypeOK' /\ Bounds'
  <2> DEFINE attempts == outbox[i].attempts + 1
             note == [outbox[i] EXCEPT !.attempts = attempts,
                        !.status = IF attempts >= MaxAttempts THEN "failed" ELSE "pending"]
  <2>1. outbox[i] \in Note /\ outbox[i].status = "pending"
    BY <1>18 DEF InjectFails, Due, TypeOK
  <2>2. attempts \in 0 .. MaxAttempts
    BY <2>1 DEF Bounds, Note
  <2>3. note \in Note /\ (note.status = "pending" => note.attempts < MaxAttempts)
    <3> DEFINE status == IF attempts >= MaxAttempts THEN "failed" ELSE "pending"
    <3>1. /\ status \in {"pending", "failed"}
          /\ status = "pending" => attempts < MaxAttempts
      BY <2>2
    <3> HIDE DEF attempts, status
    <3>2. /\ [outbox[i] EXCEPT !.attempts = attempts, !.status = status] \in Note
          /\ [outbox[i] EXCEPT !.attempts = attempts, !.status = status].status = status
          /\ [outbox[i] EXCEPT !.attempts = attempts, !.status = status].attempts = attempts
      BY <2>1, <2>2, <3>1 DEF Note
    <3> QED BY <3>1, <3>2 DEF status
  <2>4. outbox' = [outbox EXCEPT ![i] = note]
    BY <1>18 DEF InjectFails
  <2> HIDE DEF note
  <2>5. /\ outbox' \in Seq(Note) /\ Len(outbox') = Len(outbox)
        /\ \A k \in 1 .. Len(outbox) : outbox'[k] = outbox[k] \/ outbox'[k] = note
    BY <2>3, <2>4, ExceptSeq DEF TypeOK
  <2>6. TypeOK'
    BY <1>18, <2>5 DEF InjectFails, TypeOK
  <2>7. Bounds'
    BY <1>18, <2>3, <2>5 DEF InjectFails, Bounds
  <2> QED BY <2>6, <2>7
<1>19. CASE MarkSent
  <2>1. sender \in 1 .. Len(outbox) /\ outbox[sender] \in Note
    BY <1>19 DEF MarkSent, TypeOK
  <2>2. [outbox[sender] EXCEPT !.status = "sent"] \in Note
    BY <2>1 DEF Note
  <2>3. outbox' \in Seq(Note) /\ Len(outbox') = Len(outbox)
    BY <1>19, <2>1, <2>2, ExceptSeq DEF MarkSent, TypeOK
  <2>4. \A k \in 1 .. Len(outbox) : \/ outbox'[k].status = "sent"
                                   \/ outbox'[k] = outbox[k]
    BY <1>19, <2>1, ExceptSeq DEF MarkSent, TypeOK, Note
  <2>5. TypeOK'
    BY <1>19, <2>3 DEF MarkSent, TypeOK
  <2>6. Bounds'
    BY <1>19, <2>3, <2>4 DEF MarkSent, Bounds
  <2> QED BY <2>5, <2>6
<1>20. CASE Raise \/ Crash
  <2>1. hit' \subseteq Runs
    <3>1. ingest.at # "idle" => ingest.run \in Runs
      BY DEF TypeOK, Bounds, Ingest, Runs
    <3> QED BY <1>20, <3>1 DEF Raise, Crash, TypeOK
  <2>2. CASE Raise
    BY <1>8, <1>9, <2>1, <2>2 DEF Raise, TypeOK, Bounds
  <2>3. CASE Crash
    <3>1. 0 \in 0 .. Len(outbox)
      BY DEF TypeOK
    <3> QED BY <1>8, <1>9, <2>1, <2>3, <3>1 DEF Crash, TypeOK, Bounds
  <2> QED BY <1>20, <2>2, <2>3
<1>21. ASSUME NEW n \in 0 .. MaxRuns, Restart(n) \/ Wipe(n)
       PROVE  TypeOK' /\ Bounds'
  <2>1. /\ n \in Nat /\ n <= Len(ended) /\ n <= MaxRuns /\ Len(ended) \in Nat
        /\ log' = Renumbered(n) /\ renumbered' = TRUE
    BY <1>21 DEF Restart, Wipe, Renumber, TypeOK, Bounds
  <2>2. log' \in Seq(Entry) /\ Len(log') = n
    BY <2>1, RenumberedProperties
  <2>3. wire' \in Seq(Event) /\ link' \in Link
    <3>1. CASE Restart(n)
      BY <1>8, <1>9, <3>1 DEF Restart
    <3>2. CASE Wipe(n)
      <4> DEFINE events == [i \in 1 .. n |-> [seq |-> i, run |-> Other]]
      <4>1. events \in Seq(Event)
        BY <2>1, RenumberedProperties
      <4>2. wire' = wire \/ wire' = wire \o events
        BY <3>2 DEF Wipe
      <4> HIDE DEF events
      <4> QED BY <3>2, <4>1, <4>2, ConcatProperties DEF Wipe, TypeOK
    <3> QED BY <1>21, <3>1, <3>2
  <2>4. TypeOK'
    BY <1>21, <2>1, <2>2, <2>3 DEF Restart, Wipe, TypeOK
  <2>5. Bounds'
    BY <1>21, <2>1, <2>2 DEF Restart, Wipe, Bounds
  <2> QED BY <2>4, <2>5
<1>22. ASSUME NEW last \in 0 .. MaxRuns, Trim(last) PROVE TypeOK' /\ Bounds'
  <2>1. log' \in Seq(Entry) /\ Len(log') = Len(log)
    <3>1. DOMAIN log = 1 .. Len(log) /\ Len(log) \in Nat
          /\ \A seq \in 1 .. Len(log) : log[seq] \in Entry
      BY LenProperties, ElementOfSeq DEF TypeOK
    <3>2. Trimmed \in Entry
      BY DEF Entry, Trimmed
    <3> DEFINE trimmed == [seq \in 1 .. Len(log) |->
                             IF seq <= last THEN Trimmed ELSE log[seq]]
    <3>3. log' = trimmed
      BY <1>22, <3>1 DEF Trim
    <3>4. trimmed \in [1 .. Len(log) -> Entry] /\ DOMAIN trimmed = 1 .. Len(log)
      BY <3>1, <3>2
    <3> HIDE DEF trimmed
    <3>5. trimmed \in Seq(Entry)
      BY <3>1, <3>4, SeqDef
    <3> QED BY <3>1, <3>3, <3>4, <3>5, LenProperties
  <2>2. hit' \subseteq Runs
    BY <1>22 DEF Trim, TypeOK
  <2>3. TypeOK'
    BY <1>22, <2>1, <2>2 DEF Trim, TypeOK
  <2>4. Bounds'
    BY <1>22, <2>1 DEF Trim, Bounds
  <2> QED BY <2>3, <2>4
<1>24. ASSUME NEW first \in DOMAIN wire, NEW last \in DOMAIN wire,
              DropFrame(first, last)
       PROVE  TypeOK' /\ Bounds'
  <2>1. wire' \in Seq(Event)
    <3>1. first \in 1 .. Len(wire) /\ last \in first .. Len(wire)
      BY <1>24 DEF DropFrame, TypeOK
    <3> QED BY <1>24, <3>1, CutProperties DEF DropFrame, TypeOK
  <2>2. faults' \in Nat /\ hit' \subseteq Runs
    BY <1>24 DEF DropFrame, TypeOK
  <2>3. UNCHANGED <<task, call, agentVars, log, link, storeVars, ingest, sender,
                    handled, links, renumbered>>
    BY <1>24 DEF DropFrame
  <2> QED BY <2>1, <2>2, <2>3 DEF TypeOK, Bounds
<1>23. CASE UNCHANGED vars
  BY <1>23 DEF vars, TypeOK, Bounds
<1> QED
  BY <1>1, <1>2, <1>3, <1>4, <1>5, <1>6, <1>7, <1>10, <1>11, <1>12, <1>13, <1>14,
     <1>15, <1>16, <1>17, <1>18, <1>19, <1>20, <1>21, <1>22, <1>23, <1>24
  DEF Next, Agent, Reader, Notifier, Mishap
-----------------------------------------------------------------------------
(* Order *)

\* What the types say of the elements of the sequences.
LEMMA Elements ==
    ASSUME TypeOK
    PROVE  /\ Len(log) \in Nat /\ Len(ended) \in Nat /\ Len(wire) \in Nat
           /\ Len(outbox) \in Nat /\ Len(handled) \in Nat
           /\ \A i \in 1 .. Len(log) : log[i] \in Nat
           /\ \A i \in 1 .. Len(handled) : handled[i] \in Nat
           /\ \A i \in 1 .. Len(wire) :
                 wire[i].seq \in Nat /\ wire[i].seq > 0 /\ wire[i].run \in Nat
           /\ \A i \in 1 .. Len(outbox) :
                 outbox[i].run \in Nat /\ outbox[i].told \in Nat
           /\ ingest.run \in Nat /\ cursor \in Nat /\ faults \in Nat
<1> USE EventsAssumption
<1>1. /\ log \in Seq(Entry) /\ ended \in Seq(Settling) /\ wire \in Seq(Event)
      /\ outbox \in Seq(Note) /\ handled \in Seq(Runs)
  BY DEF TypeOK
<1>2. /\ Len(log) \in Nat /\ Len(ended) \in Nat /\ Len(wire) \in Nat
      /\ Len(outbox) \in Nat /\ Len(handled) \in Nat
  BY <1>1, LenProperties
<1>3. ASSUME NEW i \in 1 .. Len(log) PROVE log[i] \in Nat
  <2>1. log[i] \in Entry
    BY <1>1, ElementOfSeq
  <2> QED BY <2>1 DEF Entry
<1>4. ASSUME NEW i \in 1 .. Len(handled) PROVE handled[i] \in Nat
  <2>1. handled[i] \in Runs
    BY <1>1, ElementOfSeq
  <2> QED BY <2>1 DEF Runs
<1>5. ASSUME NEW i \in 1 .. Len(wire)
      PROVE  wire[i].seq \in Nat /\ wire[i].seq > 0 /\ wire[i].run \in Nat
  <2>1. wire[i] \in Event
    BY <1>1, ElementOfSeq
  <2> QED BY <2>1 DEF Event, Entry, Runs
<1>6. ASSUME NEW i \in 1 .. Len(outbox)
      PROVE  outbox[i].run \in Nat /\ outbox[i].told \in Nat
  <2>1. outbox[i] \in Note
    BY <1>1, ElementOfSeq
  <2> QED BY <2>1 DEF Note, Runs
<1>7. ingest.run \in Nat /\ cursor \in Nat /\ faults \in Nat
  BY DEF TypeOK, Ingest
<1> QED BY <1>2, <1>3, <1>4, <1>5, <1>6, <1>7

\* The buffer and the connection hold no settling they did not hold, the
\* connection in the order it had them: f says where an event was.
BufferKept(f) ==
    /\ Len(ended') >= Len(ended)
    /\ \A i \in 1 .. Len(log') :
          log'[i] \in Runs => i \in 1 .. Len(log) /\ log'[i] = log[i]
    /\ \A i \in 1 .. Len(wire') :
          wire'[i].run \in Runs => f[i] \in 1 .. Len(wire) /\ wire'[i] = wire[f[i]]
    /\ \A i, j \in 1 .. Len(wire') : i < j => f[i] < f[j]

\* What was later than all that was received still is.
LaterKept == \A r \in Runs : Later(r) => Later(r)'

LEMMA LogFrame ==
    ASSUME TypeOK, TypeOK', LogInv, NEW f, BufferKept(f)
    PROVE  LogInv'
<1>1. Len(ended) \in Nat /\ Len(ended') \in Nat /\ \A r \in Runs : r \in Nat
  BY EventsAssumption DEF TypeOK, Runs
<1>2. ASSUME NEW i \in 1 .. Len(log'), log'[i] \in Runs PROVE log'[i] <= Len(ended')
  BY <1>1, <1>2 DEF BufferKept, LogInv
<1>3. ASSUME NEW i \in 1 .. Len(log'), NEW j \in 1 .. Len(log'), i < j,
             log'[i] \in Runs, log'[j] \in Runs
      PROVE  log'[i] < log'[j]
  BY <1>3 DEF BufferKept, LogInv
<1>4. ASSUME NEW i \in 1 .. Len(wire'), wire'[i].run \in Runs
      PROVE  wire'[i].run <= Len(ended')
  BY <1>1, <1>4 DEF BufferKept, LogInv
<1>5. ASSUME NEW i \in 1 .. Len(wire'), NEW j \in 1 .. Len(log'), wire'[i].seq < j,
             wire'[i].run \in Runs, log'[j] \in Runs
      PROVE  wire'[i].run < log'[j]
  BY <1>5 DEF BufferKept, LogInv
<1>6. ASSUME NEW i \in 1 .. Len(wire'), NEW j \in 1 .. Len(wire'), i < j,
             wire'[i].seq < wire'[j].seq, wire'[i].run \in Runs, wire'[j].run \in Runs
      PROVE  wire'[i].run < wire'[j].run
  BY <1>6 DEF BufferKept, LogInv
<1> QED BY <1>2, <1>3, <1>4, <1>5, <1>6 DEF LogInv

LEMMA AheadFrame ==
    ASSUME TypeOK, TypeOK', AheadInv, NEW f, BufferKept(f), cursor' >= cursor, LaterKept
    PROVE  AheadInv'
<1>1. cursor \in Nat /\ cursor' \in Nat
  BY DEF TypeOK
<1>2. ASSUME NEW i \in 1 .. Len(log'), i > cursor', log'[i] \in Runs
      PROVE  Later(log[i])'
  BY <1>1, <1>2 DEF BufferKept, AheadInv, LaterKept
<1>3. ASSUME NEW i \in 1 .. Len(wire'), wire'[i].seq > cursor', wire'[i].run \in Runs
      PROVE  Later(wire[i].run)'
  <2>1. wire'[i].seq \in Nat
    <3>1. wire'[i] \in Event
      BY ElementOfSeq DEF TypeOK
    <3> QED BY <3>1 DEF Event, Runs
  <2>2. wire'[i].seq > cursor /\ f[i] \in 1 .. Len(wire) /\ wire'[i] = wire[f[i]]
    BY <1>1, <1>3, <2>1 DEF BufferKept
  <2> QED BY <1>3, <2>2 DEF AheadInv, LaterKept
<1> QED BY <1>2, <1>3 DEF AheadInv

\* What was received, processed or announced, without what was announced anew.
LEMMA ReceivedFrame ==
    ASSUME EventsInv, TypeOK', Len(ended') >= Len(ended), UNCHANGED handled,
           \/ ingest'.run = ingest.run /\ (ingest'.at # "idle" => ingest.at # "idle")
           \/ ingest'.run = 0 /\ ingest'.at = "idle",
           ingest'.at \in {"record", "notify"} => ingest.at \in {"record", "notify"},
           Len(outbox') = Len(outbox),
           \A k \in 1 .. Len(outbox) : outbox'[k].run = outbox[k].run
    PROVE  LaterKept /\ OrderInv'
<1>1. /\ \A k \in 1 .. Len(handled) : handled[k] \in Nat
      /\ \A k \in 1 .. Len(outbox) : outbox[k].run \in Nat
      /\ Len(ended) \in Nat /\ ingest.run \in Nat
  BY Elements DEF EventsInv
<1>2. OrderInv
  BY DEF EventsInv
<1>3. Len(ended') \in Nat
  BY DEF TypeOK
<1>4. LaterKept
  BY EventsAssumption DEF LaterKept, Later, Runs
<1>5. HandledInOrder'
  BY <1>2 DEF OrderInv, HandledInOrder
<1>6. OrderInv'
  <2>1. /\ ingest'.run <= Len(ended')
        /\ \A k \in 1 .. Len(handled) : handled[k] <= Len(ended')
        /\ \A k \in 1 .. Len(outbox) : outbox'[k].run <= Len(ended')
    BY <1>1, <1>2, <1>3 DEF OrderInv
  <2>2. ingest'.at # "idle" => \A k \in 1 .. Len(handled) : handled[k] < ingest'.run
    BY <1>2 DEF OrderInv
  <2>3. ingest'.at \in {"record", "notify"} =>
            \A k \in 1 .. Len(outbox) : outbox'[k].run < ingest'.run
    BY <1>2 DEF OrderInv
  <2> QED BY <1>2, <1>5, <2>1, <2>2, <2>3 DEF OrderInv
<1> QED BY <1>4, <1>6

\* Notifications that are left alone.
LEMMA ToldFrame ==
    ASSUME ToldInv, UNCHANGED <<outbox, sender, faults>>
    PROVE  ToldInv'
  BY DEF ToldInv

\* A fault allows one more injection of each notification.
LEMMA ToldFault ==
    ASSUME TypeOK, ToldInv, outbox' = outbox, faults' = faults + 1
    PROVE  ToldInv'
<1>1. ASSUME NEW i \in 1 .. Len(outbox) PROVE outbox[i].told <= faults + 1 + 1
  <2>1. outbox[i].told \in Nat /\ faults \in Nat
    BY Elements
  <2> QED BY <2>1 DEF ToldInv
<1>2. ASSUME NEW i \in 1 .. Len(outbox) PROVE outbox[i].told <= faults + 1
  BY DEF ToldInv
<1> QED BY <1>1, <1>2 DEF ToldInv

\* Every action keeps the order of the runs and the count of the injections.
LEMMA OrderStep ==
    EventsInv /\ [Next]_vars => LogInv' /\ AheadInv' /\ OrderInv' /\ ToldInv'
<1> DEFINE Unharmed == LogInv' /\ AheadInv' /\ OrderInv' /\ ToldInv'
<1> SUFFICES ASSUME EventsInv, [Next]_vars PROVE Unharmed
  OBVIOUS
<1> USE EventsAssumption DEF agentVars, linkVars, storeVars, boundVars, Fault
<1>0. /\ TypeOK /\ Bounds /\ LogInv /\ AheadInv /\ OrderInv /\ ToldInv
      /\ TypeOK' /\ Bounds'
      /\ Len(ended) \in Nat /\ Len(log) \in Nat /\ Len(wire) \in Nat /\ cursor \in Nat
  BY TypesStep, Elements DEF EventsInv
<1> DEFINE same == [i \in Nat |-> i]
<1>1. ASSUME UNCHANGED <<log, ended>>, wire' = wire \/ wire' = <<>>
      PROVE  BufferKept(same)
  BY <1>0, <1>1 DEF BufferKept
<1>2. ASSUME UNCHANGED <<log, ended, wire, cursor, ingest, handled, outbox, sender,
                         faults>>
      PROVE  Unharmed
  BY <1>0, <1>1, <1>2, LogFrame, AheadFrame, ReceivedFrame, ToldFrame
<1>3. CASE \/ \E t \in Tasks : Submit(t) \/ PromptArrives(t)
           \/ MarkRunning \/ LocalPrompt \/ Connect \/ Resubscribe \/ UNCHANGED vars
  BY <1>2, <1>3
  DEF Submit, PromptArrives, MarkRunning, LocalPrompt, Connect, Resubscribe, vars
<1>4. CASE RunSettles
  <2> DEFINE n == Len(log) + 1
             r == Len(ended) + 1
  <2>1. UNCHANGED <<cursor, ingest, handled, outbox, sender, faults>>
    BY <1>4 DEF RunSettles
  <2>2. /\ Len(log') = n /\ log'[n] = r /\ Len(ended') = r
        /\ \A i \in 1 .. Len(log) : log'[i] = log[i]
    BY <1>0, <1>4 DEF RunSettles, Settle, TypeOK
  <2>3. \A i \in 1 .. Len(wire') :
          \/ i \in 1 .. Len(wire) /\ wire'[i] = wire[i]
          \/ i = Len(wire) + 1 /\ wire'[i] = [seq |-> n, run |-> r]
    <3>1. CASE link.subscribed
      <4>1. wire' = Append(wire, [seq |-> n, run |-> r]) /\ wire \in Seq(Event)
        BY <1>0, <1>4, <3>1 DEF RunSettles, TypeOK
      <4> QED BY <1>0, <4>1
    <3>2. CASE ~link.subscribed
      BY <1>4, <3>2 DEF RunSettles
    <3> QED BY <3>1, <3>2
  <2>4. \A i \in 1 .. Len(log') : i \in 1 .. Len(log) \/ i = n
    BY <1>0, <2>2
  <2> HIDE DEF n, r
  <2>5. n = Len(log) + 1 /\ r = Len(ended) + 1 /\ \A q \in Runs : q \in Nat
    BY DEF n, r, Runs
  <2>6. LogInv'
    <3>1. \A i \in 1 .. Len(log') : log'[i] \in Runs => log'[i] <= Len(ended')
      BY <1>0, <2>2, <2>4, <2>5 DEF LogInv
    <3>2. ASSUME NEW i \in 1 .. Len(log'), NEW j \in 1 .. Len(log'), i < j,
                 log'[i] \in Runs, log'[j] \in Runs
          PROVE  log'[i] < log'[j]
      <4>1. i \in 1 .. Len(log) /\ log'[i] = log[i]
        BY <1>0, <2>2, <2>4, <2>5, <3>2
      <4>2. CASE j = n
        <5>1. log[i] <= Len(ended) /\ log[i] \in Nat
          BY <1>0, <2>5, <3>2, <4>1 DEF LogInv
        <5> QED BY <1>0, <2>2, <2>5, <4>1, <4>2, <5>1
      <4>3. CASE j \in 1 .. Len(log)
        BY <1>0, <2>2, <3>2, <4>1, <4>3 DEF LogInv
      <4> QED BY <2>4, <4>2, <4>3
    <3>3. \A i \in 1 .. Len(wire') : wire'[i].run \in Runs => wire'[i].run <= Len(ended')
      BY <1>0, <2>2, <2>3, <2>5 DEF LogInv
    <3>4. ASSUME NEW i \in 1 .. Len(wire'), NEW j \in 1 .. Len(log'), wire'[i].seq < j,
                 wire'[i].run \in Runs, log'[j] \in Runs
          PROVE  wire'[i].run < log'[j]
      <4>1. i \in 1 .. Len(wire) /\ wire'[i] = wire[i]
        BY <1>0, <2>2, <2>3, <2>5, <3>4
      <4>2. CASE j = n
        <5>1. wire[i].run <= Len(ended) /\ wire[i].run \in Nat
          BY <1>0, <2>5, <3>4, <4>1 DEF LogInv
        <5> QED BY <1>0, <2>2, <2>5, <4>1, <4>2, <5>1
      <4>3. CASE j \in 1 .. Len(log)
        BY <1>0, <2>2, <3>4, <4>1, <4>3 DEF LogInv
      <4> QED BY <2>4, <4>2, <4>3
    <3>5. ASSUME NEW i \in 1 .. Len(wire'), NEW j \in 1 .. Len(wire'), i < j,
                 wire'[i].seq < wire'[j].seq, wire'[i].run \in Runs,
                 wire'[j].run \in Runs
          PROVE  wire'[i].run < wire'[j].run
      <4>1. i \in 1 .. Len(wire) /\ wire'[i] = wire[i]
        BY <1>0, <2>3, <3>5
      <4>2. CASE wire'[j] = [seq |-> n, run |-> r]
        <5>1. wire[i].run <= Len(ended) /\ wire[i].run \in Nat
          BY <1>0, <2>5, <3>5, <4>1 DEF LogInv
        <5> QED BY <1>0, <2>5, <4>1, <4>2, <5>1
      <4>3. CASE j \in 1 .. Len(wire) /\ wire'[j] = wire[j]
        BY <1>0, <3>5, <4>1, <4>3 DEF LogInv
      <4> QED BY <2>3, <4>2, <4>3
    <3> QED BY <3>1, <3>2, <3>3, <3>4, <3>5 DEF LogInv
  <2>7. Later(r)
    <3>1. /\ ingest.run <= Len(ended)
          /\ \A k \in 1 .. Len(handled) : handled[k] <= Len(ended)
          /\ \A k \in 1 .. Len(outbox) : outbox[k].run <= Len(ended)
      BY <1>0 DEF OrderInv
    <3>2. /\ ingest.run \in Nat
          /\ \A k \in 1 .. Len(handled) : handled[k] \in Nat
          /\ \A k \in 1 .. Len(outbox) : outbox[k].run \in Nat
      BY <1>0, Elements
    <3>3. ASSUME NEW q \in Nat, q <= Len(ended) PROVE q < r
      BY <1>0, <2>5, <3>3
    <3> QED BY <3>1, <3>2, <3>3 DEF Later
  <2>8. \A q : Later(q) => Later(q)'
    BY <2>1 DEF Later
  <2>9. AheadInv'
    <3>1. \A i \in 1 .. Len(log') :
              i > cursor' /\ log'[i] \in Runs => Later(log[i])'
      BY <1>0, <2>1, <2>2, <2>4, <2>7, <2>8 DEF AheadInv
    <3>2. \A i \in 1 .. Len(wire') :
              wire'[i].seq > cursor' /\ wire'[i].run \in Runs => Later(wire[i].run)'
      BY <1>0, <2>1, <2>3, <2>7, <2>8 DEF AheadInv
    <3> QED BY <3>1, <3>2 DEF AheadInv
  <2>10. OrderInv'
    <3>1. Len(ended') >= Len(ended)
      BY <1>0, <2>2, <2>5
    <3> QED BY <1>0, <2>1, <3>1, ReceivedFrame
  <2> QED BY <1>0, <2>1, <2>6, <2>9, <2>10, ToldFrame
<1>5. CASE ServeSubscription
  <2>1. UNCHANGED <<log, ended, cursor, ingest, handled, outbox, sender, faults>>
    BY <1>5 DEF ServeSubscription
  <2> DEFINE replay == Replay(link.request)
  <2>2. link.request \in Nat /\ Len(log) <= MaxRuns /\ log \in Seq(Entry)
    BY <1>0 DEF TypeOK, Bounds, Link, NoRequest
  <2>3. /\ replay \in Seq(Event)
        /\ \A i \in 1 .. Len(replay) : /\ replay[i].seq \in 1 .. Len(log)
                                       /\ replay[i].run = log[replay[i].seq]
    BY <2>2, ReplayProperties
  <2> HIDE DEF replay
  <2>4. wire' = wire \o replay /\ wire \in Seq(Event)
    BY <1>0, <1>5 DEF ServeSubscription, TypeOK, replay
  <2>5. ASSUME NEW i \in 1 .. Len(wire')
        PROVE  \/ i \in 1 .. Len(wire) /\ wire'[i] = wire[i]
               \/ /\ i > Len(wire) /\ wire'[i].seq \in 1 .. Len(log)
                  /\ wire'[i].run = log[wire'[i].seq]
    <3>1. /\ Len(replay) \in Nat /\ Len(wire') = Len(wire) + Len(replay)
          /\ i <= Len(wire) => wire'[i] = wire[i]
          /\ i > Len(wire) => wire'[i] = replay[i - Len(wire)]
      BY <1>0, <2>3, <2>4, <2>5, ConcatProperties
    <3>2. CASE i <= Len(wire)
      BY <1>0, <3>1, <3>2
    <3>3. CASE i > Len(wire)
      <4>1. i - Len(wire) \in 1 .. Len(replay)
        BY <1>0, <2>5, <3>1, <3>3
      <4> QED BY <2>3, <3>1, <3>3, <4>1
    <3> QED BY <1>0, <3>2, <3>3
  <2>6. LogInv'
    <3>1. \A i \in 1 .. Len(wire') : wire'[i].run \in Runs => wire'[i].run <= Len(ended)
      BY <1>0, <2>5 DEF LogInv
    <3>2. \A i \in 1 .. Len(wire'), j \in 1 .. Len(log) :
            wire'[i].seq < j /\ wire'[i].run \in Runs /\ log[j] \in Runs
                => wire'[i].run < log[j]
      BY <1>0, <2>5 DEF LogInv
    <3>3. ASSUME NEW i \in 1 .. Len(wire'), NEW j \in 1 .. Len(wire'), i < j,
                 wire'[i].seq < wire'[j].seq, wire'[i].run \in Runs,
                 wire'[j].run \in Runs
          PROVE  wire'[i].run < wire'[j].run
      <4>1. CASE j \in 1 .. Len(wire) /\ wire'[j] = wire[j]
        <5>1. i \in 1 .. Len(wire) /\ wire'[i] = wire[i]
          BY <1>0, <2>5, <3>3, <4>1
        <5> QED BY <1>0, <3>3, <4>1, <5>1 DEF LogInv
      <4>2. CASE wire'[j].seq \in 1 .. Len(log) /\ wire'[j].run = log[wire'[j].seq]
        BY <3>2, <3>3, <4>2
      <4> QED BY <2>5, <4>1, <4>2
    <3> QED BY <1>0, <2>1, <3>1, <3>2, <3>3 DEF LogInv
  <2>7. \A q : Later(q) => Later(q)'
    BY <2>1 DEF Later
  <2>8. AheadInv'
    <3>1. \A i \in 1 .. Len(wire') :
              wire'[i].seq > cursor /\ wire'[i].run \in Runs => Later(wire'[i].run)
      BY <1>0, <2>5 DEF AheadInv
    <3> QED BY <1>0, <2>1, <2>7, <3>1 DEF AheadInv
  <2>9. OrderInv'
    BY <1>0, <2>1, ReceivedFrame
  <2> QED BY <1>0, <2>1, <2>6, <2>8, <2>9, ToldFrame
<1>6. CASE Disconnect
  <2>1. /\ UNCHANGED <<log, ended, cursor, ingest, handled, outbox, sender, faults>>
        /\ wire' = <<>>
    BY <1>6 DEF Disconnect
  <2> QED BY <1>0, <1>1, <2>1, LogFrame, AheadFrame, ReceivedFrame, ToldFrame
<1>7. CASE Receive
  <2>1. /\ UNCHANGED <<log, ended, handled, outbox, sender, faults>>
        /\ ingest.at = "idle" /\ wire # <<>> /\ wire' = Tail(wire)
    BY <1>7 DEF Receive
  <2>2. /\ wire \in Seq(Event) /\ Len(wire) # 0 /\ Head(wire) = wire[1]
        /\ 1 \in 1 .. Len(wire)
    BY <1>0, <2>1, EmptySeq DEF TypeOK
  <2> DEFINE next == [i \in Nat |-> i + 1]
  <2>3. /\ Len(wire') = Len(wire) - 1
        /\ \A i \in 1 .. Len(wire') : i + 1 \in 1 .. Len(wire) /\ wire'[i] = wire[i + 1]
    BY <1>0, <2>1, <2>2, HeadTailProperties
  <2>4. BufferKept(next)
    BY <1>0, <2>1, <2>3 DEF BufferKept
  <2>5. LogInv'
    BY <1>0, <2>4, LogFrame
  <2> DEFINE event == wire[1]
             fresh == event.run # Trimmed /\ event.seq > cursor
  <2>6. event.seq \in Nat /\ event.run \in 0 .. Trimmed
    <3>1. event \in Event
      BY <2>2
    <3> QED BY <3>1 DEF Event, Entry, Runs
  <2>7. CASE fresh /\ event.run # Other
    <3>1. /\ cursor' = event.seq
          /\ ingest' = [at |-> "record", seq |-> event.seq, run |-> event.run, tasks |-> {}]
      BY <1>7, <2>2, <2>7 DEF Receive
    <3>2. event.run \in Runs /\ event.seq > cursor
      BY <2>6, <2>7 DEF Runs, Trimmed, Other
    <3> HIDE DEF event, fresh
    <3>3. Later(event.run) /\ event.run <= Len(ended)
      BY <1>0, <2>2, <3>2 DEF AheadInv, LogInv, event
    <3>4. AheadInv'
      <4>1. ASSUME NEW i \in 1 .. Len(log), i > event.seq, log[i] \in Runs
            PROVE  event.run < log[i] /\ Later(log[i])
        <5>1. i > cursor
          BY <1>0, <2>6, <3>2, <4>1
        <5> QED BY <1>0, <2>2, <3>2, <4>1, <5>1 DEF LogInv, AheadInv, event
      <4>2. ASSUME NEW i \in 1 .. Len(wire'), wire'[i].seq > event.seq,
                   wire'[i].run \in Runs
            PROVE  event.run < wire'[i].run /\ Later(wire'[i].run)
        <5>1. i + 1 \in 1 .. Len(wire) /\ wire'[i] = wire[i + 1] /\ 1 < i + 1
          BY <1>0, <2>3
        <5>2. wire[i + 1].seq \in Nat
          BY <1>0, <5>1, Elements
        <5>3. wire[i + 1].seq > cursor
          BY <1>0, <2>6, <3>2, <4>2, <5>1, <5>2
        <5>4. event.run < wire[i + 1].run
          BY <1>0, <2>2, <3>2, <4>2, <5>1, <5>2, <2>6 DEF LogInv, event
        <5> QED BY <1>0, <4>2, <5>1, <5>3, <5>4 DEF AheadInv
      <4> QED BY <2>1, <3>1, <4>1, <4>2 DEF AheadInv, Later
    <3>5. OrderInv'
      BY <1>0, <2>1, <3>1, <3>3 DEF OrderInv, HandledInOrder, Later
    <3> QED BY <1>0, <2>1, <2>5, <3>4, <3>5, ToldFrame
  <2>8. CASE ~(fresh /\ event.run # Other)
    <3>1. cursor' >= cursor /\ ingest' = NoIngest
      BY <1>0, <1>7, <2>2, <2>6, <2>8 DEF Receive
    <3>2. ingest'.run = 0 /\ ingest'.at = "idle"
      BY <3>1 DEF NoIngest
    <3>3. LaterKept /\ OrderInv'
      BY <1>0, <2>1, <3>2, ReceivedFrame
    <3> QED BY <1>0, <2>1, <2>4, <2>5, <3>1, <3>3, AheadFrame, ToldFrame
  <2> QED BY <2>7, <2>8
<1>8. CASE Record \/ ListTasks \/ \E t \in Tasks : Complete(t)
  <2>1. /\ UNCHANGED <<log, ended, wire, cursor, handled, outbox, sender, faults>>
        /\ ingest.at # "idle"
    BY <1>8 DEF Record, ListTasks, Complete
  <2>2. /\ ingest'.run = ingest.run
        /\ ingest'.at \in {"record", "notify"} => ingest.at \in {"record", "notify"}
    <3>1. ingest \in Ingest
      BY <1>0 DEF TypeOK
    <3> QED BY <1>8, <3>1 DEF Record, ListTasks, Complete, Ingest
  <2> QED BY <1>0, <1>1, <2>1, <2>2, LogFrame, AheadFrame, ReceivedFrame, ToldFrame
<1>9. CASE Notify
  <2> DEFINE note == [run |-> ingest.run, status |-> "pending", attempts |-> 0, told |-> 0]
  <2>1. /\ UNCHANGED <<log, ended, wire, cursor, handled, sender, faults>>
        /\ ingest.at = "notify" /\ ingest' = [ingest EXCEPT !.at = "list"]
        /\ outbox' = outbox \/ outbox' = Append(outbox, note)
    BY <1>9 DEF Notify
  <2>2. ingest'.run = ingest.run /\ ingest'.at = "list"
    BY <1>0, <2>1 DEF TypeOK, Ingest
  <2>3. BufferKept(same) /\ LogInv'
    BY <1>0, <1>1, <2>1, LogFrame
  <2>4. CASE outbox' = outbox
    BY <1>0, <2>1, <2>2, <2>3, <2>4, AheadFrame, ReceivedFrame, ToldFrame
  <2>5. CASE outbox' = Append(outbox, note)
    <3> DEFINE n == Len(outbox) + 1
    <3>1. /\ Len(outbox) \in Nat /\ Len(outbox') = n
          /\ outbox'[n] = note /\ note.run = ingest.run /\ note.told = 0
          /\ \A k \in 1 .. Len(outbox) : outbox'[k] = outbox[k]
      BY <1>0, <2>5 DEF TypeOK
    <3> HIDE DEF note
    <3>2. ASSUME NEW k \in 1 .. Len(outbox')
          PROVE  \/ k \in 1 .. Len(outbox) /\ outbox'[k] = outbox[k]
                 \/ k = n /\ outbox'[k].run = ingest.run /\ outbox'[k].told = 0
      BY <3>1
    <3>3. faults \in Nat /\ sender \in 0 .. Len(outbox)
      BY <1>0 DEF TypeOK
    <3>4. AheadInv'
      <4>1. LaterKept
        BY <2>1, <2>2, <3>2 DEF LaterKept, Later
      <4> QED BY <1>0, <2>1, <2>3, <4>1, AheadFrame
    <3>5. \A i, j \in 1 .. Len(outbox') : i < j => outbox'[i].run < outbox'[j].run
      <4> SUFFICES ASSUME NEW i \in 1 .. Len(outbox'), NEW j \in 1 .. Len(outbox'), i < j
                   PROVE  outbox'[i].run < outbox'[j].run
        OBVIOUS
      <4>1. i \in 1 .. Len(outbox) /\ outbox'[i] = outbox[i]
        BY <3>1, <3>2
      <4>2. CASE j \in 1 .. Len(outbox) /\ outbox'[j] = outbox[j]
        BY <1>0, <4>1, <4>2 DEF OrderInv
      <4>3. CASE outbox'[j].run = ingest.run
        BY <1>0, <2>1, <4>1, <4>3 DEF OrderInv
      <4> QED BY <3>2, <4>2, <4>3
    <3>6. \A k \in 1 .. Len(outbox') : outbox'[k].run <= Len(ended)
      BY <1>0, <3>2 DEF OrderInv
    <3>7. OrderInv'
      BY <1>0, <2>1, <2>2, <3>5, <3>6 DEF OrderInv, HandledInOrder
    <3>8. ToldInv'
      <4> SUFFICES ASSUME NEW k \in 1 .. Len(outbox')
                   PROVE  /\ outbox'[k].told <= faults + 1
                          /\ outbox'[k].status = "pending" /\ sender # k
                                => outbox'[k].told <= faults
        BY <2>1 DEF ToldInv
      <4> QED BY <1>0, <3>2, <3>3 DEF ToldInv
    <3> QED BY <2>3, <3>4, <3>7, <3>8
  <2> QED BY <2>1, <2>4, <2>5
<1>10. CASE Return
  <2>1. /\ UNCHANGED <<log, ended, wire, cursor, outbox, sender, faults>>
        /\ ingest.at = "complete" /\ handled' = Append(handled, ingest.run)
        /\ ingest' = NoIngest
    BY <1>10 DEF Return
  <2>2. ingest'.run = 0 /\ ingest'.at = "idle"
    BY <2>1 DEF NoIngest
  <2> DEFINE n == Len(handled) + 1
  <2>3. /\ Len(handled) \in Nat /\ Len(handled') = n /\ handled'[n] = ingest.run
        /\ \A k \in 1 .. Len(handled) : handled'[k] = handled[k]
    BY <1>0, <2>1 DEF TypeOK
  <2>4. \A k \in 1 .. Len(handled') : \/ k \in 1 .. Len(handled) /\ handled'[k] = handled[k]
                                      \/ k = n /\ handled'[k] = ingest.run
    BY <2>3
  <2>5. Len(ended) \in Nat /\ \A i \in 1 .. Len(log) : log[i] \in Nat
    BY <1>0, Elements
  <2>6. AheadInv'
    <3>1. \A r \in Runs : r > 0
      BY DEF Runs
    <3>2. LaterKept
      BY <2>1, <2>2, <2>4, <3>1 DEF LaterKept, Later
    <3> QED BY <1>0, <1>1, <2>1, <3>2, AheadFrame
  <2>7. \A k \in 1 .. Len(handled') : handled'[k] <= Len(ended)
    BY <1>0, <2>4 DEF OrderInv
  <2>8. HandledInOrder'
    <3> SUFFICES ASSUME NEW i \in 1 .. Len(handled'), NEW j \in 1 .. Len(handled'), i < j
                 PROVE  handled'[i] < handled'[j]
      BY DEF HandledInOrder
    <3>1. i \in 1 .. Len(handled) /\ handled'[i] = handled[i]
      BY <2>3, <2>4
    <3>2. CASE j \in 1 .. Len(handled) /\ handled'[j] = handled[j]
      BY <1>0, <3>1, <3>2 DEF OrderInv, HandledInOrder
    <3>3. CASE handled'[j] = ingest.run
      BY <1>0, <2>1, <3>1, <3>3 DEF OrderInv
    <3> QED BY <2>4, <3>2, <3>3
  <2>9. OrderInv'
    BY <1>0, <2>1, <2>2, <2>5, <2>7, <2>8 DEF OrderInv
  <2> QED BY <1>0, <1>1, <2>1, <2>6, <2>9, LogFrame, ToldFrame
<1>11. ASSUME NEW i \in 1 .. Len(outbox), NEW note, outbox' = [outbox EXCEPT ![i] = note],
              note.run = outbox[i].run,
              UNCHANGED <<log, ended, wire, cursor, ingest, handled, faults>>,
              note.told <= faults + 1,
              note.status = "pending" /\ sender' # i => note.told <= faults,
              \A k \in 1 .. Len(outbox) : sender # k \/ k = i \/ sender' = k
       PROVE  Unharmed
  <2>1. /\ Len(outbox') = Len(outbox) /\ outbox'[i] = note
        /\ \A k \in 1 .. Len(outbox) : k # i => outbox'[k] = outbox[k]
    BY <1>0, <1>11 DEF TypeOK
  <2>2. \A k \in 1 .. Len(outbox) : outbox'[k].run = outbox[k].run
    BY <1>11, <2>1
  <2>3. ToldInv'
    BY <1>0, <1>11, <2>1 DEF ToldInv
  <2> QED BY <1>0, <1>1, <1>11, <2>1, <2>2, <2>3, LogFrame, AheadFrame, ReceivedFrame
<1>12. ASSUME NEW i \in 1 .. Len(outbox), Inject(i) PROVE Unharmed
  <2> DEFINE note == [outbox[i] EXCEPT !.told = @ + 1]
  <2>1. /\ outbox[i] \in Note /\ outbox[i].status = "pending" /\ sender = 0
        /\ faults \in Nat
    BY <1>0, <1>12 DEF TypeOK, Inject, Due
  <2>2. outbox[i].told <= faults /\ outbox[i].told \in Nat
    BY <1>0, <2>1 DEF ToldInv, Note
  <2>3. note.run = outbox[i].run /\ note.told = outbox[i].told + 1
    BY <2>1 DEF Note
  <2>4. outbox' = [outbox EXCEPT ![i] = note] /\ sender' = i
    BY <1>12 DEF Inject
  <2> HIDE DEF note
  <2>5. UNCHANGED <<log, ended, wire, cursor, ingest, handled, faults>>
    BY <1>12 DEF Inject
  <2>6. /\ note.told <= faults + 1
        /\ \A k \in 1 .. Len(outbox) : sender # k
    BY <2>1, <2>2, <2>3
  <2> QED BY <1>11, <2>3, <2>4, <2>5, <2>6
<1>13. ASSUME NEW i \in 1 .. Len(outbox), InjectFails(i) PROVE Unharmed
  <2> DEFINE attempts == outbox[i].attempts + 1
             status == IF attempts >= MaxAttempts THEN "failed" ELSE "pending"
             note == [outbox[i] EXCEPT !.attempts = attempts, !.status = status]
  <2>1. /\ outbox[i] \in Note /\ outbox[i].status = "pending" /\ sender = 0
        /\ faults \in Nat
    BY <1>0, <1>13 DEF TypeOK, InjectFails, Due
  <2>2. outbox[i].told <= faults /\ outbox[i].told \in Nat
    BY <1>0, <2>1 DEF ToldInv, Note
  <2>3. outbox' = [outbox EXCEPT ![i] = note]
    BY <1>13 DEF InjectFails
  <2>4. note.run = outbox[i].run /\ note.told = outbox[i].told
    <3> HIDE DEF attempts, status
    <3> QED BY <2>1 DEF Note
  <2> HIDE DEF note
  <2>5. UNCHANGED <<log, ended, wire, cursor, ingest, handled, sender, faults>>
    BY <1>13 DEF InjectFails
  <2>6. /\ note.told <= faults /\ note.told <= faults + 1
        /\ \A k \in 1 .. Len(outbox) : sender # k
    BY <2>1, <2>2, <2>4
  <2> QED BY <1>11, <2>3, <2>4, <2>5, <2>6
<1>14. CASE MarkSent
  <2> DEFINE note == [outbox[sender] EXCEPT !.status = "sent"]
  <2>1. sender \in 1 .. Len(outbox) /\ outbox[sender] \in Note
    BY <1>0, <1>14 DEF MarkSent, TypeOK
  <2>2. outbox[sender].told <= faults + 1
    BY <1>0, <2>1 DEF ToldInv
  <2>3. /\ note.run = outbox[sender].run /\ note.told = outbox[sender].told
        /\ note.status = "sent"
    BY <2>1 DEF Note
  <2>4. outbox' = [outbox EXCEPT ![sender] = note] /\ sender' = 0
    BY <1>14 DEF MarkSent
  <2> HIDE DEF note
  <2>5. UNCHANGED <<log, ended, wire, cursor, ingest, handled, faults>>
    BY <1>14 DEF MarkSent
  <2> QED BY <1>11, <2>1, <2>2, <2>3, <2>4, <2>5
<1>15. CASE Raise \/ Crash
  <2>1. /\ UNCHANGED <<log, ended, cursor, handled, outbox>>
        /\ wire' = <<>> /\ ingest' = NoIngest /\ faults' = faults + 1
    BY <1>15 DEF Raise, Crash
  <2>2. ingest'.run = 0 /\ ingest'.at = "idle"
    BY <2>1 DEF NoIngest
  <2> QED BY <1>0, <1>1, <2>1, <2>2, LogFrame, AheadFrame, ReceivedFrame, ToldFault
<1>16. ASSUME NEW n \in 0 .. MaxRuns, Restart(n) \/ Wipe(n) PROVE Unharmed
  <2>1. /\ UNCHANGED <<ended, cursor, ingest, handled, outbox>> /\ faults' = faults + 1
        /\ log' = Renumbered(n) /\ n \in Nat /\ n <= MaxRuns
    BY <1>16 DEF Restart, Wipe, Renumber
  <2>2. Len(log') = n /\ \A i \in 1 .. n : log'[i] \notin Runs
    BY <2>1, RenumberedProperties
  <2> DEFINE events == [i \in 1 .. n |-> [seq |-> i, run |-> Other]]
  <2>3. ASSUME NEW i \in 1 .. Len(wire'), wire'[i].run \in Runs
        PROVE  i \in 1 .. Len(wire) /\ wire'[i] = wire[i]
    <3>1. events \in Seq(Event) /\ Len(events) = n
      BY <2>1, RenumberedProperties
    <3>2. \A k \in 1 .. n : events[k].run \notin Runs
      BY DEF Other, Runs
    <3>3. wire' = <<>> \/ wire' = wire \/ wire' = wire \o events
      BY <1>16 DEF Restart, Wipe
    <3> HIDE DEF events
    <3>4. CASE wire' = <<>> \/ wire' = wire
      BY <1>0, <2>3, <3>4
    <3>5. CASE wire' = wire \o events
      <4>1. wire \in Seq(Event)
        BY <1>0 DEF TypeOK
      <4>2. /\ Len(wire') = Len(wire) + n
            /\ wire'[i] = IF i <= Len(wire) THEN wire[i] ELSE events[i - Len(wire)]
        BY <2>1, <2>3, <3>1, <3>5, <4>1, ConcatProperties
      <4>3. CASE i <= Len(wire)
        BY <1>0, <2>3, <4>2, <4>3
      <4>4. CASE i > Len(wire)
        <5>1. i - Len(wire) \in 1 .. n /\ wire'[i] = events[i - Len(wire)]
          BY <1>0, <2>1, <2>3, <4>2, <4>4
        <5> QED BY <2>3, <3>2, <5>1
      <4> QED BY <1>0, <4>3, <4>4
    <3> QED BY <3>3, <3>4, <3>5
  <2>4. BufferKept(same)
    BY <1>0, <2>1, <2>2, <2>3 DEF BufferKept
  <2> QED BY <1>0, <2>1, <2>4, LogFrame, AheadFrame, ReceivedFrame, ToldFault
<1>17. ASSUME NEW last \in 0 .. MaxRuns, Trim(last) PROVE Unharmed
  <2>1. /\ UNCHANGED <<ended, wire, cursor, ingest, handled, outbox>>
        /\ faults' = faults + 1
    BY <1>17 DEF Trim
  <2>2. /\ Len(log') = Len(log)
        /\ \A i \in 1 .. Len(log) : log'[i] = Trimmed \/ log'[i] = log[i]
    <3>1. /\ DOMAIN log = 1 .. Len(log) /\ log' \in Seq(Entry)
          /\ log' = [seq \in DOMAIN log |-> IF seq <= last THEN Trimmed ELSE log[seq]]
      BY <1>0, <1>17, LenProperties DEF Trim, TypeOK
    <3>2. DOMAIN log' = 1 .. Len(log)
      BY <3>1
    <3>3. Len(log') = Len(log)
      BY <1>0, <3>1, <3>2, LenProperties
    <3> QED BY <3>1, <3>3
  <2>3. Trimmed \notin Runs
    BY DEF Trimmed, Runs
  <2>4. BufferKept(same)
    BY <1>0, <2>1, <2>2, <2>3 DEF BufferKept
  <2> QED BY <1>0, <2>1, <2>4, LogFrame, AheadFrame, ReceivedFrame, ToldFault
<1>18. ASSUME NEW first \in DOMAIN wire, NEW last \in DOMAIN wire,
              DropFrame(first, last)
       PROVE  Unharmed
  <2>1. /\ UNCHANGED <<log, ended, cursor, ingest, handled, outbox>>
        /\ wire' = Without(first, last) /\ faults' = faults + 1
        /\ first \in 1 .. Len(wire) /\ last \in first .. Len(wire)
    BY <1>0, <1>18 DEF DropFrame, TypeOK
  <2> DEFINE f == [i \in Nat |-> IF i < first THEN i ELSE i + (last - first + 1)]
  <2>2. \A i \in 1 .. Len(wire') : f[i] \in 1 .. Len(wire) /\ wire'[i] = wire[f[i]]
    <3>1. wire \in Seq(Event)
      BY <1>0 DEF TypeOK
    <3>2. \A i \in 1 .. Len(wire') :
            /\ i < first => i \in 1 .. Len(wire) /\ wire'[i] = wire[i]
            /\ i >= first => /\ i + (last - first + 1) \in 1 .. Len(wire)
                             /\ wire'[i] = wire[i + (last - first + 1)]
      BY <2>1, <3>1, CutProperties
    <3> QED BY <2>1, <3>2
  <2>3. ASSUME NEW i \in 1 .. Len(wire'), NEW j \in 1 .. Len(wire'), i < j
        PROVE  f[i] < f[j]
    <3>1. i \in Nat /\ j \in Nat /\ first \in Nat /\ last \in Nat /\ first <= last
      BY <1>0, <2>1
    <3>2. /\ f[i] = IF i < first THEN i ELSE i + (last - first + 1)
          /\ f[j] = IF j < first THEN j ELSE j + (last - first + 1)
      BY <3>1
    <3> HIDE DEF f
    <3>3. CASE i < first /\ j < first
      BY <2>3, <3>2, <3>3
    <3>4. CASE ~(j < first)
      <4>1. i < j + (last - first + 1) /\ i + (last - first + 1) < j + (last - first + 1)
        BY <2>3, <3>1
      <4> QED BY <3>2, <3>4, <4>1
    <3> QED BY <2>3, <3>1, <3>3, <3>4
  <2> HIDE DEF f
  <2>4. BufferKept(f)
    BY <1>0, <2>1, <2>2, <2>3 DEF BufferKept
  <2> QED BY <1>0, <2>1, <2>4, LogFrame, AheadFrame, ReceivedFrame, ToldFault
<1>19. CASE SettlesUnseen
  <2>1. /\ UNCHANGED <<log, wire, cursor, ingest, handled, outbox>>
        /\ faults' = faults + 1 /\ Len(ended') >= Len(ended)
    BY <1>0, <1>19 DEF SettlesUnseen, Settle, TypeOK
  <2>2. BufferKept(same)
    BY <1>0, <2>1 DEF BufferKept
  <2> QED BY <1>0, <2>1, <2>2, LogFrame, AheadFrame, ReceivedFrame, ToldFault
<1> QED
  BY <1>3, <1>4, <1>5, <1>6, <1>7, <1>8, <1>9, <1>10, <1>12, <1>13, <1>14, <1>15,
     <1>16, <1>17, <1>18, <1>19
  DEF Next, Agent, Reader, Notifier, Mishap

-----------------------------------------------------------------------------
(* Theorems *)

LEMMA EventsInvariant == Spec => []EventsInv
<1>1. EventsInv /\ [Next]_vars => EventsInv'
  BY TypesStep, OrderStep DEF EventsInv
<1> QED BY <1>1, EventsInit, PTL DEF Spec

\* The store, the connection, the outbox and the bookkeeping keep their types.
THEOREM EventsTyping == Spec => []TypeOK
<1>1. EventsInv => TypeOK
  BY DEF EventsInv
<1> QED BY <1>1, EventsInvariant, PTL

\* _ingest_event and the cursor: the settling of a run is processed at most
\* once and in order, whatever is replayed, lost, renumbered or restarted.
THEOREM SettledInOrder == Spec => []HandledInOrder
<1>1. EventsInv => HandledInOrder
  BY DEF EventsInv, OrderInv
<1> QED BY <1>1, EventsInvariant, PTL

\* notifications.py and add_activity: no run is announced twice, and none more
\* often than there were faults, and once.
THEOREM AnnouncedOnce == Spec => []ToldOnce
<1>1. ASSUME EventsInv PROVE ToldOnce
  <2>1. TypeOK /\ OrderInv /\ ToldInv
    BY <1>1 DEF EventsInv
  <2>2. /\ DOMAIN outbox = 1 .. Len(outbox) /\ Len(outbox) \in Nat /\ faults \in Nat
        /\ \A i \in 1 .. Len(outbox) : outbox[i].run \in Nat /\ outbox[i].told \in Nat
    BY <2>1, Elements, LenProperties DEF TypeOK
  <2>3. ASSUME NEW i \in 1 .. Len(outbox), NEW j \in 1 .. Len(outbox), i # j
        PROVE  outbox[i].run # outbox[j].run
    <3>1. i < j \/ j < i
      BY <2>2, <2>3
    <3> QED BY <2>1, <2>2, <3>1 DEF OrderInv
  <2>4. \A i \in 1 .. Len(outbox) : outbox[i].told <= 1 + faults
    BY <2>1, <2>2 DEF ToldInv
  <2> QED BY <2>2, <2>3, <2>4 DEF ToldOnce
<1>2. EventsInv => ToldOnce
  BY <1>1
<1> QED BY <1>2, EventsInvariant, PTL

-----------------------------------------------------------------------------
(* What is lost *)

\* An idle thread has no run; until the numbers begin again, the cursor and the
\* connection stay within the buffer.
NumberInv ==
    /\ ingest.at = "idle" => ingest.run = 0
    /\ ~renumbered =>
          /\ cursor <= Len(log)
          /\ \A i \in 1 .. Len(wire) : wire[i].seq <= Len(log)

\* A subscription asks for what comes after a cursor B had; nothing is on a
\* connection that has not subscribed.
LinkInv ==
    /\ ~link.up => link.request = NoRequest /\ ~link.subscribed
    /\ link.up /\ ~link.subscribed => link.request # NoRequest
    /\ ~link.subscribed => wire = <<>>
    /\ link.request # NoRequest => link.request <= cursor

\* The settling of run r, which the buffer holds at number seq, will be received
\* before any later event: it is on the connection, or a subscription that is
\* yet to be served will cover it.
OnWire(seq, r) ==
    \E i \in 1 .. Len(wire) :
        /\ wire[i].seq = seq /\ wire[i].run = r
        /\ \A j \in 1 .. Len(wire) : j < i => wire[j].seq < seq
Ahead(seq, r) ==
    /\ seq > cursor /\ log[seq] = r
    /\ link.subscribed => OnWire(seq, r)
Coming(r) == \E seq \in 1 .. Len(log) : Ahead(seq, r)

Handled(r) == \E k \in 1 .. Len(handled) : handled[k] = r

LossInv ==
    ~renumbered => \A r \in 1 .. Len(ended) :
        r \in hit \/ r = ingest.run \/ Handled(r) \/ Coming(r)

LEMMA LossInit == Init => NumberInv /\ LinkInv /\ LossInv
<1> SUFFICES ASSUME Init PROVE NumberInv /\ LinkInv /\ LossInv
  OBVIOUS
<1>1. Len(log) = 0 /\ Len(ended) = 0 /\ cursor = 0 /\ Len(wire) = 0
  BY DEF Init
<1>2. NumberInv
  BY <1>1 DEF Init, NumberInv, NoIngest
<1>3. LinkInv
  BY EventsAssumption DEF Init, LinkInv, Down, NoRequest
<1> QED BY <1>1, <1>2, <1>3 DEF LossInv

\* Every step keeps the numbers of the Dashboard.
LEMMA NumberStep == EventsInv /\ NumberInv /\ [Next]_vars => NumberInv'
<1> SUFFICES ASSUME EventsInv, NumberInv, [Next]_vars PROVE NumberInv'
  OBVIOUS
<1> USE DEF agentVars, linkVars, storeVars, boundVars, Fault
<1>0. /\ TypeOK /\ Bounds /\ Len(log) \in Nat /\ Len(wire) \in Nat /\ cursor \in Nat
      /\ \A i \in 1 .. Len(wire) : wire[i].seq \in Nat
  BY Elements DEF EventsInv
<1>1. ASSUME UNCHANGED <<ingest, renumbered, log, cursor>>, wire' = wire \/ wire' = <<>>
      PROVE  NumberInv'
  BY <1>1 DEF NumberInv
<1>2. CASE RunSettles
  <2>1. /\ UNCHANGED <<ingest, renumbered, cursor>> /\ Len(log') = Len(log) + 1
        /\ wire' = wire \/ wire' = Append(wire, [seq |-> Len(log) + 1, run |-> Len(ended) + 1])
    BY <1>0, <1>2 DEF RunSettles, TypeOK
  <2>2. ASSUME NEW i \in 1 .. Len(wire')
        PROVE  \/ i \in 1 .. Len(wire) /\ wire'[i] = wire[i]
               \/ wire'[i].seq = Len(log) + 1
    <3>1. CASE wire' = wire
      BY <2>2, <3>1
    <3> DEFINE event == [seq |-> Len(log) + 1, run |-> Len(ended) + 1]
    <3>2. CASE wire' = Append(wire, event)
      <4>1. wire \in Seq(Event) /\ event.seq = Len(log) + 1
        BY <1>0 DEF TypeOK
      <4> HIDE DEF event
      <4>2. /\ Len(wire') = Len(wire) + 1 /\ wire'[Len(wire) + 1] = event
            /\ \A k \in 1 .. Len(wire) : wire'[k] = wire[k]
        BY <3>2, <4>1
      <4>3. i \in 1 .. Len(wire) \/ i = Len(wire) + 1
        BY <1>0, <2>2, <4>2
      <4> QED BY <4>1, <4>2, <4>3
    <3> QED BY <2>1, <3>1, <3>2
  <2>3. ASSUME ~renumbered, NEW i \in 1 .. Len(wire') PROVE wire'[i].seq <= Len(log')
    BY <1>0, <2>1, <2>2, <2>3 DEF NumberInv
  <2> QED BY <1>0, <2>1, <2>3 DEF NumberInv
<1>3. CASE ServeSubscription
  <2>1. UNCHANGED <<ingest, renumbered, log, cursor>> /\ wire' = wire \o Replay(link.request)
    BY <1>3 DEF ServeSubscription
  <2> DEFINE replay == Replay(link.request)
  <2>2. link.request \in Nat /\ Len(log) <= MaxRuns /\ log \in Seq(Entry)
    BY <1>0, EventsAssumption DEF TypeOK, Bounds, Link, NoRequest
  <2>3. replay \in Seq(Event) /\ \A i \in 1 .. Len(replay) : replay[i].seq \in 1 .. Len(log)
    BY <2>2, ReplayProperties
  <2> HIDE DEF replay
  <2>4. wire' = wire \o replay /\ wire \in Seq(Event) /\ Len(replay) \in Nat
    BY <1>0, <2>1, <2>3, LenProperties DEF replay, TypeOK
  <2>5. ASSUME ~renumbered, NEW i \in 1 .. Len(wire') PROVE wire'[i].seq <= Len(log)
    <3>1. /\ Len(wire') = Len(wire) + Len(replay)
          /\ wire'[i] = IF i <= Len(wire) THEN wire[i] ELSE replay[i - Len(wire)]
      BY <2>3, <2>4, <2>5, ConcatProperties
    <3>2. CASE i <= Len(wire)
      BY <1>0, <2>5, <3>1, <3>2 DEF NumberInv
    <3>3. CASE i > Len(wire)
      <4>1. i - Len(wire) \in 1 .. Len(replay) /\ wire'[i] = replay[i - Len(wire)]
        BY <1>0, <2>4, <2>5, <3>1, <3>3
      <4> QED BY <1>0, <2>3, <4>1
    <3> QED BY <1>0, <3>2, <3>3
  <2> QED BY <2>1, <2>5 DEF NumberInv
<1>4. CASE Receive
  <2>1. /\ wire # <<>> /\ Len(wire) # 0 /\ Head(wire) = wire[1] /\ 1 \in 1 .. Len(wire)
        /\ Len(wire') = Len(wire) - 1
        /\ \A i \in 1 .. Len(wire') : i + 1 \in 1 .. Len(wire) /\ wire'[i] = wire[i + 1]
    <3>1. wire # <<>> /\ wire \in Seq(Event) /\ wire' = Tail(wire)
      BY <1>0, <1>4 DEF Receive, TypeOK
    <3> QED BY <1>0, <3>1, EmptySeq, HeadTailProperties
  <2>2. /\ UNCHANGED <<renumbered, log>>
        /\ cursor' = cursor \/ cursor' = wire[1].seq
        /\ ingest' = NoIngest \/ ingest'.at = "record"
    BY <1>4, <2>1 DEF Receive
  <2> QED BY <2>1, <2>2 DEF NumberInv, NoIngest
<1>5. CASE Record \/ Notify \/ ListTasks \/ \E t \in Tasks : Complete(t)
  <2>1. UNCHANGED <<renumbered, log, wire, cursor>> /\ ingest'.at # "idle"
    BY <1>0, <1>5 DEF Record, Notify, ListTasks, Complete, TypeOK, Ingest
  <2> QED BY <2>1 DEF NumberInv
<1>6. CASE Return \/ Raise \/ Crash
  <2>1. /\ UNCHANGED <<renumbered, log, cursor>> /\ ingest' = NoIngest
        /\ wire' = wire \/ wire' = <<>>
    BY <1>6 DEF Return, Raise, Crash
  <2> QED BY <2>1 DEF NumberInv, NoIngest
<1>7. CASE \E n \in 0 .. MaxRuns : Restart(n) \/ Wipe(n)
  BY <1>7 DEF NumberInv, Restart, Wipe, Renumber
<1>8. ASSUME NEW last \in 0 .. MaxRuns, Trim(last) PROVE NumberInv'
  <2>1. UNCHANGED <<ingest, renumbered, wire, cursor>> /\ DOMAIN log' = DOMAIN log
    BY <1>8 DEF Trim
  <2>2. TypeOK'
    BY <1>8, TypesStep DEF EventsInv, Next, Mishap
  <2>3. Len(log') = Len(log)
    BY <1>0, <2>1, <2>2, LenProperties DEF TypeOK
  <2> QED BY <2>1, <2>3 DEF NumberInv
<1>9. ASSUME NEW first \in DOMAIN wire, NEW last \in DOMAIN wire, DropFrame(first, last)
      PROVE  NumberInv'
  <2>1. /\ UNCHANGED <<ingest, renumbered, log, cursor>> /\ wire' = Without(first, last)
        /\ first \in 1 .. Len(wire) /\ last \in first .. Len(wire)
    BY <1>0, <1>9 DEF DropFrame, TypeOK
  <2>2. ASSUME NEW i \in 1 .. Len(wire')
        PROVE  \E k \in 1 .. Len(wire) : wire'[i] = wire[k]
    <3>1. /\ i < first => i \in 1 .. Len(wire) /\ wire'[i] = wire[i]
          /\ i >= first => /\ i + (last - first + 1) \in 1 .. Len(wire)
                           /\ wire'[i] = wire[i + (last - first + 1)]
      BY <1>0, <2>1, <2>2, CutProperties DEF TypeOK
    <3>2. i < first \/ i >= first
      BY <2>1
    <3> QED BY <3>1, <3>2
  <2> QED BY <2>1, <2>2 DEF NumberInv
<1>10. CASE SettlesUnseen
  BY <1>10 DEF NumberInv, SettlesUnseen
<1> QED BY <1>1, <1>2, <1>3, <1>4, <1>5, <1>6, <1>7, <1>8, <1>9, <1>10
        DEF Next, Agent, Reader, Notifier, Mishap, Submit, MarkRunning, PromptArrives,
            LocalPrompt, Connect, Resubscribe, Disconnect, Inject, InjectFails,
            MarkSent, vars

\* Every step keeps what is known of the connection.
LEMMA LinkStep == EventsInv /\ LinkInv /\ [Next]_vars => LinkInv'
<1> SUFFICES ASSUME EventsInv, LinkInv, [Next]_vars PROVE LinkInv'
  OBVIOUS
<1> USE DEF agentVars, linkVars, storeVars, boundVars, Fault
<1>0. TypeOK
  BY DEF EventsInv
<1>1. /\ cursor \in Nat /\ cursor # NoRequest /\ link \in Link
      /\ link.request \in Nat /\ NoRequest \in Nat
  BY <1>0, EventsAssumption DEF TypeOK, NoRequest, Link
<1>2. CASE UNCHANGED <<link, wire, cursor>>
  BY <1>2 DEF LinkInv
<1>3. CASE RunSettles \/ \E n \in 0 .. MaxRuns : Wipe(n)
  <2>1. UNCHANGED <<link, cursor>> /\ (~link.subscribed => wire' = wire)
    BY <1>3 DEF RunSettles, Wipe
  <2> QED BY <2>1 DEF LinkInv
<1>4. CASE Connect
  <2>1. ~link.subscribed /\ wire = <<>>
    BY <1>4 DEF LinkInv, Connect
  <2>2. /\ link'.up /\ ~link'.subscribed /\ link'.request = cursor
        /\ UNCHANGED <<wire, cursor>>
    BY <1>4 DEF Connect
  <2> QED BY <1>1, <2>1, <2>2 DEF LinkInv
<1>5. CASE Resubscribe
  <2>1. /\ UNCHANGED <<wire, cursor>> /\ link.up /\ link'.up
        /\ link'.subscribed = link.subscribed /\ link'.request = cursor
    BY <1>1, <1>5 DEF Resubscribe, Link
  <2> QED BY <1>1, <2>1 DEF LinkInv
<1>6. CASE ServeSubscription
  <2>1. link.up
    BY <1>6 DEF LinkInv, ServeSubscription
  <2>2. link'.up /\ link'.subscribed /\ link'.request = NoRequest
    BY <1>1, <1>6, <2>1 DEF ServeSubscription, Link
  <2> QED BY <2>2 DEF LinkInv
<1>7. CASE Disconnect \/ Raise \/ Crash \/ \E n \in 0 .. MaxRuns : Restart(n)
  <2>1. link' = Down /\ wire' = <<>>
    BY <1>7 DEF Disconnect, Raise, Crash, Restart
  <2> QED BY <2>1 DEF LinkInv, Down
<1>8. CASE Receive
  <2>1. /\ link' = link /\ wire # <<>> /\ cursor' \in Nat /\ cursor' >= cursor
    <3>1. Head(wire) \in Event
      BY <1>0, <1>8, HeadTailProperties DEF Receive, TypeOK
    <3> QED BY <1>1, <1>8, <3>1 DEF Receive, Event, Runs
  <2> QED BY <1>1, <2>1 DEF LinkInv
<1>9. ASSUME NEW first \in DOMAIN wire, NEW last \in DOMAIN wire, DropFrame(first, last)
      PROVE  LinkInv'
  <2>1. UNCHANGED <<link, cursor>> /\ wire # <<>>
    BY <1>9 DEF DropFrame
  <2> QED BY <2>1 DEF LinkInv
<1>10. CASE SettlesUnseen \/ \E n \in 0 .. MaxRuns : Trim(n)
  BY <1>2, <1>10 DEF SettlesUnseen, Trim
<1> QED BY <1>2, <1>3, <1>4, <1>5, <1>6, <1>7, <1>8, <1>9, <1>10
        DEF Next, Agent, Reader, Notifier, Mishap, Submit, MarkRunning, PromptArrives,
            LocalPrompt, Record, Notify, ListTasks, Complete, Return, Inject,
            InjectFails, MarkSent, vars

\* A run that will be received still will be when the buffer and the cursor stay,
\* and so does what is on the connection, or a subscription is to come.
LEMMA ComingFrame ==
    ASSUME NEW r, Coming(r), UNCHANGED <<log, cursor>>,
           (link'.subscribed = link.subscribed /\ wire' = wire) \/ ~link'.subscribed
    PROVE  Coming(r)'
  BY DEF Coming, Ahead, OnWire

\* What a replay brings, when the cursor asked for is within the buffer: every
\* number after it, in order.
LEMMA ReplayOrder ==
    ASSUME log \in Seq(Entry), NEW after \in Nat, after <= Len(log)
    PROVE  /\ Len(Replay(after)) = Len(log) - after
           /\ \A i \in 1 .. Len(Replay(after)) :
                 /\ Replay(after)[i].seq = after + i
                 /\ Replay(after)[i].run = log[after + i]
<1> DEFINE count == Len(log) - after
           replay == [i \in 1 .. count |->
                        [seq |-> after + 1 + i - 1, run |-> log[after + 1 + i - 1]]]
<1>1. count \in Nat /\ Len(log) \in Nat
  OBVIOUS
<1>2. Replay(after) = replay
  <2>1. (IF after > Len(log) THEN 1 ELSE after + 1) = after + 1
    BY <1>1
  <2>2. (IF after + 1 > Len(log) THEN 0 ELSE Len(log) + 1 - (after + 1)) = count
    BY <1>1
  <2> QED BY <2>1, <2>2 DEF Replay
<1>3. Len(replay) = count
  BY <1>1
<1>4. \A i \in 1 .. count : replay[i].seq = after + i /\ replay[i].run = log[after + i]
  BY <1>1
<1> QED BY <1>2, <1>3, <1>4

\* A settling follows what is on the connection.
LEMMA ComingSettles ==
    ASSUME EventsInv, NumberInv, LinkInv, RunSettles, ~renumbered,
           NEW r \in 1 .. Len(ended'), r \in 1 .. Len(ended) => Coming(r)
    PROVE  Coming(r)'
<1>n. PICK n \in Nat : n = Len(log) + 1
  BY Elements DEF EventsInv
<1>x. PICK x \in Nat : x = Len(ended) + 1
  BY Elements DEF EventsInv
<1>0. /\ Len(log) \in Nat /\ Len(wire) \in Nat /\ Len(ended) \in Nat
      /\ cursor \in Nat /\ cursor <= Len(log)
      /\ UNCHANGED <<link, cursor>>
      /\ Len(log') = n /\ log'[n] = x
      /\ \A q \in 1 .. Len(log) : log'[q] = log[q]
      /\ r \in 1 .. Len(ended) \/ r = x
      /\ \A i \in 1 .. Len(wire) : wire[i].seq \in Nat /\ wire[i].seq <= Len(log)
  <2>1. /\ UNCHANGED <<link, cursor>> /\ Len(ended') = Len(ended) + 1
        /\ Len(log') = n /\ log'[n] = x
        /\ \A q \in 1 .. Len(log) : log'[q] = log[q]
    BY <1>n, <1>x DEF EventsInv, TypeOK, RunSettles, Settle, storeVars
  <2>2. /\ cursor <= Len(log) /\ \A i \in 1 .. Len(wire) : wire[i].seq <= Len(log)
    BY DEF NumberInv
  <2> QED BY <1>x, <2>1, <2>2, Elements DEF EventsInv
<1>1. link.subscribed =>
        /\ Len(wire') = Len(wire) + 1 /\ wire'[Len(wire) + 1] = [seq |-> n, run |-> x]
        /\ \A i \in 1 .. Len(wire) : wire'[i] = wire[i]
  BY <1>n, <1>x DEF EventsInv, TypeOK, RunSettles
<1>2. CASE r = x
  <2>1. n \in 1 .. Len(log') /\ n > cursor /\ log'[n] = r
    BY <1>0, <1>2, <1>n
  <2>2. link.subscribed => OnWire(n, r)'
    <3> SUFFICES ASSUME link.subscribed PROVE OnWire(n, r)'
      OBVIOUS
    <3>1. /\ Len(wire) + 1 \in 1 .. Len(wire') /\ wire'[Len(wire) + 1].seq = n
          /\ wire'[Len(wire) + 1].run = r
      BY <1>0, <1>1, <1>2
    <3>2. ASSUME NEW j \in 1 .. Len(wire'), j < Len(wire) + 1 PROVE wire'[j].seq < n
      <4>1. j \in 1 .. Len(wire)
        BY <1>0, <3>2
      <4> QED BY <1>0, <1>1, <1>n, <4>1
    <3> QED BY <3>1, <3>2 DEF OnWire
  <2> QED BY <1>0, <2>1, <2>2 DEF Coming, Ahead
<1>3. CASE r \in 1 .. Len(ended)
  <2>1. PICK q \in 1 .. Len(log) : Ahead(q, r)
    BY <1>3 DEF Coming
  <2>2. q \in 1 .. Len(log') /\ q > cursor' /\ log'[q] = r
    BY <1>0, <1>n, <2>1 DEF Ahead
  <2>3. ASSUME link.subscribed PROVE OnWire(q, r)'
    <3>1. PICK i \in 1 .. Len(wire) :
              /\ wire[i].seq = q /\ wire[i].run = r
              /\ \A j \in 1 .. Len(wire) : j < i => wire[j].seq < q
      BY <2>1, <2>3 DEF Ahead, OnWire
    <3>2. i \in 1 .. Len(wire') /\ wire'[i].seq = q /\ wire'[i].run = r
      BY <1>0, <1>1, <2>3, <3>1
    <3>3. ASSUME NEW j \in 1 .. Len(wire'), j < i PROVE wire'[j].seq < q
      <4>1. j \in 1 .. Len(wire)
        BY <1>0, <3>3
      <4> QED BY <1>1, <2>3, <3>1, <3>3, <4>1
    <3> QED BY <3>2, <3>3 DEF OnWire
  <2> QED BY <1>0, <2>2, <2>3 DEF Coming, Ahead
<1> QED BY <1>0, <1>2, <1>3

\* The replay follows what is on the connection, and covers what is not.
LEMMA ComingServed ==
    ASSUME EventsInv, NumberInv, LinkInv, ServeSubscription, ~renumbered,
           NEW r, Coming(r)
    PROVE  Coming(r)'
<1>0. PICK q \in 1 .. Len(log) : Ahead(q, r)
  BY DEF Coming
<1>1. /\ Len(log) \in Nat /\ Len(wire) \in Nat /\ cursor \in Nat /\ cursor <= Len(log)
      /\ wire \in Seq(Event) /\ log \in Seq(Entry) /\ Len(log) <= MaxRuns
      /\ link.request \in Nat /\ link.request <= cursor /\ q > cursor /\ log[q] = r
      /\ UNCHANGED <<log, cursor>>
  <2>1. /\ Len(log) \in Nat /\ Len(wire) \in Nat /\ Len(ended) \in Nat
        /\ wire \in Seq(Event) /\ log \in Seq(Entry) /\ link \in Link
        /\ cursor \in Nat
    BY Elements DEF EventsInv, TypeOK
  <2>2. cursor <= Len(log) /\ Len(log) <= MaxRuns
    BY <2>1, EventsAssumption DEF EventsInv, Bounds, NumberInv
  <2>3. UNCHANGED <<log, cursor>> /\ link.request <= cursor
    BY DEF LinkInv, ServeSubscription, storeVars
  <2>4. link.request \in Nat
    BY <2>1, EventsAssumption DEF Link, NoRequest
  <2> QED BY <1>0, <2>1, <2>2, <2>3, <2>4 DEF Ahead
<1> DEFINE replay == Replay(link.request)
<1>2. /\ replay \in Seq(Event) /\ Len(replay) = Len(log) - link.request
      /\ \A i \in 1 .. Len(replay) : /\ replay[i].seq = link.request + i
                                     /\ replay[i].run = log[link.request + i]
      /\ Len(replay) \in Nat
  <2>1. link.request <= Len(log)
    BY <1>1
  <2>2. replay \in Seq(Event)
    BY <1>1, ReplayProperties
  <2>3. /\ Len(replay) = Len(log) - link.request
        /\ \A i \in 1 .. Len(replay) : /\ replay[i].seq = link.request + i
                                       /\ replay[i].run = log[link.request + i]
    BY <1>1, <2>1, ReplayOrder
  <2> QED BY <1>1, <2>1, <2>2, <2>3
<1>3. wire' = wire \o replay
  BY DEF ServeSubscription
<1> HIDE DEF replay
<1>4. /\ Len(wire') = Len(wire) + Len(replay)
      /\ \A i \in 1 .. Len(wire') :
            wire'[i] = IF i <= Len(wire) THEN wire[i] ELSE replay[i - Len(wire)]
  <2>1. /\ Len(wire \o replay) = Len(wire) + Len(replay)
        /\ \A i \in 1 .. Len(wire) + Len(replay) : (wire \o replay)[i] =
                IF i <= Len(wire) THEN wire[i] ELSE replay[i - Len(wire)]
    BY <1>1, <1>2, ConcatProperties
  <2> QED BY <1>3, <2>1
<1>5. CASE link.subscribed
  <2>1. PICK i \in 1 .. Len(wire) :
            /\ wire[i].seq = q /\ wire[i].run = r
            /\ \A j \in 1 .. Len(wire) : j < i => wire[j].seq < q
    BY <1>0, <1>5 DEF Ahead, OnWire
  <2>2. i \in 1 .. Len(wire') /\ wire'[i].seq = q /\ wire'[i].run = r
    <3>1. i \in 1 .. Len(wire') /\ i <= Len(wire)
      BY <1>1, <1>2, <1>4
    <3>2. wire'[i] = wire[i]
      BY <1>4, <3>1
    <3> QED BY <2>1, <3>1, <3>2
  <2>3. ASSUME NEW j \in 1 .. Len(wire'), j < i
        PROVE  j \in 1 .. Len(wire) /\ wire'[j] = wire[j]
    BY <1>1, <1>2, <1>4, <2>1, <2>3
  <2>4. OnWire(q, r)'
    BY <2>1, <2>2, <2>3 DEF OnWire
  <2> QED BY <1>1, <2>4 DEF Coming, Ahead
<1>6. CASE ~link.subscribed
  <2>1. Len(wire) = 0
    BY <1>6 DEF LinkInv
  <2> DEFINE i == q - link.request
  <2>2. i \in 1 .. Len(replay) /\ i \in 1 .. Len(wire') /\ wire'[i] = replay[i]
    BY <1>1, <1>2, <1>4, <2>1
  <2>3. wire'[i].seq = q /\ wire'[i].run = r
    <3>1. link.request + i = q
      BY <1>1
    <3> HIDE DEF i
    <3> QED BY <1>1, <1>2, <2>2, <3>1
  <2>4. ASSUME NEW j \in 1 .. Len(wire'), j < i PROVE wire'[j].seq < q
    <3>1. j \in 1 .. Len(replay) /\ wire'[j] = replay[j]
      BY <1>1, <1>2, <1>4, <2>1
    <3>2. wire'[j].seq = link.request + j
      BY <1>2, <3>1
    <3> QED BY <1>1, <2>4, <3>2
  <2> HIDE DEF i
  <2> QED BY <1>1, <2>2, <2>3, <2>4 DEF Coming, Ahead, OnWire
<1> QED BY <1>5, <1>6

\* An event that is received is taken up, or was before, or is passed over for
\* one that comes first.
LEMMA ComingReceived ==
    ASSUME EventsInv, NumberInv, LinkInv, Receive, ~renumbered,
           NEW r \in 1 .. Len(ended), Coming(r)
    PROVE  Coming(r)' \/ r = ingest'.run
<1>0. PICK q \in 1 .. Len(log) : Ahead(q, r)
  BY DEF Coming
<1>1. /\ Len(wire) \in Nat /\ Len(wire) # 0 /\ cursor \in Nat /\ wire \in Seq(Event)
      /\ link.subscribed /\ UNCHANGED <<link, log>> /\ q > cursor /\ log[q] = r
      /\ \A i \in 1 .. Len(wire) : wire[i].seq \in Nat
      /\ Len(log) \in Nat
  <2>1. /\ Len(wire) \in Nat /\ wire \in Seq(Event) /\ wire # <<>> /\ Len(wire) # 0
        /\ Len(log) \in Nat /\ cursor \in Nat /\ UNCHANGED <<link, log>>
        /\ \A i \in 1 .. Len(wire) : wire[i].seq \in Nat
    BY Elements, EmptySeq DEF EventsInv, TypeOK, Receive
  <2> QED BY <1>0, <2>1 DEF LinkInv, Ahead
<1>2. /\ Head(wire) = wire[1] /\ 1 \in 1 .. Len(wire) /\ wire' = Tail(wire)
      /\ Len(wire') = Len(wire) - 1
      /\ \A i \in 1 .. Len(wire') : wire'[i] = wire[i + 1]
  BY <1>1, HeadTailProperties DEF Receive
<1>3. PICK i \in 1 .. Len(wire) :
          /\ wire[i].seq = q /\ wire[i].run = r
          /\ \A j \in 1 .. Len(wire) : j < i => wire[j].seq < q
  BY <1>0, <1>1 DEF Ahead, OnWire
<1>4. CASE i = 1
  <2>1. Head(wire).seq = q /\ Head(wire).run = r
    BY <1>2, <1>3, <1>4
  <2>2. r # Other /\ r # Trimmed
    <3>1. Len(ended) \in Nat /\ Len(ended) <= MaxRuns
      BY Elements DEF EventsInv, Bounds
    <3> QED BY <3>1, EventsAssumption DEF Other, Trimmed
  <2>3. ingest'.run = r
    BY <1>1, <2>1, <2>2 DEF Receive
  <2> QED BY <2>3
<1>5. CASE i # 1
  <2>1. wire[1].seq < q /\ 1 < i
    BY <1>1, <1>2, <1>3, <1>5
  <2>2. cursor' = cursor \/ cursor' = wire[1].seq
    BY <1>2 DEF Receive
  <2>3. q > cursor'
    BY <1>1, <1>2, <2>1, <2>2
  <2>4. /\ i - 1 \in 1 .. Len(wire') /\ wire'[i - 1].seq = q
        /\ wire'[i - 1].run = r
    BY <1>1, <1>2, <1>3, <2>1
  <2>5. ASSUME NEW j \in 1 .. Len(wire'), j < i - 1 PROVE wire'[j].seq < q
    BY <1>1, <1>2, <1>3, <2>5
  <2> QED BY <1>1, <2>3, <2>4, <2>5 DEF Coming, Ahead, OnWire
<1> QED BY <1>4, <1>5

\* What is not dropped comes.
LEMMA ComingDropped ==
    ASSUME EventsInv, NEW first \in DOMAIN wire, NEW last \in DOMAIN wire,
           DropFrame(first, last), NEW r \in Runs, Coming(r)
    PROVE  Coming(r)' \/ r \in hit'
<1>0. PICK q \in 1 .. Len(log) : Ahead(q, r)
  BY DEF Coming
<1>1. /\ Len(wire) \in Nat /\ wire \in Seq(Event) /\ UNCHANGED <<log, cursor, link>>
      /\ wire' = Without(first, last)
      /\ first \in 1 .. Len(wire) /\ last \in first .. Len(wire)
      /\ \A i \in 1 .. Len(wire) : wire[i].seq \in Nat
      /\ q > cursor /\ log[q] = r
  BY <1>0, Elements DEF EventsInv, TypeOK, DropFrame, storeVars, Ahead
<1>2. /\ Len(wire') = Len(wire) - (last - first + 1)
      /\ \A i \in 1 .. Len(wire') :
            /\ i < first => i \in 1 .. Len(wire) /\ wire'[i] = wire[i]
            /\ i >= first => /\ i + (last - first + 1) \in 1 .. Len(wire)
                             /\ wire'[i] = wire[i + (last - first + 1)]
  BY <1>1, CutProperties
<1>3. CASE ~link.subscribed
  BY <1>1, <1>0, <1>3 DEF Coming, Ahead
<1>4. CASE link.subscribed
  <2>1. PICK i \in 1 .. Len(wire) :
            /\ wire[i].seq = q /\ wire[i].run = r
            /\ \A j \in 1 .. Len(wire) : j < i => wire[j].seq < q
    BY <1>0, <1>4 DEF Ahead, OnWire
  <2>2. CASE i \in first .. last
    <3>1. i \in {k \in first .. last : wire[k].seq > cursor}
      BY <1>1, <2>1, <2>2
    <3> QED BY <2>1, <3>1 DEF DropFrame
  <2>3. ASSUME NEW k \in 1 .. Len(wire'), wire'[k] = wire[i],
               \A j \in 1 .. Len(wire') :
                   j < k => \E m \in 1 .. Len(wire) : m < i /\ wire'[j] = wire[m]
        PROVE  Coming(r)'
    <3>1. \A j \in 1 .. Len(wire') : j < k => wire'[j].seq < q
      BY <2>1, <2>3
    <3>2. OnWire(q, r)'
      BY <2>1, <2>3, <3>1 DEF OnWire
    <3> QED BY <1>1, <3>2 DEF Coming, Ahead
  <2>4. CASE i < first
    <3>1. i \in 1 .. Len(wire') /\ wire'[i] = wire[i]
      <4>1. Len(wire') >= first - 1 /\ Len(wire') \in Int
        BY <1>1, <1>2
      <4>2. i \in 1 .. Len(wire')
        BY <1>1, <2>4, <4>1
      <4> QED BY <1>2, <2>4, <4>2
    <3>2. ASSUME NEW j \in 1 .. Len(wire'), j < i
          PROVE  \E m \in 1 .. Len(wire) : m < i /\ wire'[j] = wire[m]
      <4>1. j < first
        BY <1>1, <1>2, <2>4, <3>2
      <4> QED BY <1>2, <3>2, <4>1
    <3> QED BY <2>3, <3>1, <3>2
  <2>5. CASE i > last
    <3> DEFINE gap == last - first + 1
               k == i - gap
    <3>1. k \in 1 .. Len(wire') /\ k >= first /\ k + gap = i
      BY <1>1, <1>2, <2>5
    <3>2. wire'[k] = wire[i]
      <4>1. wire'[k] = wire[k + gap]
        BY <1>2, <3>1
      <4> QED BY <3>1, <4>1
    <3>3. ASSUME NEW j \in 1 .. Len(wire'), j < k
          PROVE  \E m \in 1 .. Len(wire) : m < i /\ wire'[j] = wire[m]
      <4>1. CASE j < first
        <5>1. j \in 1 .. Len(wire) /\ wire'[j] = wire[j] /\ j < i
          BY <1>1, <1>2, <2>5, <4>1
        <5> QED BY <5>1
      <4>2. CASE j >= first
        <5>1. j + gap \in 1 .. Len(wire) /\ wire'[j] = wire[j + gap]
          BY <1>2, <4>2
        <5>2. j + gap < i
          BY <1>1, <1>2, <3>1, <3>3
        <5> QED BY <5>1, <5>2
      <4> QED BY <1>1, <1>2, <4>1, <4>2
    <3> HIDE DEF k
    <3> QED BY <2>3, <3>1, <3>2, <3>3
  <2> QED BY <1>1, <2>2, <2>4, <2>5
<1> QED BY <1>3, <1>4

\* The event that is trimmed is one the history has, unless B has had it.
LEMMA ComingTrimmed ==
    ASSUME EventsInv, NEW n \in 0 .. MaxRuns, Trim(n), NEW r \in Runs, Coming(r)
    PROVE  Coming(r)' \/ r \in hit'
<1>0. PICK q \in 1 .. Len(log) : Ahead(q, r)
  BY DEF Coming
<1>1. /\ Len(log) \in Nat /\ cursor \in Nat /\ n \in 1 .. Len(log) /\ log[q] = r
      /\ q > cursor /\ UNCHANGED <<wire, link, cursor>>
      /\ Len(log') = Len(log) /\ log'[q] = IF q <= n THEN Trimmed ELSE log[q]
      /\ hit' = hit \cup ({log[seq] : seq \in cursor + 1 .. n} \cap Runs)
  BY <1>0, Elements DEF EventsInv, TypeOK, Trim, storeVars, linkVars, Ahead
<1>2. CASE q <= n
  <2>1. q \in cursor + 1 .. n
    BY <1>1, <1>2
  <2> QED BY <1>1, <2>1
<1>3. CASE ~(q <= n)
  BY <1>0, <1>1, <1>3 DEF Coming, Ahead, OnWire
<1> QED BY <1>2, <1>3

\* What a fault hit stays known, and numbers that began again did.
LEMMA HistoryStep == [Next]_vars => hit \subseteq hit' /\ (renumbered => renumbered')
<1> SUFFICES ASSUME [Next]_vars PROVE hit \subseteq hit' /\ (renumbered => renumbered')
  OBVIOUS
<1> USE DEF boundVars
<1>1. CASE Mishap
  BY <1>1 DEF Mishap, Raise, Crash, Restart, Wipe, Renumber, Trim, DropFrame,
              SettlesUnseen
<1>2. CASE ~Mishap
  <2>1. UNCHANGED <<hit, renumbered>>
    BY <1>2 DEF Next, Agent, Reader, Notifier, Submit, MarkRunning, PromptArrives,
        LocalPrompt, RunSettles, Connect, Resubscribe, ServeSubscription, Disconnect,
        Receive, Record, Notify, ListTasks, Complete, Return, Inject, InjectFails,
        MarkSent, vars
  <2> QED BY <2>1
<1> QED BY <1>1, <1>2

LEMMA LossStep ==
    EventsInv /\ NumberInv /\ LinkInv /\ LossInv /\ [Next]_vars => LossInv'
<1> SUFFICES ASSUME EventsInv, NumberInv, LinkInv, LossInv, [Next]_vars,
                    ~renumbered', NEW r \in 1 .. Len(ended')
             PROVE  r \in hit' \/ r = ingest'.run \/ Handled(r)' \/ Coming(r)'
  BY DEF LossInv
<1> USE DEF agentVars, linkVars, storeVars, boundVars, Fault
<1>0. /\ hit \subseteq hit' /\ ~renumbered
      /\ r \in 1 .. Len(ended) => r \in hit \/ r = ingest.run \/ Handled(r) \/ Coming(r)
  BY HistoryStep DEF LossInv
<1>1. /\ TypeOK /\ Len(ended) \in Nat /\ Len(ended) <= MaxRuns /\ MaxRuns \in Nat
      /\ \A x \in 1 .. Len(ended) : x \in Runs
  BY Elements, EventsAssumption DEF EventsInv, Bounds, Runs
<1>2. ASSUME UNCHANGED <<ended, handled, log, cursor>>, ingest'.run = ingest.run,
             (link'.subscribed = link.subscribed /\ wire' = wire) \/ ~link'.subscribed
      PROVE  r \in hit' \/ r = ingest'.run \/ Handled(r)' \/ Coming(r)'
  BY <1>0, <1>2, ComingFrame DEF Handled
<1>3. CASE Connect \/ Resubscribe \/ Disconnect
  <2>1. /\ UNCHANGED <<ended, handled, log, cursor, ingest>>
        /\ (link'.subscribed = link.subscribed /\ wire' = wire) \/ ~link'.subscribed
    BY <1>1, <1>3 DEF Connect, Resubscribe, Disconnect, Down, TypeOK, Link
  <2> QED BY <1>2, <2>1
<1>4. CASE Record \/ Notify \/ ListTasks \/ \E t \in Tasks : Complete(t)
  <2>1. /\ UNCHANGED <<ended, handled, log, cursor, link, wire>>
        /\ ingest'.run = ingest.run
    BY <1>1, <1>4 DEF Record, Notify, ListTasks, Complete, TypeOK, Ingest
  <2> QED BY <1>2, <2>1
<1>5. CASE RunSettles
  <2>1. UNCHANGED <<ingest, handled>>
    BY <1>5 DEF RunSettles
  <2>2. CASE r \in 1 .. Len(ended) => Coming(r)
    BY <1>0, <1>5, <2>2, ComingSettles
  <2> QED BY <1>0, <2>1, <2>2 DEF Handled
<1>6. CASE ServeSubscription
  <2>1. UNCHANGED <<ingest, handled, ended>>
    BY <1>6 DEF ServeSubscription
  <2> QED BY <1>0, <1>6, <2>1, ComingServed DEF Handled
<1>7. CASE Receive
  <2>1. UNCHANGED <<handled, ended>> /\ ingest.run = 0
    BY <1>7 DEF Receive, NumberInv
  <2> QED BY <1>0, <1>1, <1>7, <2>1, ComingReceived DEF Handled
<1>8. CASE Return
  <2>1. /\ UNCHANGED <<ended, log, cursor, link, wire>>
        /\ handled' = Append(handled, ingest.run) /\ handled \in Seq(Runs)
        /\ ingest.run \in Nat /\ Len(handled) \in Nat
    BY <1>1, <1>8, Elements DEF Return, TypeOK, Ingest, EventsInv
  <2>2. /\ Len(handled') = Len(handled) + 1
        /\ handled'[Len(handled) + 1] = ingest.run
        /\ \A k \in 1 .. Len(handled) : handled'[k] = handled[k]
    BY <2>1, AppendProperties
  <2>3. r = ingest.run \/ Handled(r) => Handled(r)'
    BY <2>1, <2>2 DEF Handled
  <2> QED BY <1>0, <2>1, <2>3, ComingFrame
<1>9. CASE Raise \/ Crash
  <2>1. UNCHANGED <<ended, log, cursor, handled>> /\ ~link'.subscribed
    BY <1>9 DEF Raise, Crash, Down
  <2>2. r = ingest.run => r \in hit'
    BY <1>1, <1>9, <2>1 DEF Raise, Crash
  <2> QED BY <1>0, <2>1, <2>2, ComingFrame DEF Handled
<1>10. CASE \E n \in 0 .. MaxRuns : Restart(n) \/ Wipe(n)
  BY <1>10 DEF Restart, Wipe, Renumber
<1>11. ASSUME NEW n \in 0 .. MaxRuns, Trim(n)
       PROVE  r \in hit' \/ r = ingest'.run \/ Handled(r)' \/ Coming(r)'
  <2>1. UNCHANGED <<ended, handled, ingest>>
    BY <1>11 DEF Trim
  <2> QED BY <1>0, <1>1, <1>11, <2>1, ComingTrimmed DEF Handled
<1>12. ASSUME NEW first \in DOMAIN wire, NEW last \in DOMAIN wire, DropFrame(first, last)
       PROVE  r \in hit' \/ r = ingest'.run \/ Handled(r)' \/ Coming(r)'
  <2>1. UNCHANGED <<ended, handled, ingest>>
    BY <1>12 DEF DropFrame
  <2> QED BY <1>0, <1>1, <1>12, <2>1, ComingDropped DEF Handled
<1>13. CASE SettlesUnseen
  <2>1. /\ UNCHANGED <<handled, ingest, log, cursor, link, wire>>
        /\ hit' = hit \cup {Len(ended) + 1} /\ Len(ended') = Len(ended) + 1
    BY <1>1, <1>13 DEF SettlesUnseen, Settle, TypeOK
  <2>2. r \in 1 .. Len(ended) \/ r \in hit'
    BY <1>1, <2>1
  <2> QED BY <1>0, <2>1, <2>2, ComingFrame DEF Handled
<1> QED BY <1>2, <1>3, <1>4, <1>5, <1>6, <1>7, <1>8, <1>9, <1>10, <1>11, <1>12, <1>13
        DEF Next, Agent, Reader, Notifier, Mishap, Submit, MarkRunning, PromptArrives,
            LocalPrompt, Inject, InjectFails, MarkSent, vars

LEMMA LossInvariant == Spec => [](EventsInv /\ NumberInv /\ LinkInv /\ LossInv)
<1>1. EventsInv /\ NumberInv /\ LinkInv /\ LossInv /\ [Next]_vars
          => (NumberInv /\ LinkInv /\ LossInv)'
  BY NumberStep, LinkStep, LossStep
<1> QED BY <1>1, LossInit, EventsInvariant, PTL DEF Spec

\* While the numbers go on, a run that settled is processed, being processed or
\* in the buffer past the cursor, unless a fault hit that very event: no broken
\* connection, repeated subscription or other fault loses one.
THEOREM FaultsCostWhatTheyHit == Spec => []LossExplained
<1>1. EventsInv /\ LossInv => LossExplained
  <2> SUFFICES ASSUME EventsInv, LossInv, ~renumbered, NEW r \in DOMAIN ended
               PROVE  \/ r \in hit
                      \/ r = ingest.run
                      \/ \E i \in DOMAIN handled : handled[i] = r
                      \/ \E seq \in DOMAIN log : seq > cursor /\ log[seq] = r
    BY DEF LossExplained
  <2>1. /\ DOMAIN ended = 1 .. Len(ended) /\ DOMAIN handled = 1 .. Len(handled)
        /\ DOMAIN log = 1 .. Len(log)
    BY DEF EventsInv, TypeOK
  <2> QED BY <2>1 DEF LossInv, Handled, Coming, Ahead
<1> QED BY <1>1, LossInvariant, PTL
-----------------------------------------------------------------------------
(* What is processed is completed and told, whatever fails *)

Begun(t) == task[t] \in {"running", "completed"}
Announced(r) == \E i \in 1 .. Len(outbox) : outbox[i].run = r

\* The settling of run r has done what it should: the tasks whose rows were
\* running are completed and the user is told of it, if there were any.
Processed(r) ==
    /\ \A t \in ended[r].marked : task[t] = "completed"
    /\ ended[r].marked # {} => Announced(r)

\* A run that settled was processed, is being processed or will reach the
\* WebSocket thread before any later one, unless a fault hit that very settling
\* or the numbers began again, and whatever else failed: what TaskCompletes and
\* SettledIsTold leave to fairness is that the threads run (handleSubscribe,
\* _ingest_event).
NothingForgotten ==
    \A r \in 1 .. Len(ended) :
        Excused(r) \/ Coming(r) \/ ingest.run = r \/ Processed(r)

\* A tool call marks a task running that it has just created; a task whose row
\* was running has begun.
CallInv ==
    /\ call # Nobody => call \in Tasks /\ task[call] = "created"
    /\ \A r \in 1 .. Len(ended) : \A t \in ended[r].marked : Begun(t)

\* An event is recorded for the first time, so it is announced before the
\* tasks are listed; the tasks of its run are on the list or completed.
IngestInv ==
    /\ \A t \in ingest.tasks : Begun(t)
    /\ \A a \in activity : a <= cursor
    /\ ingest.at # "idle" => ingest.seq <= cursor
    /\ ingest.at = "record" => ingest.seq \notin activity
    /\ ingest.at \in {"list", "complete"} /\ ended[ingest.run].marked # {} => Announced(ingest.run)
    /\ ingest.at = "complete" =>
          \A t \in ended[ingest.run].marked : t \in ingest.tasks \/ task[t] = "completed"

HandledInv == \A k \in 1 .. Len(handled) : Processed(handled[k])

WorkInv == CallInv /\ IngestInv /\ HandledInv

LEMMA WorkInit == Init => WorkInv
<1> SUFFICES ASSUME Init PROVE CallInv /\ IngestInv /\ HandledInv
  BY DEF WorkInv
<1>1. Len(ended) = 0 /\ Len(handled) = 0
  BY DEF Init
<1> QED BY <1>1 DEF Init, CallInv, IngestInv, HandledInv, NoIngest

\* What every step keeps: what was begun, completed, settled or
\* announced.
Kept ==
    /\ \A t \in Tasks : Begun(t) => Begun(t)'
    /\ \A t \in Tasks : task[t] = "completed" => task'[t] = "completed"
    /\ \A r \in 1 .. Len(ended) : r \in 1 .. Len(ended') /\ ended'[r] = ended[r]
    /\ \A r : Announced(r) => Announced(r)'

\* The sequences around a settled run.
LEMMA Settled ==
    ASSUME EventsInv
    PROVE  /\ \A r \in 1 .. Len(ended) : ended[r].marked \subseteq Tasks
           /\ ingest.at # "idle" => ingest.run \in 1 .. Len(ended)
           /\ \A k \in 1 .. Len(handled) : handled[k] \in 1 .. Len(ended)
           /\ ingest.tasks \subseteq Tasks
<1>1. TypeOK /\ Bounds /\ OrderInv
  BY DEF EventsInv
<1>2. ASSUME NEW r \in 1 .. Len(ended) PROVE ended[r].marked \subseteq Tasks
  <2>1. ended[r] \in Settling
    BY <1>1, ElementOfSeq DEF TypeOK
  <2> QED BY <2>1 DEF Settling
<1>3. ASSUME NEW k \in 1 .. Len(handled) PROVE handled[k] \in 1 .. Len(ended)
  <2>1. handled[k] \in Runs /\ handled[k] <= Len(ended) /\ Len(ended) \in Nat
    BY <1>1, Elements, ElementOfSeq DEF TypeOK, OrderInv
  <2> QED BY <2>1, EventsAssumption DEF Runs
<1>4. ingest.at # "idle" => ingest.run \in 1 .. Len(ended)
  <2>1. ingest.run \in Nat /\ Len(ended) \in Nat
    BY <1>1, Elements
  <2> QED BY <1>1, <2>1 DEF Bounds, OrderInv
<1>5. ingest.tasks \subseteq Tasks
  BY <1>1 DEF TypeOK, Ingest
<1> QED BY <1>2, <1>3, <1>4, <1>5

LEMMA ProcessedStays ==
    ASSUME EventsInv, Kept, NEW r \in 1 .. Len(ended), Processed(r)
    PROVE  Processed(r)'
  BY Settled DEF Kept, Processed

LEMMA CallFrame ==
    ASSUME EventsInv, CallInv, Kept, UNCHANGED <<call, ended>>,
           call # Nobody => task'[call] = task[call]
    PROVE  CallInv'
  BY Settled DEF CallInv, Kept

LEMMA IngestFrame ==
    ASSUME EventsInv, IngestInv, Kept, UNCHANGED <<ingest, activity, cursor>>
    PROVE  IngestInv'
<1>1. ingest.at # "idle" => ended'[ingest.run] = ended[ingest.run]
  BY Settled DEF Kept
<1> QED BY <1>1, Settled DEF IngestInv, Kept

LEMMA HandledFrame ==
    ASSUME EventsInv, HandledInv, Kept, UNCHANGED handled
    PROVE  HandledInv'
  BY Settled, ProcessedStays DEF HandledInv

\* Runs, tasks and notifications that a step leaves alone stay as they were.
LEMMA KeptFrame ==
    ASSUME UNCHANGED <<ended, outbox>>,
           \A t \in Tasks : Begun(t) => task'[t] = task[t] \/ task'[t] = "completed"
    PROVE  Kept
  BY DEF Kept, Begun, Announced

\* A step that appends to the settled runs what is known of the last one.
LEMMA SettleKeeps ==
    ASSUME EventsInv, WorkInv, Settle,
           UNCHANGED <<task, call, outbox, ingest, activity, cursor, handled>>
    PROVE  WorkInv'
<1> DEFINE set == [tasks |-> run.tasks,
                   marked |-> {t \in run.tasks : task[t] = "running"}]
<1>1. ended' = Append(ended, set) /\ \A t \in set.marked : Begun(t)
  BY DEF Settle, Begun
<1> HIDE DEF set
<1>2. /\ Len(ended) \in Nat /\ Len(ended') = Len(ended) + 1
      /\ ended'[Len(ended) + 1] = set
      /\ \A r \in 1 .. Len(ended) : ended'[r] = ended[r]
  BY <1>1, AppendProperties DEF EventsInv, TypeOK
<1>3. /\ \A r \in 1 .. Len(ended) : r \in 1 .. Len(ended')
      /\ \A r \in 1 .. Len(ended') : r \in 1 .. Len(ended) \/ r = Len(ended) + 1
  BY <1>2
<1>4. Kept
  BY <1>2, <1>3 DEF Kept, Begun, Announced
<1>5. ASSUME NEW r \in 1 .. Len(ended'), NEW t \in ended'[r].marked PROVE Begun(t)'
  <2>1. CASE r \in 1 .. Len(ended)
    BY <1>2, <1>5, <2>1 DEF WorkInv, CallInv, Begun
  <2>2. CASE r = Len(ended) + 1
    BY <1>1, <1>2, <1>5, <2>2 DEF Begun
  <2> QED BY <1>3, <2>1, <2>2
<1>6. CallInv'
  BY <1>5 DEF WorkInv, CallInv
<1> QED BY <1>4, <1>6, IngestFrame, HandledFrame DEF WorkInv

\* Every step keeps all of it.
LEMMA WorkStep == EventsInv /\ WorkInv /\ [Next]_vars => WorkInv'
<1> SUFFICES ASSUME EventsInv, WorkInv, [Next]_vars
             PROVE  (CallInv /\ IngestInv /\ HandledInv)'
  BY DEF WorkInv
<1> USE DEF agentVars, linkVars, storeVars, boundVars, Fault
<1>0. TypeOK /\ Bounds /\ OrderInv /\ faults \in Nat
  BY DEF EventsInv, TypeOK
<1>3. CallInv /\ IngestInv /\ HandledInv
  BY DEF WorkInv
<1>4. ASSUME UNCHANGED <<task, call, ended, outbox, ingest, activity, cursor, handled>>
      PROVE  (CallInv /\ IngestInv /\ HandledInv)'
  <2>1. Kept
    BY <1>4, KeptFrame
  <2> QED BY <1>3, <1>4, <2>1, CallFrame, IngestFrame, HandledFrame
<1>1. CASE Raise \/ Crash
  <2>1. /\ UNCHANGED <<task, ended, outbox, activity, cursor, handled>>
        /\ ingest' = NoIngest /\ (call' = call \/ call' = Nobody)
    BY <1>1 DEF Raise, Crash
  <2>2. Kept
    BY <2>1, KeptFrame
  <2>3. IngestInv'
    BY <1>3, <2>1 DEF IngestInv, NoIngest
  <2>4. CallInv'
    BY <1>3, <2>1 DEF CallInv, Begun
  <2> QED BY <1>3, <2>1, <2>2, <2>3, <2>4, HandledFrame
<1>2. CASE \/ \E n \in 0 .. MaxRuns : Restart(n) \/ Wipe(n) \/ Trim(n)
           \/ \E first, last \in DOMAIN wire : DropFrame(first, last)
  BY <1>2, <1>4 DEF Restart, Wipe, Trim, DropFrame
<1>17. CASE SettlesUnseen \/ RunSettles
  <2>1. Settle /\ UNCHANGED <<task, call, outbox, ingest, activity, cursor, handled>>
    BY <1>17 DEF SettlesUnseen, RunSettles
  <2> QED BY <2>1, SettleKeeps DEF WorkInv
<1>5. CASE \/ Connect \/ Resubscribe \/ ServeSubscription \/ Disconnect \/ UNCHANGED vars
           \/ LocalPrompt \/ \E t \in Tasks : PromptArrives(t)
  BY <1>4, <1>5 DEF Connect, Resubscribe, ServeSubscription, Disconnect, vars,
                    LocalPrompt, PromptArrives
<1>6. ASSUME NEW t \in Tasks, Submit(t)
      PROVE  (CallInv /\ IngestInv /\ HandledInv)'
  <2>1. /\ task' = [task EXCEPT ![t] = "created"] /\ task[t] = "absent" /\ call = Nobody
        /\ call' = t \/ call' = call
        /\ UNCHANGED <<ended, outbox, ingest, activity, cursor, handled>>
    BY <1>6 DEF Submit
  <2>2. Kept
    BY <1>0, <2>1, KeptFrame DEF Begun, TypeOK
  <2>3. CallInv'
    <3>1. call' # Nobody => call' \in Tasks /\ task'[call'] = "created"
      BY <1>0, <2>1 DEF TypeOK
    <3>4. \A r \in 1 .. Len(ended) : \A u \in ended[r].marked : Begun(u)'
      BY <1>3, <2>2, Settled DEF CallInv, Kept
    <3> QED BY <2>1, <3>1, <3>4 DEF CallInv
  <2> QED BY <1>3, <2>1, <2>2, <2>3, IngestFrame, HandledFrame
<1>7. CASE MarkRunning
  <2>1. /\ call \in Tasks /\ task' = [task EXCEPT ![call] = "running"]
        /\ task[call] = "created" /\ call' = Nobody
        /\ UNCHANGED <<ended, outbox, ingest, activity, cursor, handled>>
    BY <1>3, <1>7 DEF MarkRunning, CallInv
  <2>2. Kept
    BY <1>0, <2>1, KeptFrame DEF Begun, TypeOK
  <2>3. task'[call] \in {"running", "completed"}
    BY <1>0, <2>1 DEF TypeOK
  <2>4. CallInv'
    <3>2. \A r \in 1 .. Len(ended) : \A t \in ended[r].marked : Begun(t)'
      BY <1>3, <2>2, Settled DEF CallInv, Kept
    <3> QED BY <2>1, <3>2 DEF CallInv
  <2> QED BY <1>3, <2>1, <2>2, <2>4, IngestFrame, HandledFrame
<1>10. CASE Receive
  <2>1. /\ UNCHANGED <<task, call, ended, outbox, activity, handled>>
        /\ cursor' = cursor \/ cursor' > cursor
        /\ \/ ingest' = NoIngest
           \/ /\ ingest'.at = "record" /\ ingest'.tasks = {}
              /\ cursor' = ingest'.seq /\ cursor' > cursor
    BY <1>10 DEF Receive
  <2>2. Kept
    BY <2>1, KeptFrame
  <2>3. CallInv'
    BY <1>3, <2>1, <2>2, CallFrame
  <2>4. /\ cursor \in Nat /\ cursor' \in Nat /\ \A a \in activity : a \in Nat
        /\ cursor' >= cursor
    <3>1. TypeOK'
      BY <1>0, TypesStep
    <3> QED BY <1>0, <2>1, <3>1, EventsAssumption DEF TypeOK, Runs
  <2>5. \A a \in activity' : a <= cursor'
    BY <1>3, <2>1, <2>4 DEF IngestInv
  <2>6. IngestInv'
    <3>1. CASE ingest' = NoIngest
      BY <2>5, <3>1 DEF IngestInv, NoIngest
    <3>2. CASE /\ ingest'.at = "record" /\ ingest'.tasks = {}
               /\ cursor' = ingest'.seq /\ cursor' > cursor
      <4>1. ingest'.seq \notin activity'
        BY <1>3, <2>1, <2>4, <3>2 DEF IngestInv
      <4> QED BY <2>4, <2>5, <3>2, <4>1 DEF IngestInv
    <3> QED BY <2>1, <3>1, <3>2
  <2> QED BY <1>3, <2>1, <2>2, <2>3, <2>6, HandledFrame
<1>11. CASE Record
  <2>1. /\ ingest.at = "record" /\ ingest.seq \notin activity
        /\ activity' = activity \cup {ingest.seq}
        /\ ingest' = [ingest EXCEPT !.at = "notify"]
        /\ UNCHANGED <<task, call, ended, outbox, cursor, handled>>
    BY <1>3, <1>11 DEF Record, IngestInv
  <2>2. Kept
    BY <2>1, KeptFrame
  <2>3. ingest' = [at |-> "notify", seq |-> ingest.seq, run |-> ingest.run, tasks |-> ingest.tasks]
    BY <1>0, <2>1 DEF TypeOK, Ingest
  <2>4. IngestInv'
    BY <1>3, <2>1, <2>3 DEF IngestInv, Begun
  <2> QED BY <1>3, <2>1, <2>2, <2>4, CallFrame, HandledFrame
<1>12. CASE Notify
  <2> DEFINE note == [run |-> ingest.run, status |-> "pending", attempts |-> 0, told |-> 0]
  <2>1. /\ ingest.at = "notify" /\ ingest' = [ingest EXCEPT !.at = "list"]
        /\ UNCHANGED <<task, call, ended, activity, cursor, handled>>
        /\ outbox' = IF \E t \in Tasks : Begun(t) THEN Append(outbox, note) ELSE outbox
    BY <1>12 DEF Notify, Begun
  <2>2. note.run = ingest.run
    OBVIOUS
  <2> HIDE DEF note
  <2>3. ingest' = [at |-> "list", seq |-> ingest.seq, run |-> ingest.run, tasks |-> ingest.tasks]
    BY <1>0, <2>1 DEF TypeOK, Ingest
  <2>4. Len(outbox) \in Nat /\ outbox \in Seq(Note)
    BY <1>0 DEF TypeOK
  <2>5. CASE \E t \in Tasks : Begun(t)
    <3>1. /\ Len(outbox') = Len(outbox) + 1 /\ outbox'[Len(outbox) + 1] = note
          /\ \A i \in 1 .. Len(outbox) : outbox'[i] = outbox[i]
      BY <2>1, <2>4, <2>5
    <3>2. Len(outbox) + 1 \in 1 .. Len(outbox') /\ \A i \in 1 .. Len(outbox) : i \in 1 .. Len(outbox')
      BY <2>4, <3>1
    <3>3. Announced(ingest.run)'
      BY <2>2, <2>3, <3>1, <3>2 DEF Announced
    <3>4. \A r : Announced(r) => Announced(r)'
      BY <3>1, <3>2 DEF Announced
    <3>5. Kept
      BY <2>1, <3>4 DEF Kept, Begun
    <3>6. IngestInv'
      BY <1>3, <2>1, <2>3, <3>3 DEF IngestInv, Begun
    <3> QED BY <1>3, <2>1, <3>5, <3>6, CallFrame, HandledFrame
  <2>6. CASE ~\E t \in Tasks : Begun(t)
    <3>1. UNCHANGED outbox
      BY <2>1, <2>6
    <3>2. Kept
      BY <2>1, <3>1, KeptFrame
    <3>3. ended[ingest.run].marked = {}
      BY <1>3, <2>1, <2>6, Settled DEF CallInv
    <3>4. IngestInv'
      BY <1>3, <2>1, <2>3, <3>3 DEF IngestInv, Begun
    <3> QED BY <1>3, <2>1, <3>2, <3>4, CallFrame, HandledFrame
  <2> QED BY <2>5, <2>6
<1>13. CASE ListTasks
  <2>1. /\ ingest.at = "list"
        /\ ingest' = [ingest EXCEPT !.at = "complete",
                                    !.tasks = {t \in Tasks : task[t] = "running"}]
        /\ UNCHANGED <<task, call, ended, outbox, activity, cursor, handled>>
    BY <1>13 DEF ListTasks
  <2>2. Kept
    BY <2>1, KeptFrame
  <2>3. ingest' = [at |-> "complete", seq |-> ingest.seq, run |-> ingest.run,
                   tasks |-> {t \in Tasks : task[t] = "running"}]
    BY <1>0, <2>1 DEF TypeOK, Ingest
  <2>4. \A t \in ended[ingest.run].marked : t \in Tasks /\ Begun(t)
    BY <1>3, <2>1, Settled DEF CallInv
  <2>5. Announced(ingest.run)' <=> Announced(ingest.run)
    BY <2>1, <2>3 DEF Announced
  <2>6. IngestInv'
    BY <1>3, <2>1, <2>3, <2>4, <2>5 DEF IngestInv, Begun
  <2> QED BY <1>3, <2>1, <2>2, <2>6, CallFrame, HandledFrame
<1>14. ASSUME NEW t \in Tasks, Complete(t)
       PROVE  (CallInv /\ IngestInv /\ HandledInv)'
  <2>1. /\ ingest.at = "complete" /\ t \in ingest.tasks
        /\ task' = [task EXCEPT ![t] = "completed"]
        /\ ingest' = [ingest EXCEPT !.tasks = @ \ {t}]
        /\ UNCHANGED <<call, ended, outbox, activity, cursor, handled>>
    BY <1>14 DEF Complete
  <2>2. \A u \in Tasks : task'[u] = IF u = t THEN "completed" ELSE task[u]
    BY <1>0, <2>1 DEF TypeOK
  <2>3. Kept
    BY <2>1, <2>2, KeptFrame
  <2>4. call # Nobody => call \in Tasks /\ call # t
    BY <1>3, <2>1 DEF CallInv, IngestInv, Begun
  <2>5. CallInv'
    BY <1>3, <2>1, <2>2, <2>3, <2>4, CallFrame
  <2>6. ingest' = [at |-> "complete", seq |-> ingest.seq, run |-> ingest.run,
                   tasks |-> ingest.tasks \ {t}]
    BY <1>0, <2>1 DEF TypeOK, Ingest
  <2>7. Announced(ingest.run)' <=> Announced(ingest.run)
    BY <2>1, <2>6 DEF Announced
  <2>8. \A u \in ingest'.tasks : Begun(u)'
    BY <1>3, <2>2, <2>6, Settled DEF IngestInv, Begun
  <2>9. \A u \in ended'[ingest'.run].marked : u \in ingest'.tasks \/ task'[u] = "completed"
    BY <1>3, <2>1, <2>2, <2>6, Settled DEF IngestInv
  <2>10. IngestInv'
    BY <1>3, <2>1, <2>6, <2>7, <2>8, <2>9 DEF IngestInv
  <2> QED BY <1>3, <2>1, <2>3, <2>5, <2>10, HandledFrame
<1>15. CASE Return
  <2>1. /\ ingest.at = "complete" /\ ingest.tasks = {}
        /\ handled' = Append(handled, ingest.run) /\ ingest' = NoIngest
        /\ UNCHANGED <<task, call, ended, outbox, activity, cursor>>
    BY <1>15 DEF Return
  <2>2. Kept
    BY <2>1, KeptFrame
  <2>3. IngestInv'
    BY <1>3, <2>1 DEF IngestInv, NoIngest
  <2>4. ASSUME NEW s \in 1 .. Len(ended), s = ingest.run PROVE Processed(s)'
    <3>1. Processed(ingest.run) /\ ingest.run \in 1 .. Len(ended)
      BY <1>3, <2>1, Settled DEF Processed, IngestInv
    <3> QED BY <2>2, <2>4, <3>1, ProcessedStays
  <2>5. /\ Len(handled) \in Nat /\ Len(handled') = Len(handled) + 1
        /\ handled'[Len(handled) + 1] = ingest.run
        /\ \A k \in 1 .. Len(handled) : handled'[k] = handled[k]
    BY <1>0, <2>1 DEF TypeOK
  <2>6. ASSUME NEW k \in 1 .. Len(handled') PROVE Processed(handled[k])'
    <3> DEFINE s == handled'[k]
    <3>1. s \in 1 .. Len(ended)
      BY <2>1, <2>5, Settled
    <3>2. Processed(s) \/ s = ingest.run
      BY <1>3, <2>5 DEF HandledInv
    <3>3. ASSUME NEW u \in 1 .. Len(ended), Processed(u) \/ u = ingest.run
          PROVE  Processed(u)'
      BY <2>2, <2>4, <3>3, ProcessedStays
    <3> QED BY <3>1, <3>2, <3>3 DEF Processed, Announced
  <2>7. HandledInv'
    BY <2>6 DEF HandledInv
  <2> QED BY <1>3, <2>1, <2>2, <2>3, <2>7, CallFrame
<1>16. CASE MarkSent \/ \E i \in 1 .. Len(outbox) : Inject(i) \/ InjectFails(i)
  <2>1. UNCHANGED <<task, call, ended, ingest, activity, cursor, handled>>
    BY <1>16 DEF MarkSent, Inject, InjectFails
  <2>2. /\ Len(outbox') = Len(outbox)
        /\ \A i \in 1 .. Len(outbox) : outbox'[i].run = outbox[i].run
    <3>1. outbox \in Seq(Note) /\ \A i \in 1 .. Len(outbox) : outbox[i] \in Note
      BY <1>0, ElementOfSeq DEF TypeOK
    <3>2. ASSUME NEW i \in 1 .. Len(outbox), NEW note \in Note, note.run = outbox[i].run,
                 outbox' = [outbox EXCEPT ![i] = note]
          PROVE  /\ Len(outbox') = Len(outbox)
                 /\ \A j \in 1 .. Len(outbox) : outbox'[j].run = outbox[j].run
      BY <3>1, <3>2, ExceptSeq
    <3>3. CASE MarkSent
      <4> DEFINE note == [outbox[sender] EXCEPT !.status = "sent"]
      <4>1. sender \in 1 .. Len(outbox) /\ outbox' = [outbox EXCEPT ![sender] = note]
        BY <1>0, <3>3 DEF MarkSent, TypeOK
      <4>2. note \in Note /\ note.run = outbox[sender].run
        BY <3>1, <4>1 DEF Note
      <4> HIDE DEF note
      <4> QED BY <3>2, <4>1, <4>2
    <3>4. ASSUME NEW i \in 1 .. Len(outbox), Inject(i)
          PROVE  /\ Len(outbox') = Len(outbox)
                 /\ \A j \in 1 .. Len(outbox) : outbox'[j].run = outbox[j].run
      <4> DEFINE note == [outbox[i] EXCEPT !.told = @ + 1]
      <4>1. outbox' = [outbox EXCEPT ![i] = note]
        BY <3>4 DEF Inject
      <4>2. outbox[i] \in Note
        BY <3>1
      <4>3. note \in Note /\ note.run = outbox[i].run
        BY <4>2 DEF Note
      <4> HIDE DEF note
      <4> QED BY <3>2, <4>1, <4>3
    <3>5. ASSUME NEW i \in 1 .. Len(outbox), InjectFails(i)
          PROVE  /\ Len(outbox') = Len(outbox)
                 /\ \A j \in 1 .. Len(outbox) : outbox'[j].run = outbox[j].run
      <4> DEFINE attempts == outbox[i].attempts + 1
                 note == [outbox[i] EXCEPT !.attempts = attempts,
                            !.status = IF attempts >= MaxAttempts THEN "failed" ELSE "pending"]
      <4>1. outbox' = [outbox EXCEPT ![i] = note]
        BY <3>1, <3>5 DEF InjectFails, Note
      <4>2. outbox[i].attempts < MaxAttempts /\ outbox[i] \in Note
        BY <1>0, <3>1, <3>5 DEF InjectFails, Due, Bounds
      <4>3. attempts \in 0 .. MaxAttempts
        BY <4>2, EventsAssumption DEF Note
      <4>4. note \in Note /\ note.run = outbox[i].run
        <5> HIDE DEF attempts
        <5> QED BY <4>2, <4>3 DEF Note
      <4> HIDE DEF note
      <4> QED BY <3>2, <4>1, <4>4
    <3> QED BY <1>16, <3>3, <3>4, <3>5
  <2>3. \A r : Announced(r) => Announced(r)'
    BY <2>2 DEF Announced
  <2>4. Kept
    BY <2>1, <2>3 DEF Kept, Begun
  <2> QED BY <1>3, <2>1, <2>4, CallFrame, IngestFrame, HandledFrame
<1> QED
  BY <1>1, <1>2, <1>5, <1>6, <1>7, <1>10, <1>11, <1>12, <1>13, <1>14, <1>15, <1>16, <1>17
  DEF Next, Agent, Reader, Notifier, Mishap

\* A run that settled completes its tasks and is told, or it is still on its way
\* to that, or a fault took that very settling away: broken connections, repeated
\* subscriptions and the faults that hit something else stop none of it
\* (last_seq, the replay of handleSubscribe).
THEOREM NothingIsForgotten == Spec => []NothingForgotten
<1>1. LossInv /\ WorkInv => NothingForgotten
  <2> SUFFICES ASSUME LossInv, WorkInv, NEW r \in 1 .. Len(ended),
                      ~Excused(r), ~Coming(r), ingest.run # r
               PROVE  Processed(r)
    BY DEF NothingForgotten
  <2>1. PICK k \in 1 .. Len(handled) : handled[k] = r
    BY DEF LossInv, Handled, Excused
  <2> QED BY <2>1 DEF WorkInv, HandledInv
<1> QED BY <1>1, EventsInvariant, LossInvariant, WorkInit, WorkStep, PTL DEF Spec
=============================================================================
