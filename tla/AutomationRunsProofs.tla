------------------------ MODULE AutomationRunsProofs ------------------------
(***************************************************************************)
(* Proofs about AutomationRuns, for every concurrency policy, any number   *)
(* of children, fires, runs of the user, sessions of his in the folder and *)
(* restarts: type correctness, the balance of the engine's books, and what *)
(* follows from it for parents and outcomes; that a recorded stop cost a   *)
(* process its life; and that the automation keeps the promise of          *)
(* FireLedger, from which what it holds of the slot and of the queue comes.*)
(***************************************************************************)
EXTENDS AutomationRuns, FiniteSetTheorems, SequenceTheorems, TLAPS

-----------------------------------------------------------------------------
(* Type correctness *)

\* The numbers of the runs, and who the processes are.
LEMMA Numbering ==
    /\ Fires \subseteq Occurrences /\ Manual \subseteq Occurrences /\ Occurrences \subseteq Nat
    /\ Fires \cap Manual = {} /\ Occurrences = Fires \cup Manual
    /\ NoFire \notin Occurrences
    /\ Children \subseteq Processes /\ Nobody \notin Processes
    /\ \A c \in Children : c[1] \in Occurrences /\ c[2] \in 1 .. Width /\ c = <<c[1], c[2]>>
    /\ \A f \in Occurrences, i \in 1 .. Width : <<f, i>> \in Children
<1>1. /\ Fires \subseteq Occurrences /\ Manual \subseteq Occurrences /\ Occurrences \subseteq Nat
      /\ Fires \cap Manual = {} /\ NoFire \notin Occurrences
  BY AutomationAssumption DEF Fires, Manual, Occurrences, NoFire
<1>2. Nobody \notin Children
  BY <1>1 DEF Children, Nobody
<1>3. Children \subseteq Processes /\ Nobody \notin Processes
  BY <1>2, AutomationAssumption DEF Processes
<1> QED BY <1>1, <1>3 DEF Occurrences, Children

\* Constant records are well typed, and the stamps of a run are children.
LEMMA RecordTypes ==
    /\ NoParent \in Parent /\ NewParent \in Parent
    /\ NoChild \in Child /\ NewChild \in Child
    /\ \A f \in Occurrences : StampsOf(f) \in Seq(Children)
<1>1. Width \in 0 .. Width
  BY AutomationAssumption
<1>2. ASSUME NEW f \in Occurrences PROVE StampsOf(f) \in Seq(Children)
  BY AutomationAssumption DEF StampsOf, Children
<1>3. NoParent \in Parent /\ NewParent \in Parent
  <2>1. 0 \in 0 .. Width
    BY AutomationAssumption
  <2> QED BY <1>1, <2>1 DEF NoParent, NewParent, Parent, Status
<1>4. NoChild \in Child
  BY DEF NoChild, Child, Status
<1>5. NewChild \in Child
  BY <1>4 DEF NewChild, Child, Status
<1> QED BY <1>2, <1>3, <1>4, <1>5

\* A folder's queue with new stamps holds children.
LEMMA StampType ==
    ASSUME stamps \in Seq(Children), NEW f \in Occurrences
    PROVE  Stamped(f) \in Seq(Children)
<1> DEFINE all == stamps \o StampsOf(f)
<1>1. all \in Seq(Children)
  BY RecordTypes
<1> HIDE DEF all
<1>2. Len(all) > StampCap => SubSeq(all, 1, StampCap) \in Seq(Children)
  <2> SUFFICES ASSUME Len(all) > StampCap PROVE SubSeq(all, 1, StampCap) \in Seq(Children)
    OBVIOUS
  <2>1. StampCap \in Nat \ {0} /\ Len(all) \in Nat
    BY <1>1, AutomationAssumption
  <2>2. \A i \in 1 .. StampCap : all[i] \in Children
    BY <1>1, <2>1
  <2> QED BY <1>1, <2>1, <2>2, SubSeqProperties
<1> QED BY <1>1, <1>2 DEF Stamped, all

\* The initial states are well typed.
LEMMA TypeInit == Init => TypeOK
  BY RecordTypes, AutomationAssumption DEF Init, TypeOK

\* What finalizeChild writes is well typed.
LEMMA FinalizeType ==
    ASSUME TypeOK, NEW c \in Children, NEW ctx \in Child, NEW status \in Terminal,
           finalizeChild(c, ctx, status)
    PROVE  /\ child' \in [Children -> Child]
           /\ parent' \in [Occurrences -> Parent]
           /\ queue' \in Seq(Fires)
           /\ stamps' \in Seq(Children)
           /\ active' \in Fires \cup {NoFire}
<1> DEFINE f == c[1]
           last == IsLast(f) /\ queue # <<>>
<1>1. f \in Occurrences
  BY DEF Children
<1>2. queue # <<>> => /\ Head(queue) \in Fires /\ Head(queue) \in Occurrences
                      /\ Tail(queue) \in Seq(Fires)
  BY Numbering DEF TypeOK
<1>3. [NoChild EXCEPT !.rec = status, !.spawn = ctx.spawn, !.session = ctx.session] \in Child
  BY RecordTypes DEF Child, Status
<1>4. Counted(f, status) \in Parent
  <2>1. parent[f] \in Parent /\ parent[f].remaining \in 0 .. Width
    BY <1>1 DEF TypeOK, Parent
  <2>2. aggregateStatus(parent[f].outcomes \cup {status}) \in Status
    BY DEF aggregateStatus, Status, Terminal
  <2>3. CASE IsLast(f)
    BY <2>2, <2>3, RecordTypes DEF Counted, Parent
  <2>4. CASE ~IsLast(f)
    <3>1. parent[f].remaining - 1 \in 0 .. Width
      BY <2>1, <2>4, AutomationAssumption DEF IsLast
    <3>2. parent[f].outcomes \cup {status} \in SUBSET Terminal
      BY <2>1 DEF Parent
    <3> QED BY <2>1, <2>4, <3>1, <3>2 DEF Counted, Parent
  <2> QED BY <2>3, <2>4
<1>5. child' \in [Children -> Child]
  BY <1>3, RecordTypes DEF finalizeChild, BegunChildren, TypeOK
<1>6. parent' \in [Occurrences -> Parent]
  BY <1>1, <1>4, RecordTypes DEF finalizeChild, BegunParents, TypeOK
<1>7. queue' \in Seq(Fires) /\ active' \in Fires \cup {NoFire}
  BY <1>2 DEF finalizeChild, TypeOK
<1>8. stamps' \in Seq(Children)
  BY <1>2, StampType DEF finalizeChild, TypeOK
<1> QED BY <1>5, <1>6, <1>7, <1>8

\* So is what a caller of finalizeChild leaves behind.
LEMMA EndType ==
    ASSUME TypeOK, NEW c \in Children, NEW ctx \in Child, NEW status \in Terminal,
           End(c, ctx, status)
    PROVE  /\ child' \in [Children -> Child]
           /\ parent' \in [Occurrences -> Parent]
           /\ queue' \in Seq(Fires)
           /\ stamps' \in Seq(Children)
           /\ active' \in Fires \cup {NoFire}
  BY FinalizeType DEF End, TypeOK

\* Signals keep the processes well typed.
LEMMA SignalType ==
    ASSUME TypeOK, NEW ps
    PROVE  Signalled(ps) \in [Processes -> {"none", "launched", "up", "killed", "dead"}]
  BY DEF TypeOK, Signalled

\* Every action keeps the types.
LEMMA TypeStep == TypeOK /\ [Next]_vars => TypeOK'
<1> SUFFICES ASSUME TypeOK, [Next]_vars PROVE TypeOK'
  OBVIOUS
<1> USE DEF runs
<1>1. CASE Fire
  <2>1. fired' \in Fires /\ fired' \in Occurrences /\ fired' \in 0 .. MaxFires
    BY <1>1, AutomationAssumption, Numbering DEF Fire, TypeOK, Fires
  <2>2. CASE Begin(fired')
    <3>1. child' \in [Children -> Child] /\ parent' \in [Occurrences -> Parent]
      BY <2>2, RecordTypes DEF Begin, BegunChildren, BegunParents, TypeOK
    <3>2. stamps' \in Seq(Children)
      BY <2>1, <2>2, StampType DEF Begin, TypeOK
    <3> QED BY <1>1, <2>1, <2>2, <3>1, <3>2 DEF Begin, Fire, TypeOK
  <2>3. CASE Defer(fired')
    BY <1>1, <2>1, <2>3 DEF Defer, Fire, TypeOK
  <2>4. CASE UNCHANGED runs
    BY <1>1, <2>1, <2>4 DEF Fire, TypeOK
  <2> QED BY <1>1, <2>2, <2>3, <2>4 DEF Fire
<1>2. ASSUME NEW c \in Children, SpawnReturns(c) PROVE TypeOK'
  <2> DEFINE ctx == [child[c] EXCEPT !.spawn = "answered", !.token = child[c].live]
  <2>1. ctx \in Child
    BY DEF TypeOK, Child
  <2>2. CASE ctx.stop
    BY <1>2, <2>1, <2>2, EndType, SignalType DEF SpawnReturns, TypeOK, Terminal
  <2>3. CASE ~ctx.stop
    BY <1>2, <2>1, <2>3 DEF SpawnReturns, TypeOK
  <2> QED BY <2>2, <2>3
<1>3. ASSUME NEW c \in Children, SpawnFails(c) PROVE TypeOK'
  <2>1. [child[c] EXCEPT !.spawn = "answered"] \in Child
    BY DEF TypeOK, Child
  <2> QED BY <1>3, <2>1, EndType DEF SpawnFails, TypeOK, Terminal
<1>4. ASSUME NEW c \in Children, AgentEnds(c) PROVE TypeOK'
  <2>1. child[c] \in Child
    BY DEF TypeOK
  <2>2. proc' \in [Processes -> {"none", "launched", "up", "killed", "dead"}]
    BY <1>4 DEF AgentEnds, TypeOK
  <2>3. PICK status \in {"done", "error"} : End(c, child[c], status)
    BY <1>4 DEF AgentEnds
  <2>4. status \in Terminal
    BY DEF Terminal
  <2> QED BY <1>4, <2>1, <2>2, <2>3, <2>4, EndType DEF AgentEnds, TypeOK
<1>5. ASSUME NEW chosen \in SUBSET Children, StopChildren(chosen) PROVE TypeOK'
  <2>1. \A c \in Children : Target(c, child[c]) \in Processes
    BY Numbering DEF Target, TypeOK, Child
  <2>2. stopping' \subseteq Children \X Processes
    BY <1>5, <2>1 DEF StopChildren, TypeOK
  <2>3. child' \in [Children -> Child]
    <3>1. \A c \in Children : [child[c] EXCEPT !.stop = TRUE] \in Child /\ child[c] \in Child
      BY DEF TypeOK, Child
    <3> QED BY <1>5, <3>1 DEF StopChildren
  <2>4. proc' \in [Processes -> {"none", "launched", "up", "killed", "dead"}]
    BY <1>5, SignalType DEF StopChildren
  <2> QED BY <1>5, <2>2, <2>3, <2>4 DEF StopChildren, TypeOK
<1>6. ASSUME NEW c \in Children, NEW p \in Processes, StopReturns(c, p) PROVE TypeOK'
  <2>1. child[c] \in Child
    BY DEF TypeOK
  <2>2. stopping' \subseteq Children \X Processes
    BY <1>6 DEF StopReturns, TypeOK
  <2> QED BY <1>6, <2>1, <2>2, EndType DEF StopReturns, TypeOK, Terminal
<1>7. ASSUME NEW c \in Children, Reap(c) PROVE TypeOK'
  <2>1. CASE Live(c)
    <3>1. child[c] \in Child
      BY DEF TypeOK
    <3> QED BY <1>7, <2>1, <3>1, FinalizeType DEF Reap, TypeOK, Terminal
  <2>2. CASE ~Live(c)
    <3>1. [child[c] EXCEPT !.rec = "error"] \in Child
      BY DEF TypeOK, Child, Status, Terminal
    <3>2. child' \in [Children -> Child]
      BY <1>7, <2>2, <3>1 DEF Reap, TypeOK
    <3> QED BY <1>7, <2>2, <3>2 DEF Reap, TypeOK
  <2> QED BY <2>1, <2>2
<1>8. ASSUME NEW p \in Children, Launch(p) PROVE TypeOK'
  BY <1>8 DEF Launch, TypeOK
<1>9. ASSUME NEW p \in Processes, Register(p) PROVE TypeOK'
  <2>1. CASE stamps = <<>>
    BY <1>9, <2>1 DEF Register, TypeOK
  <2>2. CASE stamps # <<>>
    <3>1. Head(stamps) \in Children /\ Tail(stamps) \in Seq(Children)
      BY <2>2 DEF TypeOK
    <3>2. child' \in [Children -> Child]
      <4> DEFINE h == Head(stamps)
                 new == IF Live(h) /\ child[h].session = Nobody THEN p ELSE child[h].session
      <4>1. child' = [child EXCEPT ![h] = [@ EXCEPT !.session = new]]
        BY <1>9, <2>2, <3>1 DEF Register, TypeOK
      <4>2. child[h] \in Child /\ new \in Processes \cup {Nobody}
        BY <3>1 DEF TypeOK, Child
      <4> HIDE DEF new
      <4>3. [child[h] EXCEPT !.session = new] \in Child
        BY <4>2 DEF Child
      <4> QED BY <3>1, <4>1, <4>3 DEF TypeOK
    <3> QED BY <1>9, <2>2, <3>1, <3>2 DEF Register, TypeOK
  <2> QED BY <2>1, <2>2
<1>10. ASSUME NEW p \in Processes, Dies(p) PROVE TypeOK'
  <2>1. CASE Served(p) = {}
    BY <1>10, <2>1 DEF Dies, TypeOK
  <2>2. CASE Served(p) # {}
    <3>1. PICK c \in Served(p), status \in {"done", "error"} :
            /\ End(c, child[c], status)
            /\ \E q \in {Target(c, child[c])} \cup (IF child[c].token THEN {c} ELSE {}) :
                  proc' = [Signalled({q}) EXCEPT ![p] = "dead"]
      BY <1>10, <2>2 DEF Dies
    <3>2. c \in Children /\ child[c] \in Child /\ status \in Terminal
      BY DEF Served, TypeOK, Terminal
    <3>3. proc' \in [Processes -> {"none", "launched", "up", "killed", "dead"}]
      BY <3>1, SignalType
    <3>4. /\ child' \in [Children -> Child] /\ parent' \in [Occurrences -> Parent]
          /\ queue' \in Seq(Fires) /\ stamps' \in Seq(Children)
          /\ active' \in Fires \cup {NoFire}
      BY <3>1, <3>2, EndType
    <3> QED BY <1>10, <3>3, <3>4 DEF Dies, TypeOK
  <2> QED BY <2>1, <2>2
<1>11. CASE StampExpires
  BY <1>11 DEF StampExpires, TypeOK
<1>12. CASE Restart
  <2>1. child' \in [Children -> Child]
    BY <1>12, RecordTypes DEF Restart, TypeOK, Child
  <2>2. parent' \in [Occurrences -> Parent]
    BY <1>12, RecordTypes DEF Restart, TypeOK, Parent
  <2>3. restarts' \in 0 .. MaxRestarts
    BY <1>12, AutomationAssumption DEF Restart, TypeOK
  <2> QED BY <1>12, <2>1, <2>2, <2>3 DEF Restart, TypeOK
<1>13. CASE UNCHANGED vars
  BY <1>13 DEF vars, TypeOK
<1>14. ASSUME NEW m \in Manual, RunNow(m) PROVE TypeOK'
  <2>1. m \in Occurrences
    BY Numbering
  <2>2. child' \in [Children -> Child] /\ parent' \in [Occurrences -> Parent]
    BY <1>14, RecordTypes DEF RunNow, BegunChildren, BegunParents, TypeOK
  <2>3. stamps' \in Seq(Children)
    BY <1>14, <2>1, StampType DEF RunNow, TypeOK
  <2> QED BY <1>14, <2>2, <2>3 DEF RunNow, TypeOK
<1>15. ASSUME NEW p \in Processes, Disconnects(p) PROVE TypeOK'
  <2>1. PICK c \in Served(p), status \in {"done", "error"} :
          End(c, child[c], status) /\ proc' = Signalled({Target(c, child[c])})
    BY <1>15 DEF Disconnects
  <2>2. c \in Children /\ child[c] \in Child /\ status \in Terminal
    BY DEF Served, TypeOK, Terminal
  <2>3. proc' \in [Processes -> {"none", "launched", "up", "killed", "dead"}]
    BY <2>1, SignalType
  <2> QED BY <1>15, <2>1, <2>2, <2>3, EndType DEF Disconnects, TypeOK
<1> QED
  BY <1>1, <1>2, <1>3, <1>4, <1>5, <1>6, <1>7, <1>8, <1>9, <1>10, <1>11, <1>12,
     <1>13, <1>14, <1>15 DEF Next, ChildStep, Stop, StopAll

\* Whatever the policy, the number of children and fires, and however often
\* the Dashboard restarts, the state stays well typed.
THEOREM Typing == Spec => []TypeOK
  BY TypeInit, TypeStep, PTL DEF Spec

\* A session that registers changes of a child nothing but its session, and
\* that only when it lives and has none.
LEMMA Registered ==
    ASSUME TypeOK, NEW p \in Processes, Register(p), NEW d \in Children
    PROVE  /\ child'[d].rec = child[d].rec /\ child'[d].live = child[d].live
           /\ child'[d].token = child[d].token /\ child'[d].stop = child[d].stop
           /\ \/ child'[d].session = child[d].session
              \/ Live(d) /\ child[d].session = Nobody /\ child'[d].session = p
<1>1. CASE stamps = <<>>
  BY <1>1 DEF Register
<1>2. CASE stamps # <<>>
  <2> DEFINE h == Head(stamps)
             new == IF Live(h) /\ child[h].session = Nobody THEN p ELSE child[h].session
  <2>1. h \in Children
    BY <1>2 DEF TypeOK
  <2>2. child' = [child EXCEPT ![h] = [@ EXCEPT !.session = new]]
    BY <1>2, <2>1 DEF Register, TypeOK
  <2> HIDE DEF h
  <2>3. CASE d = h
    <3>1. child'[d] = [child[d] EXCEPT !.session = new] /\ child[d] \in Child
      BY <2>1, <2>2, <2>3 DEF TypeOK
    <3> HIDE DEF new
    <3>2. /\ child'[d].rec = child[d].rec /\ child'[d].live = child[d].live
          /\ child'[d].token = child[d].token /\ child'[d].session = new
          /\ child'[d].stop = child[d].stop
      BY <3>1 DEF Child
    <3> QED BY <2>3, <3>2 DEF new
  <2>4. CASE d # h
    BY <2>2, <2>4 DEF TypeOK
  <2> QED BY <2>3, <2>4
<1> QED BY <1>1, <1>2

-----------------------------------------------------------------------------
(* The books *)

\* Sets of slots are finite; one of them with a context less has one less.
LEMMA SlotCounts ==
    /\ IsFiniteSet(1 .. Width) /\ Cardinality(1 .. Width) = Width
    /\ \A S \in SUBSET (1 .. Width) :
          /\ IsFiniteSet(S) /\ Cardinality(S) \in Nat
          /\ Cardinality(S) = 0 <=> S = {}
          /\ \A i \in S : Cardinality(S \ {i}) = Cardinality(S) - 1
<1>1. IsFiniteSet(1 .. Width) /\ Cardinality(1 .. Width) = Width
  BY FS_Interval, AutomationAssumption
<1>2. ASSUME NEW S \in SUBSET (1 .. Width)
      PROVE  /\ IsFiniteSet(S) /\ Cardinality(S) \in Nat
             /\ Cardinality(S) = 0 <=> S = {}
             /\ \A i \in S : Cardinality(S \ {i}) = Cardinality(S) - 1
  <2>1. IsFiniteSet(S)
    BY <1>1, FS_Subset
  <2> QED BY <2>1, FS_CardinalityType, FS_EmptySet, FS_RemoveElement
<1> QED BY <1>1, <1>2

\* A fire whose records, contexts and counter a step leaves alone stays in
\* balance, and what has not begun stays so.
LEMMA BooksKept ==
    ASSUME NEW f \in Occurrences, Books(f), restarts' = restarts,
           f > fired' => f > fired,
           \A i \in 1 .. Width : /\ child'[<<f, i>>].rec = child[<<f, i>>].rec
                                 /\ child'[<<f, i>>].live = child[<<f, i>>].live,
           parent'[f] = parent[f]
    PROVE  Books(f)'
<1>1. LiveSlots(f)' = LiveSlots(f) /\ Records(f)' = Records(f)
  BY DEF LiveSlots, Records
<1>2. {child'[<<f, i>>].rec : i \in (1 .. Width) \ LiveSlots(f)}
        = {child[<<f, i>>].rec : i \in (1 .. Width) \ LiveSlots(f)}
  OBVIOUS
<1>3. AllEnded(f)' <=> AllEnded(f)
  BY <1>1 DEF AllEnded
<1> QED BY <1>1, <1>2, <1>3 DEF Books

\* A fire that begins is in balance.
LEMMA BooksBegun ==
    ASSUME NEW f \in Occurrences, f \in Fires => ~(f > fired'),
           \A i \in 1 .. Width : child'[<<f, i>>] = NewChild,
           parent'[f] = NewParent
    PROVE  Books(f)'
<1>1. \A i \in 1 .. Width : child'[<<f, i>>].rec = "running" /\ child'[<<f, i>>].live
  BY DEF NewChild, NoChild
<1>2. LiveSlots(f)' = 1 .. Width
  BY <1>1 DEF LiveSlots
<1>3. {child'[<<f, i>>].rec : i \in (1 .. Width) \ (1 .. Width)} = {}
  OBVIOUS
<1>4. /\ parent'[f].rec = "running" /\ parent'[f].tracked
      /\ parent'[f].remaining = Width /\ parent'[f].outcomes = {}
  BY DEF NewParent
<1>5. Cardinality(LiveSlots(f)') = Width /\ Width > 0
  BY <1>2, SlotCounts, AutomationAssumption
<1>6. {child'[<<f, i>>].rec : i \in (1 .. Width) \ LiveSlots(f)'} = {}
  BY <1>2, <1>3
<1> QED
  BY <1>1, <1>4, <1>5, <1>6 DEF Books, Terminal

\* A step that leaves the records, contexts, counters and the queue alone
\* leaves the books in balance.
LEMMA BooksFrame ==
    ASSUME BooksBalance, restarts' = restarts, fired' = fired,
           \A c \in Children : child'[c].rec = child[c].rec /\ child'[c].live = child[c].live,
           parent' = parent, queue' = queue
    PROVE  BooksBalance'
<1>1. ASSUME NEW f \in Occurrences PROVE Books(f)'
  <2>1. \A i \in 1 .. Width : <<f, i>> \in Children
    BY DEF Children
  <2>2. Books(f)
    BY DEF BooksBalance
  <2> QED BY <2>1, <2>2, BooksKept
<1>2. \A i \in DOMAIN queue' :
          /\ queue'[i] <= fired'
          /\ parent'[queue'[i]].rec = "none"
          /\ \A j \in DOMAIN queue' : i < j => queue'[i] < queue'[j]
  BY DEF BooksBalance
<1> QED BY <1>1, <1>2 DEF BooksBalance

\* One child less: the fire of a child that is finalized stays in balance,
\* and its parent is finalized with the last one.
LEMMA BooksCounted ==
    ASSUME TypeOK, NEW f \in Occurrences, Books(f), restarts' = restarts, fired' = fired,
           NEW k \in 1 .. Width, child[<<f, k>>].live, NEW status \in Terminal,
           child'[<<f, k>>].rec = status, ~child'[<<f, k>>].live,
           \A i \in (1 .. Width) \ {k} : child'[<<f, i>>] = child[<<f, i>>],
           parent'[f] = Counted(f, status)
    PROVE  Books(f)'
<1> DEFINE rest == LiveSlots(f) \ {k}
           outcomes == parent[f].outcomes \cup {status}
<1>1. /\ parent[f].tracked /\ parent[f].rec = "running"
      /\ parent[f].remaining = Cardinality(LiveSlots(f))
      /\ parent[f].outcomes = {child[<<f, i>>].rec : i \in (1 .. Width) \ LiveSlots(f)}
      /\ f \in Fires => ~(f > fired)
  <2>1. parent[f].tracked
    BY DEF Books
  <2>2. parent[f].rec = "running"
    BY <2>1 DEF Books
  <2> QED BY <2>1, <2>2 DEF Books
<1>2. /\ k \in LiveSlots(f) /\ LiveSlots(f) \in SUBSET (1 .. Width)
      /\ LiveSlots(f)' = rest
  BY DEF LiveSlots
<1>3. /\ Cardinality(rest) = parent[f].remaining - 1
      /\ parent[f].remaining \in Nat \ {0} /\ Cardinality(rest) \in Nat
      /\ Cardinality(rest) = 0 <=> rest = {}
  <2>1. rest \in SUBSET (1 .. Width)
    BY <1>2
  <2> HIDE DEF rest
  <2>2. Cardinality(LiveSlots(f)) \in Nat /\ Cardinality(rest) \in Nat
        /\ (Cardinality(LiveSlots(f)) = 0 <=> LiveSlots(f) = {})
        /\ (Cardinality(rest) = 0 <=> rest = {})
    BY <1>2, <2>1, SlotCounts
  <2>3. Cardinality(rest) = Cardinality(LiveSlots(f)) - 1
    BY <1>2, SlotCounts DEF rest
  <2> QED BY <1>1, <1>2, <2>2, <2>3
<1>4. outcomes = {child'[<<f, i>>].rec : i \in (1 .. Width) \ rest}
  <2>1. \A i \in (1 .. Width) \ LiveSlots(f) : i # k /\ child'[<<f, i>>] = child[<<f, i>>]
    BY <1>2
  <2>2. (1 .. Width) \ rest = ((1 .. Width) \ LiveSlots(f)) \cup {k}
    BY <1>2
  <2> QED BY <1>1, <2>1, <2>2
<1>5. outcomes \subseteq Terminal
  BY DEF TypeOK, Parent
<1>6. \A i \in 1 .. Width :
          /\ child'[<<f, i>>].rec # "none"
          /\ child'[<<f, i>>].live => child'[<<f, i>>].rec = "running" /\ i # k
          /\ child'[<<f, i>>].rec = "running" /\ restarts = 0 => child'[<<f, i>>].live
  BY <1>1 DEF Books, Terminal
<1>7. CASE ~IsLast(f)
  <2>1. /\ parent'[f].rec = "running" /\ parent'[f].tracked
        /\ parent'[f].remaining = parent[f].remaining - 1
        /\ parent'[f].outcomes = outcomes
    <3>1. parent[f] \in Parent
      BY DEF TypeOK
    <3> QED BY <1>1, <1>7, <3>1 DEF Counted, Parent
  <2>2. parent'[f].remaining > 0
    BY <1>3, <1>7, <2>1 DEF IsLast
  <2> HIDE DEF rest, outcomes
  <2> QED BY <1>1, <1>2, <1>3, <1>4, <1>6, <2>1, <2>2 DEF Books, Terminal
<1>8. CASE IsLast(f)
  <2>1. rest = {}
    BY <1>3, <1>8 DEF IsLast
  <2>2. parent'[f].rec = aggregateStatus(outcomes) /\ ~parent'[f].tracked
    BY <1>8 DEF Counted, NoParent
  <2>3. aggregateStatus(outcomes) \in Terminal
    BY DEF aggregateStatus, Terminal
  <2>4. Records(f)' = outcomes
    BY <1>4, <2>1 DEF Records
  <2>5. AllEnded(f)'
    BY <1>5, <2>4 DEF AllEnded
  <2>6. f \in Fires => ~(f > fired')
    BY <1>1
  <2>7. \A i \in 1 .. Width : ~child'[<<f, i>>].live
    BY <1>2, <2>1 DEF LiveSlots
  <2> HIDE DEF rest, outcomes
  <2> QED BY <1>6, <2>2, <2>3, <2>4, <2>5, <2>6, <2>7 DEF Books, Terminal
<1> QED BY <1>7, <1>8

\* finalizeChild counts one context less, finalizes the parent with the last
\* one and starts the deferred fire: all three keep the books.
LEMMA FinalizeBooks ==
    ASSUME TypeOK, BooksBalance, NEW c \in Children, NEW ctx, NEW status \in Terminal,
           child[c].live, finalizeChild(c, ctx, status),
           restarts' = restarts, fired' = fired
    PROVE  BooksBalance'
<1> DEFINE f == c[1]
           k == c[2]
           next == IF IsLast(f) /\ queue # <<>> THEN {Head(queue)} ELSE {}
           ended == [NoChild EXCEPT !.rec = status, !.spawn = ctx.spawn, !.session = ctx.session]
<1>1. f \in Occurrences /\ k \in 1 .. Width /\ c = <<f, k>>
  BY Numbering
<1>2. /\ child' = BegunChildren(next, [child EXCEPT ![c] = ended])
      /\ parent' = BegunParents(next, [parent EXCEPT ![f] = Counted(f, status)])
      /\ queue' = IF next = {} THEN queue ELSE Tail(queue)
  BY DEF finalizeChild
<1>3. queue \in Seq(Fires)
  BY DEF TypeOK
<1>4. ended.rec = status /\ ~ended.live
  BY DEF NoChild
<1>5. parent[f].rec = "running"
  <2>1. Books(f) /\ child[<<f, k>>].live
    BY <1>1 DEF BooksBalance
  <2> QED BY <1>1, <2>1 DEF Books
<1>6. \A h \in next : h \in Fires /\ h <= fired /\ parent[h].rec = "none"
  BY <1>3 DEF BooksBalance
<1>7. f \notin next
  BY <1>5, <1>6
<1> HIDE DEF next, ended
<1>8. \A h \in Occurrences : \A i \in 1 .. Width : <<h, i>> \in Children
  BY DEF Children
<1>9. ASSUME NEW h \in Occurrences PROVE Books(h)'
  <2>1. Books(h)
    BY DEF BooksBalance
  <2>2. CASE h \in next
    <3>1. \A i \in 1 .. Width : child'[<<h, i>>] = NewChild
      BY <1>2, <1>8, <2>2 DEF BegunChildren
    <3>2. parent'[h] = NewParent
      BY <1>2, <2>2 DEF BegunParents
    <3>3. ~(h > fired')
      BY <1>6, <2>2, AutomationAssumption, Numbering DEF TypeOK
    <3> QED BY <3>1, <3>2, <3>3, BooksBegun
  <2>3. CASE h = f
    <3>1. child'[c] = ended
      BY <1>1, <1>2, <1>7 DEF BegunChildren, TypeOK
    <3>2. \A i \in (1 .. Width) \ {k} : child'[<<f, i>>] = child[<<f, i>>]
      BY <1>1, <1>2, <1>7, <1>8 DEF BegunChildren, TypeOK
    <3>3. parent'[f] = Counted(f, status)
      BY <1>1, <1>2, <1>7 DEF BegunParents, TypeOK
    <3>4. Books(f) /\ child[<<f, k>>].live
      BY <1>1, <2>1, <2>3
    <3>5. child'[<<f, k>>].rec = status /\ ~child'[<<f, k>>].live
      BY <1>1, <1>4, <3>1
    <3> QED BY <1>1, <2>3, <3>2, <3>3, <3>4, <3>5, BooksCounted
  <2>4. CASE h \notin next /\ h # f
    <3>1. \A i \in 1 .. Width : child'[<<h, i>>] = child[<<h, i>>]
      BY <1>1, <1>2, <1>8, <2>4 DEF BegunChildren, TypeOK
    <3>2. parent'[h] = parent[h]
      BY <1>2, <2>4 DEF BegunParents, TypeOK
    <3> QED BY <2>1, <3>1, <3>2, BooksKept
  <2> QED BY <2>2, <2>3, <2>4
<1>10. \A h \in Occurrences \ {f} : h \notin next => parent'[h] = parent[h]
  BY <1>2 DEF BegunParents, TypeOK
<1>11. \A i \in DOMAIN queue : queue[i] \in Occurrences \ {f} /\ queue[i] \in Nat
  BY <1>3, <1>5, Numbering DEF BooksBalance
<1>12. \A i \in DOMAIN queue' :
          /\ queue'[i] <= fired'
          /\ parent'[queue'[i]].rec = "none"
          /\ \A j \in DOMAIN queue' : i < j => queue'[i] < queue'[j]
  <2>1. CASE next = {}
    BY <1>2, <1>10, <1>11, <2>1 DEF BooksBalance
  <2>2. CASE next # {}
    <3>1. queue # <<>> /\ next = {queue[1]} /\ queue' = Tail(queue)
      BY <1>2, <1>3, <2>2 DEF next
    <3>2. \A i \in DOMAIN queue' :
             /\ i \in Nat /\ i + 1 \in DOMAIN queue /\ 1 \in DOMAIN queue
             /\ queue'[i] = queue[i + 1] /\ i + 1 # 1
      BY <1>3, <3>1
    <3>3. \A i \in DOMAIN queue' : queue'[i] \notin next /\ queue'[i] \in Occurrences \ {f}
      <4> SUFFICES ASSUME NEW i \in DOMAIN queue'
                   PROVE  queue'[i] # queue[1] /\ queue'[i] \in Occurrences \ {f}
        BY <3>1
      <4>1. 1 < i + 1 /\ 1 \in DOMAIN queue /\ i + 1 \in DOMAIN queue /\ queue'[i] = queue[i + 1]
        BY <1>3, <3>2
      <4>2. queue[1] < queue[i + 1]
        BY <4>1 DEF BooksBalance
      <4> QED BY <1>11, <4>1, <4>2
    <3>4. \A i \in DOMAIN queue' : parent'[queue'[i]] = parent[queue'[i]]
      BY <1>10, <3>3
    <3>5. \A i, j \in DOMAIN queue' : i < j => queue'[i] < queue'[j]
      <4> SUFFICES ASSUME NEW i \in DOMAIN queue', NEW j \in DOMAIN queue', i < j
                   PROVE  queue'[i] < queue'[j]
        OBVIOUS
      <4>1. i + 1 < j + 1
        BY <3>2
      <4> QED BY <3>2, <4>1 DEF BooksBalance
    <3> QED BY <3>2, <3>4, <3>5 DEF BooksBalance
  <2> QED BY <2>1, <2>2
<1> QED BY <1>9, <1>12 DEF BooksBalance

\* Whoever ends a child keeps the books.
LEMMA EndBooks ==
    ASSUME TypeOK, BooksBalance, NEW c \in Children, NEW ctx \in Child,
           NEW status \in Terminal, End(c, ctx, status),
           ctx.rec = child[c].rec, ctx.live = child[c].live,
           restarts' = restarts, fired' = fired
    PROVE  BooksBalance'
<1>1. CASE ctx.live
  BY <1>1, FinalizeBooks DEF End
<1>2. CASE ~ctx.live
  <2>1. \A d \in Children : child'[d].rec = child[d].rec /\ child'[d].live = child[d].live
    BY <1>2 DEF End, TypeOK
  <2> QED BY <1>2, <2>1, BooksFrame DEF End
<1> QED BY <1>1, <1>2

\* The reaper clears a record without a context only after a restart, when no
\* counter is left that would miss it.
LEMMA ReapedBooks ==
    ASSUME TypeOK, BooksBalance, NEW c \in Children, restarts # 0, ~child[c].live,
           child[c].rec = "running",
           child' = [child EXCEPT ![c].rec = "error"],
           UNCHANGED <<queue, parent, fired, restarts>>
    PROVE  BooksBalance'
<1> DEFINE f == c[1]
           k == c[2]
<1>1. f \in Occurrences /\ k \in 1 .. Width /\ c = <<f, k>>
  BY Numbering
<1>2. \A h \in Occurrences : \A i \in 1 .. Width : <<h, i>> \in Children
  BY DEF Children
<1>3. ASSUME NEW h \in Occurrences PROVE Books(h)'
  <2>1. Books(h)
    BY DEF BooksBalance
  <2>2. CASE h # f
    <3>1. \A i \in 1 .. Width : child'[<<h, i>>] = child[<<h, i>>]
      BY <1>1, <1>2, <2>2 DEF TypeOK
    <3> QED BY <2>1, <3>1, BooksKept
  <2>3. CASE h = f
    <3>1. parent[f].rec # "none" /\ ~parent[f].tracked
      <4>1. k \in (1 .. Width) \ LiveSlots(f)
        BY <1>1 DEF LiveSlots
      <4>2. parent[f].outcomes \subseteq Terminal
        BY <1>1 DEF TypeOK, Parent
      <4>3. parent[f].tracked => child[<<f, k>>].rec \in parent[f].outcomes
        BY <2>1, <2>3, <4>1 DEF Books
      <4> QED BY <1>1, <2>1, <2>3, <4>2, <4>3 DEF Books, Terminal
    <3>2. parent[f].rec \notin Terminal
      <4>1. child[<<f, k>>].rec \in Records(f)
        BY <1>1 DEF Records
      <4> QED BY <1>1, <2>1, <2>3, <4>1 DEF Books, AllEnded, Terminal
    <3>3. \A i \in 1 .. Width :
             /\ child'[<<f, i>>].live = child[<<f, i>>].live
             /\ child'[<<f, i>>].rec = IF i = k THEN "error" ELSE child[<<f, i>>].rec
      <4>1. \A i \in (1 .. Width) \ {k} : child'[<<f, i>>] = child[<<f, i>>]
        BY <1>1, <1>2 DEF TypeOK
      <4>2. child'[c] = [child[c] EXCEPT !.rec = "error"] /\ child[c] \in Child
        BY DEF TypeOK
      <4>3. child'[c].live = child[c].live /\ child'[c].rec = "error"
        BY <4>2 DEF Child
      <4> QED BY <1>1, <4>1, <4>3
    <3> QED BY <1>1, <2>1, <2>3, <3>1, <3>2, <3>3 DEF Books
  <2> QED BY <2>2, <2>3
<1>4. \A i \in DOMAIN queue' :
          /\ queue'[i] <= fired'
          /\ parent'[queue'[i]].rec = "none"
          /\ \A j \in DOMAIN queue' : i < j => queue'[i] < queue'[j]
  BY DEF BooksBalance
<1> QED BY <1>3, <1>4 DEF BooksBalance

\* A restart forgets contexts, counters and the queue, and keeps the records.
LEMMA RestartBooks ==
    ASSUME TypeOK, BooksBalance, Restart
    PROVE  BooksBalance'
<1>1. \A h \in Occurrences : \A i \in 1 .. Width :
          /\ child'[<<h, i>>].rec = child[<<h, i>>].rec
          /\ ~child'[<<h, i>>].live
  BY DEF Restart, TypeOK, Child, Children, NoChild
<1>2. \A h \in Occurrences : parent'[h].rec = parent[h].rec /\ ~parent'[h].tracked
  BY DEF Restart, NoParent
<1>3. queue' = <<>> /\ fired' = fired /\ restarts' # 0
  BY DEF Restart, TypeOK
<1>4. ASSUME NEW h \in Occurrences PROVE Books(h)'
  <2>1. Books(h)
    BY DEF BooksBalance
  <2>2. Records(h)' = Records(h)
    BY <1>1 DEF Records
  <2>3. AllEnded(h)' <=> AllEnded(h)
    BY <2>2 DEF AllEnded
  <2> QED BY <1>1, <1>2, <1>3, <2>1, <2>2, <2>3 DEF Books
<1> QED BY <1>3, <1>4 DEF BooksBalance

\* Nothing has begun: the books balance.
LEMMA BooksInit == Init => BooksBalance
<1> SUFFICES ASSUME Init PROVE BooksBalance
  OBVIOUS
<1>1. ASSUME NEW f \in Occurrences PROVE Books(f)
  <2>1. \A i \in 1 .. Width : <<f, i>> \in Children
    BY DEF Children
  <2> QED BY <2>1 DEF Init, Books, NoChild, NoParent, Terminal
<1> QED BY <1>1 DEF Init, BooksBalance

\* A fire begins a run that is in balance, or defers it, or drops it.
LEMMA BooksFire ==
    ASSUME TypeOK, BooksBalance, Fire
    PROVE  BooksBalance'
<1>1. /\ fired' = fired + 1 /\ fired' \in Fires /\ fired \in Nat
      /\ restarts' = restarts /\ queue \in Seq(Fires) /\ fired' \in Occurrences
  BY AutomationAssumption, Numbering DEF Fire, Fires, TypeOK
<1>2. \A h \in Occurrences : h \in Nat
  BY Numbering
<1>3. \A h \in Occurrences : \A i \in 1 .. Width : <<h, i>> \in Children
  BY DEF Children
<1>4. ASSUME NEW h \in Occurrences PROVE (h > fired' => h > fired) /\ Books(h)
  <2>1. Books(h)
    BY DEF BooksBalance
  <2>2. h > fired' => h > fired
    BY <1>1, <1>2
  <2> QED BY <2>1, <2>2
<1>5. parent[fired'].rec = "none"
  BY <1>1 DEF BooksBalance, Books
<1>6. \A i \in DOMAIN queue :
          queue[i] \in Occurrences /\ queue[i] < fired' /\ queue[i] <= fired'
  <2> SUFFICES ASSUME NEW i \in DOMAIN queue
               PROVE  queue[i] \in Occurrences /\ queue[i] < fired' /\ queue[i] <= fired'
    OBVIOUS
  <2> DEFINE q == queue[i]
  <2>1. q \in Occurrences
    BY <1>1, Numbering
  <2>2. q <= fired
    BY DEF BooksBalance
  <2>3. q \in Nat
    BY <1>2, <2>1
  <2> HIDE DEF q
  <2>4. q < fired' /\ q <= fired'
    BY <1>1, <2>2, <2>3
  <2> QED BY <2>1, <2>4 DEF q
<1>7. CASE Begin(fired')
  <2>1. ASSUME NEW h \in Occurrences PROVE Books(h)'
    <3>1. CASE h = fired'
      <4>1. \A i \in 1 .. Width : child'[<<h, i>>] = NewChild
        BY <1>3, <1>7, <3>1 DEF Begin, BegunChildren
      <4>2. parent'[h] = NewParent
        BY <1>7, <3>1 DEF Begin, BegunParents
      <4>3. ~(h > fired')
        BY <1>1, <1>2, <3>1
      <4> QED BY <4>1, <4>2, <4>3, BooksBegun
    <3>2. CASE h # fired'
      <4>1. \A i \in 1 .. Width : child'[<<h, i>>] = child[<<h, i>>]
        BY <1>3, <1>7, <3>2 DEF Begin, BegunChildren
      <4>2. parent'[h] = parent[h]
        BY <1>7, <3>2 DEF Begin, BegunParents
      <4> QED BY <1>1, <1>4, <4>1, <4>2, BooksKept
    <3> QED BY <3>1, <3>2
  <2>2. \A h \in Occurrences : h # fired' => parent'[h] = parent[h]
    BY <1>7 DEF Begin, BegunParents
  <2>3. queue' = queue
    BY <1>7 DEF Begin
  <2>4. \A i \in DOMAIN queue : queue[i] # fired'
    BY <1>1, <1>2, <1>6
  <2> QED BY <1>6, <2>1, <2>2, <2>3, <2>4 DEF BooksBalance
<1>8. CASE Defer(fired')
  <2> USE DEF Defer
  <2>1. \A h \in Occurrences : Books(h)'
    BY <1>1, <1>4, <1>8, BooksKept
  <2>2. /\ DOMAIN queue' = (DOMAIN queue) \cup {Len(queue) + 1}
        /\ Len(queue) + 1 \notin DOMAIN queue
        /\ \A i \in DOMAIN queue : queue'[i] = queue[i]
        /\ queue'[Len(queue) + 1] = fired'
    BY <1>1, <1>8
  <2>3. \A i \in DOMAIN queue' : queue'[i] <= fired' /\ parent'[queue'[i]].rec = "none"
    BY <1>1, <1>2, <1>5, <1>6, <1>8, <2>2 DEF BooksBalance
  <2>4. \A i, j \in DOMAIN queue' : i < j => queue'[i] < queue'[j]
    <3> SUFFICES ASSUME NEW i \in DOMAIN queue', NEW j \in DOMAIN queue', i < j
                 PROVE  queue'[i] < queue'[j]
      OBVIOUS
    <3>1. i \in DOMAIN queue
      BY <1>1, <2>2
    <3>2. CASE j \in DOMAIN queue
      BY <2>2, <3>1, <3>2 DEF BooksBalance
    <3>3. CASE j = Len(queue) + 1
      BY <1>6, <2>2, <3>1, <3>3
    <3> QED BY <2>2, <3>2, <3>3
  <2> QED BY <2>1, <2>3, <2>4 DEF BooksBalance
<1>9. CASE UNCHANGED runs
  <2>1. \A h \in Occurrences : Books(h)'
    BY <1>1, <1>4, <1>9, BooksKept DEF runs
  <2> QED BY <1>6, <1>9, <2>1 DEF BooksBalance, runs
<1> QED BY <1>7, <1>8, <1>9 DEF Fire

\* The user's run begins in balance and touches no other.
LEMMA BooksRunNow ==
    ASSUME TypeOK, BooksBalance, NEW m \in Manual, RunNow(m)
    PROVE  BooksBalance' /\ parent[m].rec = "none"
<1>1. /\ m \in Occurrences /\ m \notin Fires /\ parent[m].rec = "none"
      /\ UNCHANGED <<fired, queue, restarts>>
      /\ parent' = BegunParents({m}, parent) /\ child' = BegunChildren({m}, child)
  <2>1. m >= m
    BY Numbering
  <2> QED BY <2>1, Numbering DEF RunNow
<1>2. \A h \in Occurrences : \A i \in 1 .. Width : <<h, i>> \in Children
  BY Numbering
<1>3. ASSUME NEW h \in Occurrences PROVE Books(h)'
  <2>1. Books(h)
    BY DEF BooksBalance
  <2>2. CASE h = m
    <3>1. \A i \in 1 .. Width : child'[<<h, i>>] = NewChild
      BY <1>1, <1>2, <2>2 DEF BegunChildren
    <3>2. parent'[h] = NewParent
      BY <1>1, <2>2 DEF BegunParents
    <3> QED BY <1>1, <2>2, <3>1, <3>2, BooksBegun
  <2>3. CASE h # m
    <3>1. \A i \in 1 .. Width : child'[<<h, i>>] = child[<<h, i>>]
      BY <1>1, <1>2, <2>3 DEF BegunChildren
    <3>2. parent'[h] = parent[h]
      BY <1>1, <2>3 DEF BegunParents
    <3> QED BY <1>1, <2>1, <3>1, <3>2, BooksKept
  <2> QED BY <2>2, <2>3
<1>4. \A i \in DOMAIN queue : parent'[queue[i]] = parent[queue[i]]
  <2>1. \A i \in DOMAIN queue : queue[i] \in Fires
    BY DEF TypeOK
  <2>2. \A h \in Occurrences : h # m => parent'[h] = parent[h]
    BY <1>1 DEF BegunParents
  <2> QED BY <1>1, <2>1, <2>2, Numbering
<1> QED BY <1>1, <1>3, <1>4 DEF BooksBalance

\* Every action keeps the books.
LEMMA BooksStep == TypeOK /\ BooksBalance /\ [Next]_vars => BooksBalance'
<1> SUFFICES ASSUME TypeOK, BooksBalance, [Next]_vars PROVE BooksBalance'
  OBVIOUS
<1> USE DEF runs
<1>1. CASE Fire
  BY <1>1, BooksFire
<1>2. ASSUME NEW c \in Children, SpawnReturns(c) PROVE BooksBalance'
  <2> DEFINE ctx == [child[c] EXCEPT !.spawn = "answered", !.token = child[c].live]
  <2>1. ctx \in Child /\ ctx.rec = child[c].rec /\ ctx.live = child[c].live
    BY DEF TypeOK, Child
  <2>2. CASE ctx.stop
    BY <1>2, <2>1, <2>2, EndBooks DEF SpawnReturns, Terminal
  <2>3. CASE ~ctx.stop
    <3>1. \A d \in Children : child'[d].rec = child[d].rec /\ child'[d].live = child[d].live
      BY <1>2, <2>1, <2>3 DEF SpawnReturns, TypeOK
    <3> QED BY <1>2, <2>3, <3>1, BooksFrame DEF SpawnReturns
  <2> QED BY <2>2, <2>3
<1>3. ASSUME NEW c \in Children, SpawnFails(c) PROVE BooksBalance'
  <2> DEFINE ctx == [child[c] EXCEPT !.spawn = "answered"]
  <2>1. ctx \in Child /\ ctx.rec = child[c].rec /\ ctx.live = child[c].live
    BY DEF TypeOK, Child
  <2> QED BY <1>3, <2>1, EndBooks DEF SpawnFails, Terminal
<1>4. ASSUME NEW c \in Children, AgentEnds(c) PROVE BooksBalance'
  <2>1. child[c] \in Child
    BY DEF TypeOK
  <2> QED BY <1>4, <2>1, EndBooks DEF AgentEnds, Terminal
<1>5. ASSUME NEW chosen \in SUBSET Children, StopChildren(chosen) PROVE BooksBalance'
  <2>1. \A d \in Children : child'[d].rec = child[d].rec /\ child'[d].live = child[d].live
    BY <1>5 DEF StopChildren, TypeOK, Child
  <2> QED BY <1>5, <2>1, BooksFrame DEF StopChildren
<1>6. ASSUME NEW c \in Children, NEW p \in Processes, StopReturns(c, p) PROVE BooksBalance'
  <2>1. child[c] \in Child
    BY DEF TypeOK
  <2> QED BY <1>6, <2>1, EndBooks DEF StopReturns, Terminal
<1>7. ASSUME NEW c \in Children, Reap(c) PROVE BooksBalance'
  <2>1. CASE Live(c)
    BY <1>7, <2>1, FinalizeBooks DEF Reap, Live, Terminal
  <2>2. CASE ~Live(c)
    <3>1. c[1] \in Occurrences /\ c[2] \in 1 .. Width /\ c = <<c[1], c[2]>>
      BY Numbering
    <3>2. restarts # 0
      BY <1>7, <2>2, <3>1 DEF Reap, Live, BooksBalance, Books
    <3>3. child[c].rec = "running" /\ ~child[c].live
      BY <1>7, <2>2 DEF Reap, Live
    <3>4. /\ child' = [child EXCEPT ![c].rec = "error"]
          /\ UNCHANGED <<queue, parent, fired, restarts>>
      BY <1>7, <2>2 DEF Reap
    <3> QED BY <3>1, <3>2, <3>3, <3>4, ReapedBooks
  <2> QED BY <2>1, <2>2
<1>8. ASSUME NEW p \in Children, Launch(p) PROVE BooksBalance'
  BY <1>8, BooksFrame DEF Launch
<1>9. ASSUME NEW p \in Processes, Register(p) PROVE BooksBalance'
  <2>1. \A d \in Children : child'[d].rec = child[d].rec /\ child'[d].live = child[d].live
    BY <1>9, Registered
  <2> QED BY <1>9, <2>1, BooksFrame DEF Register
<1>10. ASSUME NEW p \in Processes, Dies(p) PROVE BooksBalance'
  <2>1. CASE Served(p) = {}
    BY <1>10, <2>1, BooksFrame DEF Dies
  <2>2. CASE Served(p) # {}
    <3>1. PICK c \in Served(p), status \in {"done", "error"} : End(c, child[c], status)
      BY <1>10, <2>2 DEF Dies
    <3>2. c \in Children /\ child[c] \in Child /\ status \in Terminal
      BY DEF Served, TypeOK, Terminal
    <3> QED BY <1>10, <3>1, <3>2, EndBooks DEF Dies
  <2> QED BY <2>1, <2>2
<1>11. CASE StampExpires
  BY <1>11, BooksFrame DEF StampExpires
<1>12. CASE Restart
  BY <1>12, RestartBooks
<1>13. CASE UNCHANGED vars
  BY <1>13, BooksFrame DEF vars
<1>14. ASSUME NEW m \in Manual, RunNow(m) PROVE BooksBalance'
  BY <1>14, BooksRunNow
<1>15. ASSUME NEW p \in Processes, Disconnects(p) PROVE BooksBalance'
  <2>1. PICK c \in Served(p), status \in {"done", "error"} : End(c, child[c], status)
    BY <1>15 DEF Disconnects
  <2>2. c \in Children /\ child[c] \in Child /\ status \in Terminal
    BY DEF Served, TypeOK, Terminal
  <2> QED BY <1>15, <2>1, <2>2, EndBooks DEF Disconnects
<1> QED
  BY <1>1, <1>2, <1>3, <1>4, <1>5, <1>6, <1>7, <1>8, <1>9, <1>10, <1>11, <1>12,
     <1>13, <1>14, <1>15 DEF Next, ChildStep, Stop, StopAll

\* The counter, the contexts and the records of every run agree, whatever
\* ends a child and in whatever order.
THEOREM BooksAlways == Spec => []BooksBalance
  BY TypeInit, TypeStep, BooksInit, BooksStep, PTL DEF Spec

\* With balanced books a parent has an outcome when, and unless a restart lost
\* its counter as soon as, all its children have one.
LEMMA BooksFollow == TypeOK /\ BooksBalance => ParentFollowsChildren
<1> SUFFICES ASSUME TypeOK, BooksBalance, NEW f \in Occurrences
             PROVE  /\ parent[f].rec \in Terminal =>
                         /\ AllEnded(f)
                         /\ parent[f].rec = aggregateStatus(Records(f))
                    /\ restarts = 0 /\ AllEnded(f) => parent[f].rec \in Terminal
  BY DEF ParentFollowsChildren
<1>1. Books(f)
  BY DEF BooksBalance
<1>2. ASSUME restarts = 0, AllEnded(f) PROVE parent[f].rec \in Terminal
  <2>1. \A i \in 1 .. Width : child[<<f, i>>].rec \in Terminal
    BY <1>2 DEF AllEnded, Records
  <2>2. LiveSlots(f) = {}
    BY <1>1, <2>1 DEF Books, LiveSlots, Terminal
  <2>3. ~parent[f].tracked
    BY <1>1, <2>2, SlotCounts DEF Books
  <2>4. 1 \in 1 .. Width
    BY AutomationAssumption
  <2>5. parent[f].rec # "none"
    BY <1>1, <2>1, <2>4 DEF Books, Terminal
  <2>6. parent[f].rec \in Status
    BY DEF TypeOK, Parent
  <2> QED BY <1>1, <1>2, <2>3, <2>5, <2>6 DEF Books, Status
<1> QED BY <1>1, <1>2 DEF Books

\* The record of a fire follows those of its children.
THEOREM ParentsFollow == Spec => []ParentFollowsChildren
  BY TypeInit, TypeStep, BooksInit, BooksStep, BooksFollow, PTL DEF Spec

-----------------------------------------------------------------------------
(* Outcomes are final *)

Kept ==
    /\ \A c \in Children : child[c].rec \in Terminal => child'[c].rec = child[c].rec
    /\ \A f \in Occurrences : parent[f].rec \in Terminal => parent'[f].rec = parent[f].rec

\* finalizeChild writes the outcome of a child that runs, and of its parent
\* which runs too; the fire it starts has no outcome yet.
LEMMA FinalizeKeeps ==
    ASSUME TypeOK, BooksBalance, NEW c \in Children, NEW ctx, NEW status,
           child[c].live, finalizeChild(c, ctx, status)
    PROVE  Kept
<1> DEFINE f == c[1]
           next == IF IsLast(f) /\ queue # <<>> THEN {Head(queue)} ELSE {}
           ended == [NoChild EXCEPT !.rec = status, !.spawn = ctx.spawn, !.session = ctx.session]
<1>1. f \in Occurrences /\ c[2] \in 1 .. Width /\ c = <<f, c[2]>>
  BY DEF Children
<1>2. child' = BegunChildren(next, [child EXCEPT ![c] = ended])
      /\ parent' = BegunParents(next, [parent EXCEPT ![f] = Counted(f, status)])
  BY DEF finalizeChild
<1>3. child[c].rec = "running" /\ parent[f].rec = "running"
  <2>1. Books(f) /\ child[<<f, c[2]>>].live
    BY <1>1 DEF BooksBalance
  <2> QED BY <1>1, <2>1 DEF Books
<1>4. \A h \in next : h \in Occurrences /\ parent[h].rec = "none"
  BY Numbering DEF BooksBalance, TypeOK
<1>5. \A d \in Children : d[1] \in next => child[d].rec = "none"
  <2> SUFFICES ASSUME NEW d \in Children, d[1] \in next PROVE child[d].rec = "none"
    OBVIOUS
  <2>1. d[1] \in Occurrences /\ d[2] \in 1 .. Width /\ d = <<d[1], d[2]>>
    BY DEF Children
  <2> QED BY <1>4, <2>1 DEF BooksBalance, Books
<1> HIDE DEF next, ended
<1>6. \A d \in Children : d[1] \notin next /\ d # c => child'[d] = child[d]
  BY <1>2 DEF BegunChildren, TypeOK
<1>7. \A h \in Occurrences : h \notin next /\ h # f => parent'[h] = parent[h]
  BY <1>2 DEF BegunParents, TypeOK
<1> QED BY <1>3, <1>4, <1>5, <1>6, <1>7 DEF Kept, Terminal

\* So nobody who ends a child rewrites an outcome.
LEMMA EndKeeps ==
    ASSUME TypeOK, BooksBalance, NEW c \in Children, NEW ctx, NEW status,
           ctx.rec = child[c].rec, ctx.live = child[c].live,
           End(c, ctx, status)
    PROVE  Kept
<1>1. CASE ctx.live
  BY <1>1, FinalizeKeeps DEF End
<1>2. CASE ~ctx.live
  BY <1>2 DEF End, Kept, TypeOK
<1> QED BY <1>1, <1>2

\* No action rewrites an outcome.
LEMMA KeptStep == TypeOK /\ BooksBalance /\ [Next]_vars => Kept
<1> SUFFICES ASSUME TypeOK, BooksBalance, [Next]_vars PROVE Kept
  OBVIOUS
<1> USE DEF runs
<1>1. CASE Fire
  <2>1. fired' \in Fires /\ fired' \in Occurrences /\ fired' = fired + 1 /\ fired \in Nat
    BY <1>1, AutomationAssumption, Numbering DEF Fire, Fires, TypeOK
  <2>2. parent[fired'].rec = "none" /\ \A i \in 1 .. Width : child[<<fired', i>>].rec = "none"
    BY <2>1 DEF BooksBalance, Books
  <2>3. CASE Begin(fired')
    <3>1. \A d \in Children : d[1] # fired' => child'[d] = child[d]
      BY <2>3 DEF Begin, BegunChildren
    <3>2. \A h \in Occurrences : h # fired' => parent'[h] = parent[h]
      BY <2>3 DEF Begin, BegunParents
    <3>3. \A d \in Children : d[1] = fired' => child[d].rec = "none"
      BY <2>2 DEF Children
    <3> QED BY <2>2, <3>1, <3>2, <3>3 DEF Kept, Terminal
  <2> QED BY <1>1, <2>3 DEF Fire, Defer, Kept
<1>2. ASSUME NEW c \in Children, SpawnReturns(c) PROVE Kept
  <2> DEFINE ctx == [child[c] EXCEPT !.spawn = "answered", !.token = child[c].live]
  <2>1. ctx.rec = child[c].rec /\ ctx.live = child[c].live
    BY DEF TypeOK, Child
  <2>2. CASE ctx.stop
    BY <1>2, <2>1, <2>2, EndKeeps DEF SpawnReturns
  <2>3. CASE ~ctx.stop
    BY <1>2, <2>1, <2>3 DEF SpawnReturns, TypeOK, Kept
  <2> QED BY <2>2, <2>3
<1>3. ASSUME NEW c \in Children, SpawnFails(c) PROVE Kept
  <2> DEFINE ctx == [child[c] EXCEPT !.spawn = "answered"]
  <2>1. ctx.rec = child[c].rec /\ ctx.live = child[c].live
    BY DEF TypeOK, Child
  <2> QED BY <1>3, <2>1, EndKeeps DEF SpawnFails
<1>4. ASSUME NEW c \in Children, AgentEnds(c) PROVE Kept
  BY <1>4, EndKeeps DEF AgentEnds
<1>5. ASSUME NEW chosen \in SUBSET Children, StopChildren(chosen) PROVE Kept
  <2>1. \A d \in Children : child'[d].rec = child[d].rec
    BY <1>5 DEF StopChildren, TypeOK, Child
  <2> QED BY <1>5, <2>1 DEF StopChildren, Kept
<1>6. ASSUME NEW c \in Children, NEW p \in Processes, StopReturns(c, p) PROVE Kept
  BY <1>6, EndKeeps DEF StopReturns
<1>7. ASSUME NEW c \in Children, Reap(c) PROVE Kept
  <2>1. CASE Live(c)
    BY <1>7, <2>1, FinalizeKeeps DEF Reap, Live
  <2>2. CASE ~Live(c)
    <3>1. \A d \in Children : d # c => child'[d] = child[d]
      BY <1>7, <2>2 DEF Reap, TypeOK
    <3> QED BY <1>7, <2>2, <3>1 DEF Reap, Kept, Terminal
  <2> QED BY <2>1, <2>2
<1>8. ASSUME NEW p \in Children, Launch(p) PROVE Kept
  BY <1>8 DEF Launch, Kept
<1>9. ASSUME NEW p \in Processes, Register(p) PROVE Kept
  <2>1. \A d \in Children : child'[d].rec = child[d].rec
    BY <1>9, Registered
  <2> QED BY <1>9, <2>1 DEF Register, Kept
<1>10. ASSUME NEW p \in Processes, Dies(p) PROVE Kept
  <2>1. CASE Served(p) = {}
    BY <1>10, <2>1 DEF Dies, Kept
  <2>2. CASE Served(p) # {}
    <3>1. PICK c \in Served(p), status \in {"done", "error"} : End(c, child[c], status)
      BY <1>10, <2>2 DEF Dies
    <3> QED BY <3>1, EndKeeps DEF Served
  <2> QED BY <2>1, <2>2
<1>11. CASE StampExpires
  BY <1>11 DEF StampExpires, Kept
<1>12. CASE Restart
  BY <1>12 DEF Restart, Kept, NoChild, NoParent
<1>13. CASE UNCHANGED vars
  BY <1>13 DEF vars, Kept
<1>14. ASSUME NEW m \in Manual, RunNow(m) PROVE Kept
  <2>1. parent[m].rec = "none" /\ m \in Occurrences
    BY <1>14, BooksRunNow, Numbering
  <2>2. \A i \in 1 .. Width : child[<<m, i>>].rec = "none"
    BY <2>1 DEF BooksBalance, Books
  <2>3. \A d \in Children : d[1] # m => child'[d] = child[d]
    BY <1>14 DEF RunNow, BegunChildren
  <2>4. \A h \in Occurrences : h # m => parent'[h] = parent[h]
    BY <1>14 DEF RunNow, BegunParents
  <2>5. \A d \in Children : d[1] = m => child[d].rec = "none"
    BY <2>2, Numbering
  <2> QED BY <2>1, <2>3, <2>4, <2>5 DEF Kept, Terminal
<1>15. ASSUME NEW p \in Processes, Disconnects(p) PROVE Kept
  <2>1. PICK c \in Served(p), status \in {"done", "error"} : End(c, child[c], status)
    BY <1>15 DEF Disconnects
  <2>2. c \in Children /\ child[c] \in Child /\ status \in Terminal
    BY DEF Served, TypeOK, Terminal
  <2> QED BY <2>1, <2>2, EndKeeps
<1> QED
  BY <1>1, <1>2, <1>3, <1>4, <1>5, <1>6, <1>7, <1>8, <1>9, <1>10, <1>11, <1>12,
     <1>13, <1>14, <1>15 DEF Next, ChildStep, Stop, StopAll

\* Whatever races for it, the outcome of a child and of a parent is written
\* once and survives a restart.
THEOREM OutcomesFinal == Spec => OutcomeFinal
<1>1. TypeOK /\ BooksBalance /\ [Next]_vars => [Kept]_vars
  BY KeptStep
<1>2. Spec => [][Kept]_vars
  BY <1>1, TypeInit, TypeStep, BooksInit, BooksStep, PTL DEF Spec
<1> QED BY <1>2 DEF OutcomeFinal, Kept

-----------------------------------------------------------------------------
(* A stop costs a process its life *)

\* The processes launched for children are none of the user's.
LEMMA Own == \A c \in Children : c \notin Strangers /\ c \notin Terminals /\ c \in Processes /\ c # Nobody
  BY Numbering, AutomationAssumption

Gone(p) == proc[p] \in {"killed", "dead"}

\* What a child knows of processes exists: a token and a session name one that
\* was launched, a stop waits for one of these two, and one of these two is
\* gone when the child is recorded as stopped, unless a terminal serves it.
Accounted(c) ==
    /\ child[c].token => proc[c] # "none"
    /\ child[c].session # Nobody => proc[child[c].session] # "none"
    /\ child[c].rec = "stopped" /\ child[c].session \notin Terminals =>
          \E p \in {c, child[c].session} : p # Nobody /\ Gone(p)
    /\ \A p \in Processes : <<c, p>> \in stopping =>
          child[c].rec # "none" /\ p \in {c, child[c].session} /\ proc[p] # "none"
StopInv == restarts = 0 => \A c \in Children : Accounted(c)

\* Without a restart no process is forgotten and none is revived.
Onward ==
    \A p \in Processes :
        /\ proc[p] # "none" => proc'[p] # "none"
        /\ Gone(p) => Gone(p)'

\* Signals take a process onward, and the one that is signalled is gone.
LEMMA SignalOnward ==
    ASSUME TypeOK, NEW ps, proc' = Signalled(ps)
    PROVE  /\ Onward
           /\ \A p \in Processes :
                 p \in ps /\ p \notin Terminals /\ proc[p] # "none" => Gone(p)'
  BY DEF TypeOK, Signalled, Found, Running, Onward, Gone

\* A child stays accounted for as long as its session and its stop are not
\* taken away and nothing but the loss of a process makes it stopped.
LEMMA AccountKept ==
    ASSUME TypeOK, NEW c \in Children, Accounted(c), Onward,
           stopping' \subseteq stopping,
           \/ child'[c].session = child[c].session
           \/ /\ child[c].session = Nobody
              /\ child'[c].session \in Processes
              /\ proc'[child'[c].session] # "none",
           child'[c].token => child[c].token \/ proc'[c] # "none",
           child[c].rec # "none" => child'[c].rec # "none",
           child'[c].rec = "stopped" /\ child'[c].session \notin Terminals =>
              \/ child[c].rec = "stopped"
              \/ \E p \in {c, child'[c].session} : p # Nobody /\ Gone(p)'
    PROVE  Accounted(c)'
<1>1. child[c].session \in Processes \cup {Nobody}
  BY DEF TypeOK, Child
<1>2. c # Nobody /\ c \in Processes
  BY Numbering
<1>3. (\A p \in Processes : p # Nobody) /\ Nobody \notin Terminals
  BY Numbering, AutomationAssumption
<1>4. child'[c].token => proc'[c] # "none"
  BY <1>2 DEF Accounted, Onward
<1>5. child'[c].session # Nobody => proc'[child'[c].session] # "none"
  BY <1>1 DEF Accounted, Onward
<1>6. child'[c].rec = "stopped" /\ child'[c].session \notin Terminals =>
          \E p \in {c, child'[c].session} : p # Nobody /\ Gone(p)'
  <2>1. CASE child[c].rec = "stopped"
    <3> SUFFICES ASSUME child'[c].session \notin Terminals
                 PROVE  \E p \in {c, child'[c].session} : p # Nobody /\ Gone(p)'
      OBVIOUS
    <3>1. child[c].session \notin Terminals
      BY <1>3
    <3>2. PICK p \in {c, child[c].session} : p # Nobody /\ Gone(p)
      BY <2>1, <3>1 DEF Accounted
    <3>3. p \in Processes /\ p \in {c, child'[c].session}
      BY <1>1, <1>2, <3>2
    <3> QED BY <3>2, <3>3 DEF Onward
  <2> QED BY <2>1
<1>7. \A p \in Processes : <<c, p>> \in stopping' =>
          child'[c].rec # "none" /\ p \in {c, child'[c].session} /\ proc'[p] # "none"
  BY <1>3 DEF Accounted, Onward
<1> QED BY <1>4, <1>5, <1>6, <1>7 DEF Accounted

\* finalizeChild records a stop only of a child whose process is gone.
LEMMA FinalizeAccounts ==
    ASSUME TypeOK, BooksBalance, StopInv, NEW c \in Children, NEW ctx, NEW status \in Terminal,
           child[c].live, finalizeChild(c, ctx, status), Onward,
           stopping' \subseteq stopping, restarts' = restarts,
           ctx.session = child[c].session,
           status = "stopped" /\ ctx.session \notin Terminals =>
              \E p \in {c, ctx.session} : p # Nobody /\ Gone(p)'
    PROVE  StopInv'
<1> DEFINE f == c[1]
           next == IF IsLast(f) /\ queue # <<>> THEN {Head(queue)} ELSE {}
           ended == [NoChild EXCEPT !.rec = status, !.spawn = ctx.spawn, !.session = ctx.session]
<1> SUFFICES ASSUME restarts = 0, NEW d \in Children PROVE Accounted(d)'
  BY DEF StopInv
<1>1. Accounted(d) /\ Accounted(c)
  BY DEF StopInv
<1>2. child' = BegunChildren(next, [child EXCEPT ![c] = ended])
  BY DEF finalizeChild
<1>3. child[c].rec = "running" /\ parent[f].rec = "running" /\ f \in Occurrences
  <2>1. f \in Occurrences /\ c[2] \in 1 .. Width /\ c = <<f, c[2]>>
    BY Numbering
  <2>2. Books(f) /\ child[<<f, c[2]>>].live
    BY <2>1 DEF BooksBalance
  <2> QED BY <2>1, <2>2 DEF Books
<1>4. \A h \in next : h \in Occurrences /\ parent[h].rec = "none"
  BY Numbering DEF BooksBalance, TypeOK
<1>5. CASE d[1] \in next
  <2>1. child[d].rec = "none"
    <3>1. d[1] \in Occurrences /\ d[2] \in 1 .. Width /\ d = <<d[1], d[2]>>
      BY DEF Children
    <3> QED BY <1>4, <1>5, <3>1 DEF BooksBalance, Books
  <2> HIDE DEF next, ended
  <2>2. child'[d] = NewChild
    BY <1>2, <1>5 DEF BegunChildren
  <2>3. \A p \in Processes : <<d, p>> \notin stopping'
    BY <1>1, <2>1 DEF Accounted
  <2> QED BY <2>2, <2>3 DEF Accounted, NewChild, NoChild
<1>6. CASE d[1] \notin next /\ d # c
  <2> HIDE DEF next, ended
  <2>1. child'[d] = child[d]
    BY <1>2, <1>6 DEF BegunChildren, TypeOK
  <2> QED BY <1>1, <2>1, AccountKept
<1>7. CASE d[1] \notin next /\ d = c
  <2>1. ended.rec = status /\ ended.session = child[c].session /\ ~ended.token
    BY DEF NoChild
  <2> HIDE DEF next, ended
  <2>2. child'[d] = ended
    BY <1>2, <1>7 DEF BegunChildren, TypeOK
  <2> QED BY <1>1, <1>7, <2>1, <2>2, AccountKept DEF Terminal
<1> QED BY <1>5, <1>6, <1>7

\* So does whoever ends a child.
LEMMA EndAccounts ==
    ASSUME TypeOK, BooksBalance, StopInv, NEW c \in Children, NEW ctx, NEW status \in Terminal,
           ctx.live = child[c].live, ctx.rec = child[c].rec, ctx.session = child[c].session,
           ctx.token => child[c].token \/ proc[c] # "none",
           End(c, ctx, status), Onward,
           stopping' \subseteq stopping, restarts' = restarts,
           status = "stopped" /\ ctx.live /\ ctx.session \notin Terminals =>
              \E p \in {c, ctx.session} : p # Nobody /\ Gone(p)'
    PROVE  StopInv'
<1>1. CASE ctx.live
  BY <1>1, FinalizeAccounts DEF End
<1>2. CASE ~ctx.live
  <2> SUFFICES ASSUME restarts = 0, NEW d \in Children PROVE Accounted(d)'
    BY DEF StopInv
  <2>1. Accounted(d)
    BY DEF StopInv
  <2>2. child' = [child EXCEPT ![c] = ctx]
    BY <1>2 DEF End
  <2>3. CASE d = c
    <3>1. child'[c] = ctx
      BY <2>2 DEF TypeOK
    <3>2. ctx.token => child[c].token \/ proc'[c] # "none"
      BY Own DEF Onward
    <3> QED BY <2>1, <2>3, <3>1, <3>2, AccountKept
  <2>4. CASE d # c
    <3>1. child'[d] = child[d]
      BY <2>2, <2>4 DEF TypeOK
    <3> QED BY <2>1, <3>1, AccountKept
  <2> QED BY <2>3, <2>4
<1> QED BY <1>1, <1>2

\* A step that leaves the children alone and takes processes onward.
LEMMA AccountsFrame ==
    ASSUME TypeOK, StopInv, Onward, stopping' \subseteq stopping, restarts' = restarts,
           child' = child
    PROVE  StopInv'
<1> SUFFICES ASSUME restarts = 0, NEW d \in Children PROVE Accounted(d)'
  BY DEF StopInv
<1>1. Accounted(d) /\ child'[d] = child[d]
  BY DEF StopInv
<1> QED BY <1>1, AccountKept

\* Every action keeps the account of what the stops have cost.
LEMMA StopStep == TypeOK /\ BooksBalance /\ StopInv /\ [Next]_vars => StopInv'
<1> SUFFICES ASSUME TypeOK, BooksBalance, StopInv, [Next]_vars PROVE StopInv'
  OBVIOUS
<1> USE DEF runs
<1>a. proc' = proc => Onward
  BY DEF Onward, Gone
<1>b. ASSUME NEW d \in Children, restarts = 0
      PROVE  Accounted(d) /\ d # Nobody /\ child[d].session \in Processes \cup {Nobody}
  BY <1>b, Numbering DEF StopInv, TypeOK, Child
<1>1. CASE Fire
  <2> SUFFICES ASSUME restarts = 0, NEW d \in Children PROVE Accounted(d)'
    BY <1>1 DEF StopInv, Fire
  <2>1. fired' \in Fires /\ fired' \in Occurrences /\ fired' = fired + 1 /\ fired \in Nat
    BY <1>1, AutomationAssumption, Numbering DEF Fire, Fires, TypeOK
  <2>2. UNCHANGED <<proc, stopping, restarts>>
    BY <1>1 DEF Fire
  <2>3. CASE Begin(fired') /\ d[1] = fired'
    <3>1. child[d].rec = "none"
      <4>1. d[2] \in 1 .. Width /\ d = <<fired', d[2]>>
        BY <2>3, Numbering
      <4> QED BY <2>1, <4>1 DEF BooksBalance, Books
    <3>2. child'[d] = NewChild
      BY <2>3 DEF Begin, BegunChildren
    <3>3. \A p \in Processes : <<d, p>> \notin stopping'
      BY <1>b, <2>2, <3>1 DEF Accounted
    <3> QED BY <3>2, <3>3 DEF Accounted, NewChild, NoChild
  <2>4. CASE Begin(fired') /\ d[1] # fired'
    <3>1. child'[d] = child[d]
      BY <2>4 DEF Begin, BegunChildren
    <3> QED BY <1>a, <1>b, <2>2, <3>1, AccountKept
  <2>5. CASE child' = child
    BY <1>a, <1>b, <2>2, <2>5, AccountKept
  <2> QED BY <1>1, <2>3, <2>4, <2>5 DEF Fire, Defer
<1>2. ASSUME NEW c \in Children, SpawnReturns(c) PROVE StopInv'
  <2> DEFINE ctx == [child[c] EXCEPT !.spawn = "answered", !.token = child[c].live]
  <2>1. /\ ctx.live = child[c].live /\ ctx.rec = child[c].rec
        /\ ctx.session = child[c].session
    BY DEF TypeOK, Child
  <2>2. proc[c] # "none" /\ UNCHANGED <<stopping, restarts>>
    BY <1>2 DEF SpawnReturns
  <2>3. CASE ctx.stop
    <3>1. End(c, ctx, "stopped") /\ proc' = Signalled({Target(c, ctx)})
      BY <1>2, <2>3 DEF SpawnReturns
    <3>2. restarts = 0 /\ ctx.session \notin Terminals =>
            \E p \in {c, ctx.session} : p # Nobody /\ Gone(p)'
      <4>1. /\ Target(c, ctx) \in {c, ctx.session}
            /\ Target(c, ctx) = c \/ ctx.session # Nobody
        BY DEF Target
      <4>2. ASSUME restarts = 0
            PROVE  /\ Target(c, ctx) \in Processes /\ Target(c, ctx) # Nobody
                   /\ proc[Target(c, ctx)] # "none"
        BY <1>b, <2>1, <2>2, <4>1, <4>2, Own DEF Accounted
      <4> HIDE DEF ctx
      <4> QED BY <3>1, <4>1, <4>2, SignalOnward, Own
    <3>3. Onward
      BY <3>1, SignalOnward
    <3>4. CASE restarts = 0
      BY <2>1, <2>2, <3>1, <3>2, <3>3, <3>4, EndAccounts DEF Terminal
    <3>5. CASE restarts # 0
      BY <2>2, <3>5 DEF StopInv
    <3> QED BY <3>4, <3>5
  <2>4. CASE ~ctx.stop
    <3>1. child' = [child EXCEPT ![c] = ctx] /\ proc' = proc
      BY <1>2, <2>4 DEF SpawnReturns
    <3>2. ASSUME restarts = 0, NEW d \in Children PROVE Accounted(d)'
      <4>1. CASE d = c
        <5>1. child'[d] = ctx
          BY <3>1, <4>1 DEF TypeOK
        <5> QED BY <1>a, <1>b, <2>1, <2>2, <3>1, <3>2, <4>1, <5>1, AccountKept
      <4>2. CASE d # c
        <5>1. child'[d] = child[d]
          BY <3>1, <4>2 DEF TypeOK
        <5> QED BY <1>a, <1>b, <2>2, <3>1, <3>2, <5>1, AccountKept
      <4> QED BY <4>1, <4>2
    <3> QED BY <2>2, <3>2 DEF StopInv
  <2> QED BY <2>3, <2>4
<1>3. ASSUME NEW c \in Children, SpawnFails(c) PROVE StopInv'
  <2> DEFINE ctx == [child[c] EXCEPT !.spawn = "answered"]
  <2>1. /\ ctx.live = child[c].live /\ ctx.rec = child[c].rec
        /\ ctx.session = child[c].session /\ ctx.token = child[c].token
    BY DEF TypeOK, Child
  <2>2. End(c, ctx, "error") /\ UNCHANGED <<proc, stopping, restarts>>
    BY <1>3 DEF SpawnFails
  <2> QED BY <1>a, <2>1, <2>2, EndAccounts DEF Terminal
<1>4. ASSUME NEW c \in Children, AgentEnds(c) PROVE StopInv'
  <2>1. PICK status \in {"done", "error"} : End(c, child[c], status)
    BY <1>4 DEF AgentEnds
  <2>2. status \in Terminal /\ status # "stopped"
    BY DEF Terminal
  <2>3. Onward /\ UNCHANGED <<stopping, restarts>>
    BY <1>4 DEF AgentEnds, Running, Onward, Gone, TypeOK
  <2> QED BY <2>1, <2>2, <2>3, EndAccounts
<1>5. ASSUME NEW chosen \in SUBSET Children, StopChildren(chosen),
             \A c \in chosen : child[c].live
      PROVE  StopInv'
  <2> DEFINE known == {c \in chosen : child[c].session # Nobody \/ child[c].token}
  <2> SUFFICES ASSUME restarts = 0, NEW d \in Children PROVE Accounted(d)'
    BY <1>5 DEF StopInv, StopChildren, TypeOK
  <2>1. Onward
    BY <1>5, SignalOnward DEF StopChildren
  <2>2. /\ child'[d].rec = child[d].rec /\ child'[d].session = child[d].session
        /\ child'[d].token = child[d].token
    BY <1>5 DEF StopChildren, TypeOK, Child
  <2>3. stopping' = stopping \cup {<<c, Target(c, child[c])>> : c \in known}
    BY <1>5 DEF StopChildren
  <2>4. \A p \in Processes : <<d, p>> \in stopping' =>
            child[d].rec # "none" /\ p \in {d, child[d].session} /\ proc[p] # "none"
    <3> SUFFICES ASSUME NEW p \in Processes, <<d, p>> \in stopping', <<d, p>> \notin stopping
                 PROVE  child[d].rec # "none" /\ p \in {d, child[d].session} /\ proc[p] # "none"
      BY <1>b DEF Accounted
    <3>1. d \in known /\ p = Target(d, child[d])
      BY <2>3
    <3>2. child[d].rec = "running"
      <4>1. child[d].live /\ d[1] \in Occurrences /\ d[2] \in 1 .. Width /\ d = <<d[1], d[2]>>
        BY <1>5, <3>1, Numbering
      <4> QED BY <4>1 DEF BooksBalance, Books
    <3>3. p = d \/ (p = child[d].session /\ child[d].session # Nobody)
      BY <3>1 DEF Target
    <3>4. p = d => child[d].token \/ child[d].session = d
      BY <3>1 DEF Target
    <3> QED BY <1>b, <3>2, <3>3, <3>4 DEF Accounted
  <2>5. Accounted(d) /\ d \in Processes /\ child[d].session \in Processes \cup {Nobody}
    BY <1>b, Own DEF TypeOK, Child
  <2> HIDE DEF known
  <2>6. child'[d].session # Nobody => proc'[child'[d].session] # "none"
    BY <1>b, <2>1, <2>2, <2>5 DEF Accounted, Onward
  <2>7. child'[d].token => proc'[d] # "none"
    BY <2>1, <2>2, <2>5 DEF Accounted, Onward
  <2>8. child'[d].rec = "stopped" /\ child'[d].session \notin Terminals =>
            \E p \in {d, child'[d].session} : p # Nobody /\ Gone(p)'
    <3> SUFFICES ASSUME child[d].rec = "stopped", child[d].session \notin Terminals
                 PROVE  \E p \in {d, child[d].session} : p # Nobody /\ Gone(p)'
      BY <2>2
    <3>1. PICK p \in {d, child[d].session} : p # Nobody /\ Gone(p)
      BY <2>5 DEF Accounted
    <3> QED BY <2>1, <2>5, <3>1 DEF Onward
  <2>9. \A p \in Processes : <<d, p>> \in stopping' =>
            child'[d].rec # "none" /\ p \in {d, child'[d].session} /\ proc'[p] # "none"
    BY <2>1, <2>2, <2>4 DEF Onward
  <2> QED BY <2>6, <2>7, <2>8, <2>9 DEF Accounted
<1>6. ASSUME NEW c \in Children, NEW p \in Processes, StopReturns(c, p) PROVE StopInv'
  <2>1. /\ <<c, p>> \in stopping /\ ~Found(p) /\ proc' = proc
        /\ stopping' = stopping \ {<<c, p>>} /\ restarts' = restarts
        /\ End(c, child[c], "stopped")
    BY <1>6 DEF StopReturns
  <2>2. CASE restarts # 0
    BY <2>1, <2>2 DEF StopInv
  <2>3. CASE restarts = 0
    <3>1. p \in {c, child[c].session} /\ proc[p] # "none" /\ p # Nobody
      BY <1>b, <2>1, <2>3, Numbering DEF Accounted
    <3>2. Gone(p)' \/ child[c].session \in Terminals
      BY <2>1, <3>1, Own DEF Found, Running, Gone, TypeOK
    <3> QED BY <1>a, <2>1, <3>1, <3>2, EndAccounts DEF Terminal
  <2> QED BY <2>2, <2>3
<1>7. ASSUME NEW c \in Children, Reap(c) PROVE StopInv'
  <2>1. CASE Live(c)
    BY <1>7, <1>a, <2>1, FinalizeAccounts DEF Reap, Live, Terminal
  <2>2. CASE ~Live(c)
    <3> SUFFICES ASSUME restarts = 0, NEW d \in Children PROVE Accounted(d)'
      BY <1>7 DEF StopInv, Reap, TypeOK
    <3>1. child' = [child EXCEPT ![c].rec = "error"] /\ UNCHANGED <<proc, stopping>>
      BY <1>7, <2>2 DEF Reap
    <3>2. /\ child'[d].session = child[d].session /\ child'[d].token = child[d].token
          /\ child'[d].rec = IF d = c THEN "error" ELSE child[d].rec
      <4>1. CASE d = c
        <5>1. child'[c] = [child[c] EXCEPT !.rec = "error"] /\ child[c] \in Child
          BY <3>1 DEF TypeOK
        <5> QED BY <4>1, <5>1 DEF Child
      <4>2. CASE d # c
        BY <3>1, <4>2 DEF TypeOK
      <4> QED BY <4>1, <4>2
    <3> QED BY <1>a, <1>b, <3>1, <3>2, AccountKept
  <2> QED BY <2>1, <2>2
<1>8. ASSUME NEW p \in Children, Launch(p) PROVE StopInv'
  <2>1. Onward
    BY <1>8, Own DEF Launch, Onward, Gone, TypeOK
  <2> QED BY <1>8, <2>1, AccountsFrame DEF Launch
<1>9. ASSUME NEW p \in Processes, Register(p) PROVE StopInv'
  <2>1. /\ proc' = [proc EXCEPT ![p] = "up"] /\ proc[p] \in {"launched", "up"}
        /\ UNCHANGED <<stopping, restarts>>
    BY <1>9 DEF Register
  <2>2. Onward /\ proc'[p] # "none"
    BY <2>1 DEF Onward, Gone, TypeOK
  <2> SUFFICES ASSUME restarts = 0, NEW d \in Children PROVE Accounted(d)'
    BY <2>1 DEF StopInv
  <2>3. /\ child'[d].rec = child[d].rec /\ child'[d].token = child[d].token
        /\ \/ child'[d].session = child[d].session
           \/ child[d].session = Nobody /\ child'[d].session = p
    BY <1>9, Registered
  <2> QED BY <1>b, <2>1, <2>2, <2>3, AccountKept
<1>10. ASSUME NEW p \in Processes, Dies(p) PROVE StopInv'
  <2>1. UNCHANGED <<stopping, restarts>>
    BY <1>10 DEF Dies
  <2>2. CASE Served(p) = {}
    <3>1. Onward
      BY <1>10, <2>2 DEF Dies, Onward, Gone, TypeOK
    <3> QED BY <1>10, <2>1, <2>2, <3>1, AccountsFrame DEF Dies
  <2>3. CASE Served(p) # {}
    <3>1. PICK c \in Served(p), status \in {"done", "error"} :
            /\ End(c, child[c], status)
            /\ \E q \in {Target(c, child[c])} \cup (IF child[c].token THEN {c} ELSE {}) :
                  proc' = [Signalled({q}) EXCEPT ![p] = "dead"]
      BY <1>10, <2>3 DEF Dies
    <3>2. Onward
      BY <3>1 DEF Signalled, Found, Running, Onward, Gone, TypeOK
    <3>3. c \in Children /\ status \in Terminal /\ status # "stopped"
      BY DEF Served, Terminal
    <3> QED BY <2>1, <3>1, <3>2, <3>3, EndAccounts
  <2> QED BY <2>2, <2>3
<1>11. CASE StampExpires
  BY <1>11, <1>a, AccountsFrame DEF StampExpires
<1>12. CASE Restart
  BY <1>12 DEF Restart, StopInv, TypeOK
<1>13. CASE UNCHANGED vars
  BY <1>13, <1>a, AccountsFrame DEF vars
<1>14. ASSUME NEW c \in Children, Stop(c) PROVE StopInv'
  BY <1>5, <1>14 DEF Stop, Live
<1>15. ASSUME NEW f \in Occurrences, StopAll(f) PROVE StopInv'
  BY <1>5, <1>15 DEF StopAll, Live
<1>16. ASSUME NEW m \in Manual, RunNow(m) PROVE StopInv'
  <2> SUFFICES ASSUME restarts = 0, NEW d \in Children PROVE Accounted(d)'
    BY <1>16 DEF StopInv, RunNow
  <2>1. parent[m].rec = "none" /\ m \in Occurrences /\ UNCHANGED <<proc, stopping, restarts>>
    BY <1>16, BooksRunNow, Numbering DEF RunNow
  <2>2. CASE d[1] = m
    <3>1. child[d].rec = "none"
      BY <2>1, <2>2, Numbering DEF BooksBalance, Books
    <3>2. child'[d] = NewChild
      BY <1>16, <2>2 DEF RunNow, BegunChildren
    <3>3. \A p \in Processes : <<d, p>> \notin stopping'
      BY <1>b, <2>1, <3>1 DEF Accounted
    <3> QED BY <3>2, <3>3 DEF Accounted, NewChild, NoChild
  <2>3. CASE d[1] # m
    <3>1. child'[d] = child[d]
      BY <1>16, <2>3 DEF RunNow, BegunChildren
    <3> QED BY <1>a, <1>b, <2>1, <3>1, AccountKept
  <2> QED BY <2>2, <2>3
<1>17. ASSUME NEW p \in Processes, Disconnects(p) PROVE StopInv'
  <2>1. PICK c \in Served(p), status \in {"done", "error"} :
          End(c, child[c], status) /\ proc' = Signalled({Target(c, child[c])})
    BY <1>17 DEF Disconnects
  <2>2. c \in Children /\ status \in Terminal /\ status # "stopped"
    BY DEF Served, Terminal
  <2>3. Onward /\ UNCHANGED <<stopping, restarts>>
    BY <1>17, <2>1, SignalOnward DEF Disconnects
  <2> QED BY <2>1, <2>2, <2>3, EndAccounts
<1> QED
  BY <1>1, <1>2, <1>3, <1>4, <1>6, <1>7, <1>8, <1>9, <1>10, <1>11, <1>12, <1>13,
     <1>14, <1>15, <1>16, <1>17 DEF Next, ChildStep

\* However a stop races with the spawn, with whoever registers in the folder
\* and with the end of the child, a child recorded as stopped has cost a process
\* its life, unless a session of the user's terminal serves it.
THEOREM StopsKill == Spec => []StopKills
<1>1. Init => StopInv
  BY DEF Init, StopInv, Accounted, NoChild
<1>2. StopInv => StopKills
  BY DEF StopInv, StopKills, Accounted, Gone
<1> QED BY <1>1, <1>2, TypeInit, TypeStep, BooksInit, BooksStep, StopStep, PTL DEF Spec

-----------------------------------------------------------------------------
(* Who is hit by a stop *)

\* A stop that waits for the continuation of the spawn waits for a child that
\* has not ended.
StopAsked == \A c \in Children : child[c].stop => Live(c)

\* A child that is served by the process launched for it, and by a session that
\* serves no other, is not hit by what happens to other children: when that
\* process is signalled, the child ends or is being stopped itself.  So the stop
\* that hits a sibling (run automation_siblings) needs stamps taken out of turn,
\* and nothing else.
OwnProcessSpared ==
    [][\A c \in Children :
         Live(c) /\ Served(c) = {c} /\ proc[c] # "killed" /\ proc'[c] = "killed"
           => ~child'[c].live \/ <<c, c>> \in stopping']_vars

\* Ending a child that has not ended leaves it without a context.
LEMMA EndEnds ==
    ASSUME TypeOK, BooksBalance, NEW c \in Children, NEW ctx, NEW status \in Terminal,
           Live(c), ctx.live, End(c, ctx, status), UNCHANGED <<policy, fired, restarts>>
    PROVE  ~child'[c].live
<1> DEFINE f == c[1]
           next == IF IsLast(f) /\ queue # <<>> THEN {Head(queue)} ELSE {}
           ended == [NoChild EXCEPT !.rec = status, !.spawn = ctx.spawn, !.session = ctx.session]
<1>1. child' = BegunChildren(next, [child EXCEPT ![c] = ended])
  BY DEF End, finalizeChild
<1>2. ~ended.live
  BY DEF NoChild
<1>3. f \in Occurrences /\ c[2] \in 1 .. Width /\ c = <<f, c[2]>>
  BY Numbering
<1>4. parent[f].rec = "running"
  <2>1. Books(f) /\ child[<<f, c[2]>>].live
    BY <1>3 DEF BooksBalance, Live
  <2> QED BY <1>3, <2>1 DEF Books
<1>5. f \notin next
  BY <1>4 DEF BooksBalance, TypeOK
<1> HIDE DEF next, ended
<1> QED BY <1>1, <1>2, <1>5 DEF BegunChildren, TypeOK

\* A child that ends is waited for no longer, nor is one that begins.
LEMMA EndAsked ==
    ASSUME TypeOK, StopAsked, NEW c \in Children, NEW ctx, NEW status,
           ctx.live = child[c].live, ctx.stop = child[c].stop, End(c, ctx, status)
    PROVE  StopAsked'
<1>1. CASE ctx.live
  <2> DEFINE f == c[1]
             next == IF IsLast(f) /\ queue # <<>> THEN {Head(queue)} ELSE {}
             ended == [NoChild EXCEPT !.rec = status, !.spawn = ctx.spawn, !.session = ctx.session]
  <2>1. child' = BegunChildren(next, [child EXCEPT ![c] = ended])
    BY <1>1 DEF End, finalizeChild
  <2>2. ~ended.stop /\ ~NewChild.stop
    BY DEF NoChild, NewChild
  <2> HIDE DEF next, ended
  <2>3. \A d \in Children : \/ child'[d] = NewChild \/ child'[d] = ended
                            \/ child'[d] = child[d]
    BY <2>1 DEF BegunChildren, TypeOK
  <2> QED BY <2>2, <2>3 DEF StopAsked, Live
<1>2. CASE ~ctx.live
  <2>1. child' = [child EXCEPT ![c] = ctx]
    BY <1>2 DEF End
  <2> QED BY <2>1 DEF StopAsked, Live, TypeOK
<1> QED BY <1>1, <1>2

\* A step that leaves the contexts and the wishes to stop.
LEMMA AskedFrame ==
    ASSUME StopAsked,
           \A c \in Children : child'[c].live = child[c].live /\ child'[c].stop = child[c].stop
    PROVE  StopAsked'
  BY DEF StopAsked, Live

LEMMA AskedStep == TypeOK /\ StopAsked /\ [Next]_vars => StopAsked'
<1> SUFFICES ASSUME TypeOK, StopAsked, [Next]_vars PROVE StopAsked'
  OBVIOUS
<1> USE DEF runs
<1>0. child \in [Children -> Child]
  BY DEF TypeOK
<1>1. ASSUME NEW f, child' = BegunChildren({f}, child) PROVE StopAsked'
  <2>1. ~NewChild.stop
    BY DEF NoChild, NewChild
  <2>2. \A d \in Children : child'[d] = NewChild \/ child'[d] = child[d]
    BY <1>1 DEF BegunChildren
  <2> QED BY <2>1, <2>2 DEF StopAsked, Live
<1>2. CASE Fire
  <2>1. CASE UNCHANGED child
    BY <2>1, AskedFrame
  <2>2. CASE Begin(fired')
    BY <1>1, <2>2 DEF Begin
  <2> QED BY <1>2, <2>1, <2>2 DEF Fire, Defer
<1>3. ASSUME NEW m \in Manual, RunNow(m) PROVE StopAsked'
  BY <1>1, <1>3 DEF RunNow
<1>4. ASSUME NEW c \in Children, SpawnReturns(c) PROVE StopAsked'
  <2> DEFINE ctx == [child[c] EXCEPT !.spawn = "answered", !.token = child[c].live]
  <2>1. ctx.live = child[c].live /\ ctx.stop = child[c].stop
    BY <1>0 DEF Child
  <2>2. CASE ctx.stop
    BY <1>4, <2>1, <2>2, EndAsked DEF SpawnReturns
  <2>3. CASE ~ctx.stop
    <3>1. child' = [child EXCEPT ![c] = ctx]
      BY <1>4, <2>3 DEF SpawnReturns
    <3> HIDE DEF ctx
    <3>2. \A d \in Children : child'[d].live = child[d].live /\ child'[d].stop = child[d].stop
      BY <1>0, <2>1, <3>1
    <3> QED BY <3>2, AskedFrame
  <2> QED BY <2>2, <2>3
<1>5. ASSUME NEW c \in Children, SpawnFails(c) PROVE StopAsked'
  <2> DEFINE ctx == [child[c] EXCEPT !.spawn = "answered"]
  <2>1. ctx.live = child[c].live /\ ctx.stop = child[c].stop
    BY <1>0 DEF Child
  <2>2. End(c, ctx, "error")
    BY <1>5 DEF SpawnFails
  <2> HIDE DEF ctx
  <2> QED BY <2>1, <2>2, EndAsked
<1>6. ASSUME NEW c \in Children, AgentEnds(c) PROVE StopAsked'
  BY <1>6, EndAsked DEF AgentEnds
<1>7. ASSUME NEW chosen \in SUBSET Children, StopChildren(chosen), \A c \in chosen : Live(c)
      PROVE  StopAsked'
  <2> DEFINE known == {c \in chosen : child[c].session # Nobody \/ child[c].token}
  <2>1. child' = [c \in Children |->
                    IF c \in chosen \ known THEN [child[c] EXCEPT !.stop = TRUE] ELSE child[c]]
    BY <1>7 DEF StopChildren
  <2> HIDE DEF known
  <2>2. ASSUME NEW d \in Children PROVE child'[d].stop => child'[d].live
    <3>1. CASE d \in chosen \ known
      BY <1>0, <1>7, <2>1, <3>1 DEF Live, Child
    <3>2. CASE d \notin chosen \ known
      BY <2>1, <3>2 DEF StopAsked, Live
    <3> QED BY <3>1, <3>2
  <2> QED BY <2>2 DEF StopAsked, Live
<1>8. ASSUME NEW c \in Children, NEW p \in Processes, StopReturns(c, p) PROVE StopAsked'
  BY <1>8, EndAsked DEF StopReturns
<1>9. ASSUME NEW c \in Children, Reap(c) PROVE StopAsked'
  <2>1. CASE Live(c)
    BY <1>9, <2>1, EndAsked DEF Reap, End, Live
  <2>2. CASE ~Live(c)
    <3>1. \A d \in Children : child'[d].live = child[d].live /\ child'[d].stop = child[d].stop
      BY <1>0, <1>9, <2>2 DEF Reap, Child
    <3> QED BY <3>1, AskedFrame
  <2> QED BY <2>1, <2>2
<1>10. ASSUME NEW p \in Children, Launch(p) PROVE StopAsked'
  BY <1>10, AskedFrame DEF Launch
<1>11. ASSUME NEW p \in Processes, Register(p) PROVE StopAsked'
  <2>1. \A d \in Children : child'[d].live = child[d].live /\ child'[d].stop = child[d].stop
    BY <1>11, Registered
  <2> QED BY <2>1, AskedFrame
<1>12. ASSUME NEW p \in Processes, Dies(p) \/ Disconnects(p) PROVE StopAsked'
  <2>1. CASE UNCHANGED child
    BY <2>1, AskedFrame
  <2>2. CASE \E c \in Served(p), status \in {"done", "error"} : End(c, child[c], status)
    BY <2>2, EndAsked DEF Served
  <2> QED BY <1>12, <2>1, <2>2 DEF Dies, Disconnects
<1>13. CASE StampExpires
  BY <1>13, AskedFrame DEF StampExpires
<1>14. CASE Restart
  <2>1. \A c \in Children : ~child'[c].stop
    BY <1>14 DEF Restart, NoChild
  <2> QED BY <2>1 DEF StopAsked
<1>15. CASE UNCHANGED vars
  BY <1>15, AskedFrame DEF vars
<1> QED
  BY <1>2, <1>3, <1>4, <1>5, <1>6, <1>7, <1>8, <1>9, <1>10, <1>11, <1>12, <1>13, <1>14, <1>15
  DEF Next, ChildStep, Stop, StopAll

\* What follows when a step signals a process that was not signalled yet.
LEMMA SignalKeeps ==
    ASSUME TypeOK, NEW ps, NEW p \in Processes,
           proc[p] # "killed", Signalled(ps)[p] = "killed"
    PROVE  p \in ps
  BY DEF Signalled, TypeOK

\* A stop of one child ends the process of another only when that process took
\* a stamp that was not meant for it, for any number of fires, runs of the user,
\* children, sessions of his and restarts, and any policy.
THEOREM OwnProcessIsSpared == Spec => OwnProcessSpared
<1>1. ASSUME TypeOK, BooksBalance, StopAsked, [Next]_vars,
             NEW c \in Children, Live(c), Served(c) = {c},
             proc[c] # "killed", proc'[c] = "killed"
      PROVE  ~child'[c].live \/ <<c, c>> \in stopping'
  <2> USE DEF runs
  <2>0. /\ child \in [Children -> Child] /\ c # Nobody /\ c \in Processes
        /\ proc \in [Processes -> {"none", "launched", "up", "killed", "dead"}]
        /\ child[c].session = c
    BY <1>1, Own DEF TypeOK, Served
  <2>1. \A d \in Children : Live(d) /\ child[d].session = c => d = c
    BY <1>1 DEF Served
  <2>2. \A d \in Children : \A ctx :
            Live(d) /\ ctx.session = child[d].session /\ Target(d, ctx) = c => d = c
    BY <2>1 DEF Target
  <2>3. ASSUME NEW d \in Children, SpawnReturns(d) PROVE ~child'[c].live
    <3> DEFINE ctx == [child[d] EXCEPT !.spawn = "answered", !.token = child[d].live]
    <3>1. ctx.session = child[d].session /\ ctx.live = child[d].live /\ ctx.stop = child[d].stop
      BY <2>0 DEF Child
    <3>2. ctx.stop /\ End(d, ctx, "stopped") /\ proc' = Signalled({Target(d, ctx)})
      BY <1>1, <2>3 DEF SpawnReturns
    <3>3. UNCHANGED <<policy, fired, restarts>>
      BY <2>3 DEF SpawnReturns
    <3> HIDE DEF ctx
    <3>4. Target(d, ctx) = c
      BY <1>1, <2>0, <3>2, SignalKeeps
    <3>5. d = c
      BY <1>1, <2>2, <3>1, <3>2, <3>4 DEF StopAsked
    <3> QED BY <1>1, <3>1, <3>2, <3>3, <3>5, EndEnds DEF Live, Terminal
  <2>4. ASSUME NEW d \in Children, AgentEnds(d) PROVE ~child'[c].live
    <3>1. /\ proc' = [proc EXCEPT ![child[d].session] = "killed"] /\ Live(d)
          /\ UNCHANGED <<policy, fired, restarts>>
      BY <2>4 DEF AgentEnds
    <3>2. child[d].session = c
      BY <1>1, <3>1
    <3>3. d = c
      BY <2>1, <3>1, <3>2
    <3>4. PICK status \in {"done", "error"} : End(c, child[c], status)
      BY <2>4, <3>3 DEF AgentEnds
    <3> QED BY <1>1, <3>1, <3>4, EndEnds DEF Live, Terminal
  <2>5. ASSUME NEW chosen \in SUBSET Children, StopChildren(chosen), \A d \in chosen : Live(d)
        PROVE  <<c, c>> \in stopping'
    <3> DEFINE known == {d \in chosen : child[d].session # Nobody \/ child[d].token}
               target(d) == Target(d, child[d])
    <3>1. /\ proc' = Signalled({target(d) : d \in known})
          /\ stopping' = stopping \cup {<<d, target(d)>> : d \in known}
      BY <2>5 DEF StopChildren
    <3>2. c \in {target(d) : d \in known}
      BY <1>1, <2>0, <3>1, SignalKeeps
    <3>3. PICK d \in known : target(d) = c
      BY <3>2
    <3>4. d = c
      BY <2>2, <2>5, <3>3
    <3> QED BY <3>1, <3>3, <3>4
  <2>6. ASSUME NEW p \in Processes, NEW d \in Served(p), NEW status \in {"done", "error"},
               End(d, child[d], status), UNCHANGED <<policy, fired, restarts>>,
               NEW q \in {Target(d, child[d]), d}, Signalled({q})[c] = "killed"
        PROVE  ~child'[c].live
    <3>1. d \in Children /\ Live(d)
      BY <2>6 DEF Served
    <3>2. q = c
      BY <1>1, <2>0, <2>6, SignalKeeps
    <3>3. d = c
      BY <2>2, <2>6, <3>1, <3>2
    <3> QED BY <1>1, <2>6, <3>3, EndEnds DEF Live, Terminal
  <2>7. ASSUME NEW p \in Processes, Dies(p) PROVE ~child'[c].live
    <3>1. CASE Served(p) = {}
      BY <1>1, <2>0, <2>7, <3>1 DEF Dies
    <3>2. CASE Served(p) # {}
      <4>1. PICK d \in Served(p), status \in {"done", "error"} :
              /\ End(d, child[d], status)
              /\ \E q \in {Target(d, child[d])} \cup (IF child[d].token THEN {d} ELSE {}) :
                    proc' = [Signalled({q}) EXCEPT ![p] = "dead"]
        BY <2>7, <3>2 DEF Dies
      <4>2. PICK q \in {Target(d, child[d]), d} : proc' = [Signalled({q}) EXCEPT ![p] = "dead"]
        BY <4>1
      <4>3. Signalled({q})[c] = "killed"
        BY <1>1, <2>0, <4>2 DEF Signalled
      <4>4. UNCHANGED <<policy, fired, restarts>>
        BY <2>7 DEF Dies
      <4> QED BY <2>6, <4>1, <4>3, <4>4
    <3> QED BY <3>1, <3>2
  <2>8. ASSUME NEW p \in Processes, Disconnects(p) PROVE ~child'[c].live
    <3>1. PICK d \in Served(p), status \in {"done", "error"} :
            End(d, child[d], status) /\ proc' = Signalled({Target(d, child[d])})
      BY <2>8 DEF Disconnects
    <3>2. UNCHANGED <<policy, fired, restarts>>
      BY <2>8 DEF Disconnects
    <3> QED BY <1>1, <2>6, <3>1, <3>2
  <2>9. ASSUME NEW p \in Processes, Register(p) \/ (p \in Children /\ Launch(p)) PROVE FALSE
    BY <1>1, <2>0, <2>9 DEF Launch, Register
  <2>10. CASE Restart
    BY <1>1, <2>0, <2>10 DEF Restart
  <2>11. ASSUME UNCHANGED proc PROVE FALSE
    BY <1>1, <2>11
  <2>12. \A d \in Children : Stop(d) => <<c, c>> \in stopping'
    BY <2>5 DEF Stop
  <2>13. \A f \in Occurrences : StopAll(f) => <<c, c>> \in stopping'
    <3> SUFFICES ASSUME NEW f \in Occurrences, StopAll(f) PROVE <<c, c>> \in stopping'
      OBVIOUS
    <3> DEFINE chosen == {d \in Children : d[1] = f /\ Live(d)}
    <3>1. StopChildren(chosen) /\ chosen \in SUBSET Children /\ \A d \in chosen : Live(d)
      BY DEF StopAll
    <3> HIDE DEF chosen
    <3> QED BY <2>5, <3>1
  <2> QED
    BY <1>1, <2>3, <2>4, <2>7, <2>8, <2>9, <2>10, <2>11, <2>12, <2>13, Own
    DEF Next, ChildStep, Fire, RunNow, SpawnFails, StopReturns, Reap, StampExpires, vars
<1>2. Init => StopAsked
  BY DEF Init, StopAsked, NoChild
<1>3. TypeOK /\ BooksBalance /\ StopAsked /\ [Next]_vars =>
        [\A c \in Children :
           Live(c) /\ Served(c) = {c} /\ proc[c] # "killed" /\ proc'[c] = "killed"
             => ~child'[c].live \/ <<c, c>> \in stopping']_vars
  BY <1>1
<1> QED
  BY <1>2, <1>3, TypeInit, TypeStep, BooksInit, BooksStep, AskedStep, PTL
  DEF Spec, OwnProcessSpared

-----------------------------------------------------------------------------
(* The promise to the user of an automation *)

\* What the ledger calls a fire, in terms of record, counter and queue.
LEMMA StageFacts ==
    ASSUME TypeOK, BooksBalance, NEW f \in Occurrences
    PROVE  /\ StageOf(f) = "running" <=> parent[f].tracked
           /\ f \in Fires => (StageOf(f) = "absent" <=> f > fired)
           /\ f \in Manual => (StageOf(f) = "absent" <=> parent[f].rec = "none")
           /\ StageOf(f) = "deferred" <=> \E i \in DOMAIN queue : queue[i] = f
           /\ StageOf(f) = "orphaned" <=> parent[f].rec = "running" /\ ~parent[f].tracked
           /\ StageOf(f) \in Terminal <=> parent[f].rec \in Terminal
<1>1. parent[f].rec \in {"none", "running", "done", "error", "stopped"}
  BY DEF TypeOK, Parent, Status, Terminal
<1>2. parent[f].tracked => parent[f].rec = "running"
  BY DEF BooksBalance, Books
<1>3. f \in Fires /\ f > fired => parent[f].rec = "none"
  BY DEF BooksBalance, Books
<1>0. f \in Manual => f > fired
  BY AutomationAssumption DEF Manual, TypeOK
<1>4. ASSUME NEW i \in DOMAIN queue, queue[i] = f
      PROVE  parent[f].rec = "none" /\ ~(f > fired)
  <2>1. parent[f].rec = "none" /\ f <= fired
    BY <1>4 DEF BooksBalance
  <2>2. f \in Nat /\ fired \in Nat
    BY Numbering, AutomationAssumption DEF TypeOK
  <2> QED BY <2>1, <2>2
<1> QED BY <1>0, <1>1, <1>2, <1>3, <1>4 DEF StageOf, Terminal

\* A step that leaves the records, the counters' existence, the slot and the
\* queue alone is none of the ledger's.
LEMMA LedgerFrame ==
    ASSUME UNCHANGED <<policy, fired, queue, active>>,
           \A f \in Occurrences : /\ parent'[f].rec = parent[f].rec
                            /\ parent'[f].tracked = parent[f].tracked,
           \A c \in Children : child'[c].rec = child[c].rec
    PROVE  UNCHANGED Ledger!vars
<1>1. \A f \in Occurrences : StageOf(f)' = StageOf(f)
  BY DEF StageOf
<1>2. \A f \in Occurrences, i \in 1 .. Width : OutcomeOf(<<f, i>>)' = OutcomeOf(<<f, i>>)
  BY Numbering DEF OutcomeOf
<1> QED BY <1>1, <1>2 DEF Ledger!vars

\* The fires and the outcomes of the ledger after finalizeChild.
LEMMA FinalizeMaps ==
    ASSUME TypeOK, BooksBalance, NEW f \in Occurrences, NEW k \in 1 .. Width, NEW ctx,
           NEW status \in Terminal, child[<<f, k>>].live,
           finalizeChild(<<f, k>>, ctx, status),
           UNCHANGED <<policy, fired, restarts>>
    PROVE  LET next == IF IsLast(f) /\ queue # <<>> THEN {Head(queue)} ELSE {} IN
           /\ parent[f].tracked /\ child[<<f, k>>].rec = "running"
           /\ f \notin next
           /\ parent'[f] = Counted(f, status)
           /\ child'[<<f, k>>].rec = status
           /\ \A h \in Occurrences \ {f} : StageOf(h)' = IF h \in next THEN "running" ELSE StageOf(h)
           /\ \A h \in Occurrences, i \in 1 .. Width :
                 OutcomeOf(<<h, i>>)' = IF h = f /\ i = k THEN status ELSE OutcomeOf(<<h, i>>)
<1> DEFINE c == <<f, k>>
           next == IF IsLast(f) /\ queue # <<>> THEN {Head(queue)} ELSE {}
           ended == [NoChild EXCEPT !.rec = status, !.spawn = ctx.spawn, !.session = ctx.session]
<1>1. c \in Children /\ c[1] = f
  BY Numbering
<1>2. /\ child' = BegunChildren(next, [child EXCEPT ![c] = ended])
      /\ parent' = BegunParents(next, [parent EXCEPT ![f] = Counted(f, status)])
      /\ queue' = IF next = {} THEN queue ELSE Tail(queue)
  BY <1>1 DEF finalizeChild
<1>3. child[c].rec = "running" /\ parent[f].rec = "running" /\ parent[f].tracked
  <2>1. Books(f)
    BY DEF BooksBalance
  <2> QED BY <2>1 DEF Books
<1>4. \A h \in next : h \in Occurrences /\ parent[h].rec = "none"
  BY Numbering DEF BooksBalance, TypeOK
<1>5. f \notin next
  BY <1>3, <1>4
<1>6. \A h \in next, i \in 1 .. Width : child[<<h, i>>].rec = "none"
  <2> HIDE DEF next
  <2>1. ASSUME NEW h \in next PROVE Books(h) /\ parent[h].rec = "none"
    BY <1>4 DEF BooksBalance
  <2> QED BY <2>1 DEF Books
<1>7. \A h \in Occurrences \ {f} :
         (\E i \in DOMAIN queue' : queue'[i] = h) <=> h \notin next /\ \E i \in DOMAIN queue : queue[i] = h
  <2>1. queue \in Seq(Fires)
    BY DEF TypeOK
  <2>2. CASE next = {}
    BY <1>2, <2>2
  <2>3. CASE next # {}
    <3>1. /\ next = {queue[1]} /\ queue' = Tail(queue) /\ 1 \in DOMAIN queue
      BY <1>2, <2>1, <2>3
    <3>2. \A i \in DOMAIN queue' : i + 1 \in DOMAIN queue /\ queue'[i] = queue[i + 1] /\ i + 1 # 1
      BY <2>1, <3>1
    <3>3. \A i \in DOMAIN queue : i # 1 => i - 1 \in DOMAIN queue' /\ queue'[i - 1] = queue[i]
      BY <2>1, <3>1
    <3>4. \A i \in DOMAIN queue : queue[i] = queue[1] => i = 1
      <4>1. ASSUME NEW i \in DOMAIN queue, i # 1 PROVE queue[i] # queue[1]
        <5>1. 1 < i /\ queue[i] \in Nat /\ queue[1] \in Nat
          BY <2>1, <3>1, <4>1, Numbering
        <5>2. queue[1] < queue[i]
          BY <3>1, <4>1, <5>1 DEF BooksBalance
        <5> QED BY <5>1, <5>2
      <4> QED BY <4>1
    <3> HIDE DEF next
    <3>5. ASSUME NEW h \in Occurrences, NEW i \in DOMAIN queue', queue'[i] = h
          PROVE  h \notin next /\ \E j \in DOMAIN queue : queue[j] = h
      BY <3>1, <3>2, <3>4, <3>5
    <3>6. ASSUME NEW h \in Occurrences, h \notin next, NEW i \in DOMAIN queue, queue[i] = h
          PROVE  \E j \in DOMAIN queue' : queue'[j] = h
      BY <3>1, <3>3, <3>6
    <3> QED BY <3>5, <3>6
  <2> QED BY <2>2, <2>3
<1> HIDE DEF next, ended
<1>8. parent'[f] = Counted(f, status)
  BY <1>2, <1>5 DEF BegunParents, TypeOK
<1>9. child'[c].rec = status
  <2>1. child'[c] = ended
    BY <1>1, <1>2, <1>5 DEF BegunChildren, TypeOK
  <2> QED BY <2>1 DEF ended, NoChild
<1>10. ASSUME NEW h \in Occurrences \ {f}
       PROVE  StageOf(h)' = IF h \in next THEN "running" ELSE StageOf(h)
  <2>1. CASE h \in next
    <3>1. parent'[h].rec = "running" /\ parent'[h].tracked
      BY <1>2, <2>1 DEF BegunParents, NewParent
    <3> QED BY <2>1, <3>1 DEF StageOf, Terminal
  <2>2. CASE h \notin next
    <3>1. parent'[h] = parent[h]
      BY <1>2, <2>2 DEF BegunParents, TypeOK
    <3>2. (\E i \in DOMAIN queue' : queue'[i] = h) <=> \E i \in DOMAIN queue : queue[i] = h
      BY <1>7, <2>2
    <3>3. StageOf(h)' = StageOf(h)
      BY <3>1, <3>2 DEF StageOf
    <3> QED BY <2>2, <3>3
  <2> QED BY <2>1, <2>2
<1>11. ASSUME NEW h \in Occurrences, NEW i \in 1 .. Width
       PROVE  OutcomeOf(<<h, i>>)' = IF h = f /\ i = k THEN status ELSE OutcomeOf(<<h, i>>)
  <2>1. <<h, i>> \in Children
    BY Numbering
  <2>2. CASE h = f /\ i = k
    BY <1>9, <2>2 DEF OutcomeOf
  <2>3. CASE h \in next
    <3>1. child'[<<h, i>>].rec = "running"
      BY <1>2, <2>1, <2>3 DEF BegunChildren, NewChild, NoChild
    <3> QED BY <1>5, <1>6, <2>3, <3>1 DEF OutcomeOf, Terminal
  <2>4. CASE h \notin next /\ ~(h = f /\ i = k)
    <3>1. child'[<<h, i>>] = child[<<h, i>>]
      BY <1>2, <2>1, <2>4 DEF BegunChildren, TypeOK
    <3> QED BY <2>4, <3>1 DEF OutcomeOf
  <2> QED BY <2>2, <2>3, <2>4
<1> QED BY <1>3, <1>5, <1>8, <1>9, <1>10, <1>11 DEF next

\* finalizeChild ends a child in the ledger, and with the last one the fire,
\* whose verdict is over the outcomes of all.
LEMMA FinalizeLedger ==
    ASSUME TypeOK, BooksBalance, NEW c \in Children, NEW ctx, NEW status \in Terminal,
           child[c].live, finalizeChild(c, ctx, status),
           UNCHANGED <<policy, fired, restarts>>
    PROVE  Ledger!Next
<1> DEFINE f == c[1]
           k == c[2]
           next == IF IsLast(f) /\ queue # <<>> THEN {Head(queue)} ELSE {}
<1>1. f \in Occurrences /\ k \in 1 .. Width /\ c = <<f, k>>
  BY Numbering
<1> HIDE DEF f, k
<1>2. /\ parent[f].tracked /\ child[c].rec = "running"
      /\ f \notin next
      /\ parent'[f] = Counted(f, status)
      /\ child'[c].rec = status
      /\ \A h \in Occurrences \ {f} : StageOf(h)' = IF h \in next THEN "running" ELSE StageOf(h)
      /\ \A h \in Occurrences, i \in 1 .. Width :
            OutcomeOf(<<h, i>>)' = IF h = f /\ i = k THEN status ELSE OutcomeOf(<<h, i>>)
  BY <1>1, FinalizeMaps
<1>3. BooksBalance' /\ Books(f)'
  <2>1. BooksBalance'
    BY FinalizeBooks
  <2> QED BY <1>1, <2>1 DEF BooksBalance
<1>4. StageOf(f) = "running"
  BY <1>1, <1>2, StageFacts
<1>5. OutcomeOf(c) = "open" /\ status \in Ledger!Verdicts
  BY <1>2 DEF OutcomeOf, Terminal, Ledger!Verdicts
<1>6. Ledger!Close(f, k, status)
  BY <1>1, <1>2, <1>5 DEF Ledger!Close, Ledger!Occurrences, Ledger!Fires, Ledger!Manual, Ledger!Places,
        Occurrences, Fires, Manual
<1>7. CASE ~IsLast(f)
  <2>1. parent'[f].tracked /\ parent'[f].rec = "running"
    <3>1. parent[f] \in Parent /\ parent[f].rec = "running"
      BY <1>1, <1>2 DEF TypeOK, BooksBalance, Books
    <3> QED BY <1>2, <1>7, <3>1 DEF Counted, Parent
  <2>2. PICK j \in 1 .. Width : child'[<<f, j>>].live
    <3>1. LiveSlots(f)' # {}
      <4>1. Cardinality(LiveSlots(f)') > 0
        BY <1>3, <2>1 DEF Books
      <4>2. Cardinality({}) = 0
        BY FS_EmptySet
      <4> QED BY <4>1, <4>2
    <3> QED BY <3>1 DEF LiveSlots
  <2>3. child'[<<f, j>>].rec = "running"
    BY <1>3, <2>2 DEF Books
  <2>4. j # k /\ OutcomeOf(<<f, j>>) = "open"
    <3>1. OutcomeOf(<<f, j>>)' = "open" /\ status # "open"
      BY <2>3 DEF OutcomeOf, Terminal
    <3> QED BY <1>1, <1>2, <3>1
  <2>5. StageOf(f)' = "running"
    BY <2>1 DEF StageOf, Terminal
  <2>6. queue' = queue /\ next = {} /\ active' = active
    BY <1>1, <1>7 DEF finalizeChild, f
  <2>7. \A h \in Occurrences : StageOf(h)' = StageOf(h)
    BY <1>2, <1>4, <2>5, <2>6
  <2>8. Ledger!ChildEnds(f, k, status)
    BY <1>1, <1>4, <1>6, <2>4, <2>6, <2>7 DEF Ledger!ChildEnds, Ledger!Places
  <2> QED BY <1>1, <1>5, <2>8 DEF Ledger!Next, Ledger!Occurrences, Ledger!Fires, Ledger!Manual, Ledger!Places,
        Occurrences, Fires, Manual
<1>8. CASE IsLast(f)
  <2>1. parent'[f].rec = aggregateStatus(parent[f].outcomes \cup {status})
    BY <1>2, <1>8 DEF Counted, NoParent
  <2>2. parent'[f].rec \in Terminal
    BY <2>1 DEF aggregateStatus, Terminal
  <2>3. AllEnded(f)' /\ parent'[f].rec = aggregateStatus(Records(f)')
    BY <1>3, <2>2 DEF Books
  <2>4. \A j \in 1 .. Width : child'[<<f, j>>].rec \in Terminal
    BY <2>3 DEF AllEnded, Records
  <2>5. \A j \in (1 .. Width) \ {k} : OutcomeOf(<<f, j>>) # "open"
    BY <1>1, <1>2, <2>4 DEF OutcomeOf, Terminal
  <2>6. {OutcomeOf(<<f, j>>)' : j \in 1 .. Width} = Records(f)'
    BY <2>4 DEF OutcomeOf, Records
  <2>7. StageOf(f)' = Ledger!Verdict({OutcomeOf(<<f, j>>)' : j \in 1 .. Width})
    BY <2>2, <2>3, <2>6 DEF StageOf, aggregateStatus, Ledger!Verdict
  <2>8. Ledger!RunEnds(f, k, status)
    <3> DEFINE stage == [h \in Occurrences |-> StageOf(h)]
               verdict == Ledger!Verdict({OutcomeOf(<<f, j>>)' : j \in 1 .. Width})
               ended == [stage EXCEPT ![f] = verdict]
    <3>1. Ledger!Verdict({[h \in Occurrences |-> [i \in 1 .. Width |-> OutcomeOf(<<h, i>>)']][f][j] : j \in 1 .. Width})
            = verdict
      BY <1>1
    <3> HIDE DEF verdict
    <3>2. CASE queue = <<>>
      <4>1. queue' = queue /\ next = {} /\ active' = NoFire
        BY <1>1, <1>8, <3>2 DEF finalizeChild, f
      <4>2. \A h \in Occurrences : StageOf(h)' = IF h = f THEN verdict ELSE StageOf(h)
        BY <1>2, <2>7, <4>1 DEF verdict
      <4>3. [h \in Occurrences |-> StageOf(h)'] = ended
        BY <4>2
      <4> QED
        BY <1>1, <1>4, <1>6, <2>5, <3>1, <3>2, <4>1, <4>3
        DEF Ledger!RunEnds, Ledger!Places, Ledger!NoFire, NoFire
    <3>3. CASE queue # <<>>
      <4>1. /\ queue' = Tail(queue) /\ next = {Head(queue)} /\ active' = Head(queue)
            /\ Head(queue) \in Occurrences
        <5>1. queue \in Seq(Fires)
          BY DEF TypeOK
        <5>2. Head(queue) \in Occurrences
          BY <3>3, <5>1, Numbering
        <5> QED BY <1>1, <1>8, <3>3, <5>2 DEF finalizeChild, f
      <4>2. \A h \in Occurrences : StageOf(h)' = IF h = Head(queue) THEN "running"
                                           ELSE IF h = f THEN verdict ELSE StageOf(h)
        BY <1>2, <2>7, <4>1 DEF verdict
      <4>3. [h \in Occurrences |-> StageOf(h)'] = [ended EXCEPT ![Head(queue)] = "running"]
        BY <4>2
      <4> QED
        BY <1>1, <1>4, <1>6, <2>5, <3>1, <3>3, <4>1, <4>3
        DEF Ledger!RunEnds, Ledger!Places, Ledger!NoFire, NoFire
    <3> QED BY <3>2, <3>3
  <2> QED BY <1>1, <1>5, <2>8 DEF Ledger!Next, Ledger!Occurrences, Ledger!Fires, Ledger!Manual, Ledger!Places,
        Occurrences, Fires, Manual
<1> QED BY <1>7, <1>8

\* Whoever ends a child, the ledger moves at most once.
LEMMA EndLedger ==
    ASSUME TypeOK, BooksBalance, NEW c \in Children, NEW ctx, NEW status \in Terminal,
           ctx.rec = child[c].rec, ctx.live = child[c].live, End(c, ctx, status),
           UNCHANGED <<policy, fired, restarts>>
    PROVE  [Ledger!Next]_(Ledger!vars)
<1>1. CASE ctx.live
  BY <1>1, FinalizeLedger DEF End
<1>2. CASE ~ctx.live
  <2>1. \A d \in Children : child'[d].rec = child[d].rec
    BY <1>2 DEF End, TypeOK
  <2> QED BY <1>2, <2>1, LedgerFrame DEF End
<1> QED BY <1>1, <1>2

\* A run that begins has no outcome yet.
LEMMA BegunOutcomes ==
    ASSUME TypeOK, BooksBalance, NEW f \in Occurrences, parent[f].rec = "none",
           child' = BegunChildren({f}, child), NEW h \in Occurrences, NEW i \in 1 .. Width
    PROVE  OutcomeOf(<<h, i>>)' = OutcomeOf(<<h, i>>)
<1>1. <<h, i>> \in Children
  BY Numbering
<1>2. CASE h = f
  <2>1. child[<<h, i>>].rec = "none"
    BY <1>2 DEF BooksBalance, Books
  <2>2. child'[<<h, i>>].rec = "running"
    BY <1>1, <1>2 DEF BegunChildren, NewChild, NoChild
  <2> QED BY <2>1, <2>2 DEF OutcomeOf, Terminal
<1>3. CASE h # f
  <2>1. child'[<<h, i>>] = child[<<h, i>>]
    BY <1>1, <1>3 DEF BegunChildren
  <2> QED BY <2>1 DEF OutcomeOf
<1> QED BY <1>2, <1>3

\* A fire enters the ledger: begun, deferred or missed.
LEMMA FireLedgerStep ==
    ASSUME TypeOK, BooksBalance, Fire
    PROVE  Ledger!Next
<1>1. PICK f \in Fires : f = fired' /\ f = fired + 1
  BY AutomationAssumption DEF Fire, Fires, TypeOK
<1>0. /\ fired \in Nat /\ policy' = policy /\ f \in Occurrences
      /\ queue \in Seq(Fires) /\ \A h \in Occurrences : h \in Nat
  BY AutomationAssumption, Numbering DEF Fire, TypeOK
<1>2. \A h \in Fires : StageOf(h) = "absent" <=> h >= f
  <2> SUFFICES ASSUME NEW h \in Fires PROVE StageOf(h) = "absent" <=> h >= f
    OBVIOUS
  <2>1. h \in Occurrences
    BY Numbering
  <2>2. StageOf(h) = "absent" <=> h > fired
    BY <2>1, StageFacts
  <2> QED BY <1>1, <1>0, <2>1, <2>2
<1>3. Ledger!Trigger(f)
  BY <1>2, Numbering DEF Ledger!Trigger, Ledger!Fires, Fires
<1>6. parent[f].rec = "none"
  BY <1>1, <1>0 DEF BooksBalance, Books
<1>7. \A i \in DOMAIN queue : queue[i] # f
  <2> SUFFICES ASSUME NEW i \in DOMAIN queue PROVE queue[i] # f
    OBVIOUS
  <2>1. queue[i] \in Occurrences
    BY <1>0, Numbering
  <2>2. queue[i] <= fired
    BY DEF BooksBalance
  <2>3. queue[i] \in Nat
    BY <1>0, <2>1
  <2> QED BY <1>1, <1>0, <2>2, <2>3
\* Any other fire is where it was when its parent is and the queue only grows.
<1>8. ASSUME NEW h \in Occurrences, h # f, parent'[h] = parent[h],
             (\E i \in DOMAIN queue' : queue'[i] = h) <=> \E i \in DOMAIN queue : queue[i] = h
      PROVE  StageOf(h)' = StageOf(h)
  <2>1. h > fired' <=> h > fired
    <3>1. h \in Nat /\ f \in Nat /\ h # f
      BY <1>0, <1>8
    <3> QED BY <1>1, <1>0, <3>1
  <2> QED BY <1>8, <2>1 DEF StageOf
<1>9. CASE (active = NoFire \/ policy = "parallel") /\ Begin(f)
  <2>1. /\ parent'[f] = NewParent /\ \A h \in Occurrences \ {f} : parent'[h] = parent[h]
        /\ queue' = queue
    BY <1>1, <1>0, <1>9 DEF Begin, BegunParents
  <2>2. StageOf(f)' = "running"
    BY <2>1 DEF StageOf, NewParent, Terminal
  <2>3. \A h \in Occurrences \ {f} : StageOf(h)' = StageOf(h)
    BY <1>8, <2>1
  <2>4. \A h \in Occurrences, i \in 1 .. Width : OutcomeOf(<<h, i>>)' = OutcomeOf(<<h, i>>)
    BY <1>0, <1>6, <1>9, BegunOutcomes DEF Begin
  <2>5. active' = f
    BY <1>9 DEF Begin
  <2>6. Ledger!Begin(f)
    <3>1. Ledger!Enter(f, "running")
      BY <1>1, <1>0, <2>2, <2>3 DEF Ledger!Enter
    <3> QED BY <1>1, <1>0, <1>3, <1>9, <2>1, <2>4, <2>5, <3>1
            DEF Ledger!Begin, Ledger!NoFire, NoFire
  <2> QED BY <1>1, <1>0, <2>6 DEF Ledger!Next, Ledger!Occurrences, Ledger!Fires, Ledger!Manual,
        Occurrences, Fires, Manual
<1>10. CASE active # NoFire /\ policy = "queue" /\ Defer(f)
  <2>1. /\ queue' = Append(queue, f) /\ parent' = parent /\ child' = child /\ active' = active
    BY <1>10 DEF Defer
  <2>2. /\ DOMAIN queue' = (DOMAIN queue) \cup {Len(queue) + 1}
        /\ \A i \in DOMAIN queue : queue'[i] = queue[i]
        /\ queue'[Len(queue) + 1] = f
    BY <1>1, <1>0, <2>1
  <2>3. StageOf(f)' = "deferred"
    <3>1. parent'[f].rec = "none"
      BY <1>1, <1>0, <1>6, <2>1
    <3>2. ~(f > fired')
      BY <1>1, <1>0
    <3>3. \E i \in DOMAIN queue' : queue'[i] = f
      BY <2>2
    <3> QED BY <3>1, <3>2, <3>3 DEF StageOf, Terminal
  <2>4. ASSUME NEW h \in Occurrences \ {f} PROVE StageOf(h)' = StageOf(h)
    <3>1. (\E i \in DOMAIN queue' : queue'[i] = h) <=> \E i \in DOMAIN queue : queue[i] = h
      BY <2>2
    <3> QED BY <1>8, <2>1, <3>1
  <2>5. \A h \in Occurrences, i \in 1 .. Width : OutcomeOf(<<h, i>>)' = OutcomeOf(<<h, i>>)
    BY <2>1 DEF OutcomeOf
  <2>6. Ledger!Defer(f)
    <3>1. Ledger!Enter(f, "deferred")
      BY <1>1, <1>0, <2>3, <2>4 DEF Ledger!Enter
    <3> QED BY <1>1, <1>0, <1>3, <1>10, <2>1, <2>5, <3>1
            DEF Ledger!Defer, Ledger!NoFire, NoFire
  <2> QED BY <1>1, <1>0, <2>6 DEF Ledger!Next, Ledger!Occurrences, Ledger!Fires, Ledger!Manual,
        Occurrences, Fires, Manual
<1>11. CASE active # NoFire /\ policy = "skip" /\ UNCHANGED runs
  <2>1. queue' = queue /\ parent' = parent /\ child' = child /\ active' = active
    BY <1>11 DEF runs
  <2>2. StageOf(f)' = "missed"
    <3>1. parent'[f].rec = "none"
      BY <1>1, <1>0, <1>6, <2>1
    <3>2. ~(f > fired')
      BY <1>1, <1>0
    <3> QED BY <1>7, <2>1, <3>1, <3>2 DEF StageOf, Terminal
  <2>3. \A h \in Occurrences \ {f} : StageOf(h)' = StageOf(h)
    BY <1>8, <2>1
  <2>4. \A h \in Occurrences, i \in 1 .. Width : OutcomeOf(<<h, i>>)' = OutcomeOf(<<h, i>>)
    BY <2>1 DEF OutcomeOf
  <2>5. Ledger!Miss(f)
    <3>1. Ledger!Enter(f, "missed")
      BY <1>1, <1>0, <2>2, <2>3 DEF Ledger!Enter
    <3> QED BY <1>1, <1>0, <1>3, <1>11, <2>1, <2>4, <3>1
            DEF Ledger!Miss, Ledger!NoFire, NoFire
  <2> QED BY <1>1, <1>0, <2>5 DEF Ledger!Next, Ledger!Occurrences, Ledger!Fires, Ledger!Manual,
        Occurrences, Fires, Manual
<1> QED BY <1>1, <1>9, <1>10, <1>11 DEF Fire

\* So does a run of the user, which takes no slot.
LEMMA AskLedger ==
    ASSUME TypeOK, BooksBalance, NEW m \in Manual, RunNow(m)
    PROVE  Ledger!Next
<1>1. m \in Occurrences /\ parent[m].rec = "none"
  BY BooksRunNow, Numbering DEF RunNow
<1>2. /\ parent'[m] = NewParent /\ \A h \in Occurrences \ {m} : parent'[h] = parent[h]
      /\ UNCHANGED <<policy, fired, active, queue>>
  BY <1>1 DEF RunNow, BegunParents
<1>3. StageOf(m) = "absent"
  BY <1>1, StageFacts
<1>4. StageOf(m)' = "running"
  BY <1>2 DEF StageOf, NewParent, Terminal
<1>5. \A h \in Occurrences \ {m} : StageOf(h)' = StageOf(h)
  BY <1>2 DEF StageOf
<1>6. \A h \in Occurrences, i \in 1 .. Width : OutcomeOf(<<h, i>>)' = OutcomeOf(<<h, i>>)
  BY <1>1, BegunOutcomes DEF RunNow
<1>7. Ledger!Ask(m)
  <2>1. Ledger!Enter(m, "running")
    BY <1>1, <1>4, <1>5 DEF Ledger!Enter
  <2> QED BY <1>1, <1>2, <1>3, <1>6, <2>1 DEF Ledger!Ask
<1> QED BY <1>7 DEF Ledger!Next, Ledger!Manual, Ledger!Fires, Manual

\* A record without a context is one that a restart left behind: clearing it
\* decides nothing about its fire.
LEMMA ReapLedger ==
    ASSUME TypeOK, BooksBalance, NEW c \in Children, Reap(c)
    PROVE  Ledger!Next
<1>1. CASE Live(c)
  BY <1>1, FinalizeLedger DEF Reap, Live, Terminal
<1>2. CASE ~Live(c)
  <2> DEFINE f == c[1]
             k == c[2]
  <2>1. f \in Occurrences /\ k \in 1 .. Width /\ c = <<f, k>>
    BY Numbering
  <2> HIDE DEF f, k
  <2>2. child[c].rec = "running" /\ UNCHANGED <<policy, fired, queue, active, parent>>
    BY <1>2 DEF Reap
  <2>3. child' = [child EXCEPT ![c].rec = "error"]
    BY <1>2 DEF Reap
  <2>4. Books(f)
    BY <2>1 DEF BooksBalance
  <2>5. parent[f].rec = "running"
    <3>1. parent[f].rec # "none"
      BY <2>1, <2>2, <2>4 DEF Books
    <3>2. parent[f].rec \notin Terminal
      <4>1. "running" \in Records(f)
        BY <2>1, <2>2 DEF Records
      <4> QED BY <2>4, <4>1 DEF Books, AllEnded, Terminal
    <3> QED BY <2>1, <3>1, <3>2 DEF TypeOK, Parent, Status
  <2>6. ~parent[f].tracked
    <3> SUFFICES ASSUME parent[f].tracked PROVE FALSE
      OBVIOUS
    <3>1. k \in (1 .. Width) \ LiveSlots(f)
      BY <1>2, <2>1 DEF LiveSlots, Live
    <3>2. "running" \in parent[f].outcomes
      BY <2>1, <2>2, <2>4, <3>1 DEF Books
    <3> QED BY <2>1, <3>2 DEF TypeOK, Parent, Terminal
  <2>7. StageOf(f) = "orphaned"
    BY <2>1, <2>5, <2>6, StageFacts
  <2>8. \A h \in Occurrences : StageOf(h)' = StageOf(h)
    BY <2>2 DEF StageOf
  <2>9. ASSUME NEW h \in Occurrences, NEW i \in 1 .. Width
        PROVE  OutcomeOf(<<h, i>>)' = IF h = f /\ i = k THEN "error" ELSE OutcomeOf(<<h, i>>)
    <3>1. <<h, i>> \in Children
      BY Numbering
    <3>2. CASE h = f /\ i = k
      <4>1. child'[c].rec = "error"
        BY <2>3 DEF TypeOK, Child
      <4> QED BY <2>1, <3>2, <4>1 DEF OutcomeOf, Terminal
    <3>3. CASE ~(h = f /\ i = k)
      <4>1. child'[<<h, i>>] = child[<<h, i>>]
        BY <2>1, <2>3, <3>1, <3>3 DEF TypeOK
      <4> QED BY <3>3, <4>1 DEF OutcomeOf
    <3> QED BY <3>2, <3>3
  <2>10. OutcomeOf(c) = "open"
    BY <2>2 DEF OutcomeOf, Terminal
  <2>11. Ledger!OrphanEnds(f, k)
    <3>1. Ledger!Close(f, k, "error")
      BY <2>1, <2>2, <2>9, <2>10
      DEF Ledger!Close, Ledger!Occurrences, Ledger!Fires, Ledger!Manual, Ledger!Places,
        Occurrences, Fires, Manual, Ledger!Verdicts
    <3> QED BY <2>1, <2>2, <2>7, <2>8, <3>1 DEF Ledger!OrphanEnds
  <2> QED BY <2>1, <2>11 DEF Ledger!Next, Ledger!Occurrences, Ledger!Fires, Ledger!Manual, Ledger!Places,
        Occurrences, Fires, Manual
<1> QED BY <1>1, <1>2

\* A restart forgets the counters and the queue, not the records.
LEMMA RestartLedger ==
    ASSUME TypeOK, BooksBalance, Restart
    PROVE  Ledger!Forget
<1>1. /\ queue' = <<>> /\ active' = NoFire /\ fired' = fired /\ policy' = policy
      /\ \A f \in Occurrences : parent'[f].rec = parent[f].rec /\ ~parent'[f].tracked
      /\ \A c \in Children : child'[c].rec = child[c].rec
  BY DEF Restart, NoParent, NoChild
<1>2. ASSUME NEW f \in Occurrences
      PROVE  StageOf(f)' = CASE StageOf(f) = "running" -> "orphaned"
                             [] StageOf(f) = "deferred" -> "missed"
                             [] OTHER -> StageOf(f)
  <2>1. /\ StageOf(f) = "running" <=> parent[f].tracked
        /\ StageOf(f) = "deferred" <=> \E i \in DOMAIN queue : queue[i] = f
    BY StageFacts
  <2>2. parent[f].rec \in {"none", "running", "done", "error", "stopped"}
    BY DEF TypeOK, Parent, Status, Terminal
  <2>3. parent[f].tracked => parent[f].rec = "running"
    BY DEF BooksBalance, Books
  <2>4. ~ \E i \in DOMAIN queue' : queue'[i] = f
    BY <1>1
  <2>5. CASE parent[f].rec = "running"
    BY <1>1, <2>1, <2>5 DEF StageOf, Terminal
  <2>6. CASE parent[f].rec = "none"
    <3>1. ~parent[f].tracked
      BY <2>3, <2>6
    <3>2. CASE \E i \in DOMAIN queue : queue[i] = f
      <4>1. StageOf(f) = "deferred"
        BY <2>1, <3>2
      <4>2. StageOf(f)' = "missed"
        BY <1>1, <2>4, <2>6, <4>1 DEF StageOf, Terminal
      <4> QED BY <4>1, <4>2
    <3>3. CASE ~ \E i \in DOMAIN queue : queue[i] = f
      <4>1. StageOf(f)' = StageOf(f)
        BY <1>1, <2>4, <2>6, <3>3 DEF StageOf, Terminal
      <4> QED BY <2>1, <3>1, <3>3, <4>1
    <3> QED BY <3>2, <3>3
  <2>7. CASE parent[f].rec \in Terminal
    BY <1>1, <2>7 DEF StageOf, Terminal
  <2> QED BY <2>2, <2>5, <2>6, <2>7 DEF Terminal
<1>3. \A f \in Occurrences, i \in 1 .. Width : OutcomeOf(<<f, i>>)' = OutcomeOf(<<f, i>>)
  BY <1>1, Numbering DEF OutcomeOf
<1> QED BY <1>1, <1>2, <1>3 DEF Ledger!Forget, Ledger!NoFire, NoFire, Ledger!Occurrences, Ledger!Fires, Ledger!Manual,
        Occurrences, Fires, Manual

\* Every step is one of the ledger's or none.
LEMMA LedgerStep ==
    TypeOK /\ BooksBalance /\ [Next]_vars => [Ledger!Next]_(Ledger!vars)
<1> SUFFICES ASSUME TypeOK, BooksBalance, [Next]_vars
             PROVE  [Ledger!Next]_(Ledger!vars)
  OBVIOUS
<1> USE DEF runs
<1>1. CASE Fire
  BY <1>1, FireLedgerStep
<1>2. ASSUME NEW c \in Children, SpawnReturns(c) PROVE [Ledger!Next]_(Ledger!vars)
  <2> DEFINE ctx == [child[c] EXCEPT !.spawn = "answered", !.token = child[c].live]
  <2>1. ctx.rec = child[c].rec /\ ctx.live = child[c].live
    BY DEF TypeOK, Child
  <2>2. CASE ctx.stop
    BY <1>2, <2>1, <2>2, EndLedger DEF SpawnReturns, Terminal
  <2>3. CASE ~ctx.stop
    <3>1. \A d \in Children : child'[d].rec = child[d].rec
      BY <1>2, <2>1, <2>3 DEF SpawnReturns, TypeOK
    <3> QED BY <1>2, <2>3, <3>1, LedgerFrame DEF SpawnReturns
  <2> QED BY <2>2, <2>3
<1>3. ASSUME NEW c \in Children, SpawnFails(c) PROVE [Ledger!Next]_(Ledger!vars)
  <2> DEFINE ctx == [child[c] EXCEPT !.spawn = "answered"]
  <2>1. ctx.rec = child[c].rec /\ ctx.live = child[c].live
    BY DEF TypeOK, Child
  <2> QED BY <1>3, <2>1, EndLedger DEF SpawnFails, Terminal
<1>4. ASSUME NEW c \in Children, AgentEnds(c) PROVE [Ledger!Next]_(Ledger!vars)
  BY <1>4, EndLedger DEF AgentEnds, Terminal
<1>5. ASSUME NEW chosen \in SUBSET Children, StopChildren(chosen)
      PROVE  [Ledger!Next]_(Ledger!vars)
  <2>1. \A d \in Children : child'[d].rec = child[d].rec
    BY <1>5 DEF StopChildren, TypeOK, Child
  <2> QED BY <1>5, <2>1, LedgerFrame DEF StopChildren
<1>6. ASSUME NEW c \in Children, NEW p \in Processes, StopReturns(c, p)
      PROVE  [Ledger!Next]_(Ledger!vars)
  BY <1>6, EndLedger DEF StopReturns, Terminal
<1>7. ASSUME NEW c \in Children, Reap(c) PROVE [Ledger!Next]_(Ledger!vars)
  BY <1>7, ReapLedger
<1>8. ASSUME NEW p \in Processes, Register(p) \/ (p \in Children /\ Launch(p))
      PROVE  [Ledger!Next]_(Ledger!vars)
  <2>1. \A d \in Children : child'[d].rec = child[d].rec
    BY <1>8, Registered DEF Launch
  <2>2. UNCHANGED <<policy, fired, queue, active, parent>>
    BY <1>8 DEF Launch, Register
  <2> QED BY <2>1, <2>2, LedgerFrame
<1>9. ASSUME NEW p \in Processes, Dies(p) \/ Disconnects(p) PROVE [Ledger!Next]_(Ledger!vars)
  <2>1. CASE UNCHANGED runs
    BY <1>9, <2>1, LedgerFrame DEF Dies, Disconnects
  <2>2. ASSUME NEW c \in Served(p), NEW status \in {"done", "error"}, End(c, child[c], status)
        PROVE  [Ledger!Next]_(Ledger!vars)
    BY <1>9, <2>2, EndLedger DEF Dies, Disconnects, Served, Terminal
  <2> QED BY <1>9, <2>1, <2>2 DEF Dies, Disconnects
<1>10. CASE StampExpires
  BY <1>10, LedgerFrame DEF StampExpires
<1>11. CASE Restart
  BY <1>11, RestartLedger DEF Ledger!Next
<1>12. CASE UNCHANGED vars
  BY <1>12, LedgerFrame DEF vars
<1>13. ASSUME NEW m \in Manual, RunNow(m) PROVE [Ledger!Next]_(Ledger!vars)
  BY <1>13, AskLedger
<1> QED
  BY <1>1, <1>2, <1>3, <1>4, <1>5, <1>6, <1>7, <1>8, <1>9, <1>10, <1>11, <1>12, <1>13, Own
  DEF Next, ChildStep, Stop, StopAll

\* Sessions, processes, racing signals, the reaper and restarts together
\* implement the promise of FireLedger.
THEOREM ImplementsTheLedger == Spec => ImplementsLedger
<1>1. Init => Ledger!Init
  <2> SUFFICES ASSUME Init PROVE Ledger!Init
    OBVIOUS
  <2>1. \A f \in Occurrences : StageOf(f) = "absent"
    BY AutomationAssumption DEF Init, StageOf, NoParent, Terminal, Occurrences, Fires, Manual
  <2>2. \A f \in Occurrences, i \in 1 .. Width : OutcomeOf(<<f, i>>) = "open"
    BY Numbering DEF Init, OutcomeOf, NoChild, Terminal
  <2> QED BY <2>1, <2>2 DEF Init, Ledger!Init, Ledger!NoFire, NoFire, Ledger!Occurrences, Ledger!Fires, Ledger!Manual, Ledger!Places,
        Occurrences, Fires, Manual
<1> QED
  BY <1>1, TypeInit, TypeStep, BooksInit, BooksStep, LedgerStep, PTL
  DEF Spec, ImplementsLedger, Ledger!Spec

Promise == INSTANCE FireLedgerProofs
    WITH stage <- [f \in Occurrences |-> StageOf(f)],
         waiting <- queue,
         holder <- active,
         outcome <- [f \in Occurrences |-> [i \in 1 .. Width |-> OutcomeOf(<<f, i>>)]]

\* So what is proved of the ledger holds of the automation: fires do not
\* overlap unless the policy lets them (runner.ts, fire) or runs of the user have
\* ended, one more for each, a deferred one is not overtaken (completeRun takes
\* the oldest), who holds the slot is running, and what a run is told to have
\* come to is over all of its children (finalizeParent).
THEOREM FiresInOrder ==
    Spec => [](Promise!Overlap /\ Promise!InOrder /\ Promise!HolderRuns
                 /\ Promise!WaitsForOne /\ Promise!VerdictOverAll)
<1>1. /\ Ledger!Init => Promise!Init
      /\ [Ledger!Next]_(Ledger!vars) => [Promise!Next]_(Promise!vars)
  BY DEF Ledger!Init, Promise!Init, Ledger!Next, Promise!Next, Ledger!vars,
      Promise!vars, Ledger!Occurrences, Promise!Occurrences, Ledger!Fires,
      Promise!Fires, Ledger!Manual, Promise!Manual, Ledger!NoFire,
      Promise!NoFire, Ledger!Places, Promise!Places, Ledger!Verdicts,
      Promise!Verdicts, Ledger!Stages, Promise!Stages, Ledger!Verdict,
      Promise!Verdict, Ledger!Trigger, Promise!Trigger, Ledger!Enter,
      Promise!Enter, Ledger!Begin, Promise!Begin, Ledger!Defer,
      Promise!Defer, Ledger!Miss, Promise!Miss, Ledger!Ask, Promise!Ask,
      Ledger!Close, Promise!Close, Ledger!ChildEnds, Promise!ChildEnds,
      Ledger!RunEnds, Promise!RunEnds, Ledger!Forget, Promise!Forget,
      Ledger!OrphanEnds, Promise!OrphanEnds
<1>2. Ledger!Spec => Promise!Spec
  BY <1>1, PTL DEF Ledger!Spec, Promise!Spec
<1>3. MaxFires \in Nat /\ MaxManual \in Nat
  BY AutomationAssumption
<1>4. Promise!Spec => [](Promise!Overlap /\ Promise!InOrder /\ Promise!HolderRuns
                            /\ Promise!WaitsForOne /\ Promise!VerdictOverAll)
  BY <1>3, Promise!LedgerPromise
<1> QED BY <1>2, <1>4, ImplementsTheLedger, PTL DEF ImplementsLedger

\* The slot of the runner is that of a fire whose parent counts, and at most one
\* fire more than that one counts for each run of the user that has ended.
THEOREM SlotAlwaysHeld == Spec => []SlotHeld
<1>1. ASSUME TypeOK, BooksBalance, Promise!Overlap, Promise!HolderRuns, Promise!WaitsForOne
      PROVE  SlotHeld
  <2>0. /\ \A f \in Occurrences : StageOf(f) = "running" <=> parent[f].tracked
        /\ \A f \in Occurrences : StageOf(f) \in Terminal <=> parent[f].rec \in Terminal
    BY <1>1, StageFacts
  <2>1. active # NoFire => active \in Fires /\ parent[active].tracked
    BY <1>1, <2>0, Numbering
    DEF Promise!HolderRuns, Promise!Fires, Promise!NoFire, Fires, NoFire
  <2>2. queue # <<>> => active # NoFire
    <3> SUFFICES ASSUME queue # <<>> PROVE active # NoFire
      OBVIOUS
    <3>1. 1 \in DOMAIN queue /\ queue[1] \in Fires
      BY <1>1 DEF TypeOK
    <3>2. queue[1] \in Occurrences
      BY <3>1, Numbering
    <3>3. StageOf(queue[1]) = "deferred"
      BY <1>1, <3>1, <3>2, StageFacts
    <3> QED
      BY <1>1, <3>1, <3>2, <3>3
      DEF Promise!WaitsForOne, Promise!Fires, Promise!NoFire, Fires, NoFire
  <2>3. policy # "parallel" =>
          Cardinality({f \in Fires : parent[f].tracked})
             <= 1 + Cardinality({m \in Manual : parent[m].rec \in Terminal})
    <3> DEFINE stage == [f \in Occurrences |-> StageOf(f)]
    <3>1. {f \in Fires : stage[f] = "running"} = {f \in Fires : parent[f].tracked}
      BY <2>0, Numbering
    <3>2. {m \in Manual : stage[m] \in Terminal} = {m \in Manual : parent[m].rec \in Terminal}
      BY <2>0, Numbering
    <3>3. policy # "parallel" =>
            Cardinality({f \in Fires : stage[f] = "running"})
               <= 1 + Cardinality({m \in Manual : stage[m] \in Terminal})
      <4>1. Promise!Fires = Fires /\ Promise!Manual = Manual /\ Promise!Verdicts = Terminal
        BY DEF Promise!Fires, Promise!Manual, Promise!Verdicts, Fires, Manual, Terminal
      <4>2. /\ Promise!Cardinality({f \in Fires : stage[f] = "running"})
                  = Cardinality({f \in Fires : stage[f] = "running"})
            /\ Promise!Cardinality({m \in Manual : stage[m] \in Terminal})
                  = Cardinality({m \in Manual : stage[m] \in Terminal})
        BY DEF Promise!Cardinality, Cardinality
      <4> QED BY <1>1, <4>1, <4>2 DEF Promise!Overlap
    <3> HIDE DEF stage
    <3> QED BY <3>1, <3>2, <3>3
  <2> QED BY <2>1, <2>2, <2>3 DEF SlotHeld
<1> QED
  BY <1>1, FiresInOrder, TypeInit, TypeStep, BooksInit, BooksStep, PTL DEF Spec

\* "a lost terminal event can never wedge an automation's schedule": a fire that
\* waits waits for one that is counted, and a run that is counted has a child
\* whose record says running, which the reaper will end.  FireEnds adds to this
\* only that its timer comes round.
NeverWedged ==
    /\ queue # <<>> => active \in Fires /\ parent[active].tracked
    /\ \A g \in Occurrences : parent[g].tracked =>
          \E i \in 1 .. Width : child[<<g, i>>].rec = "running"

\* The first part is read off the ledger, the second off the books, for any
\* policy and any number of fires, runs of the user, children and restarts.
THEOREM ScheduleNeverWedged == Spec => []NeverWedged
<1>1. ASSUME TypeOK, BooksBalance, NEW g \in Occurrences, parent[g].tracked
      PROVE  \E i \in 1 .. Width : child[<<g, i>>].rec = "running"
  <2>1. Books(g)
    BY <1>1 DEF BooksBalance
  <2>2. LiveSlots(g) # {}
    <3>1. Cardinality({}) = 0
      BY FS_EmptySet
    <3>2. Cardinality(LiveSlots(g)) > 0
      BY <1>1, <2>1 DEF Books
    <3> HIDE DEF LiveSlots
    <3> QED BY <3>1, <3>2
  <2> QED BY <2>1, <2>2 DEF Books, LiveSlots
<1>2. TypeOK /\ BooksBalance /\ SlotHeld => NeverWedged
  BY <1>1 DEF NeverWedged, SlotHeld
<1> QED
  BY <1>2, SlotAlwaysHeld, TypeInit, TypeStep, BooksInit, BooksStep, PTL DEF Spec
=============================================================================
