-------------------------- MODULE FireLedgerProofs --------------------------
(***************************************************************************)
(* What the promise of FireLedger comes to, for any number of fires, runs  *)
(* of the user and children: fires overlap by no more than the runs of the *)
(* user that have ended, none overtakes one that waits, a verdict is over  *)
(* all children, and verdicts are final.  With AutomationRunsProofs!       *)
(* ImplementsTheLedger this holds of AutomationRuns.                       *)
(***************************************************************************)
EXTENDS FireLedger, FiniteSetTheorems, TLAPS

\* The slot, the queue and the numbers of the fires hang together: a fire
\* waits only while the policy is "queue" and another one holds the slot, the
\* queue is in the order of the trigger, and what has not been triggered is
\* behind all the rest.
Line ==
    /\ \A f, g \in Fires : stage[f] = "absent" /\ f <= g => stage[g] = "absent"
    /\ \A f \in Fires : stage[f] = "deferred" <=> \E i \in DOMAIN waiting : waiting[i] = f
    /\ \A i, j \in DOMAIN waiting : i < j => waiting[i] < waiting[j]
    /\ waiting # <<>> => policy = "queue" /\ holder # NoFire
    /\ holder # NoFire => stage[holder] = "running"

\* The overlap is paid for by the slot and by each run of the user that ended.
Busy == {f \in Fires : stage[f] = "running"}
Past == {m \in Manual : stage[m] \in Verdicts}
Share == IF holder = NoFire THEN 0 ELSE 1
Paid == policy # "parallel" => Cardinality(Busy) <= Share + Cardinality(Past)

LedgerInv == TypeOK /\ Line /\ Paid /\ InOrder /\ VerdictOverAll

\* The numbers of the runs.
LEMMA Numbers ==
    ASSUME MaxFires \in Nat, MaxManual \in Nat
    PROVE  /\ Fires \subseteq Nat /\ Fires \subseteq Occurrences /\ NoFire \notin Fires
           /\ Manual \subseteq Occurrences /\ Fires \cap Manual = {}
           /\ IsFiniteSet(Fires) /\ IsFiniteSet(Manual)
<1>1. IsFiniteSet(Fires) /\ IsFiniteSet(Manual)
  BY FS_Interval DEF Fires, Manual
<1> QED BY <1>1 DEF Fires, Manual, Occurrences, NoFire

\* What the proofs count is finite.
LEMMA Counts ==
    ASSUME MaxFires \in Nat, MaxManual \in Nat
    PROVE  /\ IsFiniteSet(Busy) /\ IsFiniteSet(Past)
           /\ Cardinality(Busy) \in Nat /\ Cardinality(Past) \in Nat
<1>1. IsFiniteSet(Busy) /\ IsFiniteSet(Past)
  BY Numbers, FS_Subset DEF Busy, Past
<1> QED BY <1>1, FS_CardinalityType

\* Whatever the outcomes, a verdict is one of the three.
LEMMA VerdictType == \A outcomes : Verdict(outcomes) \in Verdicts
  BY DEF Verdict, Verdicts

\* The initial states are empty.
LEMMA LedgerInit == ASSUME MaxFires \in Nat, MaxManual \in Nat PROVE Init => LedgerInv
<1> SUFFICES ASSUME Init PROVE LedgerInv
  OBVIOUS
<1>1. TypeOK
  BY DEF Init, TypeOK, Stages
<1>2. Line /\ InOrder /\ VerdictOverAll
  BY Numbers DEF Init, Line, InOrder, VerdictOverAll, Verdicts
<1>3. Paid
  <2>1. Busy = {}
    BY Numbers DEF Init, Busy
  <2>2. Cardinality(Busy) = 0 /\ Share = 0 /\ Cardinality(Past) \in Nat
    BY <2>1, FS_EmptySet, Counts DEF Init, Share
  <2> QED BY <2>2 DEF Paid
<1> QED BY <1>1, <1>2, <1>3 DEF LedgerInv

\* A trigger puts its fire at the end of the line, or into a free slot.
LEMMA TriggerKeeps ==
    ASSUME MaxFires \in Nat, MaxManual \in Nat, LedgerInv, NEW f \in Fires,
           Begin(f) \/ Defer(f) \/ Miss(f)
    PROVE  LedgerInv'
<1>1. /\ policy' = policy /\ outcome' = outcome
      /\ stage \in [Occurrences -> Stages] /\ waiting \in Seq(Fires)
      /\ holder \in Fires \cup {NoFire}
      /\ Fires \subseteq Nat /\ Fires \subseteq Occurrences /\ NoFire \notin Fires
      /\ f \in Occurrences
  BY Numbers DEF Begin, Defer, Miss, LedgerInv, TypeOK
<1>2. \A g \in Fires : stage[g] = "absent" <=> g >= f
  BY DEF Begin, Defer, Miss, Trigger
<1>3. PICK s \in {"running", "deferred", "missed"} : stage' = [stage EXCEPT ![f] = s]
  BY DEF Begin, Defer, Miss, Enter
<1>4. /\ stage'[f] = s
      /\ \A g \in Occurrences \ {f} : stage'[g] = stage[g]
      /\ stage[f] = "absent"
  BY <1>1, <1>2, <1>3
<1>5. /\ s = "running" => /\ holder = NoFire \/ policy = "parallel"
                          /\ holder' = f /\ waiting' = waiting
      /\ s = "deferred" => /\ holder # NoFire /\ holder' = holder
                           /\ policy = "queue" /\ waiting' = Append(waiting, f)
      /\ s = "missed" => policy = "skip" /\ holder' = holder /\ waiting' = waiting
  BY <1>1, <1>3, <1>4 DEF Begin, Defer, Miss, Enter
<1>6. s # "deferred" => waiting = <<>> /\ \A g \in Fires : stage[g] # "deferred"
  <2>1. s # "deferred" => waiting = <<>>
    BY <1>5 DEF LedgerInv, Line
  <2> QED BY <2>1 DEF LedgerInv, Line
<1>7. TypeOK'
  <2>1. stage' \in [Occurrences -> Stages]
    BY <1>1, <1>3 DEF Stages
  <2>2. waiting' \in Seq(Fires) /\ holder' \in Fires \cup {NoFire}
    BY <1>1, <1>5
  <2> QED BY <1>1, <2>1, <2>2 DEF LedgerInv, TypeOK
<1>8. /\ holder # NoFire => holder' # NoFire
      /\ holder' # NoFire => stage'[holder'] = "running"
  <2>1. holder # NoFire => stage[holder] = "running" /\ holder # f /\ holder \in Occurrences
    BY <1>1, <1>4 DEF LedgerInv, Line
  <2> QED BY <1>1, <1>4, <1>5, <2>1
<1>9. Line'
  <2>1. \A g, h \in Fires : stage'[g] = "absent" /\ g <= h => stage'[h] = "absent"
    BY <1>1, <1>2, <1>4
  <2>2. CASE s = "deferred"
    <3>1. /\ DOMAIN waiting' = DOMAIN waiting \cup {Len(waiting) + 1}
          /\ \A i \in DOMAIN waiting : waiting'[i] = waiting[i] /\ i <= Len(waiting)
          /\ waiting'[Len(waiting) + 1] = f
          /\ DOMAIN waiting \subseteq Nat /\ Len(waiting) \in Nat
      BY <1>1, <1>5, <2>2
    <3>2. \A i \in DOMAIN waiting : waiting[i] \in Fires /\ waiting[i] < f
      <4> SUFFICES ASSUME NEW i \in DOMAIN waiting PROVE waiting[i] \in Fires /\ waiting[i] < f
        OBVIOUS
      <4>1. waiting[i] \in Fires
        BY <1>1
      <4>2. stage[waiting[i]] = "deferred"
        BY <4>1 DEF LedgerInv, Line
      <4>3. ~ (waiting[i] >= f)
        BY <1>2, <4>1, <4>2
      <4>4. waiting[i] \in Nat /\ f \in Nat
        BY <1>1, <4>1
      <4> QED BY <4>1, <4>3, <4>4
    <3>3. \A i, j \in DOMAIN waiting' : i < j => waiting'[i] < waiting'[j]
      BY <3>1, <3>2 DEF LedgerInv, Line
    <3>4. \A g \in Fires : stage'[g] = "deferred" <=> \E i \in DOMAIN waiting' : waiting'[i] = g
      BY <1>1, <1>4, <2>2, <3>1, <3>2 DEF LedgerInv, Line
    <3>5. policy' = "queue" /\ holder' # NoFire
      BY <1>1, <1>5, <1>8, <2>2
    <3> QED BY <1>8, <2>1, <3>3, <3>4, <3>5 DEF Line
  <2>3. CASE s # "deferred"
    <3>1. waiting' = <<>> /\ \A g \in Fires : stage'[g] # "deferred"
      BY <1>1, <1>4, <1>5, <1>6, <2>3
    <3> QED BY <1>8, <2>1, <3>1 DEF Line
  <2> QED BY <2>2, <2>3
<1>10. Paid'
  <2>1. Past' = Past
    BY <1>1, <1>4, Numbers DEF Past
  <2>2. CASE s = "running"
    <3> SUFFICES ASSUME policy # "parallel" PROVE Cardinality(Busy') <= Share' + Cardinality(Past')
      BY <1>1 DEF Paid
    <3>1. Share = 0 /\ Share' = 1
      BY <1>1, <1>5, <2>2 DEF Share
    <3>2. Busy' = Busy \cup {f} /\ f \notin Busy
      BY <1>1, <1>4, <2>2 DEF Busy
    <3>3. Cardinality(Busy') = Cardinality(Busy) + 1
      BY <3>2, Counts, FS_AddElement
    <3>4. Cardinality(Busy) <= Share + Cardinality(Past)
      BY DEF LedgerInv, Paid
    <3> QED BY <2>1, <3>1, <3>3, <3>4, Counts
  <2>3. CASE s # "running"
    <3>1. Busy' = Busy
      BY <1>1, <1>4, <2>3 DEF Busy
    <3>2. Share' = Share
      BY <1>5, <2>3 DEF Share
    <3> QED BY <1>1, <2>1, <3>1, <3>2 DEF LedgerInv, Paid
  <2> QED BY <2>2, <2>3
<1>11. InOrder'
  <2>1. \A g, h \in Fires : g < h /\ stage'[g] = "deferred" => stage'[h] \in {"absent", "deferred"}
    <3> SUFFICES ASSUME NEW g \in Fires, NEW h \in Fires, g < h, stage'[g] = "deferred"
                 PROVE  stage'[h] \in {"absent", "deferred"}
      OBVIOUS
    <3>1. s = "deferred"
      BY <1>1, <1>4, <1>6
    <3>2. CASE g = f
      BY <1>1, <1>2, <1>4, <3>2
    <3>3. CASE g # f
      BY <1>1, <1>4, <3>1, <3>3 DEF LedgerInv, InOrder
    <3> QED BY <3>2, <3>3
  <2> QED BY <2>1 DEF InOrder
<1>12. VerdictOverAll'
  <2>1. s \notin Verdicts
    BY DEF Verdicts
  <2>2. ASSUME NEW g \in Occurrences, stage'[g] \in Verdicts
        PROVE  stage'[g] = stage[g]
    BY <1>1, <1>4, <2>1, <2>2
  <2>3. outcome' = outcome /\ VerdictOverAll
    BY <1>1 DEF LedgerInv
  <2> QED BY <2>2, <2>3 DEF VerdictOverAll
<1> QED BY <1>7, <1>9, <1>10, <1>11, <1>12 DEF LedgerInv

\* The user's runs take no slot.
LEMMA AskKeeps ==
    ASSUME MaxFires \in Nat, MaxManual \in Nat, LedgerInv, NEW m \in Manual, Ask(m)
    PROVE  LedgerInv'
<1>1. /\ UNCHANGED <<policy, waiting, holder, outcome>>
      /\ m \in Occurrences /\ m \notin Fires /\ Fires \subseteq Occurrences
      /\ stage \in [Occurrences -> Stages] /\ stage[m] = "absent"
      /\ stage' = [stage EXCEPT ![m] = "running"]
      /\ holder \in Fires \cup {NoFire}
  BY Numbers DEF Ask, Enter, LedgerInv, TypeOK
<1>2. stage' \in [Occurrences -> Stages] /\ stage'[m] = "running"
  BY <1>1 DEF Stages
<1>3. TypeOK'
  BY <1>1, <1>2 DEF LedgerInv, TypeOK
<1>4. \A f \in Occurrences \ {m} : stage'[f] = stage[f]
  BY <1>1
<1>5. \A f \in Fires : stage'[f] = stage[f]
  BY <1>1, <1>4
<1>6. Line' /\ InOrder'
  BY <1>1, <1>5 DEF LedgerInv, Line, InOrder
<1>7. Paid'
  <2>1. Busy' = Busy
    BY <1>5 DEF Busy
  <2>2. Past' = Past
    BY <1>1, <1>2, <1>4, Numbers DEF Past, Verdicts
  <2> QED BY <1>1, <2>1, <2>2 DEF LedgerInv, Paid, Share
<1>8. VerdictOverAll'
  BY <1>1, <1>2, <1>4 DEF LedgerInv, VerdictOverAll, Verdicts
<1> QED BY <1>3, <1>6, <1>7, <1>8 DEF LedgerInv

\* A child that ends before others, or is cleared away, moves no run.
LEMMA CloseKeeps ==
    ASSUME LedgerInv, NEW f \in Occurrences, NEW i \in Places, NEW status,
           Close(f, i, status), stage[f] \notin Verdicts, UNCHANGED <<stage, waiting, holder>>
    PROVE  LedgerInv'
<1>1. /\ policy' = policy /\ status \in Verdicts
      /\ outcome' = [outcome EXCEPT ![f][i] = status]
  BY DEF Close
<1>2. TypeOK'
  BY <1>1 DEF LedgerInv, TypeOK
<1>3. Line' /\ Paid' /\ InOrder'
  BY <1>1 DEF LedgerInv, Line, Paid, Busy, Past, Share, InOrder
<1>4. VerdictOverAll'
  <2>1. \A g \in Occurrences \ {f} : outcome'[g] = outcome[g]
    BY <1>1 DEF LedgerInv, TypeOK
  <2> QED BY <2>1 DEF LedgerInv, VerdictOverAll
<1> QED BY <1>2, <1>3, <1>4 DEF LedgerInv

\* The run that ends hands the slot to the first in line.
LEMMA HandOver ==
    ASSUME MaxFires \in Nat, MaxManual \in Nat, LedgerInv, NEW f \in Occurrences,
           NEW i \in Places, NEW status, RunEnds(f, i, status)
    PROVE  LedgerInv'
<1> DEFINE verdict == Verdict({outcome'[f][j] : j \in Places})
           first == {g \in Fires : waiting # <<>> /\ g = Head(waiting)}
<1>1. /\ policy' = policy /\ status \in Verdicts
      /\ outcome' = [outcome EXCEPT ![f][i] = status]
      /\ stage \in [Occurrences -> Stages] /\ waiting \in Seq(Fires)
      /\ Fires \subseteq Nat /\ Fires \subseteq Occurrences /\ NoFire \notin Fires
      /\ stage[f] = "running"
      /\ \A j \in Places \ {i} : outcome[f][j] # "open"
  BY Numbers DEF RunEnds, Close, LedgerInv, TypeOK
<1>2. verdict \in Verdicts
  BY VerdictType
<1> HIDE DEF verdict
<1>3. /\ waiting # <<>> => /\ Head(waiting) \in Fires /\ Tail(waiting) \in Seq(Fires)
                           /\ 1 \in DOMAIN waiting /\ Head(waiting) = waiting[1]
      /\ waiting' = IF waiting = <<>> THEN <<>> ELSE Tail(waiting)
      /\ holder' = IF waiting = <<>> THEN NoFire ELSE Head(waiting)
  BY <1>1 DEF RunEnds
<1>4. \A g \in first : stage[g] = "deferred" /\ g # f /\ g \in Fires
  BY <1>1, <1>3 DEF LedgerInv, Line
<1>5. \A g \in Occurrences : stage'[g] = IF g \in first THEN "running"
                                   ELSE IF g = f THEN verdict ELSE stage[g]
  <2>1. CASE waiting = <<>>
    BY <1>1, <2>1 DEF RunEnds, verdict
  <2>2. CASE waiting # <<>>
    <3>1. stage' = [[stage EXCEPT ![f] = verdict] EXCEPT ![Head(waiting)] = "running"]
      BY <2>2 DEF RunEnds, verdict
    <3> QED BY <1>1, <1>3, <2>2, <3>1
  <2> QED BY <2>1, <2>2
<1>6. stage' \in [Occurrences -> Stages] /\ waiting' \in Seq(Fires)
  <2>1. [stage EXCEPT ![f] = verdict] \in [Occurrences -> Stages]
    BY <1>1, <1>2 DEF Stages
  <2>2. CASE waiting = <<>>
    BY <1>3, <2>1, <2>2 DEF RunEnds, verdict
  <2>3. CASE waiting # <<>>
    <3>1. stage' = [[stage EXCEPT ![f] = verdict] EXCEPT ![Head(waiting)] = "running"]
      BY <2>3 DEF RunEnds, verdict
    <3> QED BY <1>1, <1>3, <2>1, <2>3, <3>1 DEF Stages
  <2> QED BY <2>2, <2>3
<1>7. TypeOK'
  <2>1. holder' \in Fires \cup {NoFire}
    BY <1>3
  <2> QED BY <1>1, <1>6, <2>1 DEF LedgerInv, TypeOK
\* Who still waits is behind the first in line.
<1>8. \A g \in Fires : stage'[g] = "deferred" <=> stage[g] = "deferred" /\ g \notin first
  BY <1>1, <1>2, <1>5 DEF Verdicts
<1>9. /\ \A j \in DOMAIN waiting' : /\ j \in Nat /\ j + 1 \in DOMAIN waiting
                                    /\ waiting'[j] = waiting[j + 1] /\ waiting # <<>> /\ 1 < j + 1
      /\ \A j \in DOMAIN waiting : j # 1 => j - 1 \in DOMAIN waiting' /\ waiting'[j - 1] = waiting[j]
  <2>1. CASE waiting = <<>>
    BY <1>3, <2>1
  <2>2. CASE waiting # <<>>
    <3>1. waiting' = Tail(waiting) /\ waiting \in Seq(Fires)
      BY <1>1, <1>3, <2>2
    <3> QED BY <2>2, <3>1
  <2> QED BY <2>1, <2>2
<1> HIDE DEF first
<1>10. Line'
  <2>1. \A g, h \in Fires : stage'[g] = "absent" /\ g <= h => stage'[h] = "absent"
    <3>1. \A g \in Fires : stage'[g] = "absent" <=> stage[g] = "absent"
      BY <1>1, <1>2, <1>4, <1>5 DEF Verdicts
    <3> QED BY <3>1 DEF LedgerInv, Line
  <2>2. \A j, k \in DOMAIN waiting' : j < k => waiting'[j] < waiting'[k]
    <3> SUFFICES ASSUME NEW j \in DOMAIN waiting', NEW k \in DOMAIN waiting', j < k
                 PROVE  waiting'[j] < waiting'[k]
      OBVIOUS
    <3>1. j + 1 \in DOMAIN waiting /\ k + 1 \in DOMAIN waiting /\ j + 1 < k + 1
      BY <1>9
    <3> QED BY <1>9, <3>1 DEF LedgerInv, Line
  <2>3. ASSUME NEW g \in Fires
        PROVE  stage'[g] = "deferred" <=> \E j \in DOMAIN waiting' : waiting'[j] = g
    <3>1. ASSUME stage[g] = "deferred", g \notin first
          PROVE  \E j \in DOMAIN waiting' : waiting'[j] = g
      <4>1. PICK j \in DOMAIN waiting : waiting[j] = g
        BY <3>1 DEF LedgerInv, Line
      <4>2. j # 1
        BY <1>3, <3>1, <4>1 DEF first
      <4> QED BY <1>9, <4>1, <4>2
    <3>2. ASSUME NEW j \in DOMAIN waiting', waiting'[j] = g
          PROVE  stage[g] = "deferred" /\ g \notin first
      <4>1. /\ j + 1 \in DOMAIN waiting /\ waiting[j + 1] = g /\ 1 < j + 1
            /\ 1 \in DOMAIN waiting /\ Head(waiting) = waiting[1]
        BY <1>3, <1>9, <3>2
      <4>2. stage[g] = "deferred"
        BY <4>1 DEF LedgerInv, Line
      <4>3. waiting[1] < g
        BY <4>1 DEF LedgerInv, Line
      <4>4. g # Head(waiting)
        BY <1>1, <4>1, <4>3
      <4> QED BY <4>2, <4>4 DEF first
    <3> QED BY <1>8, <3>1, <3>2
  <2>4. /\ waiting' # <<>> => policy' = "queue" /\ holder' # NoFire
        /\ holder' # NoFire => stage'[holder'] = "running"
    <3>1. waiting' # <<>> => waiting # <<>>
      BY <1>3
    <3>2. waiting # <<>> => stage'[Head(waiting)] = "running" /\ Head(waiting) # NoFire
      BY <1>1, <1>3, <1>5 DEF first
    <3> QED BY <1>1, <1>3, <3>1, <3>2 DEF LedgerInv, Line
  <2> QED BY <2>1, <2>2, <2>3, <2>4 DEF Line
<1>11. Paid'
  <2> SUFFICES ASSUME policy # "parallel"
               PROVE  Cardinality(Busy') <= Share' + Cardinality(Past')
    BY <1>1 DEF Paid
  <2> DEFINE left == Busy \ {f}
  <2>1. Cardinality(Busy) <= Share + Cardinality(Past)
    BY DEF LedgerInv, Paid
  <2>2. /\ IsFiniteSet(left) /\ Cardinality(left) \in Nat
        /\ Cardinality(left) = IF f \in Fires THEN Cardinality(Busy) - 1 ELSE Cardinality(Busy)
    <3>1. f \in Fires <=> f \in Busy
      BY <1>1 DEF Busy
    <3>2. IsFiniteSet(left)
      BY Counts, FS_Subset
    <3>3. Cardinality(left) = IF f \in Busy THEN Cardinality(Busy) - 1 ELSE Cardinality(Busy)
      BY Counts, FS_RemoveElement
    <3> QED BY <3>1, <3>2, <3>3, FS_CardinalityType
  <2>3. /\ Cardinality(Past') \in Nat
        /\ Cardinality(Past') = IF f \in Fires THEN Cardinality(Past) ELSE Cardinality(Past) + 1
    <3>1. \A m \in Manual : m \in Occurrences /\ m \notin first
      BY <1>4, Numbers
    <3>2. CASE f \in Fires
      <4>1. \A m \in Manual : stage'[m] = stage[m]
        BY <1>5, <3>1, <3>2, Numbers
      <4>2. Past' = Past
        BY <4>1 DEF Past
      <4> QED BY <3>2, <4>2, Counts
    <3>3. CASE f \notin Fires
      <4>1. f \in Manual
        BY <3>3 DEF Occurrences
      <4>2. \A m \in Manual : stage'[m] = IF m = f THEN verdict ELSE stage[m]
        BY <1>5, <3>1
      <4>3. Past' = Past \cup {f} /\ f \notin Past
        BY <1>1, <1>2, <4>1, <4>2 DEF Past, Verdicts
      <4>4. Cardinality(Past \cup {f}) = Cardinality(Past) + 1
        BY <4>3, Counts, FS_AddElement
      <4> QED BY <3>3, <4>3, <4>4, Counts
    <3> QED BY <3>2, <3>3
  <2>4. CASE waiting = <<>>
    <3>1. Busy' = left
      <4>1. \A g \in Fires : stage'[g] = IF g = f THEN verdict ELSE stage[g]
        BY <1>1, <1>5, <2>4 DEF first
      <4> QED BY <1>2, <4>1 DEF Busy, Verdicts
    <3>2. Share' = 0 /\ Share \in {0, 1}
      BY <1>3, <2>4 DEF Share
    <3> QED BY <2>1, <2>2, <2>3, <3>1, <3>2, Counts
  <2>5. CASE waiting # <<>>
    <3>1. Busy' = left \cup {Head(waiting)}
      <4>1. \A g \in Fires : stage'[g] = IF g = Head(waiting) THEN "running"
                                         ELSE IF g = f THEN verdict ELSE stage[g]
        BY <1>1, <1>5, <2>5 DEF first
      <4> QED BY <1>2, <1>3, <2>5, <4>1 DEF Busy, Verdicts
    <3>2. Cardinality(Busy') <= Cardinality(left) + 1 /\ Cardinality(Busy') \in Nat
      <4>1. Cardinality(Busy') = IF Head(waiting) \in left THEN Cardinality(left)
                                 ELSE Cardinality(left) + 1
        BY <2>2, <3>1, FS_AddElement
      <4> QED BY <2>2, <4>1
    <3>3. Share' = 1 /\ Share = 1
      BY <1>1, <1>3, <2>5 DEF Share, LedgerInv, Line
    <3> QED BY <2>1, <2>2, <2>3, <3>2, <3>3, Counts
  <2> QED BY <2>4, <2>5
<1>12. InOrder'
  <2> SUFFICES ASSUME NEW g \in Fires, NEW h \in Fires, g < h, stage'[g] = "deferred"
               PROVE  stage'[h] \in {"absent", "deferred"}
    BY DEF InOrder
  <2>1. stage[g] = "deferred" /\ g \notin first
    BY <1>8
  <2>2. stage[h] \in {"absent", "deferred"}
    BY <2>1 DEF LedgerInv, InOrder
  <2>3. h \notin first
    <3> SUFFICES ASSUME h \in first PROVE FALSE
      OBVIOUS
    <3>1. waiting # <<>> /\ h = waiting[1] /\ 1 \in DOMAIN waiting
      BY <1>3 DEF first
    <3>2. PICK j \in DOMAIN waiting : waiting[j] = g
      BY <2>1 DEF LedgerInv, Line
    <3>3. j # 1 /\ j \in Nat \ {0}
      BY <1>1, <3>1, <3>2
    <3>4. waiting[1] < waiting[j]
      BY <3>1, <3>3 DEF LedgerInv, Line
    <3> QED BY <1>1, <3>1, <3>2, <3>4
  <2> QED BY <1>1, <1>5, <2>2, <2>3
<1>13. VerdictOverAll'
  <2>1. \A g \in Occurrences \ {f} : outcome'[g] = outcome[g]
    BY <1>1 DEF LedgerInv, TypeOK
  <2>2. \A j \in Places : outcome'[f][j] # "open"
    BY <1>1 DEF LedgerInv, TypeOK, Verdicts
  <2>3. stage'[f] = verdict
    BY <1>4, <1>5
  <2>4. \A g \in first : stage'[g] \notin Verdicts
    BY <1>1, <1>5 DEF Verdicts, first
  <2>5. \A g \in Occurrences \ {f} : stage'[g] \in Verdicts => stage'[g] = stage[g]
    BY <1>5, <2>4
  <2>6. ASSUME NEW g \in Occurrences, stage'[g] \in Verdicts
        PROVE  /\ \A j \in Places : outcome'[g][j] # "open"
               /\ stage'[g] = Verdict({outcome'[g][j] : j \in Places})
    <3>1. CASE g = f
      BY <2>2, <2>3, <3>1 DEF verdict
    <3>2. CASE g # f
      <4>1. stage'[g] = stage[g] /\ outcome'[g] = outcome[g]
        BY <2>1, <2>5, <2>6, <3>2
      <4> QED BY <2>6, <4>1 DEF LedgerInv, VerdictOverAll
    <3> QED BY <3>1, <3>2
  <2> QED BY <2>6 DEF VerdictOverAll
<1> QED BY <1>7, <1>10, <1>11, <1>12, <1>13 DEF LedgerInv

\* A restart leaves nobody in line.
LEMMA ForgetKeeps ==
    ASSUME MaxFires \in Nat, MaxManual \in Nat, LedgerInv, Forget
    PROVE  LedgerInv'
<1>1. /\ policy' = policy /\ outcome' = outcome /\ waiting' = <<>> /\ holder' = NoFire
      /\ stage \in [Occurrences -> Stages]
  BY DEF Forget, LedgerInv, TypeOK
<1>2. \A f \in Occurrences :
         /\ stage'[f] \in Stages \ {"running", "deferred"}
         /\ stage'[f] \in Verdicts \cup {"absent"} => stage'[f] = stage[f]
         /\ stage[f] \in Verdicts \cup {"absent"} => stage'[f] = stage[f]
  BY <1>1 DEF Forget, Stages, Verdicts
<1>3. stage' \in [Occurrences -> Stages]
  BY <1>1, <1>2 DEF Forget
<1>4. TypeOK'
  BY <1>1, <1>3 DEF LedgerInv, TypeOK
<1>5. Line' /\ InOrder'
  BY <1>1, <1>2, Numbers DEF LedgerInv, Line, InOrder
<1>7. Paid'
  <2>1. Busy' = {}
    BY <1>2, Numbers DEF Busy
  <2>2. Past' = Past
    BY <1>2, Numbers DEF Past
  <2>3. Share' = 0 /\ Cardinality(Busy') = 0
    BY <1>1, <2>1, FS_EmptySet DEF Share
  <2> QED BY <2>2, <2>3, Counts DEF Paid
<1>6. VerdictOverAll'
  BY <1>1, <1>2 DEF LedgerInv, VerdictOverAll
<1> QED BY <1>4, <1>5, <1>6, <1>7 DEF LedgerInv

\* Every step of the ledger keeps its invariant.
LEMMA LedgerInvStep ==
    ASSUME MaxFires \in Nat, MaxManual \in Nat PROVE LedgerInv /\ [Next]_vars => LedgerInv'
<1> SUFFICES ASSUME LedgerInv, [Next]_vars PROVE LedgerInv'
  OBVIOUS
<1>1. ASSUME NEW f \in Fires, Begin(f) \/ Defer(f) \/ Miss(f) PROVE LedgerInv'
  BY <1>1, TriggerKeeps
<1>2. ASSUME NEW f \in Occurrences, NEW i \in Places, OrphanEnds(f, i) PROVE LedgerInv'
  BY <1>2, CloseKeeps DEF OrphanEnds, Verdicts
<1>3. ASSUME NEW f \in Occurrences, NEW i \in Places, NEW status, ChildEnds(f, i, status)
      PROVE  LedgerInv'
  BY <1>3, CloseKeeps DEF ChildEnds, Verdicts
<1>4. ASSUME NEW f \in Occurrences, NEW i \in Places, NEW status, RunEnds(f, i, status)
      PROVE  LedgerInv'
  BY <1>4, HandOver
<1>5. CASE Forget
  BY <1>5, ForgetKeeps
<1>6. ASSUME NEW m \in Manual, Ask(m) PROVE LedgerInv'
  BY <1>6, AskKeeps
<1>7. CASE UNCHANGED vars
  <2>1. UNCHANGED <<policy, stage, waiting, holder, outcome>>
    BY <1>7 DEF vars
  <2>2. TypeOK' /\ Line' /\ Paid' /\ InOrder'
    BY <2>1 DEF LedgerInv, TypeOK, Line, Paid, Busy, Past, Share, InOrder
  <2>3. VerdictOverAll'
    BY <2>1 DEF LedgerInv, VerdictOverAll
  <2> QED BY <2>2, <2>3 DEF LedgerInv
<1> QED BY <1>1, <1>2, <1>3, <1>4, <1>5, <1>6, <1>7 DEF Next

\* The promise of the ledger: the fires under way are at most one, and one for
\* each run of the user that has ended, unless they may overlap; none overtakes
\* one that waits, one waits only while another holds the slot, the holder is
\* running, and a verdict is over the outcomes of all children.
THEOREM LedgerPromise ==
    ASSUME MaxFires \in Nat, MaxManual \in Nat
    PROVE  Spec => [](Overlap /\ InOrder /\ HolderRuns /\ WaitsForOne /\ VerdictOverAll)
<1>1. LedgerInv => InOrder /\ VerdictOverAll
  BY DEF LedgerInv
<1>2. LedgerInv => HolderRuns /\ WaitsForOne
  BY DEF LedgerInv, TypeOK, Line, HolderRuns, WaitsForOne
<1>3. LedgerInv => Overlap
  <2> SUFFICES ASSUME LedgerInv, policy # "parallel"
               PROVE  Cardinality(Busy) <= 1 + Cardinality(Past)
    BY DEF Overlap, Busy, Past
  <2>1. Cardinality(Busy) <= Share + Cardinality(Past) /\ Share \in {0, 1}
    BY DEF LedgerInv, Paid, Share
  <2> QED BY <2>1, Counts
<1> QED BY <1>1, <1>2, <1>3, LedgerInit, LedgerInvStep, PTL DEF Spec

\* No step of the ledger takes a verdict or an outcome back.
THEOREM LedgerFinal ==
    ASSUME MaxFires \in Nat, MaxManual \in Nat PROVE Spec => Final
<1> DEFINE Same ==
      \A f \in Occurrences :
         /\ stage[f] \in Verdicts => stage'[f] = stage[f]
         /\ \A i \in Places : outcome[f][i] # "open" => outcome'[f][i] = outcome[f][i]
<1>1. ASSUME LedgerInv, [Next]_vars PROVE [Same]_vars
  <2>1. /\ stage \in [Occurrences -> Stages]
        /\ outcome \in [Occurrences -> [Places -> Verdicts \cup {"open"}]]
        /\ waiting \in Seq(Fires) /\ Fires \subseteq Occurrences
    BY <1>1, Numbers DEF LedgerInv, TypeOK
  <2>2. ASSUME NEW f \in Fires, Begin(f) \/ Defer(f) \/ Miss(f) PROVE Same
    <3>1. stage[f] = "absent" /\ outcome' = outcome
      <4>1. stage[f] = "absent" <=> f >= f
        BY <2>2 DEF Begin, Defer, Miss, Trigger
      <4> QED BY <2>2, <4>1 DEF Begin, Defer, Miss, Fires
    <3>2. \A g \in Occurrences \ {f} : stage'[g] = stage[g]
      BY <2>1, <2>2 DEF Begin, Defer, Miss, Enter
    <3> QED BY <3>1, <3>2 DEF Verdicts
  <2>3. ASSUME NEW f \in Occurrences, NEW i \in Places, NEW status, Close(f, i, status)
        PROVE  \A g \in Occurrences : \A j \in Places :
                  outcome[g][j] # "open" => outcome'[g][j] = outcome[g][j]
    BY <2>1, <2>3 DEF Close
  <2>4. ASSUME NEW f \in Occurrences, NEW i \in Places, OrphanEnds(f, i) PROVE Same
    BY <2>3, <2>4 DEF OrphanEnds
  <2>5. ASSUME NEW f \in Occurrences, NEW i \in Places, NEW status, ChildEnds(f, i, status)
        PROVE  Same
    BY <2>3, <2>5 DEF ChildEnds
  <2>6. ASSUME NEW f \in Occurrences, NEW i \in Places, NEW status, RunEnds(f, i, status)
        PROVE  Same
    <3>1. stage[f] = "running" /\ Close(f, i, status)
      BY <2>6 DEF RunEnds
    <3>2. waiting # <<>> => Head(waiting) \in Fires /\ stage[Head(waiting)] = "deferred"
      BY <1>1, <2>1 DEF LedgerInv, Line
    <3>3. \A g \in Occurrences : g # f /\ (waiting # <<>> => g # Head(waiting)) => stage'[g] = stage[g]
      BY <2>1, <2>6, <3>2 DEF RunEnds
    <3> QED BY <2>3, <3>1, <3>2, <3>3 DEF Verdicts
  <2>7. CASE Forget
    BY <2>7 DEF Forget, Verdicts
  <2>8. ASSUME NEW m \in Manual, Ask(m) PROVE Same
    BY <2>1, <2>8 DEF Ask, Enter, Verdicts
  <2> QED BY <1>1, <2>2, <2>4, <2>5, <2>6, <2>7, <2>8 DEF Next
<1>2. LedgerInv /\ [Next]_vars => [Same]_vars
  BY <1>1
<1>3. Spec => [][Same]_vars
  BY <1>2, LedgerInit, LedgerInvStep, PTL DEF Spec
<1> QED BY <1>3 DEF Final
=============================================================================
