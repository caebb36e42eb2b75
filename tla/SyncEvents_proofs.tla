-------------------------- MODULE SyncEvents_proofs --------------------------
(***************************************************************************)
(* Theorems about SyncEvents, for any processes, records, events and       *)
(* number of crashes.                                                      *)
(***************************************************************************)
EXTENDS SyncEvents, SequenceTheorems, WellFoundedInduction, TLAPS

-----------------------------------------------------------------------------
(* Sequences *)

\* A non-empty set of natural numbers has a least element.
LEMMA LeastNat ==
    ASSUME NEW I \in SUBSET Nat, I # {}
    PROVE  \E i \in I : \A j \in I : i <= j
<1> DEFINE R == {p \in Nat \X Nat : p[1] < p[2]}
<1>1. \A x, y \in Nat : <<y, x>> \in R <=> y < x
  OBVIOUS
<1>2. IsWellFoundedOn(R, Nat)
  BY NatLessThanWellFounded DEF OpToRel
<1> HIDE DEF R
<1>3. PICK i \in I : \A j \in I : ~(<<j, i>> \in R)
  BY <1>2, WFMin
<1>4. i \in Nat /\ \A j \in I : j \in Nat /\ ~(j < i)
  BY <1>1, <1>3, Zenon
<1>5. \A j \in I : i <= j
  BY <1>4
<1>6. QED
  BY <1>5

\* Dropping an element from a sequence drops at most that element.
LEMMA RemoveFirstElements ==
    ASSUME NEW S, NEW s \in Seq(S), NEW e
    PROVE  /\ RemoveFirst(s, e) \in Seq(S)
           /\ ToSet(RemoveFirst(s, e)) \subseteq ToSet(s)
           /\ ToSet(s) \ {e} \subseteq ToSet(RemoveFirst(s, e))
<1>1. CASE ~\E i \in 1 .. Len(s) : s[i] = e
  BY <1>1 DEF RemoveFirst
<1>2. CASE \E i \in 1 .. Len(s) : s[i] = e
  <2> DEFINE I == {i \in 1 .. Len(s) : s[i] = e}
             k == SelectInSeq(s, LAMBDA v : v = e)
             before == SubSeq(s, 1, k - 1)
             behind == SubSeq(s, k + 1, Len(s))
             t == before \o behind
  <2>1. k \in I
    <3>1. I \in SUBSET Nat /\ I # {}
      BY <1>2
    <3>2. \E i \in I : \A j \in I : i <= j
      BY <3>1, LeastNat
    <3>3. k = CHOOSE i \in I : \A j \in I : i =< j
      BY <3>1 DEF SelectInSeq, Min
    <3> HIDE DEF I, k
    <3>4. QED
      BY <3>2, <3>3
  <2>2. RemoveFirst(s, e) = t
    BY <1>2 DEF RemoveFirst, RemoveAt
  <2>3. k \in 1 .. Len(s) /\ s[k] = e
    BY <2>1
  <2> HIDE DEF k
  <2>4. /\ before \in Seq(S) /\ Len(before) = k - 1
        /\ \A i \in 1 .. k - 1 : before[i] = s[i]
    BY <2>3, SubSeqProperties
  <2>5. /\ behind \in Seq(S) /\ Len(behind) = Len(s) - k
        /\ \A i \in 1 .. Len(s) - k : behind[i] = s[k + i]
    BY <2>3, SubSeqProperties
  <2> HIDE DEF before, behind
  <2>6. /\ t \in Seq(S) /\ Len(t) = Len(s) - 1
        /\ \A i \in 1 .. Len(s) - 1 : t[i] = IF i < k THEN s[i] ELSE s[i + 1]
    <3>1. /\ t \in Seq(S) /\ Len(t) = Len(before) + Len(behind)
          /\ \A i \in 1 .. Len(before) + Len(behind) :
                t[i] = IF i <= Len(before) THEN before[i] ELSE behind[i - Len(before)]
      BY <2>4, <2>5, ConcatProperties
    <3>2. Len(s) \in Nat
      OBVIOUS
    <3>3. Len(before) + Len(behind) = Len(s) - 1
      BY <2>3, <2>4, <2>5, <3>2
    <3>4. ASSUME NEW i \in 1 .. Len(s) - 1
          PROVE  t[i] = IF i < k THEN s[i] ELSE s[i + 1]
      <4>1. i \in Int /\ k \in Int /\ Len(before) = k - 1 /\ i \in 1 .. Len(before) + Len(behind)
        BY <2>3, <2>4, <3>2, <3>3
      <4>2. CASE i < k
        <5>1. i <= Len(before) /\ i \in 1 .. k - 1
          BY <4>1, <4>2
        <5>2. t[i] = s[i]
          BY <2>4, <3>1, <4>1, <5>1
        <5>3. QED
          BY <4>2, <5>2
      <4>3. CASE ~(i < k)
        <5>1. ~(i <= Len(before)) /\ i - Len(before) \in 1 .. Len(s) - k
              /\ k + (i - Len(before)) = i + 1
          BY <2>3, <3>2, <4>1, <4>3
        <5>2. t[i] = s[i + 1]
          BY <2>5, <3>1, <4>1, <5>1
        <5>3. QED
          BY <4>3, <5>2
      <4>4. QED
        BY <4>2, <4>3
    <3>5. QED
      BY <3>1, <3>3, <3>4
  <2> HIDE DEF t
  <2>7. ToSet(t) \subseteq ToSet(s)
    BY <2>3, <2>6 DEF ToSet
  <2>8. ToSet(s) \ {e} \subseteq ToSet(t)
    <3>1. SUFFICES ASSUME NEW i \in 1 .. Len(s), s[i] # e
                   PROVE  \E j \in 1 .. Len(t) : t[j] = s[i]
      BY <2>6 DEF ToSet
    <3>2. CASE i < k
      BY <2>3, <2>6, <3>2
    <3>3. CASE i > k
      <4>1. i - 1 \in 1 .. Len(t) /\ t[i - 1] = s[i]
        BY <2>3, <2>6, <3>3
      <4>2. QED
        BY <4>1
    <3>4. QED
      BY <2>3, <3>1, <3>2, <3>3
  <2>9. QED
    BY <2>2, <2>6, <2>7, <2>8
<1>3. QED
  BY <1>1, <1>2

\* Appending an element adds that element.
LEMMA AppendElements ==
    ASSUME NEW S, NEW s \in Seq(S), NEW e \in S
    PROVE  Append(s, e) \in Seq(S) /\ ToSet(Append(s, e)) = ToSet(s) \cup {e}
  BY AppendProperties DEF ToSet

\* A queue whose record of e is removed holds the others and remembers e.
LEMMA RemoveEventRecordElements ==
    ASSUME NEW q \in Queues, NEW e \in Events
    PROVE  LET r == RemoveEventRecord(q, e)
           IN  /\ r \in Queues
               /\ ToSet(q.records) \ {e} \subseteq ToSet(r.records)
               /\ ToSet(r.used) \subseteq ToSet(q.used) \cup {e}
<1> DEFINE newest == <<e>> \o q.used
           n == IF Len(newest) < UsedLimit THEN Len(newest) ELSE UsedLimit
           used == SubSeq(newest, 1, n)
<1>1. q.used \in Seq(Events) /\ q.records \in Seq(Events)
  BY DEF Queues
<1>2. /\ newest \in Seq(Events) /\ Len(newest) = 1 + Len(q.used)
      /\ newest[1] = e /\ \A i \in 1 .. Len(q.used) : newest[i + 1] = q.used[i]
  BY <1>1, ConcatProperties
<1> HIDE DEF newest
<1>3. n \in Nat /\ n <= Len(newest)
  BY <1>2, EventsAssumption
<1> HIDE DEF n
<1>4. used \in Seq(Events) /\ Len(used) = n /\ \A i \in 1 .. n : used[i] = newest[i]
  BY <1>2, <1>3, SubSeqProperties
<1> HIDE DEF used
<1>5. ToSet(used) \subseteq ToSet(q.used) \cup {e}
  <2>1. SUFFICES ASSUME NEW i \in 1 .. n
                 PROVE  newest[i] \in ToSet(q.used) \cup {e}
    BY <1>4 DEF ToSet
  <2>2. CASE i = 1
    BY <1>2, <2>2
  <2>3. CASE i > 1
    <3>1. i - 1 \in 1 .. Len(q.used) /\ newest[(i - 1) + 1] = q.used[i - 1]
      BY <1>1, <1>2, <1>3, <2>3
    <3>2. QED
      BY <1>1, <1>3, <3>1 DEF ToSet
  <2>4. QED
    BY <1>3, <2>2, <2>3
<1>6. RemoveEventRecord(q, e) = [records |-> RemoveFirst(q.records, e), used |-> used]
  BY DEF RemoveEventRecord, used, n, newest
<1>7. QED
  BY <1>1, <1>4, <1>5, <1>6, RemoveFirstElements DEF Queues

-----------------------------------------------------------------------------
(* Types *)

\* Every step keeps the types.  One step per action.
LEMMA TypeStep == TypeOK /\ [Next]_vars => TypeOK'
<1> SUFFICES ASSUME TypeOK, [Next]_vars
             PROVE  TypeOK'
  OBVIOUS
<1> USE EventsAssumption DEF memVars
<1>1. ASSUME NEW p \in Processes, NEW e \in Events, StoreEvent(p, e)
      PROVE  TypeOK'
  <2>1. CASE AddsRecord(kvs, e)
    <3>1. AddEventRecord(kvs, e) \in Queues
      BY AppendElements DEF AddEventRecord, Queues, TypeOK
    <3>2. kvs' = AddEventRecord(kvs, e) /\ cache' = [cache EXCEPT ![p] = kvs']
          /\ received' = Append(received, e)
      BY <1>1, <2>1 DEF StoreEvent
    <3>3. received' \in Seq(Events)
      BY <3>2, AppendElements DEF TypeOK
    <3>4. kvs' \in Queues /\ cache' \in [Processes -> Queues]
      BY <3>1, <3>2 DEF TypeOK
    <3>5. QED
      BY <1>1, <3>3, <3>4 DEF StoreEvent, TypeOK, RequestStates
  <2>2. CASE ~AddsRecord(kvs, e)
    BY <1>1, <2>2 DEF StoreEvent, TypeOK, RequestStates
  <2>3. QED
    BY <2>1, <2>2
<1>2. ASSUME NEW p \in Processes, NEW e \in Events, SignalEvent(p, e)
      PROVE  TypeOK'
  BY <1>2 DEF SignalEvent, TypeOK, RequestStates
<1>3. ASSUME NEW p \in Processes, NEW e \in Events, RemoveTask(p, e)
      PROVE  TypeOK'
  BY <1>3 DEF RemoveTask, TypeOK, RequestStates
<1>4. ASSUME NEW p \in Processes, UpdateFromStoreContents(p)
      PROVE  TypeOK'
  BY <1>4 DEF UpdateFromStoreContents, TypeOK
<1>5. ASSUME NEW p \in Processes, BeginPass(p)
      PROVE  TypeOK'
  BY <1>5 DEF BeginPass, TypeOK
<1>6. ASSUME NEW p \in Processes, BeginTransfer(p)
      PROVE  TypeOK'
  <2>1. cache[p].records \in Seq(Events)
    BY DEF TypeOK, Queues
  <2>2. QED
    BY <1>6, <2>1 DEF BeginTransfer, TypeOK
<1>7. ASSUME NEW p \in Processes, TransferEvent(p)
      PROVE  TypeOK'
  <2>1. Head(todo) \in Events /\ Tail(todo) \in Seq(Events)
    BY <1>7, HeadTailProperties DEF TransferEvent, TypeOK
  <2>2. Append(work.events, Head(todo)) \in Seq(Events)
    BY <2>1, AppendElements DEF TypeOK, Databases
  <2>3. work' \in Databases
    BY <1>7, <2>2 DEF TransferEvent, TypeOK, Databases
  <2>4. QED
    BY <1>7, <2>1, <2>3 DEF TransferEvent, TypeOK
<1>8. ASSUME NEW p \in Processes, CommitTransfer(p)
      PROVE  TypeOK'
  BY <1>8 DEF CommitTransfer, TypeOK
<1>9. ASSUME NEW p \in Processes, BeginProcessing(p)
      PROVE  TypeOK'
  BY <1>9 DEF BeginProcessing, TypeOK
<1>10. ASSUME NEW p \in Processes, NEW e \in Events, TakeEvent(p, e)
       PROVE  TypeOK'
  <2>1. RemoveEventRecord(kvs, e) \in Queues
    BY RemoveEventRecordElements DEF TypeOK
  <2>2. kvs' \in Queues /\ cache' \in [Processes -> Queues]
    <3>1. CASE e \in ToSet(kvs.records)
      <4>1. kvs' = RemoveEventRecord(kvs, e) /\ cache' = [cache EXCEPT ![p] = kvs']
        BY <1>10, <3>1 DEF TakeEvent
      <4>2. QED
        BY <2>1, <4>1 DEF TypeOK
    <3>2. CASE e \notin ToSet(kvs.records)
      BY <1>10, <3>2 DEF TakeEvent, TypeOK
    <3>3. QED
      BY <3>1, <3>2
  <2>3. QED
    BY <1>10, <2>2 DEF TakeEvent, TypeOK
<1>11. ASSUME NEW p \in Processes, HandleEvent(p)
       PROVE  TypeOK'
  <2>1. current \in Events
    BY <1>11 DEF HandleEvent, TypeOK
  <2>2. RemoveFirst(work.events, current) \in Seq(Events)
        /\ Append(work.handled, current) \in Seq(Events)
    BY <2>1, RemoveFirstElements, AppendElements DEF TypeOK, Databases
  <2>3. work' \in Databases
    BY <1>11, <2>2 DEF HandleEvent, TypeOK, Databases
  <2>4. QED
    BY <1>11, <2>3 DEF HandleEvent, TypeOK
<1>12. ASSUME NEW p \in Processes, EndPass(p)
       PROVE  TypeOK'
  <2>1. {r \in work.journal : ~MayProcess(p, r)} \in SUBSET Records
    BY DEF TypeOK, Databases
  <2>2. QED
    BY <1>12, <2>1 DEF EndPass, TypeOK
<1>13. ASSUME NEW p \in Processes, NEW r \in Records, RemoveRecord(p, r)
       PROVE  TypeOK'
  <2>1. work' \in Databases
    BY <1>13 DEF RemoveRecord, TypeOK, Databases
  <2>2. QED
    BY <1>13, <2>1 DEF RemoveRecord, TypeOK
<1>14. ASSUME NEW p \in Processes, NEW r \in Records, TriggerTimeout(p, r)
       PROVE  TypeOK'
  <2>1. triggered[p] \ {r} \in SUBSET Records /\ exempt[p] \cup {r} \in SUBSET Records
    BY DEF TypeOK
  <2>2. QED
    BY <1>14, <2>1 DEF TriggerTimeout, TypeOK
<1>15. ASSUME NEW p \in Processes, Crash(p)
       PROVE  TypeOK'
  <2>1. http' \in [Events -> RequestStates]
    BY <1>15 DEF Crash, TypeOK, RequestStates
  <2>2. crashes' \in 0 .. MaxCrashes
    BY <1>15 DEF Crash, TypeOK
  <2>3. holder' \in Processes \cup {None} /\ work' \in Databases /\ todo' \in Seq(Events)
        /\ current' \in Events \cup {None}
    <3>1. CASE holder = p
      <4>1. holder' = None /\ work' = db /\ todo' = <<>> /\ current' = None
        BY <1>15, <3>1 DEF Crash
      <4>2. QED
        BY <4>1 DEF TypeOK
    <3>2. CASE holder # p
      BY <1>15, <3>2 DEF Crash, TypeOK
    <3>3. QED
      BY <3>1, <3>2
  <2>4. phase' \in [Processes -> {"idle", "transfer", "process"}]
        /\ needs' \in [Processes -> BOOLEAN]
        /\ triggered' \in [Processes -> SUBSET Records]
        /\ exempt' \in [Processes -> SUBSET Records]
    BY <1>15 DEF Crash, TypeOK
  <2>5. QED
    BY <1>15, <2>1, <2>2, <2>3, <2>4 DEF Crash, TypeOK
<1>16. ASSUME NEW p \in Processes, Restart(p)
       PROVE  TypeOK'
  BY <1>16 DEF Restart, TypeOK
<1>17. CASE UNCHANGED vars
  BY <1>17 DEF vars, TypeOK
<1>18. QED
  BY <1>1, <1>2, <1>3, <1>4, <1>5, <1>6, <1>7, <1>8, <1>9, <1>10, <1>11, <1>12, <1>13,
     <1>14, <1>15, <1>16, <1>17 DEF Next, Pass, Pipeline

LEMMA InitType == Init => TypeOK
  BY EventsAssumption DEF Init, TypeOK, Queues, Databases, RequestStates

\* The variables keep their types.
THEOREM TypeCorrect == Spec => []TypeOK
  BY InitType, TypeStep, PTL DEF Spec

-----------------------------------------------------------------------------
(* No event is lost *)

\* What the transaction would commit keeps every event of the database.
WorkKeeps ==
    /\ ToSet(db.events) \subseteq ToSet(work.events) \cup ToSet(work.handled)
    /\ ToSet(db.handled) \subseteq ToSet(work.handled)

\* An event that the key-value store remembers as used has been through it
\* into the database, and only events that are in the committed database are
\* delivered.
LossInv ==
    /\ TypeOK
    /\ NoEventLost
    /\ ToSet(kvs.used) \subseteq ToSet(db.events) \cup ToSet(db.handled)
    /\ holder # None => WorkKeeps
    /\ \A p \in Processes : Processing(p) => ToSet(work.events) \subseteq ToSet(db.events)

\* Every step keeps it.
LEMMA LossStep == LossInv /\ [Next]_vars => LossInv'
<1> SUFFICES ASSUME LossInv, [Next]_vars
             PROVE  LossInv'
  OBVIOUS
<1>0. /\ TypeOK /\ TypeOK' /\ kvs \in Queues
      /\ work.events \in Seq(Events) /\ work.handled \in Seq(Events)
      /\ None \notin Processes
  BY TypeStep, EventsAssumption DEF LossInv, TypeOK, Databases
<1> USE DEF memVars
<1>1. ASSUME NEW p \in Processes, NEW e \in Events, StoreEvent(p, e)
      PROVE  LossInv'
  <2>1. UNCHANGED <<db, work, holder, phase>>
    BY <1>1 DEF StoreEvent
  <2>2. \A x \in Events : http'[x] # "finished" => x = e \/ http[x] # "finished"
    BY <1>0, <1>1 DEF StoreEvent, TypeOK
  <2>3. /\ ToSet(kvs.records) \subseteq ToSet(kvs'.records)
        /\ kvs'.used = kvs.used
        /\ e \in ToSet(kvs'.records) \cup ToSet(kvs.used)
    <3>1. CASE AddsRecord(kvs, e)
      <4>1. kvs' = [kvs EXCEPT !.records = Append(@, e)]
        BY <1>1, <3>1 DEF StoreEvent, AddEventRecord
      <4>2. kvs.records \in Seq(Events)
        BY <1>0 DEF Queues
      <4>3. kvs'.records = Append(kvs.records, e) /\ kvs'.used = kvs.used
        BY <1>0, <4>1 DEF Queues
      <4>4. QED
        BY <4>2, <4>3, AppendElements
    <3>2. CASE ~AddsRecord(kvs, e)
      BY <1>1, <3>2 DEF StoreEvent, AddsRecord
    <3>3. QED
      BY <3>1, <3>2
  <2>4. QED
    BY <1>0, <2>1, <2>2, <2>3 DEF LossInv, NoEventLost, WorkKeeps, Processing
<1>2. ASSUME NEW p \in Processes, NEW e \in Events, SignalEvent(p, e) \/ RemoveTask(p, e)
      PROVE  LossInv'
  <2>1. UNCHANGED <<kvs, db, work, holder, phase>>
    BY <1>2 DEF SignalEvent, RemoveTask
  <2>2. \A x \in Events : http'[x] # "finished" => http[x] # "finished"
    BY <1>0, <1>2 DEF SignalEvent, RemoveTask, TypeOK
  <2>3. QED
    BY <1>0, <2>1, <2>2 DEF LossInv, NoEventLost, WorkKeeps, Processing
<1>3. ASSUME NEW p \in Processes,
             \/ UpdateFromStoreContents(p)
             \/ \E r \in Records : TriggerTimeout(p, r)
             \/ Restart(p)
      PROVE  LossInv'
  <2>1. UNCHANGED <<http, kvs, db, work, holder, phase>>
    BY <1>3 DEF UpdateFromStoreContents, TriggerTimeout, Restart
  <2>2. QED
    BY <1>0, <2>1 DEF LossInv, NoEventLost, WorkKeeps, Processing
<1>4. ASSUME NEW p \in Processes, BeginPass(p)
      PROVE  LossInv'
  <2>1. UNCHANGED <<http, kvs, db, work, holder>>
    BY <1>4 DEF BeginPass
  <2>2. \A x \in Processes : phase'[x] = "process" => phase[x] = "process"
    BY <1>0, <1>4 DEF BeginPass, TypeOK
  <2>3. QED
    BY <1>0, <2>1, <2>2 DEF LossInv, NoEventLost, WorkKeeps, Processing
<1>5. ASSUME NEW p \in Processes, BeginTransfer(p) \/ BeginProcessing(p)
      PROVE  LossInv'
  <2>1. UNCHANGED <<http, kvs, db>> /\ work' = db
    BY <1>5 DEF BeginTransfer, BeginProcessing
  <2>2. QED
    BY <1>0, <2>1 DEF LossInv, NoEventLost, WorkKeeps
<1>6. ASSUME NEW p \in Processes, TransferEvent(p)
      PROVE  LossInv'
  <2>1. UNCHANGED <<http, kvs, db, holder, phase>> /\ holder = p /\ phase[p] = "transfer"
    BY <1>6 DEF TransferEvent
  <2>2. ToSet(work.events) \subseteq ToSet(work'.events) /\ work'.handled = work.handled
    <3>1. CASE Head(todo) \in ToSet(work.events)
      BY <1>6, <3>1 DEF TransferEvent
    <3>2. CASE Head(todo) \notin ToSet(work.events)
      <4>1. Head(todo) \in Events
        BY <1>0, <1>6, HeadTailProperties DEF TransferEvent, TypeOK
      <4>2. work' = [work EXCEPT !.events = Append(@, Head(todo))]
        BY <1>6, <3>2 DEF TransferEvent
      <4>3. work'.events = Append(work.events, Head(todo)) /\ work'.handled = work.handled
        BY <1>0, <4>2 DEF TypeOK, Databases
      <4>4. QED
        BY <1>0, <4>1, <4>3, AppendElements
    <3>3. QED
      BY <3>1, <3>2
  <2>3. \A x \in Processes : ~Processing(x)'
    BY <2>1 DEF Processing
  <2>4. QED
    BY <1>0, <2>1, <2>2, <2>3 DEF LossInv, NoEventLost, WorkKeeps
<1>7. ASSUME NEW p \in Processes, CommitTransfer(p) \/ EndPass(p)
      PROVE  LossInv'
  <2>1. UNCHANGED <<http, kvs>> /\ holder = p /\ holder' = None /\ db' = work
    BY <1>7 DEF CommitTransfer, EndPass, Processing
  <2>2. WorkKeeps
    BY <1>0, <2>1 DEF LossInv
  <2>3. QED
    BY <1>0, <2>1, <2>2 DEF LossInv, NoEventLost, WorkKeeps, Processing
<1>8. ASSUME NEW p \in Processes, NEW e \in Events, TakeEvent(p, e)
      PROVE  LossInv'
  <2>1. UNCHANGED <<http, db, work, holder, phase>> /\ Processing(p) /\ IsNextEvent(e)
    BY <1>8 DEF TakeEvent, Deliverable
  <2>2. e \in ToSet(db.events)
    <3>1. e \in ToSet(work.events)
      BY <1>0, <2>1 DEF IsNextEvent, ToSet
    <3>2. QED
      BY <2>1, <3>1 DEF LossInv
  <2>3. /\ ToSet(kvs.records) \ {e} \subseteq ToSet(kvs'.records)
        /\ ToSet(kvs'.used) \subseteq ToSet(kvs.used) \cup {e}
    BY <1>0, <1>8, RemoveEventRecordElements DEF TakeEvent
  <2>4. QED
    BY <1>0, <2>1, <2>2, <2>3 DEF LossInv, NoEventLost, WorkKeeps, Processing
<1>9. ASSUME NEW p \in Processes, HandleEvent(p)
      PROVE  LossInv'
  <2>1. UNCHANGED <<http, kvs, db, holder, phase>> /\ Processing(p) /\ current \in Events
    BY <1>0, <1>9 DEF HandleEvent, TypeOK
  <2>2. /\ work'.events = RemoveFirst(work.events, current)
        /\ work'.handled = Append(work.handled, current)
    BY <1>0, <1>9 DEF HandleEvent, TypeOK, Databases
  <2>3. /\ ToSet(work'.events) \subseteq ToSet(work.events)
        /\ ToSet(work.events) \ {current} \subseteq ToSet(work'.events)
        /\ ToSet(work'.handled) = ToSet(work.handled) \cup {current}
    BY <1>0, <2>1, <2>2, RemoveFirstElements, AppendElements
  <2>4. QED
    BY <1>0, <2>1, <2>3 DEF LossInv, NoEventLost, WorkKeeps, Processing
<1>10. ASSUME NEW p \in Processes, NEW r \in Records, RemoveRecord(p, r)
       PROVE  LossInv'
  <2>1. UNCHANGED <<http, kvs, db, holder, phase>>
        /\ work' = [work EXCEPT !.journal = @ \ {r}]
    BY <1>10 DEF RemoveRecord
  <2>2. work'.events = work.events /\ work'.handled = work.handled
    BY <1>0, <2>1 DEF TypeOK, Databases
  <2>3. QED
    BY <1>0, <2>1, <2>2 DEF LossInv, NoEventLost, WorkKeeps, Processing
<1>11. ASSUME NEW p \in Processes, Crash(p)
       PROVE  LossInv'
  <2>1. UNCHANGED <<kvs, db>>
    BY <1>11 DEF Crash
  <2>2. \A x \in Events : http'[x] # "finished" => http[x] # "finished"
    BY <1>0, <1>11 DEF Crash, TypeOK
  <2>3. \/ holder' = None
        \/ UNCHANGED <<holder, work>> /\ phase' = [phase EXCEPT ![p] = "idle"]
    BY <1>11 DEF Crash
  <2>4. /\ holder' # None => WorkKeeps'
        /\ \A x \in Processes : Processing(x)' => ToSet(work'.events) \subseteq ToSet(db'.events)
    <3>1. CASE holder' = None
      BY <1>0, <3>1 DEF Processing
    <3>2. CASE UNCHANGED <<holder, work>> /\ phase' = [phase EXCEPT ![p] = "idle"]
      <4>1. \A x \in Processes : phase'[x] = "process" => phase[x] = "process"
        BY <1>0, <3>2 DEF TypeOK
      <4>2. QED
        BY <2>1, <3>2, <4>1 DEF LossInv, WorkKeeps, Processing
    <3>3. QED
      BY <2>3, <3>1, <3>2
  <2>5. QED
    BY <1>0, <2>1, <2>2, <2>4 DEF LossInv, NoEventLost
<1>12. CASE UNCHANGED vars
  BY <1>0, <1>12 DEF vars, LossInv, NoEventLost, WorkKeeps, Processing
<1>13. QED
  BY <1>1, <1>2, <1>3, <1>4, <1>5, <1>6, <1>7, <1>8, <1>9, <1>10, <1>11, <1>12
     DEF Next, Pass, Pipeline

\* An event that reached the engine is always somewhere a crash cannot erase,
\* with any number of processes, crashes and redeliveries.
THEOREM NothingLost == Spec => []NoEventLost
<1>1. Init => LossInv
  BY InitType DEF Init, LossInv, NoEventLost, ToSet, Processing
<1>2. LossInv => NoEventLost
  BY DEF LossInv
<1>3. QED
  BY <1>1, <1>2, LossStep, PTL DEF Spec
=============================================================================
