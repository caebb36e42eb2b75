-------------------------- MODULE SyncEngine_answers --------------------------
(***************************************************************************)
(* Theorems about what SyncEngine waits for: every record in progress has  *)
(* its result coming, and every question is asked.                         *)
(*                                                                         *)
(* The first section sums up what a step may do to the databases and to    *)
(* the record in hand; each invariant is then shown for these few kinds of *)
(* steps, and in detail only for the actions that touch what it is about.  *)
(***************************************************************************)
EXTENDS SyncEngine_proofs

-----------------------------------------------------------------------------
(* The steps *)

\* A step that does not touch the databases or the pass.
Around ==
    \/ \E r \in DOMAIN disk.journal : Cancel(r) \/ Elapse(r)
    \/ \E q \in requests : Respond(q)
    \/ \E p \in prompts : Answer(p)
    \/ GoOffline
    \/ GoOnline
    \/ UNCHANGED vars

\* A step of the walk over the lanes, between two records.
Walk == VisitLane \/ FetchRecord \/ Stop \/ EndPass

\* A step on the record in hand that decides what becomes of it.
Decision ==
    \/ ProcessCancelled
    \/ AwaitAnswer
    \/ AwaitRefresh
    \/ Schedule
    \/ AwaitResult

LEMMA StepKinds ==
    ASSUME [Next]_vars
    PROVE  \/ Around
           \/ \E a \in Actions : Submit(a) \/ SubmitEnds(a)
           \/ Crash
           \/ BeginPass
           \/ Walk
           \/ Decision
           \/ HandleEvent
           \/ GoOn
  BY DEF Next, PassStep, Around, Walk, Decision

LEMMA AroundStep ==
    ASSUME Around
    PROVE  UNCHANGED <<db, disk, pass>>
  BY DEF Around, Cancel, Elapse, Respond, Answer, GoOffline, GoOnline, vars

\* A submission adds at most a ready row, under a number that no row had.
LEMMA SubmitStep ==
    ASSUME TypeInv, NEW a \in Actions, Submit(a) \/ SubmitEnds(a)
    PROVE  /\ disk' = db' /\ pass' = pass /\ pass.phase = "idle" /\ a \notin submitted
           /\ UNCHANGED <<outside, cancelled, elapsed, world>>
           /\ db'.inbox = db.inbox
           /\ db'.nextRecord = db.nextRecord + 1
           /\ DOMAIN db'.journal = DOMAIN db.journal
                 \cup (IF Submit(a) THEN {db.nextRecord} ELSE {})
           /\ \A r \in DOMAIN db.journal : db'.journal[r] = db.journal[r]
           /\ Submit(a) => \E l : db'.journal[db.nextRecord] = NewRow(a, l)
<1>0. DatabaseOK(db) /\ \A r \in DOMAIN db.journal : r \in Nat /\ r < db.nextRecord
  BY DEF TypeInv, TypeOK, DatabaseOK
<1>1. ASSUME NEW d, NEW l, db' = AddRow(d, a, l), d.journal = db.journal,
             d.inbox = db.inbox, d.nextRecord = db.nextRecord, DOMAIN d = DOMAIN db
      PROVE  /\ db'.inbox = db.inbox
             /\ db'.nextRecord = db.nextRecord + 1
             /\ DOMAIN db'.journal = DOMAIN db.journal \cup {db.nextRecord}
             /\ \A r \in DOMAIN db.journal : db'.journal[r] = db.journal[r]
             /\ db'.journal[db.nextRecord] = NewRow(a, l)
  <2>1. /\ db'.inbox = d.inbox
        /\ db'.nextRecord = d.nextRecord + 1
        /\ db'.journal = [r \in DOMAIN d.journal \cup {d.nextRecord} |->
                             IF r = d.nextRecord THEN NewRow(a, l) ELSE d.journal[r]]
    BY <1>0, <1>1 DEF AddRow, DatabaseOK
  <2>2. QED
    BY <1>0, <1>1, <2>1
<1>2. CASE Submit(a)
  <2>1. CASE \E l \in DOMAIN db.lanes : IsLaneForTags(db.lanes, TagsOf[a], l)
    <3>1. PICK l : db' = AddRow(db, a, l)
      BY <1>2, <2>1 DEF Submit
    <3>2. QED
      BY <1>1, <1>2, <3>1 DEF Submit
  <2>2. CASE ~\E l \in DOMAIN db.lanes : IsLaneForTags(db.lanes, TagsOf[a], l)
    <3> DEFINE d == AddLane(db, TagsOf[a])
    <3>1. db' = AddRow(d, a, db.nextLane)
      BY <1>2, <2>2 DEF Submit
    <3>2. /\ d.journal = db.journal /\ d.inbox = db.inbox
          /\ d.nextRecord = db.nextRecord /\ DOMAIN d = DOMAIN db
      BY <1>0 DEF AddLane, DatabaseOK
    <3> HIDE DEF d
    <3>3. QED
      BY <1>1, <1>2, <3>1, <3>2 DEF Submit
  <2>3. QED
    BY <2>1, <2>2
<1>3. CASE SubmitEnds(a) /\ ~Submit(a)
  <2>1. /\ db'.inbox = db.inbox /\ db'.journal = db.journal
        /\ db'.nextRecord = db.nextRecord + 1
    BY <1>0, <1>3 DEF SubmitEnds, DatabaseOK
  <2>2. QED
    BY <1>3, <2>1 DEF SubmitEnds
<1>4. QED
  BY <1>2, <1>3

\* Beginning a pass moves the queued events to both databases.
LEMMA BeginPassStep ==
    ASSUME TypeInv, BeginPass
    PROVE  /\ disk' = db' /\ pass'.phase = "lanes" /\ pass'.instr = "none"
           /\ queue' = <<>>
           /\ db'.inbox = db.inbox \o queue
           /\ db'.journal = db.journal
           /\ db'.nextRecord = db.nextRecord
           /\ UNCHANGED <<requests, prompts, issues, app, world>>
<1>1. /\ db'.inbox = db.inbox \o queue /\ db'.journal = db.journal
      /\ db'.nextRecord = db.nextRecord
  BY DEF BeginPass, TypeInv, TypeOK, DatabaseOK
<1>2. pass'.phase = "lanes" /\ pass'.instr = "none"
  BY DEF BeginPass, Idle
<1>3. QED
  BY <1>1, <1>2 DEF BeginPass

\* The walk leaves the records and events alone, until it is committed, and
\* only takes a record in hand as it is.
LEMMA WalkStep ==
    ASSUME TypeInv, Walk
    PROVE  /\ db'.journal = db.journal
           /\ db'.inbox = db.inbox
           /\ db'.nextRecord = db.nextRecord
           /\ disk' \in {disk, db} /\ (disk' = disk \/ db' = db)
           /\ UNCHANGED <<needs, outside, app, world>>
           /\ pass'.phase = "record" =>
                 /\ pass'.instr = pass.instr
                 /\ pass'.at \in DOMAIN db.journal
                 /\ pass'.row = db.journal[pass'.at]
                 /\ pass.phase = "records"
           /\ pass'.phase # "record" =>
                 \/ pass'.instr = "none"
                 \/ pass'.instr = pass.instr /\ pass.phase # "record"
<1>0. DatabaseOK(db) /\ PassOK(pass)
  BY DEF TypeInv, TypeOK
<1>1. ASSUME NEW n, NEW used, LeaveLane(n, used)
      PROVE  /\ db'.journal = db.journal /\ db'.inbox = db.inbox
             /\ db'.nextRecord = db.nextRecord
             /\ pass'.phase = "lanes" /\ pass'.instr = "none"
  BY <1>0, <1>1 DEF LeaveLane, DatabaseOK, PassOK, Idle
<1>2. CASE VisitLane
  <2>1. pass'.phase \in {"lanes", "records"} /\ pass'.instr = pass.instr
    BY <1>0, <1>2 DEF VisitLane, PassOK, Idle
  <2>2. QED
    BY <1>2, <2>1 DEF VisitLane
<1>3. CASE FetchRecord
  <2>1. ASSUME NEW r \in RowsOn(db, pass.lane),
               pass' = [pass EXCEPT !.phase = "record", !.at = r,
                                    !.row = db.journal[r], !.n = @ + 1,
                                    !.used = Charge(db.journal[r].action, 1)]
        PROVE  /\ pass'.instr = pass.instr
               /\ pass'.at \in DOMAIN db.journal
               /\ pass'.row = db.journal[pass'.at]
    <3>1. pass'.instr = pass.instr /\ pass'.at = r /\ pass'.row = db.journal[r]
      BY <1>0, <2>1 DEF PassOK, Idle
    <3>2. QED
      BY <3>1 DEF RowsOn
  <2>2. CASE \E n : LeaveLane(n, pass.used)
    BY <1>1, <1>3, <2>2 DEF FetchRecord
  <2>3. CASE ~\E n : LeaveLane(n, pass.used)
    BY <1>3, <2>1, <2>3 DEF FetchRecord
  <2>4. QED
    BY <2>2, <2>3
<1>4. CASE Stop
  <2>1. \E used : LeaveLane(pass.n, used)
    BY <1>4 DEF Stop
  <2>2. QED
    BY <1>1, <1>4, <2>1 DEF Stop
<1>5. CASE EndPass
  BY <1>5 DEF EndPass, Idle
<1>6. QED
  BY <1>2, <1>3, <1>4, <1>5 DEF Walk

\* Going on deletes the row in hand or nothing.
LEMMA GoOnStep ==
    ASSUME TypeInv, GoOn
    PROVE  /\ disk' = disk /\ pass'.phase = "records"
           /\ pass'.instr = "none"
           /\ db'.inbox = db.inbox
           /\ db'.nextRecord = db.nextRecord
           /\ db'.journal = IF pass.instr = "deleteLast" THEN Removed ELSE db.journal
           /\ UNCHANGED <<needs, outside, app, world>>
<1>1. pass'.phase = "records" /\ pass'.instr = "none"
  BY DEF GoOn, TypeInv, TypeOK, PassOK, Idle
<1>2. QED
  BY <1>1 DEF GoOn, TypeInv, TypeOK, DatabaseOK

\* What became of the record in hand.
InHand(journal, row, instr) ==
    /\ pass.phase = "record" /\ pass.row \in Rows
    /\ pass'.phase = "record" /\ pass'.at = pass.at
    /\ pass'.row = row /\ pass'.instr = instr
    /\ db'.journal = journal
    /\ db'.nextRecord = db.nextRecord
    /\ disk' = disk

LEMMA DecideInHand ==
    ASSUME TypeInv, pass.phase = "record", NEW journal, NEW row, NEW instr, Decide(instr, row),
           db' = [db EXCEPT !.journal = journal], disk' = disk
    PROVE  InHand(journal, row, instr) /\ db'.inbox = db.inbox
<1>1. pass'.phase = "record" /\ pass'.at = pass.at /\ pass'.row = row /\ pass'.instr = instr
  BY DEF Decide, TypeInv, TypeOK, PassOK, Idle
<1>2. db'.journal = journal /\ db'.nextRecord = db.nextRecord /\ db'.inbox = db.inbox
  BY DEF TypeInv, TypeOK, DatabaseOK
<1>3. QED
  BY <1>1, <1>2 DEF InHand, TypeInv, RowInHand

LEMMA KeepInHand ==
    ASSUME TypeInv, pass.phase = "record", NEW instr, Decide(instr, pass.row),
           db' = db, disk' = disk
    PROVE  InHand(db.journal, pass.row, instr) /\ db'.inbox = db.inbox
<1>1. /\ pass'.phase = "record" /\ pass'.at = pass.at /\ pass'.row = pass.row
      /\ pass'.instr = instr
  BY DEF Decide, TypeInv, TypeOK, PassOK, Idle
<1>2. QED
  BY <1>1 DEF InHand, TypeInv, RowInHand

Without(s, i) == SubSeq(s, 1, i - 1) \o SubSeq(s, i + 1, Len(s))

LEMMA HandledInHand ==
    ASSUME TypeInv, pass.phase = "record", NEW i, NEW journal, NEW row, NEW next,
           Handled(i, journal, row, next), disk' = disk
    PROVE  /\ InHand(journal, row, IF next = "none" THEN pass.instr ELSE next)
           /\ db'.inbox = Without(db.inbox, i)
<1> DEFINE instr == IF next = "none" THEN pass.instr ELSE next
<1>1. Decide(instr, row)
  BY DEF Handled, Decide, TypeInv, TypeOK, PassOK, Idle
<1>2. pass'.phase = "record" /\ pass'.at = pass.at /\ pass'.row = row /\ pass'.instr = instr
  BY <1>1 DEF Decide, TypeInv, TypeOK, PassOK, Idle
<1>3. /\ db'.journal = journal /\ db'.nextRecord = db.nextRecord
      /\ db'.inbox = Without(db.inbox, i)
  BY DEF Handled, Without, TypeInv, TypeOK, DatabaseOK
<1>4. QED
  BY <1>2, <1>3 DEF InHand, TypeInv, RowInHand

\* The journal without or with a changed row in hand.
LEMMA StoredRows ==
    ASSUME NEW row
    PROVE  /\ DOMAIN Stored(row) = DOMAIN db.journal
           /\ \A r \in DOMAIN db.journal :
                 Stored(row)[r] = IF r = pass.at THEN row ELSE db.journal[r]
  BY DEF Stored, InJournal

LEMMA RemovedRows ==
    /\ DOMAIN Removed = DOMAIN db.journal \ {pass.at}
    /\ \A r \in DOMAIN Removed : Removed[r] = db.journal[r]
  BY DEF Removed, Restrict

\* What is left of a sequence without one of its elements.
LEMMA WithoutIndices ==
    ASSUME NEW S, NEW s \in Seq(S), NEW i \in DOMAIN s
    PROVE  /\ Without(s, i) \in Seq(S)
           /\ Len(Without(s, i)) = Len(s) - 1
           /\ \A j \in DOMAIN Without(s, i) :
                 Without(s, i)[j] = s[IF j < i THEN j ELSE j + 1]
<1> DEFINE a == SubSeq(s, 1, i - 1)
           b == SubSeq(s, i + 1, Len(s))
<1>1. i \in 1 .. Len(s) /\ Len(s) \in Nat /\ DOMAIN s = 1 .. Len(s)
  BY LenProperties
<1>2. a \in Seq(S) /\ Len(a) = i - 1 /\ \A j \in 1 .. i - 1 : a[j] = s[j]
  BY <1>1, SubSeqProperties
<1>3. b \in Seq(S) /\ Len(b) = Len(s) - i /\ \A j \in 1 .. Len(s) - i : b[j] = s[j + i]
  BY <1>1, SubSeqProperties
<1> HIDE DEF a, b
<1>4. /\ a \o b \in Seq(S) /\ Len(a \o b) = Len(s) - 1
      /\ DOMAIN (a \o b) = 1 .. Len(s) - 1
      /\ \A j \in 1 .. Len(s) - 1 :
            (a \o b)[j] = IF j <= i - 1 THEN a[j] ELSE b[j - (i - 1)]
  <2>1. /\ a \o b \in Seq(S) /\ Len(a \o b) = Len(a) + Len(b)
        /\ \A j \in 1 .. Len(a) + Len(b) :
              (a \o b)[j] = IF j <= Len(a) THEN a[j] ELSE b[j - Len(a)]
    BY <1>2, <1>3, ConcatProperties
  <2>2. Len(a) + Len(b) = Len(s) - 1
    BY <1>1, <1>2, <1>3
  <2>3. DOMAIN (a \o b) = 1 .. Len(s) - 1
    BY <2>1, <2>2, LenProperties
  <2>4. QED
    BY <1>2, <2>1, <2>2, <2>3
<1>5. ASSUME NEW j \in 1 .. Len(s) - 1
      PROVE  (a \o b)[j] = s[IF j < i THEN j ELSE j + 1]
  <2>1. CASE j < i
    <3>1. j <= i - 1 /\ j \in 1 .. i - 1
      BY <1>1, <2>1
    <3>2. QED
      BY <1>2, <1>4, <2>1, <3>1
  <2>2. CASE ~(j < i)
    <3>1. ~(j <= i - 1) /\ j - (i - 1) \in 1 .. Len(s) - i /\ (j - (i - 1)) + i = j + 1
      BY <1>1, <2>2
    <3>2. QED
      BY <1>3, <1>4, <2>2, <3>1
  <2>3. QED
    BY <2>1, <2>2
<1>6. QED
  BY <1>4, <1>5 DEF Without, a, b

LEMMA WithoutRange ==
    ASSUME NEW S, NEW s \in Seq(S), NEW i \in DOMAIN s
    PROVE  /\ Range(Without(s, i)) \subseteq Range(s)
           /\ Range(s) \ {s[i]} \subseteq Range(Without(s, i))
<1> DEFINE t == Without(s, i)
<1>1. /\ DOMAIN s = 1 .. Len(s) /\ Len(s) \in Nat /\ i \in 1 .. Len(s)
      /\ DOMAIN t = 1 .. Len(s) - 1
      /\ \A j \in DOMAIN t : t[j] = s[IF j < i THEN j ELSE j + 1]
  BY WithoutIndices, LenProperties
<1> HIDE DEF t
<1>2. ASSUME NEW j \in DOMAIN t
      PROVE  t[j] \in Range(s)
  BY <1>1 DEF Range
<1>3. ASSUME NEW j \in DOMAIN s, s[j] # s[i]
      PROVE  s[j] \in Range(t)
  <2> DEFINE k == IF j < i THEN j ELSE j - 1
  <2>1. k \in DOMAIN t /\ (IF k < i THEN k ELSE k + 1) = j
    BY <1>1, <1>3
  <2>2. t[k] = s[j]
    BY <1>1, <2>1
  <2>3. QED
    BY <2>1, <2>2 DEF Range
<1>4. QED
  BY <1>2, <1>3 DEF Range, t

LEMMA ConcatRange ==
    ASSUME NEW S, NEW s \in Seq(S), NEW t \in Seq(S)
    PROVE  Range(s \o t) = Range(s) \cup Range(t)
<1>1. /\ DOMAIN s = 1 .. Len(s) /\ DOMAIN t = 1 .. Len(t) /\ Len(s) \in Nat /\ Len(t) \in Nat
      /\ DOMAIN (s \o t) = 1 .. Len(s) + Len(t)
      /\ \A i \in 1 .. Len(s) + Len(t) :
            (s \o t)[i] = IF i <= Len(s) THEN s[i] ELSE t[i - Len(s)]
  BY ConcatProperties, LenProperties
<1>2. \A i \in DOMAIN (s \o t) : (s \o t)[i] \in Range(s) \cup Range(t)
  BY <1>1 DEF Range
<1>3. \A i \in DOMAIN s : s[i] \in Range(s \o t)
  BY <1>1 DEF Range
<1>4. ASSUME NEW i \in DOMAIN t
      PROVE  t[i] \in Range(s \o t)
  <2>1. i + Len(s) \in DOMAIN (s \o t) /\ (s \o t)[i + Len(s)] = t[i]
    BY <1>1
  <2>2. QED
    BY <2>1 DEF Range
<1>5. QED
  BY <1>2, <1>3, <1>4 DEF Range

LEMMA AppendRange ==
    ASSUME NEW S, NEW s \in Seq(S), NEW e \in S
    PROVE  Range(Append(s, e)) = Range(s) \cup {e}
<1>1. /\ DOMAIN s = 1 .. Len(s) /\ Len(s) \in Nat
      /\ DOMAIN Append(s, e) = 1 .. Len(s) + 1
      /\ \A i \in 1 .. Len(s) : Append(s, e)[i] = s[i]
      /\ Append(s, e)[Len(s) + 1] = e
  BY AppendProperties, LenProperties
<1>2. \A i \in DOMAIN Append(s, e) : Append(s, e)[i] \in Range(s) \cup {e}
  BY <1>1 DEF Range
<1>3. \A i \in DOMAIN s : s[i] \in Range(Append(s, e))
  BY <1>1 DEF Range
<1>4. e \in Range(Append(s, e))
  BY <1>1 DEF Range
<1>5. QED
  BY <1>2, <1>3, <1>4 DEF Range

\* A decision keeps, stores or removes the row in hand, and handles no event.
LEMMA DecisionStep ==
    ASSUME TypeInv, Decision
    PROVE  /\ db'.inbox = db.inbox
           /\ \E journal, row, instr :
                 /\ InHand(journal, row, instr)
                 /\ \/ journal = db.journal /\ row = pass.row
                    \/ journal = Stored(row)
                    \/ journal = Removed
<1>1. pass.phase = "record" /\ disk' = disk
  BY DEF Decision, ProcessCancelled, AwaitAnswer, AwaitRefresh, Schedule, AwaitResult,
         ScheduleRequest, ScheduleIssue, ScheduleObsolete, ScheduleImmediate,
         ScheduleRemoved, Schedulable, Undecided
<1>2. CASE ProcessCancelled \/ ScheduleObsolete
  <2>1. \E instr : Decide(instr, pass.row) /\ db' = [db EXCEPT !.journal = Removed]
    BY <1>2 DEF ProcessCancelled, ScheduleObsolete
  <2>2. QED
    BY <1>1, <2>1, DecideInHand
<1>3. CASE ScheduleRemoved \/ AwaitResult \/ (AwaitRefresh /\ db' = db /\ pass'.row = pass.row)
  <2>1. \E instr : Decide(instr, pass.row) /\ db' = db
    <3>1. CASE ScheduleRemoved \/ AwaitResult
      BY <3>1 DEF ScheduleRemoved, AwaitResult
    <3>2. CASE AwaitRefresh /\ db' = db /\ pass'.row = pass.row
      <4>1. PICK instr, row : Decide(instr, row)
        BY <3>2 DEF AwaitRefresh
      <4>2. row = pass.row
        BY <3>2, <4>1 DEF Decide, TypeInv, TypeOK, PassOK, Idle
      <4>3. QED
        BY <3>2, <4>1, <4>2
    <3>3. QED
      BY <1>3, <3>1, <3>2
  <2>2. QED
    BY <1>1, <2>1, KeepInHand
<1>4. ASSUME NEW row, NEW instr, Decide(instr, row), db' = [db EXCEPT !.journal = Stored(row)]
      PROVE  /\ db'.inbox = db.inbox
             /\ InHand(Stored(row), row, instr)
  BY <1>1, <1>4, DecideInHand
<1>5. CASE AwaitAnswer \/ ScheduleRequest \/ ScheduleIssue \/ ScheduleImmediate
  <2>1. \E row, instr : Decide(instr, row) /\ db' = [db EXCEPT !.journal = Stored(row)]
    BY <1>5 DEF AwaitAnswer, ScheduleRequest, ScheduleIssue, ScheduleImmediate
  <2>2. QED
    BY <1>4, <2>1
<1>6. CASE AwaitRefresh /\ ~(db' = db /\ pass'.row = pass.row)
  <2>1. \/ \E row, instr : Decide(instr, row) /\ db' = [db EXCEPT !.journal = Stored(row)]
        \/ Decide("sideline", pass.row) /\ db' = db
    BY <1>6 DEF AwaitRefresh
  <2>2. QED
    BY <1>1, <1>4, <2>1, KeepInHand
<1>7. QED
  BY <1>2, <1>3, <1>5, <1>6 DEF Decision, Schedule

\* Handling an event, too.
LEMMA HandleEventStep ==
    ASSUME TypeInv, HandleEvent
    PROVE  \E journal, row, instr :
              /\ InHand(journal, row, instr)
              /\ \/ journal = db.journal /\ row = pass.row
                 \/ journal = Stored(row)
                 \/ journal = Removed
<1>1. PICK i \in Pending : pass.phase = "record" /\ (HandleResponse(i) \/ HandleAnswer(i))
  BY DEF HandleEvent
<1>2. disk' = disk
  BY <1>1 DEF HandleResponse, HandleAnswer
<1>3. \E journal, row, next :
         /\ Handled(i, journal, row, next)
         /\ \/ journal = db.journal /\ row = pass.row
            \/ journal = Stored(row)
            \/ journal = Removed
  <2>1. CASE HandleResponse(i)
    <3>1. PICK o : IF o.state = "removed"
                   THEN Handled(i, Removed, pass.row, o.next)
                   ELSE LET row == Transition(pass.row, o.state, o.wait)
                        IN  Handled(i, Stored(row), row, o.next)
      BY <2>1 DEF HandleResponse
    <3>2. QED
      BY <3>1
  <2>2. CASE HandleAnswer(i)
    BY <2>2 DEF HandleAnswer, Choices
  <2>3. QED
    BY <1>1, <2>1, <2>2
<1>4. QED
  BY <1>1, <1>2, <1>3, HandledInHand


-----------------------------------------------------------------------------
(* Results *)

\* A record in hand that is still in the journal is as the journal has it.
RowCurrent == pass.phase = "record" /\ InJournal => pass.row = db.journal[pass.at]

LEMMA RowCurrentStep == TypeInv /\ RowCurrent /\ [Next]_vars => RowCurrent'
<1> SUFFICES ASSUME TypeInv, RowCurrent, [Next]_vars
             PROVE  RowCurrent'
  OBVIOUS
<1>1. CASE Around
  BY <1>1, AroundStep DEF RowCurrent, InJournal
<1>2. CASE \E a \in Actions : Submit(a) \/ SubmitEnds(a)
  BY <1>2, SubmitStep DEF RowCurrent
<1>3. CASE Crash
  BY <1>3 DEF Crash, Idle, RowCurrent
<1>4. CASE BeginPass
  BY <1>4, BeginPassStep DEF RowCurrent
<1>5. CASE Walk
  BY <1>5, WalkStep DEF RowCurrent
<1>6. CASE GoOn
  BY <1>6, GoOnStep DEF RowCurrent
<1>7. CASE Decision \/ HandleEvent
  <2>1. PICK journal, row, instr :
           /\ InHand(journal, row, instr)
           /\ \/ journal = db.journal /\ row = pass.row
              \/ journal = Stored(row)
              \/ journal = Removed
    BY <1>7, DecisionStep, HandleEventStep
  <2>2. /\ pass.phase = "record" /\ pass'.at = pass.at /\ pass'.row = row
        /\ db'.journal = journal
    BY <2>1 DEF InHand
  <2>3. CASE journal = db.journal /\ row = pass.row
    BY <2>2, <2>3 DEF RowCurrent, InJournal
  <2>4. CASE journal = Stored(row)
    BY <2>2, <2>4, StoredRows DEF RowCurrent, InJournal
  <2>5. CASE journal = Removed
    BY <2>2, <2>5, RemovedRows DEF RowCurrent, InJournal
  <2>6. QED
    BY <2>1, <2>3, <2>4, <2>5
<1>8. QED
  BY StepKinds, <1>1, <1>2, <1>3, <1>4, <1>5, <1>6, <1>7

IsResponse(e) == e.what \notin Choices

\* The events that a database will get to see, if no others are queued.
Mail(d) == Range(d.inbox) \cup Range(queue)

\* Only a record that is to be scheduled again waits for metadata.
RefreshReady(d) ==
    \A r \in DOMAIN d.journal : d.journal[r].wait = "refresh" => d.journal[r].state = "ready"

Awaited(d) ==
    \A r \in DOMAIN d.journal :
        InProgress(d, r) /\ d.journal[r].wait = "none" =>
            \/ \E q \in requests : q.record = r
            \/ \E e \in Mail(d) : e.record = r /\ IsResponse(e)

ComingInv ==
    /\ TypeInv
    /\ RowCurrent
    /\ RefreshReady(db) /\ RefreshReady(disk)
    /\ Awaited(db) /\ Awaited(disk)

\* No answer of the user is mistaken for a response.
LEMMA ResponsesApart == ASSUME NEW class PROVE Responses(class) \cap Choices = {}
  BY DEF Responses, Choices

\* A step that sends no request, loses no request without a response and
\* leaves the databases alone.
LEMMA AroundMail ==
    ASSUME TypeInv, Around
    PROVE  /\ Range(queue) \subseteq Range(queue')
           /\ \A q \in requests \ requests' :
                 \E e \in Range(queue') : e.record = q.record /\ IsResponse(e)
<1>1. queue \in Seq(EventRecords)
  BY DEF TypeInv, TypeOK
<1>2. ASSUME NEW q \in requests, Respond(q)
      PROVE  /\ Range(queue) \subseteq Range(queue')
             /\ requests' = requests \ {q}
             /\ \E e \in Range(queue') : e.record = q.record /\ IsResponse(e)
  <2>1. PICK what \in Responses(q.class) : queue' = Append(queue, Event(q.record, what, 0))
    BY <1>2 DEF Respond
  <2> DEFINE e == Event(q.record, what, 0)
  <2>2. e \in EventRecords
    BY DEF Event, EventRecords, Answers, TypeInv, TypeOK, Requests
  <2>3. Range(queue') = Range(queue) \cup {e}
    BY <1>1, <2>1, <2>2, AppendRange
  <2>4. e.record = q.record /\ IsResponse(e)
    BY ResponsesApart DEF Event, IsResponse
  <2>5. QED
    BY <1>2, <2>3, <2>4 DEF Respond
<1>3. ASSUME NEW p \in prompts, Answer(p)
      PROVE  Range(queue) \subseteq Range(queue') /\ requests' = requests
  <2>1. PICK choice \in Choices : queue' = Append(queue, Event(p.record, choice, p.issue))
    BY <1>3 DEF Answer
  <2>2. Event(p.record, choice, p.issue) \in EventRecords
    BY DEF Event, EventRecords, Answers, TypeInv, TypeOK, Prompts
  <2>3. QED
    BY <1>1, <1>3, <2>1, <2>2, AppendRange DEF Answer
<1>4. CASE \/ \E r \in DOMAIN disk.journal : Cancel(r) \/ Elapse(r)
           \/ GoOffline
           \/ GoOnline
           \/ UNCHANGED vars
  BY <1>4 DEF Cancel, Elapse, GoOffline, GoOnline, vars, outside
<1>5. QED
  BY <1>2, <1>3, <1>4 DEF Around

\* What the actions make of a response to their requests.
LEMMA ResultsWait ==
    ASSUME NEW class, NEW response, NEW o \in Results(class, response)
    PROVE  /\ o.wait = "refresh" => o.state = "ready"
           /\ o.state = "processing" => o.wait = "issue"
  BY DEF Results, CreateFolderResults, UpdateResults, DeleteResults, UploadResults,
         CopyMoveResults, DownloadResults, Outcome, Done, Ask

\* What a decision does to what a record waits for.
LEMMA DecisionAwaited ==
    ASSUME ComingInv, Decision
    PROVE  /\ requests \subseteq requests' /\ queue' = queue
           /\ \/ db'.journal = db.journal
              \/ db'.journal = Removed
              \/ \E row :
                    /\ db'.journal = Stored(row)
                    /\ row.wait = "refresh" => row.state = "ready"
                    /\ row.state = "processing" /\ row.wait = "none" =>
                          \E q \in requests' : q.record = pass.at
<1>0. TypeInv /\ DatabaseOK(db) /\ pass.phase = "record" /\ pass.row \in Rows
  BY DEF ComingInv, TypeInv, TypeOK, RowInHand, Decision, ProcessCancelled, AwaitAnswer,
         AwaitRefresh, Schedule, AwaitResult, ScheduleRequest, ScheduleIssue,
         ScheduleObsolete, ScheduleImmediate, ScheduleRemoved, Schedulable, Undecided
<1>1. requests \subseteq requests' /\ queue' = queue
  BY DEF Decision, ProcessCancelled, AwaitAnswer, AwaitRefresh, Schedule, AwaitResult,
         ScheduleRequest, ScheduleIssue, ScheduleObsolete, ScheduleImmediate,
         ScheduleRemoved, outside
<1>2. CASE ProcessCancelled \/ ScheduleObsolete
  BY <1>0, <1>1, <1>2 DEF ProcessCancelled, ScheduleObsolete, DatabaseOK
<1>3. CASE ScheduleRemoved \/ AwaitResult
  BY <1>1, <1>3 DEF ScheduleRemoved, AwaitResult
<1>4. CASE AwaitAnswer
  <2> DEFINE row == [pass.row EXCEPT !.prompted = crashes + 1]
  <2>1. row.wait = "issue"
    BY <1>0, <1>4 DEF AwaitAnswer, Rows
  <2>2. db'.journal = Stored(row)
    BY <1>0, <1>4 DEF AwaitAnswer, DatabaseOK
  <2> HIDE DEF row
  <2>3. QED
    BY <1>1, <2>1, <2>2
<1>5. CASE AwaitRefresh
  <2> DEFINE row == [pass.row EXCEPT !.wait = "none"]
  <2>1. db' = db \/ db'.journal = Stored(row)
    BY <1>0, <1>5 DEF AwaitRefresh, DatabaseOK
  <2>2. CASE ~InJournal
    BY <1>1, <2>1, <2>2 DEF Stored
  <2>3. CASE InJournal
    <3>1. pass.row.state = "ready"
      BY <1>0, <1>5, <2>3 DEF AwaitRefresh, ComingInv, RowCurrent, RefreshReady, InJournal
    <3>2. row.wait = "none" /\ row.state = "ready"
      BY <1>0, <3>1 DEF Rows
    <3> HIDE DEF row
    <3>3. QED
      BY <1>1, <2>1, <3>2
  <2>4. QED
    BY <2>2, <2>3
<1>6. CASE ScheduleRequest
  <2> DEFINE row == [pass.row EXCEPT !.state = "processing", !.attempt = @ + 1]
  <2>1. row.wait = "none"
    BY <1>0, <1>6 DEF ScheduleRequest, Schedulable, Rows
  <2> DEFINE q == [record |-> pass.at, class |-> ClassOf[row.action],
                   attempt |-> row.attempt, epoch |-> crashes]
  <2>2. requests' = requests \cup {q} /\ q.record = pass.at
    BY <1>6 DEF ScheduleRequest
  <2>3. db'.journal = Stored(row)
    BY <1>0, <1>6 DEF ScheduleRequest, DatabaseOK
  <2> HIDE DEF row, q
  <2>4. QED
    BY <1>1, <2>1, <2>2, <2>3
<1>7. CASE ScheduleIssue
  <2>1. PICK state : db' = [db EXCEPT !.journal =
                               Stored([Transition(pass.row, state, "issue") EXCEPT !.attempt = @ + 1])]
    BY <1>7 DEF ScheduleIssue
  <2> DEFINE row == [Transition(pass.row, state, "issue") EXCEPT !.attempt = @ + 1]
  <2>2. row.wait = "issue"
    BY <1>0 DEF Transition, Rows
  <2>3. db'.journal = Stored(row)
    BY <1>0, <2>1 DEF DatabaseOK
  <2> HIDE DEF row
  <2>4. QED
    BY <1>1, <2>2, <2>3
<1>8. CASE ScheduleImmediate
  <2> DEFINE row == [pass.row EXCEPT !.state = "completed", !.attempt = @ + 1]
  <2>1. row.state = "completed" /\ row.wait = "none"
    BY <1>0, <1>8 DEF ScheduleImmediate, Schedulable, Rows
  <2>2. db'.journal = Stored(row)
    BY <1>0, <1>8 DEF ScheduleImmediate, DatabaseOK
  <2> HIDE DEF row
  <2>3. QED
    BY <1>1, <2>1, <2>2
<1>9. QED
  BY <1>2, <1>3, <1>4, <1>5, <1>6, <1>7, <1>8 DEF Decision, Schedule


\* An event of the record in hand leaves the inbox; the others stay.
LEMMA InboxWithout ==
    ASSUME TypeInv, NEW i \in Pending, db'.inbox = Without(db.inbox, i)
    PROVE  /\ db.inbox[i] \in Range(db.inbox) /\ db.inbox[i].record = pass.at
           /\ Range(db'.inbox) \subseteq Range(db.inbox)
           /\ Range(db.inbox) \ {db.inbox[i]} \subseteq Range(db'.inbox)
<1>1. i \in DOMAIN db.inbox /\ db.inbox[i].record = pass.at
  BY DEF Pending, ForRecord
<1>2. db.inbox \in Seq(EventRecords)
  BY DEF TypeInv, TypeOK, DatabaseOK
<1>3. db.inbox[i] \in Range(db.inbox)
  BY <1>1 DEF Range
<1>4. QED
  BY <1>1, <1>2, <1>3, WithoutRange

\* What an event does to what a record waits for.
LEMMA HandleEventAwaited ==
    ASSUME TypeInv, HandleEvent
    PROVE  /\ requests' = requests /\ queue' = queue
           /\ \E e \in Range(db.inbox) :
                 /\ Range(db.inbox) \ {e} \subseteq Range(db'.inbox)
                 /\ e.record = pass.at
                 /\ \/ db'.journal = db.journal /\ ~IsResponse(e)
                    \/ db'.journal = Removed
                    \/ \E row :
                          /\ db'.journal = Stored(row)
                          /\ row.wait = "refresh" => row.state = "ready"
                          /\ ~(row.state = "processing" /\ row.wait = "none")
<1>1. PICK i \in Pending : pass.phase = "record" /\ (HandleResponse(i) \/ HandleAnswer(i))
  BY DEF HandleEvent
<1>2. requests' = requests /\ queue' = queue /\ disk' = disk /\ pass.row \in Rows
  BY <1>1 DEF HandleResponse, HandleAnswer, outside, TypeInv, RowInHand
<1>3. ASSUME NEW journal, NEW row, NEW next, Handled(i, journal, row, next)
      PROVE  /\ db'.journal = journal
             /\ db.inbox[i] \in Range(db.inbox)
             /\ Range(db.inbox) \ {db.inbox[i]} \subseteq Range(db'.inbox)
             /\ db.inbox[i].record = pass.at
  BY <1>1, <1>2, <1>3, HandledInHand, InboxWithout DEF InHand
<1>4. CASE HandleResponse(i)
  <2>1. PICK o \in Results(ClassOf[pass.row.action], db.inbox[i].what) :
           IF o.state = "removed"
           THEN Handled(i, Removed, pass.row, o.next)
           ELSE LET row == Transition(pass.row, o.state, o.wait)
                IN  Handled(i, Stored(row), row, o.next)
    BY <1>4 DEF HandleResponse
  <2>2. CASE o.state = "removed"
    BY <1>2, <1>3, <2>1, <2>2
  <2>3. CASE o.state # "removed"
    <3> DEFINE row == Transition(pass.row, o.state, o.wait)
    <3>1. row.state = o.state /\ row.wait = o.wait
      BY <1>2 DEF Transition, Rows
    <3>2. (o.wait = "refresh" => o.state = "ready") /\ (o.state = "processing" => o.wait = "issue")
      BY ResultsWait
    <3>3. Handled(i, Stored(row), row, o.next)
      BY <2>1, <2>3
    <3> HIDE DEF row
    <3>4. QED
      BY <1>2, <1>3, <3>1, <3>2, <3>3
  <2>4. QED
    BY <2>2, <2>3
<1>5. CASE HandleAnswer(i)
  <2> DEFINE resolved == [pass.row EXCEPT !.wait = "none", !.issue = 0, !.prompted = 0]
             ready == [resolved EXCEPT !.state = "ready"]
  <2>1. ready.state = "ready"
    BY <1>2 DEF Rows
  <2>2. \/ Handled(i, db.journal, pass.row, "none")
        \/ Handled(i, Removed, resolved, "none")
        \/ Handled(i, Stored(ready), ready, "none")
    BY <1>5 DEF HandleAnswer, Choices
  <2>3. ~IsResponse(db.inbox[i])
    BY <1>5 DEF HandleAnswer, IsResponse
  <2> HIDE DEF resolved, ready
  <2>4. QED
    BY <1>2, <1>3, <2>1, <2>2, <2>3
<1>6. QED
  BY <1>1, <1>4, <1>5

\* Every step keeps the invariant.
LEMMA ComingStep == ComingInv /\ [Next]_vars => ComingInv'
<1> SUFFICES ASSUME ComingInv, [Next]_vars
             PROVE  /\ RefreshReady(db') /\ RefreshReady(disk')
                    /\ Awaited(db)' /\ Awaited(disk)'
  BY TypeInvStep, RowCurrentStep DEF ComingInv, RefreshReady
<1>0. /\ TypeInv /\ db.inbox \in Seq(EventRecords) /\ queue \in Seq(EventRecords)
      /\ RefreshReady(db) /\ RefreshReady(disk) /\ Awaited(db) /\ Awaited(disk)
  BY DEF ComingInv, TypeInv, TypeOK, DatabaseOK
<1>1. CASE Around
  <2>1. db' = db /\ disk' = disk
    BY <1>1, AroundStep
  <2>2. Awaited(db)'
    BY <1>0, <1>1, <2>1, AroundMail DEF Awaited, InProgress, Mail
  <2>3. Awaited(disk)'
    BY <1>0, <1>1, <2>1, AroundMail DEF Awaited, InProgress, Mail
  <2>4. QED
    BY <1>0, <2>1, <2>2, <2>3
<1>2. CASE \E a \in Actions : Submit(a) \/ SubmitEnds(a)
  <2>1. PICK a \in Actions : Submit(a) \/ SubmitEnds(a)
    BY <1>2
  <2>2. /\ disk' = db'
        /\ Mail(db) \subseteq Mail(db)'
        /\ requests' = requests
        /\ DOMAIN db.journal \subseteq DOMAIN db'.journal
        /\ \A r \in DOMAIN db.journal : db'.journal[r] = db.journal[r]
    BY <1>0, <2>1, SubmitStep DEF outside, Mail
  <2>3. ASSUME NEW r \in DOMAIN db'.journal \ DOMAIN db.journal
        PROVE  db'.journal[r].state = "ready" /\ db'.journal[r].wait = "none"
    <3>1. r = db.nextRecord /\ \E l : db'.journal[r] = NewRow(a, l)
      BY <1>0, <2>1, <2>3, SubmitStep
    <3>2. QED
      BY <3>1 DEF NewRow
  <2>4. RefreshReady(db') /\ Awaited(db)'
    BY <1>0, <2>2, <2>3 DEF RefreshReady, Awaited, InProgress
  <2>5. QED
    BY <2>2, <2>4 DEF Awaited, Mail
<1>3. CASE Crash
  BY <1>0, <1>3 DEF Crash, Awaited, Mail
<1>4. CASE BeginPass
  <2>1. Mail(db)' = Mail(db)
    <3>1. Range(db.inbox \o queue) = Range(db.inbox) \cup Range(queue)
      BY <1>0, ConcatRange
    <3>2. Range(<<>>) = {}
      BY DEF Range
    <3>3. QED
      BY <1>0, <1>4, <3>1, <3>2, BeginPassStep DEF Mail
  <2>2. RefreshReady(db') /\ Awaited(db)'
    BY <1>0, <1>4, <2>1, BeginPassStep DEF RefreshReady, Awaited, InProgress
  <2>3. QED
    BY <1>0, <1>4, <2>2, BeginPassStep DEF Awaited, Mail
<1>5. CASE Walk \/ GoOn
  <2>1. /\ queue' = queue /\ requests' = requests /\ disk' \in {disk, db}
        /\ disk' = disk \/ db' = db
        /\ db'.inbox = db.inbox
        /\ db'.journal \in {db.journal, Removed}
    BY <1>0, <1>5, WalkStep, GoOnStep DEF outside
  <2>2. /\ DOMAIN db'.journal \subseteq DOMAIN db.journal
        /\ \A r \in DOMAIN db'.journal : db'.journal[r] = db.journal[r]
    BY <2>1, RemovedRows
  <2>3. RefreshReady(db') /\ Awaited(db)'
    BY <1>0, <2>1, <2>2 DEF RefreshReady, Awaited, InProgress, Mail
  <2>4. RefreshReady(disk') /\ Awaited(disk)'
    BY <1>0, <2>1, <2>3 DEF RefreshReady, Awaited, InProgress, Mail
  <2>5. QED
    BY <2>3, <2>4
<1>6. CASE Decision
  <2>1. db'.inbox = db.inbox /\ disk' = disk /\ requests \subseteq requests' /\ queue' = queue
    BY <1>0, <1>6, DecisionStep, DecisionAwaited DEF InHand
  <2>2. Mail(db)' = Mail(db) /\ Mail(disk)' = Mail(disk)
    BY <2>1 DEF Mail
  <2>3. RefreshReady(disk') /\ Awaited(disk)'
    BY <1>0, <2>1, <2>2 DEF Awaited, InProgress
  <2>4. RefreshReady(db') /\ Awaited(db)'
    <3>1. CASE db'.journal = db.journal
      BY <1>0, <2>1, <2>2, <3>1 DEF RefreshReady, Awaited, InProgress
    <3>2. CASE db'.journal = Removed
      BY <1>0, <2>1, <2>2, <3>2, RemovedRows DEF RefreshReady, Awaited, InProgress
    <3>3. CASE \E row : /\ db'.journal = Stored(row)
                        /\ row.wait = "refresh" => row.state = "ready"
                        /\ row.state = "processing" /\ row.wait = "none" =>
                              \E q \in requests' : q.record = pass.at
      <4>1. PICK row : /\ db'.journal = Stored(row)
                       /\ row.wait = "refresh" => row.state = "ready"
                       /\ row.state = "processing" /\ row.wait = "none" =>
                             \E q \in requests' : q.record = pass.at
        BY <3>3
      <4>2. /\ DOMAIN db'.journal = DOMAIN db.journal
            /\ \A r \in DOMAIN db.journal :
                  db'.journal[r] = IF r = pass.at THEN row ELSE db.journal[r]
        BY <4>1, StoredRows
      <4>3. QED
        BY <1>0, <2>1, <2>2, <4>1, <4>2 DEF RefreshReady, Awaited, InProgress
    <3>4. QED
      BY <1>6, <3>1, <3>2, <3>3, DecisionAwaited
  <2>5. QED
    BY <2>3, <2>4
<1>7. CASE HandleEvent
  <2>1. disk' = disk /\ requests' = requests /\ queue' = queue
    BY <1>0, <1>7, HandleEventStep, HandleEventAwaited DEF InHand
  <2>2. RefreshReady(disk') /\ Awaited(disk)'
    BY <1>0, <2>1 DEF Awaited, InProgress, Mail
  <2>3. PICK e \in Range(db.inbox) :
           /\ Range(db.inbox) \ {e} \subseteq Range(db'.inbox)
           /\ e.record = pass.at
           /\ \/ db'.journal = db.journal /\ ~IsResponse(e)
              \/ db'.journal = Removed
              \/ \E row :
                    /\ db'.journal = Stored(row)
                    /\ row.wait = "refresh" => row.state = "ready"
                    /\ ~(row.state = "processing" /\ row.wait = "none")
    BY <1>0, <1>7, HandleEventAwaited
  <2>4. Mail(db) \ {e} \subseteq Mail(db)'
    BY <2>1, <2>3 DEF Mail
  <2>5. RefreshReady(db') /\ Awaited(db)'
    <3>1. CASE db'.journal = db.journal /\ ~IsResponse(e)
      BY <1>0, <2>1, <2>4, <3>1 DEF RefreshReady, Awaited, InProgress
    <3>2. CASE db'.journal = Removed
      BY <1>0, <2>1, <2>3, <2>4, <3>2, RemovedRows DEF RefreshReady, Awaited, InProgress
    <3>3. CASE \E row : /\ db'.journal = Stored(row)
                        /\ row.wait = "refresh" => row.state = "ready"
                        /\ ~(row.state = "processing" /\ row.wait = "none")
      <4>1. PICK row : /\ db'.journal = Stored(row)
                       /\ row.wait = "refresh" => row.state = "ready"
                       /\ ~(row.state = "processing" /\ row.wait = "none")
        BY <3>3
      <4>2. /\ DOMAIN db'.journal = DOMAIN db.journal
            /\ \A r \in DOMAIN db.journal :
                  db'.journal[r] = IF r = pass.at THEN row ELSE db.journal[r]
        BY <4>1, StoredRows
      <4>3. QED
        BY <1>0, <2>1, <2>3, <2>4, <4>1, <4>2 DEF RefreshReady, Awaited, InProgress
    <3>4. QED
      BY <2>3, <3>1, <3>2, <3>3
  <2>6. QED
    BY <2>2, <2>5
<1>8. QED
  BY StepKinds, <1>1, <1>2, <1>3, <1>4, <1>5, <1>6, <1>7

LEMMA TypeInit == Init => TypeInv
  BY BoundsAssumption
     DEF Init, TypeInv, TypeOK, DatabaseOK, EmptyDatabase, PassOK, Idle, Instructions, RowInHand

\* No record waits for a result that will not come: as long as it is in
\* progress without a wait condition, its request is with the pipeline or its
\* response is queued, through crashes and roll-backs.
THEOREM ResultsCome == Spec => []ResultIsComing
<1>1. Init => ComingInv
  BY TypeInit DEF Init, EmptyDatabase, Idle, ComingInv, RowCurrent, RefreshReady, Awaited
<1>2. ComingInv => ResultIsComing
  <2> SUFFICES ASSUME ComingInv, NEW d \in {db, disk}, NEW r \in DOMAIN d.journal,
                      InProgress(d, r), d.journal[r].wait = "none",
                      ~\E q \in requests : q.record = r
               PROVE  \/ \E i \in DOMAIN queue :
                            queue[i].record = r /\ queue[i].what \notin Choices
                      \/ \E i \in DOMAIN d.inbox :
                            d.inbox[i].record = r /\ d.inbox[i].what \notin Choices
    BY DEF ResultIsComing
  <2>1. PICK e \in Mail(d) : e.record = r /\ IsResponse(e)
    BY DEF ComingInv, Awaited
  <2>2. QED
    BY <2>1 DEF Mail, Range, IsResponse
<1>3. QED
  BY <1>1, <1>2, ComingStep, PTL DEF Spec


-----------------------------------------------------------------------------
(* Issues *)

\* Issue k is about record r: its row waits for it, the user is shown it, or an
\* answer to it is on its way.
WaitsFor(d, r, k) ==
    r \in DOMAIN d.journal /\ d.journal[r].wait = "issue" /\ d.journal[r].issue = k
IsAnswered(mail, r, k) == \E e \in mail : ~IsResponse(e) /\ e.record = r /\ e.issue = k
IsAbout(k, r) ==
    \/ WaitsFor(db, r, k) \/ WaitsFor(disk, r, k)
    \/ \E p \in prompts : p.record = r /\ p.issue = k
    \/ IsAnswered(Mail(db), r, k) \/ IsAnswered(Mail(disk), r, k)

\* An issue has been raised, and is about one record.
IssuesDistinct ==
    /\ \A r, k : IsAbout(k, r) => k \in 1 .. issues
    /\ \A r, s, k : IsAbout(k, r) /\ IsAbout(k, s) => r = s

\* A response is about no issue.
Issueless(mail) == \A e \in mail : IsResponse(e) => e.issue = 0

IssueInv ==
    /\ TypeInv
    /\ RowCurrent
    /\ IssuesDistinct
    /\ Issueless(Mail(db)) /\ Issueless(Mail(disk))

\* The step raises no issue, or a new one about the record in hand.
NoIssueRaised == issues' = issues /\ \A r, k : IsAbout(k, r)' => IsAbout(k, r)
IssueRaised ==
    /\ issues' = issues + 1
    /\ \A r, k : IsAbout(k, r)' => IsAbout(k, r) \/ (k = issues + 1 /\ r = pass.at)

LEMMA RaisingDistinct ==
    ASSUME issues \in Nat, IssuesDistinct, NoIssueRaised \/ IssueRaised
    PROVE  IssuesDistinct'
<1>1. CASE NoIssueRaised
  BY <1>1 DEF NoIssueRaised, IssuesDistinct
<1>2. CASE IssueRaised
  <2>1. ASSUME NEW r, NEW k, IsAbout(k, r)'
        PROVE  k \in 1 .. issues' /\ (k = issues + 1 => r = pass.at) /\ (k # issues + 1 => IsAbout(k, r))
    BY <1>2, <2>1 DEF IssueRaised, IssuesDistinct
  <2>2. QED
    BY <1>2, <2>1 DEF IssueRaised, IssuesDistinct
<1>3. QED
  BY <1>1, <1>2

\* What happens around the engine turns prompts into answers at most.
LEMMA AroundIssues ==
    ASSUME TypeInv, Around
    PROVE  /\ issues' = issues /\ prompts' \subseteq prompts /\ crashes' = crashes
           /\ \A e \in Range(queue') :
                 \/ e \in Range(queue)
                 \/ IsResponse(e) /\ e.issue = 0
                 \/ ~IsResponse(e) /\ \E p \in prompts : p.record = e.record /\ p.issue = e.issue
           /\ \A p \in prompts \ prompts' : \E e \in Range(queue') : e.issue = p.issue
<1>1. queue \in Seq(EventRecords)
  BY DEF TypeInv, TypeOK
<1>2. ASSUME NEW q \in requests, Respond(q)
      PROVE  /\ issues' = issues /\ prompts' = prompts /\ crashes' = crashes
             /\ \A e \in Range(queue') : e \in Range(queue) \/ (IsResponse(e) /\ e.issue = 0)
  <2>1. PICK what \in Responses(q.class) : queue' = Append(queue, Event(q.record, what, 0))
    BY <1>2 DEF Respond
  <2> DEFINE e == Event(q.record, what, 0)
  <2>2. e \in EventRecords
    BY DEF Event, EventRecords, Answers, TypeInv, TypeOK, Requests
  <2>3. Range(queue') = Range(queue) \cup {e}
    BY <1>1, <2>1, <2>2, AppendRange
  <2>4. e.issue = 0 /\ IsResponse(e)
    BY ResponsesApart DEF Event, IsResponse
  <2>5. QED
    BY <1>2, <2>3, <2>4 DEF Respond, world
<1>3. ASSUME NEW p \in prompts, Answer(p)
      PROVE  /\ issues' = issues /\ prompts' = prompts \ {p} /\ crashes' = crashes
             /\ \E e : /\ Range(queue') = Range(queue) \cup {e}
                       /\ ~IsResponse(e) /\ e.record = p.record /\ e.issue = p.issue
  <2>1. PICK choice \in Choices : queue' = Append(queue, Event(p.record, choice, p.issue))
    BY <1>3 DEF Answer
  <2> DEFINE e == Event(p.record, choice, p.issue)
  <2>2. e \in EventRecords
    BY DEF Event, EventRecords, Answers, TypeInv, TypeOK, Prompts
  <2>3. Range(queue') = Range(queue) \cup {e}
    BY <1>1, <2>1, <2>2, AppendRange
  <2>4. ~IsResponse(e) /\ e.record = p.record /\ e.issue = p.issue
    BY DEF Event, IsResponse
  <2>5. QED
    BY <1>3, <2>3, <2>4 DEF Answer, world
<1>4. CASE \/ \E r \in DOMAIN disk.journal : Cancel(r) \/ Elapse(r)
           \/ GoOffline
           \/ GoOnline
           \/ UNCHANGED vars
  BY <1>4 DEF Cancel, Elapse, GoOffline, GoOnline, vars, outside, world
<1>5. QED
  BY <1>2, <1>3, <1>4 DEF Around

\* What a decision does to issues.  A record that is no longer in the journal
\* is neither stored nor prompted for.
LEMMA DecisionIssues ==
    ASSUME IssueInv, Decision
    PROVE  /\ queue' = queue /\ crashes' = crashes /\ prompts \subseteq prompts'
           /\ \/ /\ db'.journal \in {db.journal, Removed}
                 /\ issues' = issues /\ prompts' = prompts
              \/ \E row :
                    /\ InJournal
                    /\ db'.journal = Stored(row)
                    /\ \/ /\ row.wait # "issue" /\ row.prompted = pass.row.prompted
                          /\ issues' = issues /\ prompts' = prompts
                       \/ /\ row.wait = "issue" /\ row.issue = pass.row.issue
                          /\ row.prompted = crashes + 1
                          /\ pass.row.wait = "issue"
                          /\ issues' = issues
                          /\ \A p \in prompts' \ prompts :
                                p.record = pass.at /\ p.issue = row.issue
                          /\ \/ pass.row.prompted = crashes + 1
                             \/ \E p \in prompts' : p.record = pass.at /\ p.issue = row.issue
                       \/ /\ row.wait = "issue" /\ row.issue = issues + 1
                          /\ row.prompted = 0
                          /\ issues' = issues + 1 /\ prompts' = prompts
<1>0. TypeInv /\ DatabaseOK(db) /\ pass.phase = "record" /\ pass.row \in Rows
  BY DEF IssueInv, TypeInv, TypeOK, RowInHand, Decision, ProcessCancelled, AwaitAnswer,
         AwaitRefresh, Schedule, AwaitResult, ScheduleRequest, ScheduleIssue,
         ScheduleObsolete, ScheduleImmediate, ScheduleRemoved, Schedulable, Undecided
<1>1. prompts \subseteq prompts' /\ queue' = queue /\ crashes' = crashes
  BY DEF Decision, ProcessCancelled, AwaitAnswer, AwaitRefresh, Schedule, AwaitResult,
         ScheduleRequest, ScheduleIssue, ScheduleObsolete, ScheduleImmediate,
         ScheduleRemoved, outside, world
<1>2. CASE ProcessCancelled \/ ScheduleObsolete
  BY <1>0, <1>1, <1>2 DEF ProcessCancelled, ScheduleObsolete, DatabaseOK, outside
<1>3. CASE ScheduleRemoved \/ AwaitResult
  BY <1>1, <1>3 DEF ScheduleRemoved, AwaitResult, outside
<1>4. CASE AwaitAnswer
  <2> DEFINE row == [pass.row EXCEPT !.prompted = crashes + 1]
             prompt == [record |-> pass.at, issue |-> row.issue,
                        retry |-> OffersRetry(ClassOf[row.action])]
  <2>1. /\ row.wait = "issue" /\ row.issue = pass.row.issue /\ row.prompted = crashes + 1
        /\ pass.row.wait = "issue"
    BY <1>0, <1>4 DEF AwaitAnswer, Rows
  <2>2. db'.journal = Stored(row) /\ issues' = issues
    BY <1>0, <1>4 DEF AwaitAnswer, DatabaseOK
  <2>3. prompts' = IF pass.row.prompted = crashes + 1 \/ ~InJournal
                   THEN prompts ELSE prompts \cup {prompt}
    BY <1>4 DEF AwaitAnswer
  <2>4. prompt.record = pass.at /\ prompt.issue = row.issue
    OBVIOUS
  <2> HIDE DEF row, prompt
  <2>5. CASE InJournal
    BY <1>1, <2>1, <2>2, <2>3, <2>4, <2>5
  <2>6. CASE ~InJournal
    BY <1>1, <2>2, <2>3, <2>6 DEF Stored
  <2>7. QED
    BY <2>5, <2>6
<1>5. CASE AwaitRefresh
  <2> DEFINE row == [pass.row EXCEPT !.wait = "none"]
  <2>1. row.wait = "none" /\ row.prompted = pass.row.prompted
    BY <1>0 DEF Rows
  <2>2. (db' = db \/ db'.journal = Stored(row)) /\ issues' = issues /\ prompts' = prompts
    BY <1>0, <1>5 DEF AwaitRefresh, DatabaseOK, outside
  <2> HIDE DEF row
  <2>3. QED
    BY <1>1, <2>1, <2>2 DEF Stored
<1>6. CASE ScheduleRequest \/ ScheduleImmediate
  <2>1. PICK state : db' = [db EXCEPT !.journal =
                               Stored([pass.row EXCEPT !.state = state, !.attempt = @ + 1])]
    BY <1>6 DEF ScheduleRequest, ScheduleImmediate
  <2> DEFINE row == [pass.row EXCEPT !.state = state, !.attempt = @ + 1]
  <2>2. row.wait = "none" /\ row.prompted = pass.row.prompted
    BY <1>0, <1>6 DEF ScheduleRequest, ScheduleImmediate, Schedulable, Rows
  <2>3. db'.journal = Stored(row)
    BY <1>0, <2>1 DEF DatabaseOK
  <2>4. issues' = issues /\ prompts' = prompts /\ InJournal
    BY <1>6 DEF ScheduleRequest, ScheduleImmediate, outside
  <2> HIDE DEF row
  <2>5. QED
    BY <1>1, <2>2, <2>3, <2>4
<1>7. CASE ScheduleIssue
  <2>1. PICK state : db' = [db EXCEPT !.journal =
                               Stored([Transition(pass.row, state, "issue") EXCEPT !.attempt = @ + 1])]
    BY <1>7 DEF ScheduleIssue
  <2> DEFINE row == [Transition(pass.row, state, "issue") EXCEPT !.attempt = @ + 1]
  <2>2. row.wait = "issue" /\ row.issue = issues + 1 /\ row.prompted = 0
    BY <1>0 DEF Transition, Rows
  <2>3. db'.journal = Stored(row)
    BY <1>0, <2>1 DEF DatabaseOK
  <2>4. issues' = issues + 1 /\ prompts' = prompts /\ InJournal
    BY <1>7 DEF ScheduleIssue, RaisesIssue
  <2> HIDE DEF row
  <2>5. QED
    BY <1>1, <2>2, <2>3, <2>4
<1>8. QED
  BY <1>2, <1>3, <1>4, <1>5, <1>6, <1>7 DEF Decision, Schedule

\* What an event does to issues.
LEMMA HandleEventIssues ==
    ASSUME TypeInv, HandleEvent
    PROVE  /\ queue' = queue /\ crashes' = crashes /\ prompts' = prompts
           /\ Range(db'.inbox) \subseteq Range(db.inbox)
           /\ issues' \in {issues, issues + 1}
           /\ \E e \in Range(db.inbox) :
                 /\ Range(db.inbox) \ {e} \subseteq Range(db'.inbox)
                 /\ e.record = pass.at
                 /\ \/ /\ db'.journal = db.journal /\ ~IsResponse(e)
                       /\ ~(pass.row.wait = "issue" /\ pass.row.issue = e.issue)
                    \/ db'.journal = Removed
                    \/ \E row :
                          /\ db'.journal = Stored(row)
                          /\ row.prompted = 0
                          /\ row.wait = "issue" =>
                                row.issue = issues + 1 /\ issues' = issues + 1
<1>1. PICK i \in Pending : pass.phase = "record" /\ (HandleResponse(i) \/ HandleAnswer(i))
  BY DEF HandleEvent
<1>2. /\ queue' = queue /\ crashes' = crashes /\ prompts' = prompts /\ pass.row \in Rows
      /\ issues' \in {issues, issues + 1} /\ disk' = disk
  BY <1>1 DEF HandleResponse, HandleAnswer, RaisesIssue, outside, world, TypeInv, RowInHand
<1>3. ASSUME NEW journal, NEW row, NEW next, Handled(i, journal, row, next)
      PROVE  /\ db'.journal = journal
             /\ db.inbox[i] \in Range(db.inbox)
             /\ Range(db'.inbox) \subseteq Range(db.inbox)
             /\ Range(db.inbox) \ {db.inbox[i]} \subseteq Range(db'.inbox)
             /\ db.inbox[i].record = pass.at
  BY <1>1, <1>2, <1>3, HandledInHand, InboxWithout DEF InHand
<1>4. CASE HandleResponse(i)
  <2>1. PICK o \in Results(ClassOf[pass.row.action], db.inbox[i].what) :
           /\ IF o.state = "removed"
              THEN Handled(i, Removed, pass.row, o.next)
              ELSE LET row == Transition(pass.row, o.state, o.wait)
                   IN  Handled(i, Stored(row), row, o.next)
           /\ RaisesIssue(o.wait)
    BY <1>4 DEF HandleResponse
  <2>2. CASE o.state = "removed"
    BY <1>2, <1>3, <2>1, <2>2
  <2>3. CASE o.state # "removed"
    <3> DEFINE row == Transition(pass.row, o.state, o.wait)
    <3>1. /\ row.wait = o.wait /\ row.prompted = 0
          /\ o.wait = "issue" => row.issue = issues + 1
      BY <1>2 DEF Transition, Rows
    <3>2. o.wait = "issue" => issues' = issues + 1
      BY <2>1 DEF RaisesIssue
    <3>3. Handled(i, Stored(row), row, o.next)
      BY <2>1, <2>3
    <3> HIDE DEF row
    <3>4. QED
      BY <1>2, <1>3, <3>1, <3>2, <3>3
  <2>4. QED
    BY <2>2, <2>3
<1>5. CASE HandleAnswer(i)
  <2> DEFINE resolved == [pass.row EXCEPT !.wait = "none", !.issue = 0, !.prompted = 0]
             ready == [resolved EXCEPT !.state = "ready"]
             valid == pass.row.wait = "issue" /\ pass.row.issue = db.inbox[i].issue
  <2>1. ready.wait = "none" /\ ready.prompted = 0
    BY <1>2 DEF Rows
  <2>2. \/ ~valid /\ Handled(i, db.journal, pass.row, "none")
        \/ Handled(i, Removed, resolved, "none")
        \/ Handled(i, Stored(ready), ready, "none")
    BY <1>5 DEF HandleAnswer, Choices
  <2>3. ~IsResponse(db.inbox[i])
    BY <1>5 DEF HandleAnswer, IsResponse
  <2> HIDE DEF resolved, ready
  <2>4. QED
    BY <1>2, <1>3, <2>1, <2>2, <2>3
<1>6. QED
  BY <1>1, <1>4, <1>5


\* A step raises at most one issue, about the record in hand.
LEMMA IssueStep == IssueInv /\ [Next]_vars => IssueInv'
<1> SUFFICES ASSUME IssueInv, [Next]_vars
             PROVE  /\ NoIssueRaised \/ IssueRaised
                    /\ Issueless(Mail(db))' /\ Issueless(Mail(disk))'
  BY TypeInvStep, RowCurrentStep, RaisingDistinct DEF IssueInv, TypeInv, TypeOK
<1>0. /\ TypeInv /\ db.inbox \in Seq(EventRecords) /\ queue \in Seq(EventRecords)
      /\ IssuesDistinct /\ Issueless(Mail(db)) /\ Issueless(Mail(disk))
  BY DEF IssueInv, TypeInv, TypeOK, DatabaseOK
<1>1. CASE Around
  <2>1. /\ db' = db /\ disk' = disk /\ issues' = issues /\ prompts' \subseteq prompts
        /\ \A e \in Range(queue') :
              \/ e \in Range(queue)
              \/ IsResponse(e) /\ e.issue = 0
              \/ ~IsResponse(e) /\ \E p \in prompts : p.record = e.record /\ p.issue = e.issue
    BY <1>0, <1>1, AroundStep, AroundIssues
  <2>2. Issueless(Mail(db))' /\ Issueless(Mail(disk))'
    BY <1>0, <2>1 DEF Issueless, Mail
  <2>3. \A r, k : IsAnswered(Mail(db)', r, k) => IsAbout(k, r)
    BY <1>0, <2>1 DEF IsAnswered, IsAbout, Mail
  <2>4. \A r, k : IsAnswered(Mail(disk)', r, k) => IsAbout(k, r)
    BY <1>0, <2>1 DEF IsAnswered, IsAbout, Mail
  <2>5. \A r, k : IsAbout(k, r)' => IsAbout(k, r)
    BY <2>1, <2>3, <2>4 DEF IsAbout, WaitsFor, IsAnswered
  <2>6. QED
    BY <2>1, <2>2, <2>5 DEF NoIssueRaised
<1>2. CASE \E a \in Actions : Submit(a) \/ SubmitEnds(a)
  <2>1. PICK a \in Actions : Submit(a) \/ SubmitEnds(a)
    BY <1>2
  <2>2. /\ disk' = db' /\ db'.inbox = db.inbox
        /\ queue' = queue /\ issues' = issues /\ prompts' = prompts
        /\ \A r \in DOMAIN db.journal : db'.journal[r] = db.journal[r]
    BY <1>0, <2>1, SubmitStep DEF outside
  <2>3. ASSUME NEW r \in DOMAIN db'.journal \ DOMAIN db.journal
        PROVE  db'.journal[r].wait = "none"
    <3>1. r = db.nextRecord /\ \E l : db'.journal[r] = NewRow(a, l)
      BY <1>0, <2>1, <2>3, SubmitStep
    <3>2. QED
      BY <3>1 DEF NewRow
  <2>4. \A r, k : WaitsFor(db', r, k) => WaitsFor(db, r, k)
    BY <2>2, <2>3 DEF WaitsFor
  <2>5. Mail(db)' = Mail(db) /\ Mail(disk)' = Mail(db)
    BY <2>2 DEF Mail
  <2>6. \A r, k : IsAbout(k, r)' => IsAbout(k, r)
    BY <2>2, <2>4, <2>5 DEF IsAbout, WaitsFor, IsAnswered
  <2>7. QED
    BY <1>0, <2>2, <2>5, <2>6 DEF NoIssueRaised, Issueless
<1>3. CASE Crash
  <2>1. /\ db' = disk /\ disk' = disk /\ queue' = queue /\ issues' = issues
        /\ prompts' \subseteq prompts
    BY <1>3 DEF Crash
  <2>2. Mail(db)' = Mail(disk) /\ Mail(disk)' = Mail(disk)
    BY <2>1 DEF Mail
  <2>3. \A r, k : IsAbout(k, r)' => IsAbout(k, r)
    BY <2>1, <2>2 DEF IsAbout, WaitsFor, IsAnswered
  <2>4. QED
    BY <1>0, <2>1, <2>2, <2>3 DEF NoIssueRaised, Issueless
<1>4. CASE BeginPass
  <2>1. Mail(db)' = Mail(db) /\ Mail(disk)' = Mail(db)
    <3>1. Range(db.inbox \o queue) = Range(db.inbox) \cup Range(queue)
      BY <1>0, ConcatRange
    <3>2. Range(<<>>) = {}
      BY DEF Range
    <3>3. QED
      BY <1>0, <1>4, <3>1, <3>2, BeginPassStep DEF Mail
  <2>2. db'.journal = db.journal /\ disk' = db' /\ issues' = issues /\ prompts' = prompts
    BY <1>0, <1>4, BeginPassStep
  <2>3. \A r, k : IsAbout(k, r)' => IsAbout(k, r)
    BY <2>1, <2>2 DEF IsAbout, WaitsFor, IsAnswered
  <2>4. QED
    BY <1>0, <2>1, <2>2, <2>3 DEF NoIssueRaised, Issueless
<1>5. CASE Walk \/ GoOn
  <2>1. /\ queue' = queue /\ issues' = issues /\ prompts' = prompts
        /\ disk' \in {disk, db} /\ (disk' = disk \/ db' = db)
        /\ db'.inbox = db.inbox
        /\ db'.journal \in {db.journal, Removed}
    BY <1>0, <1>5, WalkStep, GoOnStep DEF outside
  <2>2. Mail(db)' = Mail(db) /\ Mail(disk)' \in {Mail(disk), Mail(db)}
    BY <2>1 DEF Mail
  <2>3. \A r, k : WaitsFor(db', r, k) => WaitsFor(db, r, k)
    BY <2>1, RemovedRows DEF WaitsFor
  <2>4. \A r, k : IsAbout(k, r)' => IsAbout(k, r)
    BY <2>1, <2>2, <2>3 DEF IsAbout, WaitsFor, IsAnswered
  <2>5. QED
    BY <1>0, <2>1, <2>2, <2>4 DEF NoIssueRaised, Issueless
<1>6. CASE Decision
  <2>1. db'.inbox = db.inbox /\ disk' = disk /\ queue' = queue
    BY <1>0, <1>6, DecisionStep, DecisionIssues DEF InHand
  <2>2. Mail(db)' = Mail(db) /\ Mail(disk)' = Mail(disk)
    BY <2>1 DEF Mail
  <2>3. CASE /\ db'.journal \in {db.journal, Removed}
             /\ issues' = issues /\ prompts' = prompts
    <3>1. \A r, k : WaitsFor(db', r, k) => WaitsFor(db, r, k)
      BY <2>3, RemovedRows DEF WaitsFor
    <3>2. \A r, k : IsAbout(k, r)' => IsAbout(k, r)
      BY <2>1, <2>2, <2>3, <3>1 DEF IsAbout, WaitsFor, IsAnswered
    <3>3. QED
      BY <1>0, <2>2, <2>3, <3>2 DEF NoIssueRaised, Issueless
  <2>4. ASSUME NEW row, InJournal, db'.journal = Stored(row), row.wait # "issue",
               issues' = issues, prompts' = prompts
        PROVE  NoIssueRaised
    <3>1. \A r, k : WaitsFor(db', r, k) => WaitsFor(db, r, k)
      BY <2>4, StoredRows DEF WaitsFor
    <3>2. QED
      BY <2>1, <2>2, <2>4, <3>1 DEF NoIssueRaised, IsAbout, WaitsFor, IsAnswered
  <2>5. ASSUME NEW row, InJournal, db'.journal = Stored(row),
               row.wait = "issue", row.issue = pass.row.issue, pass.row.wait = "issue",
               issues' = issues,
               \A p \in prompts' \ prompts : p.record = pass.at /\ p.issue = row.issue
        PROVE  NoIssueRaised
    <3>1. WaitsFor(db, pass.at, row.issue)
      <4>1. pass.phase = "record" /\ pass.row = db.journal[pass.at]
        BY <1>0, <1>6, <2>5, DecisionStep DEF InHand, IssueInv, RowCurrent
      <4>2. QED
        BY <2>5, <4>1 DEF WaitsFor, InJournal
    <3>2. \A r, k : WaitsFor(db', r, k) => WaitsFor(db, r, k)
      BY <2>5, <3>1, StoredRows DEF WaitsFor
    <3>3. \A p \in prompts' : p \in prompts \/ WaitsFor(db, p.record, p.issue)
      BY <2>5, <3>1
    <3>4. QED
      BY <2>1, <2>2, <2>5, <3>2, <3>3 DEF NoIssueRaised, IsAbout, WaitsFor, IsAnswered
  <2>6. ASSUME NEW row, InJournal, db'.journal = Stored(row), row.wait = "issue",
               row.issue = issues + 1, issues' = issues + 1, prompts' = prompts
        PROVE  IssueRaised
    <3>1. \A r, k : WaitsFor(db', r, k) =>
                       WaitsFor(db, r, k) \/ (k = issues + 1 /\ r = pass.at)
      BY <2>6, StoredRows DEF WaitsFor
    <3>2. QED
      BY <2>1, <2>2, <2>6, <3>1 DEF IssueRaised, IsAbout, WaitsFor, IsAnswered
  <2>7. NoIssueRaised \/ IssueRaised
    BY <1>6, <2>3, <2>4, <2>5, <2>6, DecisionIssues
  <2>8. QED
    BY <1>0, <2>2, <2>7 DEF Issueless
<1>7. CASE HandleEvent
  <2>1. /\ disk' = disk /\ queue' = queue /\ prompts' = prompts
        /\ Range(db'.inbox) \subseteq Range(db.inbox)
        /\ issues' \in {issues, issues + 1}
    BY <1>0, <1>7, HandleEventStep, HandleEventIssues DEF InHand
  <2>2. Mail(db)' \subseteq Mail(db) /\ Mail(disk)' = Mail(disk)
    BY <2>1 DEF Mail
  <2>3. CASE db'.journal \in {db.journal, Removed}
    <3>1. \A r, k : WaitsFor(db', r, k) => WaitsFor(db, r, k)
      BY <2>3, RemovedRows DEF WaitsFor
    <3>2. \A r, k : IsAbout(k, r)' => IsAbout(k, r)
      BY <2>1, <2>2, <2>3, <3>1 DEF IsAbout, WaitsFor, IsAnswered
    <3>3. QED
      BY <1>0, <2>1, <2>2, <3>2 DEF NoIssueRaised, IssueRaised, Issueless
  <2>4. ASSUME NEW row, db'.journal = Stored(row),
               row.wait = "issue" => row.issue = issues + 1 /\ issues' = issues + 1
        PROVE  NoIssueRaised \/ IssueRaised
    <3>1. \A r, k : WaitsFor(db', r, k) =>
                       \/ WaitsFor(db, r, k)
                       \/ k = issues + 1 /\ r = pass.at /\ issues' = issues + 1
      BY <2>4, StoredRows DEF WaitsFor
    <3>2. QED
      BY <2>1, <2>2, <3>1 DEF NoIssueRaised, IssueRaised, IsAbout, WaitsFor, IsAnswered
  <2>5. NoIssueRaised \/ IssueRaised
    BY <1>0, <1>7, <2>3, <2>4, HandleEventIssues
  <2>6. QED
    BY <1>0, <2>2, <2>5 DEF Issueless
<1>8. QED
  BY StepKinds, <1>1, <1>2, <1>3, <1>4, <1>5, <1>6, <1>7

\* A prompt counts for the process that showed it.
PromptedBefore(d) == \A r \in DOMAIN d.journal : d.journal[r].prompted <= crashes + 1

\* The same as QuestionIsAsked, for one of the databases.
Asked(d) ==
    \A r \in DOMAIN d.journal :
        LET row == d.journal[r]
        IN  row.wait = "issue" /\ row.prompted = crashes + 1 =>
                \/ \E p \in prompts : p.record = r /\ p.issue = row.issue
                \/ \E e \in Mail(d) : e.issue = row.issue

AskedInv ==
    /\ IssueInv
    /\ PromptedBefore(db) /\ PromptedBefore(disk)
    /\ Asked(db) /\ Asked(disk)

LEMMA AskedStep == AskedInv /\ [Next]_vars => AskedInv'
<1> SUFFICES ASSUME AskedInv, [Next]_vars
             PROVE  /\ PromptedBefore(db)' /\ PromptedBefore(disk)'
                    /\ Asked(db)' /\ Asked(disk)'
  BY IssueStep DEF AskedInv
<1>0. /\ IssueInv /\ TypeInv /\ crashes \in Nat
      /\ db.inbox \in Seq(EventRecords) /\ queue \in Seq(EventRecords)
      /\ \A r \in DOMAIN disk.journal : disk.journal[r].prompted \in Nat
      /\ \A r \in DOMAIN db.journal : db.journal[r].prompted \in Nat
      /\ PromptedBefore(db) /\ PromptedBefore(disk) /\ Asked(db) /\ Asked(disk)
  <2>1. TypeInv /\ DatabaseOK(db) /\ DatabaseOK(disk)
    BY DEF AskedInv, IssueInv, TypeInv, TypeOK
  <2>2. \A d : DatabaseOK(d) => /\ d.inbox \in Seq(EventRecords)
                               /\ \A r \in DOMAIN d.journal : d.journal[r].prompted \in Nat
    BY DEF DatabaseOK, Rows
  <2>3. crashes \in Nat /\ queue \in Seq(EventRecords)
    BY <2>1, BoundsAssumption DEF TypeInv, TypeOK
  <2>4. QED
    BY <2>1, <2>2, <2>3 DEF AskedInv
<1>1. CASE Around
  <2>1. /\ db' = db /\ disk' = disk /\ crashes' = crashes
        /\ \A p \in prompts \ prompts' : \E e \in Range(queue') : e.issue = p.issue
        /\ Range(queue) \subseteq Range(queue')
    BY <1>0, <1>1, AroundStep, AroundIssues, AroundMail
  <2>2. Asked(db)'
    BY <1>0, <2>1 DEF Asked, Mail
  <2>3. Asked(disk)'
    BY <1>0, <2>1 DEF Asked, Mail
  <2>4. QED
    BY <1>0, <2>1, <2>2, <2>3 DEF PromptedBefore
<1>2. CASE \E a \in Actions : Submit(a) \/ SubmitEnds(a)
  <2>1. PICK a \in Actions : Submit(a) \/ SubmitEnds(a)
    BY <1>2
  <2>2. /\ disk' = db' /\ db'.inbox = db.inbox
        /\ queue' = queue /\ prompts' = prompts /\ crashes' = crashes
        /\ \A r \in DOMAIN db.journal : db'.journal[r] = db.journal[r]
    BY <1>0, <2>1, SubmitStep DEF outside, world
  <2>3. ASSUME NEW r \in DOMAIN db'.journal \ DOMAIN db.journal
        PROVE  db'.journal[r].wait = "none" /\ db'.journal[r].prompted = 0
    <3>1. r = db.nextRecord /\ \E l : db'.journal[r] = NewRow(a, l)
      BY <1>0, <2>1, <2>3, SubmitStep
    <3>2. QED
      BY <3>1 DEF NewRow
  <2>4. PromptedBefore(db)' /\ Asked(db)'
    BY <1>0, <2>2, <2>3 DEF PromptedBefore, Asked, Mail
  <2>5. QED
    BY <2>2, <2>4 DEF PromptedBefore, Asked, Mail
<1>3. CASE Crash
  <2>1. db' = disk /\ disk' = disk /\ crashes' = crashes + 1
    BY <1>3 DEF Crash
  <2>2. QED
    BY <1>0, <2>1 DEF PromptedBefore, Asked
<1>4. CASE BeginPass
  <2>1. Mail(db)' = Mail(db)
    <3>1. Range(db.inbox \o queue) = Range(db.inbox) \cup Range(queue)
      BY <1>0, ConcatRange
    <3>2. Range(<<>>) = {}
      BY DEF Range
    <3>3. QED
      BY <1>0, <1>4, <3>1, <3>2, BeginPassStep DEF Mail
  <2>2. db'.journal = db.journal /\ disk' = db' /\ prompts' = prompts /\ crashes' = crashes
    BY <1>0, <1>4, BeginPassStep DEF world
  <2>3. PromptedBefore(db)' /\ Asked(db)'
    BY <1>0, <2>1, <2>2 DEF PromptedBefore, Asked
  <2>4. QED
    BY <2>2, <2>3 DEF PromptedBefore, Asked, Mail
<1>5. CASE Walk \/ GoOn
  <2>1. /\ queue' = queue /\ prompts' = prompts /\ crashes' = crashes
        /\ disk' \in {disk, db} /\ (disk' = disk \/ db' = db)
        /\ db'.inbox = db.inbox
        /\ db'.journal \in {db.journal, Removed}
    BY <1>0, <1>5, WalkStep, GoOnStep DEF outside, world
  <2>2. PromptedBefore(db)' /\ Asked(db)'
    BY <1>0, <2>1, RemovedRows DEF PromptedBefore, Asked, Mail
  <2>3. PromptedBefore(disk)' /\ Asked(disk)'
    BY <1>0, <2>1 DEF PromptedBefore, Asked, Mail
  <2>4. QED
    BY <2>2, <2>3
<1>6. CASE Decision
  <2>1. /\ db'.inbox = db.inbox /\ disk' = disk /\ queue' = queue /\ crashes' = crashes
        /\ prompts \subseteq prompts'
    BY <1>0, <1>6, DecisionStep, DecisionIssues DEF InHand
  <2>2. Mail(db)' = Mail(db) /\ Mail(disk)' = Mail(disk)
    BY <2>1 DEF Mail
  <2>3. PromptedBefore(disk)' /\ Asked(disk)'
    BY <1>0, <2>1, <2>2 DEF PromptedBefore, Asked
  <2>4. CASE db'.journal \in {db.journal, Removed}
    BY <1>0, <2>1, <2>2, <2>3, <2>4, RemovedRows DEF PromptedBefore, Asked
  <2>5. CASE \E row :
                /\ InJournal
                /\ db'.journal = Stored(row)
                /\ \/ row.wait # "issue" /\ row.prompted = pass.row.prompted
                   \/ /\ row.wait = "issue" /\ row.issue = pass.row.issue
                      /\ row.prompted = crashes + 1
                      /\ pass.row.wait = "issue"
                      /\ \/ pass.row.prompted = crashes + 1
                         \/ \E p \in prompts' : p.record = pass.at /\ p.issue = row.issue
                   \/ row.wait = "issue" /\ row.prompted = 0
    <3>1. PICK row :
             /\ InJournal
             /\ db'.journal = Stored(row)
             /\ \/ row.wait # "issue" /\ row.prompted = pass.row.prompted
                \/ /\ row.wait = "issue" /\ row.issue = pass.row.issue
                   /\ row.prompted = crashes + 1
                   /\ pass.row.wait = "issue"
                   /\ \/ pass.row.prompted = crashes + 1
                      \/ \E p \in prompts' : p.record = pass.at /\ p.issue = row.issue
                \/ row.wait = "issue" /\ row.prompted = 0
      BY <2>5
    <3>2. pass.at \in DOMAIN db.journal /\ pass.row = db.journal[pass.at]
      BY <1>0, <1>6, <3>1, DecisionStep DEF InHand, IssueInv, RowCurrent, InJournal
    <3>3. row.prompted <= crashes + 1
      BY <1>0, <3>1, <3>2 DEF PromptedBefore
    <3>4. row.wait = "issue" /\ row.prompted = crashes + 1 =>
             \/ \E p \in prompts' : p.record = pass.at /\ p.issue = row.issue
             \/ \E e \in Mail(db) : e.issue = row.issue
      BY <1>0, <2>1, <3>1, <3>2 DEF Asked
    <3>5. \A r \in DOMAIN db.journal :
             db'.journal[r] = IF r = pass.at THEN row ELSE db.journal[r]
      BY <3>1, StoredRows
    <3>6. DOMAIN db'.journal = DOMAIN db.journal
      BY <3>1, StoredRows
    <3>7. PromptedBefore(db)'
      BY <1>0, <2>1, <3>3, <3>5, <3>6 DEF PromptedBefore
    <3>8. Asked(db)'
      BY <1>0, <2>1, <2>2, <3>4, <3>5, <3>6 DEF Asked
    <3>9. QED
      BY <2>3, <3>7, <3>8
  <2>6. QED
    BY <1>0, <1>6, <2>4, <2>5, DecisionIssues
<1>7. CASE HandleEvent
  <2>1. disk' = disk /\ queue' = queue /\ prompts' = prompts /\ crashes' = crashes
    BY <1>0, <1>7, HandleEventStep, HandleEventIssues DEF InHand
  <2>2. PromptedBefore(disk)' /\ Asked(disk)'
    BY <1>0, <2>1 DEF PromptedBefore, Asked, Mail
  <2>3. PICK e \in Range(db.inbox) :
           /\ Range(db.inbox) \ {e} \subseteq Range(db'.inbox)
           /\ e.record = pass.at
           /\ \/ /\ db'.journal = db.journal /\ ~IsResponse(e)
                 /\ ~(pass.row.wait = "issue" /\ pass.row.issue = e.issue)
              \/ db'.journal = Removed
              \/ \E row : db'.journal = Stored(row) /\ row.prompted = 0
    BY <1>0, <1>7, HandleEventIssues
  <2>4. Mail(db) \ {e} \subseteq Mail(db)' /\ e \in Mail(db)
    BY <2>1, <2>3 DEF Mail
  \* No other record waits for the issue of the event.
  <2>5. ASSUME NEW r \in DOMAIN db.journal, r # pass.at, db.journal[r].wait = "issue"
        PROVE  db.journal[r].issue # e.issue
    <3>1. IsAbout(db.journal[r].issue, r)
      BY <2>5 DEF IsAbout, WaitsFor
    <3>2. CASE IsResponse(e)
      <4>1. e.issue = 0
        BY <1>0, <2>4, <3>2 DEF IssueInv, Issueless
      <4>2. db.journal[r].issue \in 1 .. issues /\ issues \in Nat
        BY <1>0, <3>1 DEF IssueInv, IssuesDistinct, TypeInv, TypeOK
      <4>3. QED
        BY <4>1, <4>2
    <3>3. CASE ~IsResponse(e)
      <4>1. IsAbout(e.issue, pass.at)
        BY <2>3, <2>4, <3>3 DEF IsAbout, IsAnswered
      <4>2. QED
        BY <1>0, <2>5, <3>1, <4>1 DEF IssueInv, IssuesDistinct
    <3>4. QED
      BY <3>2, <3>3
  <2>6. \A r \in DOMAIN db'.journal :
           r \in DOMAIN db.journal /\ (r # pass.at => db'.journal[r] = db.journal[r])
    BY <2>3, RemovedRows, StoredRows
  <2>7. ASSUME pass.at \in DOMAIN db'.journal
        PROVE  \/ db'.journal[pass.at].prompted = 0
               \/ /\ db'.journal[pass.at] = db.journal[pass.at]
                  /\ ~(db.journal[pass.at].wait = "issue" /\ db.journal[pass.at].issue = e.issue)
    <3>1. pass.phase = "record" /\ (InJournal => pass.row = db.journal[pass.at])
      BY <1>0, <1>7 DEF HandleEvent, IssueInv, RowCurrent
    <3>2. InJournal
      BY <2>6, <2>7 DEF InJournal
    <3>3. QED
      BY <2>3, <2>7, <3>1, <3>2, RemovedRows, StoredRows DEF InJournal
  <2>8. PromptedBefore(db)'
    BY <1>0, <2>1, <2>6, <2>7 DEF PromptedBefore
  <2>9. Asked(db)'
    <3> SUFFICES ASSUME NEW r \in DOMAIN db'.journal, db'.journal[r].wait = "issue",
                        db'.journal[r].prompted = crashes + 1
                 PROVE  \/ \E p \in prompts : p.record = r /\ p.issue = db'.journal[r].issue
                        \/ \E f \in Mail(db)' : f.issue = db'.journal[r].issue
      BY <2>1 DEF Asked
    <3>1. /\ db'.journal[r] = db.journal[r] /\ r \in DOMAIN db.journal
          /\ db.journal[r].issue # e.issue
      BY <1>0, <2>5, <2>6, <2>7
    <3>2. \/ \E p \in prompts : p.record = r /\ p.issue = db.journal[r].issue
          \/ \E f \in Mail(db) : f.issue = db.journal[r].issue
      BY <1>0, <3>1 DEF Asked
    <3>3. QED
      BY <2>4, <3>1, <3>2
  <2>10. QED
    BY <2>2, <2>8, <2>9
<1>8. QED
  BY StepKinds, <1>1, <1>2, <1>3, <1>4, <1>5, <1>6, <1>7

\* A record that waits for the user after this process prompted for its issue
\* is never left without the prompt or an answer to it: a restart prompts
\* again, and an answer is not taken by another record.
THEOREM QuestionsAsked == Spec => []QuestionIsAsked
<1>1. Init => AskedInv
  <2>1. Init => RowCurrent
    BY DEF Init, EmptyDatabase, Idle, RowCurrent
  <2>2. Init => Mail(db) = {} /\ Mail(disk) = {}
    BY DEF Init, EmptyDatabase, Mail, Range
  <2>3. Init => \A r, k : ~IsAbout(k, r)
    BY <2>2 DEF Init, EmptyDatabase, IsAbout, WaitsFor, IsAnswered
  <2>4. Init => PromptedBefore(db) /\ PromptedBefore(disk) /\ Asked(db) /\ Asked(disk)
    BY DEF Init, EmptyDatabase, PromptedBefore, Asked
  <2>5. QED
    BY <2>1, <2>2, <2>3, <2>4, TypeInit
       DEF AskedInv, IssueInv, IssuesDistinct, Issueless
<1>2. AskedInv => QuestionIsAsked
  <2> SUFFICES ASSUME AskedInv, NEW r \in DOMAIN disk.journal,
                      disk.journal[r].wait = "issue",
                      disk.journal[r].prompted = crashes + 1,
                      ~\E p \in prompts : p.record = r /\ p.issue = disk.journal[r].issue
               PROVE  \/ \E i \in DOMAIN queue : queue[i].issue = disk.journal[r].issue
                      \/ \E i \in DOMAIN disk.inbox :
                            disk.inbox[i].issue = disk.journal[r].issue
    BY DEF QuestionIsAsked
  <2>1. PICK e \in Mail(disk) : e.issue = disk.journal[r].issue
    BY DEF AskedInv, Asked
  <2>2. QED
    BY <2>1 DEF Mail, Range
<1>3. QED
  BY <1>1, <1>2, AskedStep, PTL DEF Spec


=============================================================================
