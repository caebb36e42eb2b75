-------------------------- MODULE SyncEngine_proofs --------------------------
(***************************************************************************)
(* Theorems about SyncEngine, for any actions, tags, budgets and limits.   *)
(***************************************************************************)
EXTENDS SyncEngine, SequenceTheorems, TLAPS

-----------------------------------------------------------------------------
(* Types *)

\* A record is in hand while it is processed.
RowInHand == pass.phase = "record" => pass.row \in Rows

TypeInv == TypeOK /\ RowInHand

\* The journal and the lanes keep their types when a row is added.
LEMMA AddRowType ==
    ASSUME NEW d, DatabaseOK(d), NEW a \in Actions, NEW l \in Nat
    PROVE  DatabaseOK(AddRow(d, a, l))
<1> DEFINE e == AddRow(d, a, l)
<1>1. NewRow(a, l) \in Rows
  BY DEF NewRow, Rows, RecordStates, Waits
<1>2. /\ DOMAIN e = DOMAIN d
      /\ e.nextRecord = d.nextRecord + 1
      /\ e.nextLane = d.nextLane
      /\ e.lanes = d.lanes
      /\ e.inbox = d.inbox
      /\ DOMAIN e.journal = DOMAIN d.journal \cup {d.nextRecord}
      /\ \A r \in DOMAIN e.journal :
            e.journal[r] = IF r = d.nextRecord THEN NewRow(a, l) ELSE d.journal[r]
  BY DEF DatabaseOK, AddRow
<1>3. QED
  BY <1>1, <1>2 DEF DatabaseOK

\* Likewise when a lane is added.
LEMMA AddLaneType ==
    ASSUME NEW d, DatabaseOK(d), NEW tags \in SUBSET Tags
    PROVE  DatabaseOK(AddLane(d, tags))
<1> DEFINE e == AddLane(d, tags)
<1>1. NewLane(d.lanes, tags) \in Lanes
  BY DEF NewLane, Lanes, Considered, DatabaseOK
<1>2. /\ DOMAIN e = DOMAIN d
      /\ e.nextRecord = d.nextRecord
      /\ e.nextLane = d.nextLane + 1
      /\ e.journal = d.journal
      /\ e.inbox = d.inbox
      /\ DOMAIN e.lanes = DOMAIN d.lanes \cup {d.nextLane}
      /\ \A l \in DOMAIN e.lanes :
            e.lanes[l] = IF l = d.nextLane THEN NewLane(d.lanes, tags) ELSE d.lanes[l]
  BY DEF DatabaseOK, AddLane
<1>3. QED
  BY <1>1, <1>2 DEF DatabaseOK

\* Storing or removing a row keeps the types.
LEMMA JournalType ==
    ASSUME DatabaseOK(db), NEW row \in Rows
    PROVE  /\ DatabaseOK([db EXCEPT !.journal = Stored(row)])
           /\ DatabaseOK([db EXCEPT !.journal = Removed])
<1>1. DatabaseOK([db EXCEPT !.journal = Stored(row)])
  BY DEF DatabaseOK, Stored, InJournal
<1>2. DatabaseOK([db EXCEPT !.journal = Removed])
  BY DEF DatabaseOK, Removed, Restrict
<1>3. QED
  BY <1>1, <1>2

\* What an action makes of a response is of the engine's types.
LEMMA ResultsType ==
    ASSUME NEW class, NEW response, NEW o \in Results(class, response)
    PROVE  /\ o.state \in RecordStates \cup {"removed"}
           /\ o.wait \in Waits
           /\ o.next \in Instructions
  BY DEF Results, CreateFolderResults, UpdateResults, DeleteResults, UploadResults,
         CopyMoveResults, DownloadResults, Outcome, Done, Ask, RecordStates, Waits,
         Instructions

\* So is a record after a transition.
LEMMA TransitionType ==
    ASSUME issues \in Nat, NEW row \in Rows, NEW state \in RecordStates, NEW wait \in Waits
    PROVE  Transition(row, state, wait) \in Rows
<1>1. (IF wait = "issue" THEN issues + 1 ELSE 0) \in Nat
  OBVIOUS
<1>2. QED
  BY <1>1 DEF Transition, Rows

\* Dropping an element of the inbox keeps its type.
LEMMA InboxType ==
    ASSUME NEW s \in Seq(EventRecords), NEW i \in DOMAIN s
    PROVE  SubSeq(s, 1, i - 1) \o SubSeq(s, i + 1, Len(s)) \in Seq(EventRecords)
  BY SubSeqProperties, ConcatProperties

\* Charging the budgets keeps their type.
LEMMA ChargeType ==
    ASSUME PassOK(pass), NEW a, NEW change \in Int
    PROVE  Charge(a, change) \in [Categories -> Int]
  BY DEF Charge, PassOK

\* Leaving a lane keeps the types.
LEMMA LeaveLaneType ==
    ASSUME DatabaseOK(db), PassOK(pass), NEW n \in Int, NEW used \in [Categories -> Int],
           LeaveLane(n, used)
    PROVE  DatabaseOK(db') /\ PassOK(pass') /\ pass'.phase = "lanes"
<1>1. DatabaseOK(db')
  BY DEF LeaveLane, DatabaseOK, Restrict
<1> DEFINE visited == pass.visited + (IF n > 0 THEN 1 ELSE 0)
           enough == n > 0 /\ MaximumSyncLanes # 0 /\ visited > MaximumSyncLanes
           empty == n = 0 /\ RowsOn(db, pass.lane) = {}
           todo == IF enough THEN {} ELSE pass.todo
           active == IF empty THEN pass.active \ {pass.lane} ELSE pass.active
<1>2. pass' = [pass EXCEPT !.phase = "lanes", !.lane = 0, !.at = 0, !.row = NoRow,
                           !.n = 0, !.instr = "none", !.used = used,
                           !.visited = visited, !.todo = todo, !.active = active]
  BY DEF LeaveLane
<1>3. visited \in Nat /\ todo \subseteq Nat /\ active \subseteq Nat
  BY DEF PassOK
<1> HIDE DEF visited, enough, empty, todo, active
<1>4. PassOK(pass') /\ pass'.phase = "lanes"
  <2>1. /\ DOMAIN pass' = DOMAIN pass
        /\ pass'.phase = "lanes" /\ pass'.lane = 0 /\ pass'.at = 0 /\ pass'.row = NoRow
        /\ pass'.n = 0 /\ pass'.instr = "none" /\ pass'.used = used
        /\ pass'.visited = visited /\ pass'.todo = todo /\ pass'.active = active
    BY <1>2 DEF PassOK, Idle
  <2>2. QED
    BY <1>3, <2>1 DEF PassOK, Instructions
<1>5. QED
  BY <1>1, <1>4

\* Deciding what becomes of the record in hand keeps the types.
LEMMA DecideType ==
    ASSUME PassOK(pass), NEW instr \in Instructions, NEW row \in Rows, Decide(instr, row)
    PROVE  PassOK(pass') /\ pass'.row \in Rows
<1>1. /\ DOMAIN pass' = DOMAIN pass
      /\ pass'.instr = instr /\ pass'.row = row
      /\ \A f \in DOMAIN pass \ {"instr", "row"} : pass'[f] = pass[f]
  BY DEF Decide, PassOK, Idle
<1>2. QED
  BY <1>1 DEF PassOK, Idle

\* Handling an event keeps the types.
LEMMA HandledType ==
    ASSUME DatabaseOK(db), PassOK(pass), NEW i \in DOMAIN db.inbox, NEW journal,
           DatabaseOK([db EXCEPT !.journal = journal]),
           NEW row \in Rows, NEW next \in Instructions, Handled(i, journal, row, next)
    PROVE  DatabaseOK(db') /\ PassOK(pass') /\ pass'.row \in Rows
<1>1. DatabaseOK(db')
  <2> DEFINE inbox == SubSeq(db.inbox, 1, i - 1) \o SubSeq(db.inbox, i + 1, Len(db.inbox))
  <2>1. inbox \in Seq(EventRecords)
    BY InboxType DEF DatabaseOK
  <2>2. db' = [db EXCEPT !.inbox = inbox, !.journal = journal]
    BY DEF Handled
  <2> HIDE DEF inbox
  <2>3. QED
    BY <2>1, <2>2 DEF DatabaseOK
<1>2. PassOK(pass') /\ pass'.row \in Rows
  <2> DEFINE instr == IF next = "none" THEN pass.instr ELSE next
  <2>1. instr \in Instructions
    BY DEF PassOK
  <2>2. Decide(instr, row)
    BY DEF Handled, Decide, PassOK, Idle
  <2> HIDE DEF instr
  <2>3. QED
    BY <2>1, <2>2, DecideType
<1>3. QED
  BY <1>1, <1>2

\* Every step keeps the types.  One step per action.
LEMMA TypeInvStep == TypeInv /\ [Next]_vars => TypeInv'
<1> SUFFICES ASSUME TypeInv, [Next]_vars
             PROVE  TypeInv'
  OBVIOUS
<1> USE ActionsAssumption, BoundsAssumption DEF TypeInv
<1>1. ASSUME NEW a \in Actions, Submit(a)
      PROVE  TypeInv'
  <2>1. DatabaseOK(db')
    <3>1. CASE \E l \in DOMAIN db.lanes : IsLaneForTags(db.lanes, TagsOf[a], l)
      <4>1. PICK l \in DOMAIN db.lanes : db' = AddRow(db, a, l)
        BY <1>1, <3>1 DEF Submit
      <4>2. l \in Nat
        BY DEF TypeOK, DatabaseOK
      <4>3. QED
        BY <4>1, <4>2, AddRowType DEF TypeOK
    <3>2. CASE ~\E l \in DOMAIN db.lanes : IsLaneForTags(db.lanes, TagsOf[a], l)
      <4>1. db' = AddRow(AddLane(db, TagsOf[a]), a, db.nextLane)
        BY <1>1, <3>2 DEF Submit
      <4>2. DatabaseOK(AddLane(db, TagsOf[a]))
        BY AddLaneType DEF TypeOK
      <4>3. db.nextLane \in Nat
        BY DEF TypeOK, DatabaseOK
      <4>4. QED
        BY <4>1, <4>2, <4>3, AddRowType
    <3>3. QED
      BY <3>1, <3>2
  <2>2. QED
    BY <1>1, <2>1 DEF Submit, TypeOK, RowInHand, outside, world
<1>2. ASSUME NEW a \in Actions, SubmitEnds(a)
      PROVE  TypeInv'
  <2>1. DatabaseOK(db')
    BY SMTT(30), <1>2 DEF SubmitEnds, TypeOK, DatabaseOK
  <2>2. unanswered' \subseteq Actions
    BY <1>2 DEF SubmitEnds, TypeOK
  <2>3. QED
    BY <1>2, <2>1, <2>2 DEF SubmitEnds, TypeOK, RowInHand, outside, world
<1>3. ASSUME NEW r \in DOMAIN disk.journal, Cancel(r)
      PROVE  TypeInv'
  <2>1. r \in Nat
    BY DEF TypeOK, DatabaseOK
  <2>2. QED
    BY <1>3, <2>1 DEF Cancel, TypeOK, RowInHand, outside, world
<1>4. ASSUME NEW r \in DOMAIN disk.journal, Elapse(r)
      PROVE  TypeInv'
  <2>1. disk.journal[r].attempt \in Nat /\ r \in Nat
    BY DEF TypeOK, DatabaseOK, Rows
  <2>2. QED
    BY <1>4, <2>1 DEF Elapse, TypeOK, RowInHand, outside, world
<1>5. ASSUME NEW q \in requests, Respond(q)
      PROVE  TypeInv'
  <2>1. PICK what \in Responses(q.class) : queue' = Append(queue, Event(q.record, what, 0))
    BY <1>5 DEF Respond
  <2>2. Event(q.record, what, 0) \in EventRecords
    BY DEF Event, EventRecords, Answers, TypeOK, Requests
  <2>3. QED
    BY <1>5, <2>1, <2>2 DEF Respond, TypeOK, RowInHand, app, world
<1>6. ASSUME NEW p \in prompts, Answer(p)
      PROVE  TypeInv'
  <2>1. PICK choice \in Choices : queue' = Append(queue, Event(p.record, choice, p.issue))
    BY <1>6 DEF Answer
  <2>2. Event(p.record, choice, p.issue) \in EventRecords
    BY DEF Event, EventRecords, Answers, TypeOK, Prompts
  <2>3. QED
    BY <1>6, <2>1, <2>2 DEF Answer, TypeOK, RowInHand, app, world
<1>7. CASE GoOffline
  <2>1. losses' \in 0 .. MaxOffline
    BY <1>7 DEF GoOffline, TypeOK
  <2>2. QED
    BY <1>7, <2>1 DEF GoOffline, TypeOK, RowInHand, outside, app
<1>8. CASE GoOnline
  BY <1>8 DEF GoOnline, TypeOK, RowInHand, outside, app
<1>9. CASE Crash
  <2>1. PassOK(Idle) /\ Idle.phase = "idle"
    BY DEF Idle, PassOK, Instructions
  <2>2. QED
    BY <1>9, <2>1 DEF Crash, TypeOK, RowInHand
<1>10. CASE BeginPass
  <2>1. DatabaseOK(db')
    BY <1>10, ConcatProperties DEF BeginPass, TypeOK, DatabaseOK
  <2>2. PassOK(pass') /\ pass'.phase = "lanes"
    <3>1. PassOK(Idle)
      BY DEF Idle, PassOK, Instructions
    <3>2. DOMAIN db.lanes \subseteq Nat
      BY DEF TypeOK, DatabaseOK
    <3>3. QED
      BY <1>10, <3>1, <3>2 DEF BeginPass, PassOK
  <2>3. queue' \in Seq(EventRecords)
    BY <1>10 DEF BeginPass
  <2>4. QED
    BY <1>10, <2>1, <2>2, <2>3 DEF BeginPass, TypeOK, RowInHand, app, world
<1>11. CASE VisitLane
  <2>1. PassOK(pass') /\ pass'.phase # "record"
    BY <1>11 DEF VisitLane, TypeOK, PassOK
  <2>2. QED
    BY <1>11, <2>1 DEF VisitLane, TypeOK, RowInHand, outside, app, world
<1>12. CASE FetchRecord
  <2>1. ASSUME NEW n \in Int, LeaveLane(n, pass.used)
        PROVE  DatabaseOK(db') /\ PassOK(pass') /\ pass'.phase = "lanes"
    BY <2>1, LeaveLaneType DEF TypeOK, PassOK
  <2>2. DatabaseOK(db') /\ PassOK(pass') /\ RowInHand'
    <3>1. CASE LeaveLane(pass.n, pass.used)
      BY <2>1, <3>1 DEF TypeOK, PassOK, RowInHand
    <3>2. CASE LeaveLane(pass.n + 1, pass.used)
      BY <2>1, <3>2 DEF TypeOK, PassOK, RowInHand
    <3>3. ASSUME NEW r \in RowsOn(db, pass.lane),
                 pass' = [pass EXCEPT !.phase = "record", !.at = r,
                                      !.row = db.journal[r], !.n = @ + 1,
                                      !.used = Charge(db.journal[r].action, 1)],
                 UNCHANGED db
          PROVE  DatabaseOK(db') /\ PassOK(pass') /\ RowInHand'
      <4>1. r \in Nat /\ db.journal[r] \in Rows
        BY DEF TypeOK, DatabaseOK, RowsOn
      <4>2. Charge(db.journal[r].action, 1) \in [Categories -> Int]
        BY ChargeType DEF TypeOK
      <4>3. QED
        BY SMTT(30), <3>3, <4>1, <4>2 DEF TypeOK, PassOK, RowInHand
    <3>4. QED
      BY <1>12, <3>1, <3>2, <3>3 DEF FetchRecord
  <2>3. QED
    BY <1>12, <2>2 DEF FetchRecord, TypeOK, outside, app, world
<1>13. ASSUME NEW i \in Pending, pass.phase = "record", HandleResponse(i)
       PROVE  TypeInv'
  <2>1. pass.row \in Rows /\ pass.row.action \in Actions /\ i \in DOMAIN db.inbox
    BY <1>13 DEF RowInHand, Rows, Pending
  <2>2. PICK o \in Results(ClassOf[pass.row.action], db.inbox[i].what) :
          /\ IF o.state = "removed"
             THEN Handled(i, Removed, pass.row, o.next)
             ELSE LET row == Transition(pass.row, o.state, o.wait)
                  IN  Handled(i, Stored(row), row, o.next)
          /\ RaisesIssue(o.wait)
          /\ CallHandler(o.call)
          /\ needs' = (needs \/ o.next \in {"stop", "processNext"})
    BY <1>13 DEF HandleResponse
  <2>3. o.state \in RecordStates \cup {"removed"} /\ o.wait \in Waits /\ o.next \in Instructions
    BY ResultsType
  <2>4. DatabaseOK(db') /\ PassOK(pass') /\ pass'.row \in Rows
    <3>1. CASE o.state = "removed"
      BY <2>1, <2>2, <2>3, <3>1, HandledType, JournalType DEF TypeOK
    <3>2. CASE o.state # "removed"
      <4>1. Transition(pass.row, o.state, o.wait) \in Rows
        BY <2>1, <2>3, <3>2, TransitionType DEF TypeOK
      <4>2. QED
        BY <2>1, <2>2, <2>3, <3>2, <4>1, HandledType, JournalType DEF TypeOK
    <3>3. QED
      BY <3>1, <3>2
  <2>5. issues' \in Nat
    BY <2>2 DEF RaisesIssue, TypeOK
  <2>6. unanswered' \subseteq Actions
    BY <2>2 DEF CallHandler, TypeOK
  <2>7. needs' \in BOOLEAN
    BY <2>2 DEF TypeOK
  <2>8. QED
    BY <1>13, <2>4, <2>5, <2>6, <2>7 DEF HandleResponse, TypeOK, RowInHand, world
<1>14. ASSUME NEW i \in Pending, pass.phase = "record", HandleAnswer(i)
       PROVE  TypeInv'
  <2> DEFINE answer == db.inbox[i]
             valid == pass.row.wait = "issue" /\ pass.row.issue = answer.issue
             resolved == [pass.row EXCEPT !.wait = "none", !.issue = 0, !.prompted = 0]
             ready == [resolved EXCEPT !.state = "ready"]
  <2>1. pass.row \in Rows /\ i \in DOMAIN db.inbox
    BY <1>14 DEF RowInHand, Pending
  <2>2. resolved \in Rows /\ ready \in Rows
    BY <2>1 DEF Rows, RecordStates, Waits
  <2>3. answer.what \in Choices
    BY <1>14 DEF HandleAnswer
  <2>4. \/ Handled(i, db.journal, pass.row, "none")
        \/ Handled(i, Removed, resolved, "none")
        \/ Handled(i, Stored(ready), ready, "none")
    BY <1>14, <2>3 DEF HandleAnswer, Choices
  <2>5. DatabaseOK([db EXCEPT !.journal = db.journal]) /\ "none" \in Instructions
    BY DEF TypeOK, DatabaseOK, Instructions
  <2>6. DatabaseOK(db') /\ PassOK(pass') /\ pass'.row \in Rows
    <3> HIDE DEF answer, valid, resolved, ready
    <3>1. QED
      BY <2>1, <2>2, <2>4, <2>5, HandledType, JournalType DEF TypeOK
  <2>7. unanswered' \subseteq Actions
    BY <1>14 DEF HandleAnswer, CallHandler, TypeOK
  <2>8. needs' \in BOOLEAN
    BY <1>14 DEF HandleAnswer, TypeOK
  <2>9. QED
    BY <1>14, <2>6, <2>7, <2>8 DEF HandleAnswer, TypeOK, RowInHand, outside, world
<1>15. CASE ProcessCancelled
  <2>1. pass.row \in Rows
    BY <1>15 DEF ProcessCancelled, Undecided, RowInHand
  <2>2. DatabaseOK(db')
    BY <1>15, <2>1, JournalType DEF ProcessCancelled, TypeOK
  <2>3. PassOK(pass') /\ pass'.row \in Rows
    BY <1>15, <2>1, DecideType DEF ProcessCancelled, TypeOK, Instructions
  <2>4. unanswered' \subseteq Actions
    BY <1>15 DEF ProcessCancelled, CallHandler, TypeOK
  <2>5. QED
    BY <1>15, <2>2, <2>3, <2>4 DEF ProcessCancelled, TypeOK, RowInHand, outside, world
<1>16. CASE AwaitAnswer
  <2>1. pass.row \in Rows
    BY <1>16 DEF AwaitAnswer, Undecided, RowInHand
  <2> DEFINE row == [pass.row EXCEPT !.prompted = crashes + 1]
             prompt == [record |-> pass.at, issue |-> row.issue,
                        retry |-> OffersRetry(ClassOf[row.action])]
  <2>2. row \in Rows
    <3>1. crashes + 1 \in Nat
      BY DEF TypeOK
    <3>2. QED
      BY <2>1, <3>1 DEF Rows
  <2>3. prompt \in Prompts
    BY SMTT(30), <2>2 DEF TypeOK, PassOK, Prompts, Rows, OffersRetry
  <2>4. db' = [db EXCEPT !.journal = Stored(row)] /\ Decide("sideline", row)
    BY <1>16 DEF AwaitAnswer
  <2>5. prompts' \subseteq Prompts
    BY <1>16, <2>3 DEF AwaitAnswer, TypeOK
  <2> HIDE DEF row, prompt
  <2>6. DatabaseOK(db')
    BY <2>2, <2>4, JournalType DEF TypeOK
  <2>7. PassOK(pass') /\ pass'.row \in Rows
    BY <2>2, <2>4, DecideType DEF TypeOK, Instructions
  <2>8. QED
    BY <1>16, <2>5, <2>6, <2>7 DEF AwaitAnswer, TypeOK, RowInHand, app, world
<1>17. CASE AwaitRefresh
  <2>1. pass.row \in Rows
    BY <1>17 DEF AwaitRefresh, Undecided, RowInHand
  <2> DEFINE row == [pass.row EXCEPT !.wait = "none"]
  <2>2. row \in Rows
    BY <2>1 DEF Rows, Waits
  <2>3. \/ db' = [db EXCEPT !.journal = Stored(row)] /\ Decide("none", row)
        \/ db' = db /\ Decide("sideline", pass.row)
    BY <1>17 DEF AwaitRefresh
  <2> HIDE DEF row
  <2>4. DatabaseOK(db')
    BY <2>2, <2>3, JournalType DEF TypeOK
  <2>5. PassOK(pass') /\ pass'.row \in Rows
    BY <2>1, <2>2, <2>3, DecideType DEF TypeOK, Instructions
  <2>6. QED
    BY <1>17, <2>4, <2>5 DEF AwaitRefresh, TypeOK, RowInHand, outside, app, world
<1>18. CASE ScheduleRequest
  <2>1. pass.row \in Rows
    BY <1>18 DEF ScheduleRequest, Schedulable, Undecided, RowInHand
  <2> DEFINE row == [pass.row EXCEPT !.state = "processing", !.attempt = @ + 1]
             request == [record |-> pass.at, class |-> ClassOf[row.action],
                         attempt |-> row.attempt, epoch |-> crashes]
  <2>2. row \in Rows
    <3>1. pass.row.attempt + 1 \in Nat
      BY <2>1 DEF Rows
    <3>2. QED
      BY <2>1, <3>1 DEF Rows, RecordStates
  <2>3. request \in Requests
    <3> HIDE DEF row
    <3>1. row.action \in Actions /\ row.attempt \in Nat
      BY <2>2 DEF Rows
    <3>2. ClassOf[row.action] \in Classes /\ pass.at \in Nat /\ crashes \in Nat
      BY <3>1 DEF TypeOK, PassOK
    <3>3. QED
      BY <3>1, <3>2 DEF Requests
  <2>4. db' = [db EXCEPT !.journal = Stored(row)] /\ Decide("stop", row)
    BY <1>18 DEF ScheduleRequest
  <2>5. requests' \subseteq Requests
    BY <1>18, <2>3 DEF ScheduleRequest, TypeOK
  <2> HIDE DEF row, request
  <2>6. DatabaseOK(db')
    BY <2>2, <2>4, JournalType DEF TypeOK
  <2>7. PassOK(pass') /\ pass'.row \in Rows
    BY <2>2, <2>4, DecideType DEF TypeOK, Instructions
  <2>8. QED
    BY <1>18, <2>5, <2>6, <2>7 DEF ScheduleRequest, TypeOK, RowInHand, app, world
<1>19. CASE ScheduleIssue
  <2>1. pass.row \in Rows
    BY <1>19 DEF ScheduleIssue, Schedulable, Undecided, RowInHand
  <2>2. PICK state \in {"processing", "ready"} :
          LET row == [Transition(pass.row, state, "issue") EXCEPT !.attempt = @ + 1]
          IN  db' = [db EXCEPT !.journal = Stored(row)] /\ Decide("stop", row)
    BY <1>19 DEF ScheduleIssue
  <2> DEFINE row == [Transition(pass.row, state, "issue") EXCEPT !.attempt = @ + 1]
  <2>3. Transition(pass.row, state, "issue") \in Rows
    BY <2>1, TransitionType DEF RecordStates, Waits, TypeOK
  <2>4. row \in Rows
    <3> DEFINE waiting == Transition(pass.row, state, "issue")
    <3>1. waiting.attempt + 1 \in Nat
      BY <2>3 DEF Rows
    <3> HIDE DEF waiting
    <3>2. [waiting EXCEPT !.attempt = @ + 1] \in Rows
      BY <2>3, <3>1 DEF Rows, waiting
    <3>3. QED
      BY <3>2 DEF waiting
  <2>5. issues' \in Nat
    BY <1>19 DEF ScheduleIssue, RaisesIssue, TypeOK
  <2>6. db' = [db EXCEPT !.journal = Stored(row)] /\ Decide("stop", row)
    BY <2>2
  <2> HIDE DEF row
  <2>7. DatabaseOK(db')
    BY <2>4, <2>6, JournalType DEF TypeOK
  <2>8. PassOK(pass') /\ pass'.row \in Rows
    BY <2>4, <2>6, DecideType DEF TypeOK, Instructions
  <2>9. QED
    BY <1>19, <2>5, <2>7, <2>8 DEF ScheduleIssue, TypeOK, RowInHand, app, world
<1>20. CASE ScheduleObsolete
  <2>1. pass.row \in Rows
    BY <1>20 DEF ScheduleObsolete, Schedulable, Undecided, RowInHand
  <2>2. DatabaseOK(db')
    BY <1>20, <2>1, JournalType DEF ScheduleObsolete, TypeOK
  <2>3. PassOK(pass') /\ pass'.row \in Rows
    BY <1>20, <2>1, DecideType DEF ScheduleObsolete, TypeOK, Instructions
  <2>4. unanswered' \subseteq Actions
    BY <1>20 DEF ScheduleObsolete, CallHandler, TypeOK
  <2>5. QED
    BY <1>20, <2>2, <2>3, <2>4 DEF ScheduleObsolete, TypeOK, RowInHand, outside, world
<1>21. CASE ScheduleImmediate
  <2>1. pass.row \in Rows
    BY <1>21 DEF ScheduleImmediate, Schedulable, Undecided, RowInHand
  <2> DEFINE row == [pass.row EXCEPT !.state = "completed", !.attempt = @ + 1]
  <2>2. row \in Rows
    <3>1. pass.row.attempt + 1 \in Nat
      BY <2>1 DEF Rows
    <3>2. QED
      BY <2>1, <3>1 DEF Rows, RecordStates
  <2>3. db' = [db EXCEPT !.journal = Stored(row)] /\ Decide("deleteLast", row)
    BY <1>21 DEF ScheduleImmediate
  <2> HIDE DEF row
  <2>4. DatabaseOK(db')
    BY <2>2, <2>3, JournalType DEF TypeOK
  <2>5. PassOK(pass') /\ pass'.row \in Rows
    BY <2>2, <2>3, DecideType DEF TypeOK, Instructions
  <2>6. QED
    BY <1>21, <2>4, <2>5 DEF ScheduleImmediate, TypeOK, RowInHand, outside, app, world
<1>22. CASE ScheduleRemoved
  <2>1. pass.row \in Rows
    BY <1>22 DEF ScheduleRemoved, Schedulable, Undecided, RowInHand
  <2>2. PassOK(pass') /\ pass'.row \in Rows
    BY <1>22, <2>1, DecideType DEF ScheduleRemoved, TypeOK, Instructions
  <2>3. QED
    BY <1>22, <2>2 DEF ScheduleRemoved, TypeOK, RowInHand, outside, app, world
<1>23. CASE AwaitResult
  <2>1. pass.row \in Rows
    BY <1>23 DEF AwaitResult, Undecided, RowInHand
  <2>2. PassOK(pass') /\ pass'.row \in Rows
    BY <1>23, <2>1, DecideType DEF AwaitResult, TypeOK, Instructions
  <2>3. QED
    BY <1>23, <2>2 DEF AwaitResult, TypeOK, RowInHand, outside, app, world
<1>24. CASE Stop
  <2>1. Charge(pass.row.action, -1) \in [Categories -> Int] /\ pass.used \in [Categories -> Int]
    BY ChargeType DEF TypeOK, PassOK
  <2>2. DatabaseOK(db') /\ PassOK(pass') /\ pass'.phase = "lanes"
    <3>1. pass.n \in Int
      BY DEF TypeOK, PassOK
    <3>2. PICK used \in [Categories -> Int] : LeaveLane(pass.n, used)
      BY <1>24, <2>1 DEF Stop
    <3>3. QED
      BY <3>1, <3>2, LeaveLaneType DEF TypeOK
  <2>3. QED
    BY <1>24, <2>2 DEF Stop, TypeOK, RowInHand, outside, app, world
<1>25. CASE GoOn
  <2> DEFINE n == IF pass.instr = "deleteLast" THEN pass.n - 1 ELSE pass.n
             used == IF pass.instr = "deleteLast" THEN Charge(pass.row.action, -1) ELSE pass.used
  <2>1. n \in Int /\ used \in [Categories -> Int]
    BY ChargeType DEF TypeOK, PassOK
  <2>2. pass' = [pass EXCEPT !.phase = "records", !.at = 0, !.row = NoRow, !.instr = "none",
                             !.n = n, !.used = used]
    BY <1>25 DEF GoOn
  <2> HIDE DEF n, used
  <2>3. PassOK(pass') /\ pass'.phase = "records"
    <3>1. /\ DOMAIN pass' = DOMAIN pass
          /\ pass'.phase = "records" /\ pass'.at = 0 /\ pass'.row = NoRow
          /\ pass'.instr = "none" /\ pass'.n = n /\ pass'.used = used
          /\ pass'.lane = pass.lane /\ pass'.todo = pass.todo
          /\ pass'.active = pass.active /\ pass'.visited = pass.visited
      BY <2>2 DEF TypeOK, PassOK, Idle
    <3>2. QED
      BY <2>1, <3>1 DEF TypeOK, PassOK, Instructions
  <2>4. DatabaseOK(db')
    BY <1>25 DEF GoOn, TypeOK, DatabaseOK, Removed, Restrict
  <2>5. QED
    BY <1>25, <2>3, <2>4 DEF GoOn, TypeOK, RowInHand, outside, app, world
<1>26. CASE EndPass
  <2>1. PassOK(Idle) /\ Idle.phase = "idle"
    BY DEF Idle, PassOK, Instructions
  <2>2. QED
    BY <1>26, <2>1 DEF EndPass, TypeOK, RowInHand, outside, app, world
<1>27. CASE UNCHANGED vars
  BY <1>27 DEF vars, TypeOK, RowInHand, outside, app, world
<1>28. QED
  BY <1>1, <1>2, <1>3, <1>4, <1>5, <1>6, <1>7, <1>8, <1>9, <1>10, <1>11, <1>12, <1>13, <1>14, <1>15, <1>16, <1>17, <1>18, <1>19, <1>20, <1>21, <1>22, <1>23, <1>24, <1>25, <1>26, <1>27 DEF Next, PassStep, HandleEvent, Schedule

\* The variables keep their types: no reachable state is outside TypeOK, for
\* any actions, tags and bounds.
THEOREM TypeCorrect == Spec => []TypeOK
<1>1. Init => TypeInv
  BY BoundsAssumption
     DEF Init, TypeInv, TypeOK, DatabaseOK, EmptyDatabase, PassOK, Idle, Instructions, RowInHand
<1>2. TypeInv => TypeOK
  BY DEF TypeInv
<1>3. QED
  BY <1>1, <1>2, TypeInvStep, PTL DEF Spec

-----------------------------------------------------------------------------
(* Conflicting actions *)

Overlap(s, t) == \E a \in s, b \in t : Related(a, b)

\* A record is on a lane that carries its tags.
RowsPlaced(d) ==
    \A r \in DOMAIN d.journal :
        /\ d.journal[r].lane \in DOMAIN d.lanes
        /\ Tagged(d, r) \subseteq d.lanes[d.journal[r].lane].tags

\* Of two lanes with related tags the later one waits for the earlier one.
LanesOrdered(d) ==
    \A l, m \in DOMAIN d.lanes :
        l < m /\ Overlap(d.lanes[l].tags, d.lanes[m].tags) => l \in d.lanes[m].after

\* A lane waits for earlier lanes only.
AfterEarlier(d) == \A m \in DOMAIN d.lanes : \A l \in d.lanes[m].after : l < m

\* The record at the head of a lane that waits for no other lane.
MayRun(d, r) ==
    /\ IsHead(d, d.journal[r].lane, r)
    /\ d.lanes[d.journal[r].lane].after \cap DOMAIN d.lanes = {}

ProgressAllowed(d) == \A r \in DOMAIN d.journal : InProgress(d, r) => MayRun(d, r)

LaneInv(d) ==
    /\ RowsPlaced(d)
    /\ LanesOrdered(d)
    /\ AfterEarlier(d)
    /\ ProgressAllowed(d)

\* The pass knows the lanes there are, is on a lane that waits for none of
\* them, and has the record at the head of it in hand, if that is not removed.
PassInv ==
    /\ pass.phase # "idle" =>
          pass.active = DOMAIN db.lanes /\ pass.todo \subseteq DOMAIN db.lanes
    /\ pass.phase \in {"records", "record"} =>
          /\ pass.lane \in DOMAIN db.lanes \ pass.todo
          /\ db.lanes[pass.lane].after \cap DOMAIN db.lanes = {}
    /\ pass.phase = "record" /\ InJournal =>
          /\ IsHead(db, pass.lane, pass.at)
          /\ db.journal[pass.at].lane = pass.lane
          /\ pass.row.lane = pass.lane
          /\ pass.row.action = db.journal[pass.at].action

IInv == TypeInv /\ LaneInv(db) /\ LaneInv(disk) /\ PassInv

\* Two records in progress with related tags would sit on the same lane, whose
\* head is one record only, or on two of which one waits for the other.
LEMMA LaneInvSafe ==
    ASSUME NEW d, DatabaseOK(d), LaneInv(d),
           NEW r \in DOMAIN d.journal, NEW s \in DOMAIN d.journal,
           InProgress(d, r), InProgress(d, s), r # s
    PROVE  ~Conflict(d, r, s)
<1> DEFINE l == d.journal[r].lane
           m == d.journal[s].lane
<1>1. MayRun(d, r) /\ MayRun(d, s)
  BY DEF LaneInv, ProgressAllowed
<1>2. /\ l \in DOMAIN d.lanes /\ Tagged(d, r) \subseteq d.lanes[l].tags
      /\ m \in DOMAIN d.lanes /\ Tagged(d, s) \subseteq d.lanes[m].tags
  BY DEF LaneInv, RowsPlaced
<1>3. r \in Nat /\ s \in Nat /\ l \in Nat /\ m \in Nat
  BY <1>2 DEF DatabaseOK
<1>4. l # m
  BY <1>1, <1>3 DEF MayRun, IsHead, RowsOn
<1>5. SUFFICES ASSUME Conflict(d, r, s)
               PROVE  FALSE
  OBVIOUS
<1>6. Overlap(d.lanes[l].tags, d.lanes[m].tags) /\ Overlap(d.lanes[m].tags, d.lanes[l].tags)
  BY <1>2, <1>5 DEF Conflict, Overlap, Related
<1>7. l \in d.lanes[m].after \/ m \in d.lanes[l].after
  <2>1. LanesOrdered(d)
    BY DEF LaneInv
  <2>2. CASE l < m
    <3>1. l \in d.lanes[m].after
      BY <1>2, <1>6, <2>1, <2>2 DEF LanesOrdered
    <3>2. QED
      BY <3>1
  <2>3. CASE m < l
    <3>1. m \in d.lanes[l].after
      BY <1>2, <1>6, <2>1, <2>3 DEF LanesOrdered
    <3>2. QED
      BY <3>1
  <2>4. QED
    BY <1>3, <1>4, <2>2, <2>3
<1>8. QED
  BY <1>1, <1>2, <1>7 DEF MayRun

\* Nothing but the journal and the lanes matters.
LEMMA SameLanes ==
    ASSUME NEW d, NEW e, LaneInv(d), e.journal = d.journal, e.lanes = d.lanes
    PROVE  LaneInv(e)
  BY DEF LaneInv, RowsPlaced, LanesOrdered, AfterEarlier, ProgressAllowed, MayRun, IsHead,
         RowsOn, Tagged, InProgress

\* A row may be replaced by one of the same action on the same lane, and may
\* be put in progress if it is at the head of a lane that waits for no other.
LEMMA StoreLanes ==
    ASSUME NEW d, NEW e, LaneInv(d), e.lanes = d.lanes,
           NEW at \in DOMAIN d.journal, NEW row,
           e.journal = [d.journal EXCEPT ![at] = row],
           row.action = d.journal[at].action, row.lane = d.journal[at].lane,
           row.state = "processing" => MayRun(d, at)
    PROVE  LaneInv(e) /\ \A l, r : IsHead(d, l, r) => IsHead(e, l, r)
<1>1. /\ DOMAIN e.journal = DOMAIN d.journal
      /\ \A r \in DOMAIN e.journal : e.journal[r] = IF r = at THEN row ELSE d.journal[r]
  OBVIOUS
<1>2. \A r \in DOMAIN e.journal : e.journal[r].lane = d.journal[r].lane /\ Tagged(e, r) = Tagged(d, r)
  BY <1>1 DEF Tagged
<1>3. \A l : RowsOn(e, l) = RowsOn(d, l)
  BY <1>1, <1>2 DEF RowsOn
<1>4. \A l, r : IsHead(d, l, r) => IsHead(e, l, r)
  BY <1>3 DEF IsHead
<1>5. RowsPlaced(e)
  BY <1>1, <1>2 DEF LaneInv, RowsPlaced
<1>6. LanesOrdered(e) /\ AfterEarlier(e)
  BY DEF LaneInv, LanesOrdered, AfterEarlier
<1>7. ProgressAllowed(e)
  BY <1>1, <1>2, <1>4 DEF LaneInv, ProgressAllowed, InProgress, MayRun
<1>8. QED
  BY <1>4, <1>5, <1>6, <1>7 DEF LaneInv

\* A row may be removed.
LEMMA RemoveLanes ==
    ASSUME NEW d, NEW e, LaneInv(d), e.lanes = d.lanes, NEW at,
           e.journal = Restrict(d.journal, DOMAIN d.journal \ {at})
    PROVE  LaneInv(e)
<1>1. /\ DOMAIN e.journal = DOMAIN d.journal \ {at}
      /\ \A r \in DOMAIN e.journal : e.journal[r] = d.journal[r]
  BY DEF Restrict
<1>2. \A r \in DOMAIN e.journal : Tagged(e, r) = Tagged(d, r)
  BY <1>1 DEF Tagged
<1>3. \A l : \A r \in DOMAIN e.journal : IsHead(d, l, r) => IsHead(e, l, r)
  BY <1>1 DEF IsHead, RowsOn
<1>4. RowsPlaced(e)
  BY <1>1, <1>2 DEF LaneInv, RowsPlaced
<1>5. LanesOrdered(e) /\ AfterEarlier(e)
  BY DEF LaneInv, LanesOrdered, AfterEarlier
<1>6. ProgressAllowed(e)
  BY <1>1, <1>3 DEF LaneInv, ProgressAllowed, InProgress, MayRun
<1>7. QED
  BY <1>4, <1>5, <1>6 DEF LaneInv

\* An empty lane may be removed.
LEMMA DropLane ==
    ASSUME NEW d, NEW e, LaneInv(d), e.journal = d.journal, NEW l, RowsOn(d, l) = {},
           e.lanes = Restrict(d.lanes, DOMAIN d.lanes \ {l})
    PROVE  LaneInv(e)
<1>1. /\ DOMAIN e.lanes = DOMAIN d.lanes \ {l}
      /\ \A m \in DOMAIN e.lanes : e.lanes[m] = d.lanes[m]
  BY DEF Restrict
<1>2. \A r \in DOMAIN e.journal : e.journal[r].lane # l /\ Tagged(e, r) = Tagged(d, r)
  BY DEF RowsOn, Tagged
<1>3. RowsPlaced(e)
  BY <1>1, <1>2 DEF LaneInv, RowsPlaced
<1>4. LanesOrdered(e) /\ AfterEarlier(e)
  BY <1>1 DEF LaneInv, LanesOrdered, AfterEarlier
<1>5. ProgressAllowed(e)
  <2>1. SUFFICES ASSUME NEW r \in DOMAIN e.journal, InProgress(e, r)
                 PROVE  MayRun(e, r)
    BY DEF ProgressAllowed
  <2>2. MayRun(d, r)
    BY <2>1 DEF LaneInv, ProgressAllowed, InProgress
  <2>3. e.journal[r].lane \in DOMAIN e.lanes
    BY <1>3 DEF RowsPlaced
  <2>4. QED
    BY <1>1, <2>2, <2>3 DEF MayRun, IsHead, RowsOn
<1>6. QED
  BY <1>3, <1>4, <1>5 DEF LaneInv

\* A lane may be added, with an ID that no lane had.
LEMMA AddLaneLanes ==
    ASSUME NEW d, DatabaseOK(d), LaneInv(d), NEW tags \in SUBSET Tags
    PROVE  LaneInv(AddLane(d, tags))
<1> DEFINE e == AddLane(d, tags)
           new == NewLane(d.lanes, tags)
<1>1. /\ e.journal = d.journal
      /\ DOMAIN e.lanes = DOMAIN d.lanes \cup {d.nextLane}
      /\ \A l \in DOMAIN e.lanes : e.lanes[l] = IF l = d.nextLane THEN new ELSE d.lanes[l]
  BY DEF DatabaseOK, AddLane
<1> HIDE DEF e
<1>2. /\ d.nextLane \in Nat
      /\ \A l \in DOMAIN d.lanes : l \in Nat /\ l < d.nextLane
  BY DEF DatabaseOK
<1>3. /\ new.tags = Considered(tags)
      /\ new.after \subseteq DOMAIN d.lanes
      /\ \A l \in DOMAIN d.lanes : Overlap(d.lanes[l].tags, new.tags) => l \in new.after
  BY DEF NewLane, CoversTags, Overlap, Related
<1> HIDE DEF new
<1>4. \A l \in DOMAIN d.lanes : e.lanes[l] = d.lanes[l]
  BY <1>1, <1>2
<1>5. e.lanes[d.nextLane] = new
  BY <1>1
<1>6. RowsPlaced(e)
  BY <1>1, <1>4 DEF LaneInv, RowsPlaced, Tagged
<1>7. LanesOrdered(e)
  <2>1. SUFFICES ASSUME NEW l \in DOMAIN e.lanes, NEW m \in DOMAIN e.lanes,
                        l < m, Overlap(e.lanes[l].tags, e.lanes[m].tags)
                 PROVE  l \in e.lanes[m].after
    BY DEF LanesOrdered
  <2>2. l \in DOMAIN d.lanes
    BY <1>1, <1>2, <2>1
  <2>3. CASE m = d.nextLane
    BY <1>3, <1>4, <1>5, <2>1, <2>2, <2>3
  <2>4. CASE m \in DOMAIN d.lanes
    BY <1>4, <2>1, <2>2, <2>4 DEF LaneInv, LanesOrdered
  <2>5. QED
    BY <1>1, <2>3, <2>4
<1>8. AfterEarlier(e)
  BY <1>1, <1>2, <1>3, <1>4, <1>5 DEF LaneInv, AfterEarlier
<1>9. ProgressAllowed(e)
  <2>1. SUFFICES ASSUME NEW r \in DOMAIN e.journal, InProgress(e, r)
                 PROVE  MayRun(e, r)
    BY DEF ProgressAllowed
  <2>2. MayRun(d, r)
    BY <1>1, <2>1 DEF LaneInv, ProgressAllowed, InProgress
  <2>3. d.journal[r].lane \in DOMAIN d.lanes
    BY <1>1 DEF LaneInv, RowsPlaced
  <2>4. d.nextLane \notin d.lanes[d.journal[r].lane].after
    BY <1>2, <2>3 DEF LaneInv, AfterEarlier
  <2>5. QED
    BY <1>1, <1>4, <2>2, <2>3, <2>4 DEF MayRun, IsHead, RowsOn
<1>10. QED
  BY <1>6, <1>7, <1>8, <1>9 DEF LaneInv, e

\* A ready row may be added behind the rows of a lane with its tags.
LEMMA AddRowLanes ==
    ASSUME NEW d, DatabaseOK(d), LaneInv(d), NEW a \in Actions, NEW l \in DOMAIN d.lanes,
           Considered(TagsOf[a]) \subseteq d.lanes[l].tags
    PROVE  LaneInv(AddRow(d, a, l))
<1> DEFINE e == AddRow(d, a, l)
<1>1. /\ e.lanes = d.lanes
      /\ DOMAIN e.journal = DOMAIN d.journal \cup {d.nextRecord}
      /\ \A r \in DOMAIN e.journal :
            e.journal[r] = IF r = d.nextRecord THEN NewRow(a, l) ELSE d.journal[r]
  BY DEF DatabaseOK, AddRow
<1> HIDE DEF e
<1>2. /\ d.nextRecord \in Nat
      /\ \A r \in DOMAIN d.journal : r \in Nat /\ r < d.nextRecord
  BY DEF DatabaseOK
<1>3. NewRow(a, l).action = a /\ NewRow(a, l).lane = l /\ NewRow(a, l).state = "ready"
  BY DEF NewRow
<1>4. \A r \in DOMAIN d.journal : e.journal[r] = d.journal[r] /\ Tagged(e, r) = Tagged(d, r)
  BY <1>1, <1>2 DEF Tagged
<1>5. e.journal[d.nextRecord] = NewRow(a, l) /\ Tagged(e, d.nextRecord) = Considered(TagsOf[a])
  BY <1>1, <1>3 DEF Tagged
<1>6. RowsPlaced(e)
  BY <1>1, <1>3, <1>4, <1>5 DEF LaneInv, RowsPlaced
<1>7. LanesOrdered(e) /\ AfterEarlier(e)
  BY <1>1 DEF LaneInv, LanesOrdered, AfterEarlier
<1>8. ProgressAllowed(e)
  <2>1. SUFFICES ASSUME NEW r \in DOMAIN e.journal, InProgress(e, r)
                 PROVE  MayRun(e, r)
    BY DEF ProgressAllowed
  <2>2. r \in DOMAIN d.journal
    BY <1>1, <1>3, <1>5, <2>1 DEF InProgress
  <2>3. MayRun(d, r)
    BY <1>4, <2>1, <2>2 DEF LaneInv, ProgressAllowed, InProgress
  <2>4. \A k : IsHead(d, k, r) => IsHead(e, k, r)
    BY <1>1, <1>2, <1>4, <2>2 DEF IsHead, RowsOn
  <2>5. QED
    BY <1>1, <1>4, <2>2, <2>3, <2>4 DEF MayRun
<1>9. QED
  BY <1>6, <1>7, <1>8 DEF LaneInv, e

\* What a step on the record in hand may do: replace or remove its row.
RecordStep ==
    /\ pass.phase = "record"
    /\ \A f \in DOMAIN pass \ {"row", "instr"} : pass'[f] = pass[f]
    /\ pass'.row.action = pass.row.action
    /\ pass'.row.lane = pass.row.lane
    /\ db'.lanes = db.lanes
    /\ db'.journal \in {db.journal, Stored(pass'.row), Removed}

\* Such a step keeps the invariant.
LEMMA RecordStepLanes ==
    ASSUME IInv, RecordStep
    PROVE  LaneInv(db') /\ PassInv'
<1>1. /\ pass'.phase = "record" /\ pass'.at = pass.at /\ pass'.lane = pass.lane
      /\ pass'.todo = pass.todo /\ pass'.active = pass.active
  BY DEF RecordStep, IInv, TypeInv, TypeOK, PassOK, Idle
<1>2. /\ pass.active = DOMAIN db.lanes /\ pass.todo \subseteq DOMAIN db.lanes
      /\ pass.lane \in DOMAIN db.lanes \ pass.todo
      /\ db.lanes[pass.lane].after \cap DOMAIN db.lanes = {}
      /\ LaneInv(db) /\ db'.lanes = db.lanes
  BY DEF RecordStep, IInv, PassInv
<1>3. ASSUME LaneInv(db'),
             InJournal' => /\ IsHead(db', pass.lane, pass.at)
                           /\ db'.journal[pass.at].lane = pass.lane
                           /\ pass'.row.lane = pass.lane
                           /\ pass'.row.action = db'.journal[pass.at].action
      PROVE  LaneInv(db') /\ PassInv'
  BY <1>1, <1>2, <1>3 DEF PassInv
<1>4. CASE db'.journal = db.journal
  <2>1. LaneInv(db')
    BY <1>2, <1>4, SameLanes
  <2>2. \A l, r : IsHead(db, l, r) => IsHead(db', l, r)
    BY <1>4 DEF IsHead, RowsOn
  <2>3. QED
    BY <1>1, <1>3, <1>4, <2>1, <2>2 DEF RecordStep, IInv, PassInv, InJournal
<1>5. CASE InJournal /\ db'.journal = Stored(pass'.row)
  <2>1. /\ IsHead(db, pass.lane, pass.at)
        /\ db.journal[pass.at].lane = pass.lane
        /\ pass.row.lane = pass.lane
        /\ pass.row.action = db.journal[pass.at].action
    BY <1>5 DEF RecordStep, IInv, PassInv
  <2>2. MayRun(db, pass.at)
    BY <1>2, <2>1 DEF MayRun
  <2>3. db'.journal = [db.journal EXCEPT ![pass.at] = pass'.row]
    BY <1>5 DEF Stored
  <2>4. pass'.row.action = db.journal[pass.at].action /\ pass'.row.lane = db.journal[pass.at].lane
    BY <2>1 DEF RecordStep
  <2>5. LaneInv(db') /\ \A l, r : IsHead(db, l, r) => IsHead(db', l, r)
    BY <1>2, <1>5, <2>2, <2>3, <2>4, StoreLanes DEF InJournal
  <2>6. db'.journal[pass.at] = pass'.row
    BY <1>5, <2>3 DEF InJournal
  <2>7. QED
    BY <1>3, <2>1, <2>4, <2>5, <2>6
<1>6. CASE db'.journal = Removed
  <2>1. LaneInv(db')
    BY <1>2, <1>6, RemoveLanes DEF Removed
  <2>2. ~InJournal'
    BY <1>1, <1>6 DEF InJournal, Removed, Restrict
  <2>3. QED
    BY <1>3, <2>1, <2>2
<1>7. QED
  BY <1>4, <1>5, <1>6 DEF RecordStep, Stored

\* Deciding and handling an event are such steps.
LEMMA DecideStep ==
    ASSUME TypeInv, pass.phase = "record", NEW instr, NEW row, Decide(instr, row),
           row.action = pass.row.action, row.lane = pass.row.lane,
           db'.lanes = db.lanes, db'.journal \in {db.journal, Stored(row), Removed}
    PROVE  RecordStep
<1>1. pass'.row = row /\ \A f \in DOMAIN pass \ {"row", "instr"} : pass'[f] = pass[f]
  BY DEF Decide, TypeInv, TypeOK, PassOK, Idle
<1>2. QED
  BY <1>1 DEF RecordStep

LEMMA HandledStep ==
    ASSUME TypeInv, pass.phase = "record", NEW i, NEW journal, NEW row, NEW next,
           Handled(i, journal, row, next),
           row.action = pass.row.action, row.lane = pass.row.lane,
           journal \in {db.journal, Stored(row), Removed}
    PROVE  RecordStep
<1>1. Decide(IF next = "none" THEN pass.instr ELSE next, row)
  BY DEF Handled, Decide, TypeInv, TypeOK, PassOK, Idle
<1>2. db'.lanes = db.lanes /\ db'.journal = journal
  BY DEF Handled, TypeInv, TypeOK, DatabaseOK
<1>3. QED
  BY <1>1, <1>2, DecideStep

\* A step that leaves the database and the pass alone keeps the invariant.
LEMMA UntouchedLanes ==
    ASSUME IInv, UNCHANGED <<db, disk, pass>>
    PROVE  LaneInv(db') /\ LaneInv(disk') /\ PassInv'
  BY DEF IInv, PassInv, InJournal

\* Leaving a lane keeps the invariant.
LEMMA LeaveLaneLanes ==
    ASSUME IInv, NEW n, NEW used, LeaveLane(n, used), pass.phase \in {"records", "record"}
    PROVE  LaneInv(db') /\ PassInv'
<1> DEFINE empty == n = 0 /\ RowsOn(db, pass.lane) = {}
<1>1. /\ pass'.phase = "lanes"
      /\ pass'.todo \in {{}, pass.todo}
      /\ pass'.active = IF empty THEN pass.active \ {pass.lane} ELSE pass.active
  BY DEF LeaveLane, IInv, TypeInv, TypeOK, PassOK, Idle
<1>2. /\ pass.active = DOMAIN db.lanes
      /\ pass.todo \subseteq DOMAIN db.lanes \ {pass.lane}
      /\ LaneInv(db) /\ DatabaseOK(db)
  BY DEF IInv, PassInv, TypeInv, TypeOK
<1>3. CASE empty
  <2>1. db' = [db EXCEPT !.lanes = Restrict(@, DOMAIN @ \ {pass.lane})]
    BY <1>3 DEF LeaveLane
  <2>2. /\ db'.journal = db.journal
        /\ db'.lanes = Restrict(db.lanes, DOMAIN db.lanes \ {pass.lane})
    BY <1>2, <2>1 DEF DatabaseOK
  <2>3. LaneInv(db')
    BY <1>2, <1>3, <2>2, DropLane
  <2>4. DOMAIN db'.lanes = DOMAIN db.lanes \ {pass.lane}
    BY <2>2 DEF Restrict
  <2>5. QED
    BY <1>1, <1>2, <1>3, <2>3, <2>4 DEF PassInv
<1>4. CASE ~empty
  <2>1. db' = db
    BY <1>4 DEF LeaveLane
  <2>2. QED
    BY <1>1, <1>2, <1>4, <2>1 DEF PassInv
<1>5. QED
  BY <1>3, <1>4

\* Every step keeps the lanes' invariant.  One step per action.
LEMMA IInvStep == IInv /\ [Next]_vars => IInv'
<1> SUFFICES ASSUME IInv, [Next]_vars
             PROVE  LaneInv(db') /\ LaneInv(disk') /\ PassInv'
  BY TypeInvStep DEF IInv
<1>0. /\ TypeInv /\ TypeInv' /\ DatabaseOK(db) /\ PassOK(pass) /\ LaneInv(db) /\ LaneInv(disk)
      /\ pass.phase = "record" => pass.row \in Rows
  BY TypeInvStep DEF IInv, TypeInv, TypeOK, RowInHand
<1>1. ASSUME NEW a \in Actions, Submit(a)
      PROVE  LaneInv(db') /\ LaneInv(disk') /\ PassInv'
  <2>1. TagsOf[a] \in SUBSET Tags
    BY ActionsAssumption
  <2>2. LaneInv(db')
    <3>1. CASE \E l \in DOMAIN db.lanes : IsLaneForTags(db.lanes, TagsOf[a], l)
      <4>1. PICK l \in DOMAIN db.lanes :
               IsLaneForTags(db.lanes, TagsOf[a], l) /\ db' = AddRow(db, a, l)
        BY <1>1, <3>1 DEF Submit
      <4>2. Considered(TagsOf[a]) \subseteq db.lanes[l].tags
        BY <4>1 DEF IsLaneForTags, IdenticalTags, Considered
      <4>3. QED
        BY <1>0, <4>1, <4>2, AddRowLanes
    <3>2. CASE ~\E l \in DOMAIN db.lanes : IsLaneForTags(db.lanes, TagsOf[a], l)
      <4> DEFINE d == AddLane(db, TagsOf[a])
      <4>1. db' = AddRow(d, a, db.nextLane)
        BY <1>1, <3>2 DEF Submit
      <4>2. DatabaseOK(d) /\ LaneInv(d)
        BY <1>0, <2>1, AddLaneType, AddLaneLanes
      <4>3. /\ db.nextLane \in DOMAIN d.lanes
            /\ d.lanes[db.nextLane].tags = Considered(TagsOf[a])
        BY <1>0 DEF AddLane, NewLane, DatabaseOK
      <4> HIDE DEF d
      <4>4. QED
        BY <4>1, <4>2, <4>3, AddRowLanes
    <3>3. QED
      BY <3>1, <3>2
  <2>3. QED
    BY <1>1, <2>2 DEF Submit, PassInv
<1>2. ASSUME NEW a \in Actions, SubmitEnds(a)
      PROVE  LaneInv(db') /\ LaneInv(disk') /\ PassInv'
  <2>1. db'.journal = db.journal /\ db'.lanes = db.lanes
    BY <1>0, <1>2 DEF SubmitEnds, DatabaseOK
  <2>2. LaneInv(db')
    BY <1>0, <2>1, SameLanes
  <2>3. QED
    BY <1>2, <2>2 DEF SubmitEnds, PassInv
<1>3. ASSUME \/ \E r \in DOMAIN disk.journal : Cancel(r) \/ Elapse(r)
             \/ \E q \in requests : Respond(q)
             \/ \E p \in prompts : Answer(p)
             \/ GoOffline
             \/ GoOnline
             \/ UNCHANGED vars
      PROVE  LaneInv(db') /\ LaneInv(disk') /\ PassInv'
  <2>1. UNCHANGED <<db, disk, pass>>
    BY <1>3 DEF Cancel, Elapse, Respond, Answer, GoOffline, GoOnline, vars
  <2>2. QED
    BY <2>1, UntouchedLanes
<1>4. CASE Crash
  BY <1>0, <1>4 DEF Crash, Idle, PassInv
<1>5. CASE BeginPass
  <2>1. db'.journal = db.journal /\ db'.lanes = db.lanes /\ disk' = db'
    BY <1>0, <1>5 DEF BeginPass, DatabaseOK
  <2>2. LaneInv(db')
    BY <1>0, <2>1, SameLanes
  <2>3. pass'.phase = "lanes" /\ pass'.todo = DOMAIN db.lanes /\ pass'.active = DOMAIN db.lanes
    BY <1>5 DEF BeginPass, Idle
  <2>4. QED
    BY <2>1, <2>2, <2>3 DEF PassInv
<1>6. CASE VisitLane
  <2>1. PICK l \in pass.todo :
           pass' = IF pass.active \cap db.lanes[l].after # {}
                   THEN [pass EXCEPT !.todo = @ \ {l}]
                   ELSE [pass EXCEPT !.todo = @ \ {l}, !.phase = "records",
                                     !.lane = l, !.n = 0]
    BY <1>6 DEF VisitLane
  <2>2. pass.phase = "lanes" /\ pass.active = DOMAIN db.lanes /\ pass.todo \subseteq DOMAIN db.lanes
    BY <1>6 DEF VisitLane, IInv, PassInv
  <2>3. /\ pass'.todo = pass.todo \ {l} /\ pass'.active = pass.active
        /\ \/ pass'.phase = "lanes"
           \/ /\ pass'.phase = "records" /\ pass'.lane = l
              /\ pass.active \cap db.lanes[l].after = {}
    BY <1>0, <2>1, <2>2 DEF PassOK, Idle
  <2>4. db' = db /\ disk' = disk
    BY <1>6 DEF VisitLane
  <2>5. QED
    BY <1>0, <2>2, <2>3, <2>4 DEF PassInv
<1>7. CASE FetchRecord
  <2>1. disk' = disk /\ pass.phase = "records"
    BY <1>7 DEF FetchRecord
  <2>2. ASSUME NEW n, LeaveLane(n, pass.used)
        PROVE  LaneInv(db') /\ PassInv'
    BY <2>1, <2>2, LeaveLaneLanes
  <2>3. ASSUME NEW r \in RowsOn(db, pass.lane), IsHead(db, pass.lane, r),
               pass' = [pass EXCEPT !.phase = "record", !.at = r,
                                    !.row = db.journal[r], !.n = @ + 1,
                                    !.used = Charge(db.journal[r].action, 1)],
               UNCHANGED db
        PROVE  LaneInv(db') /\ PassInv'
    <3>1. /\ pass'.phase = "record" /\ pass'.at = r /\ pass'.row = db.journal[r]
          /\ pass'.lane = pass.lane /\ pass'.todo = pass.todo /\ pass'.active = pass.active
      BY <1>0, <2>3 DEF PassOK, Idle
    <3>2. db.journal[r].lane = pass.lane
      BY DEF RowsOn
    <3>3. QED
      BY <1>0, <2>1, <2>3, <3>1, <3>2 DEF IInv, PassInv
  <2>4. QED
    BY <1>0, <1>7, <2>1, <2>2, <2>3 DEF FetchRecord
<1>8. ASSUME pass.phase = "record", NEW i \in Pending, HandleResponse(i)
      PROVE  LaneInv(db') /\ LaneInv(disk') /\ PassInv'
  <2>1. PICK o \in Results(ClassOf[pass.row.action], db.inbox[i].what) :
           IF o.state = "removed"
           THEN Handled(i, Removed, pass.row, o.next)
           ELSE LET row == Transition(pass.row, o.state, o.wait)
                IN  Handled(i, Stored(row), row, o.next)
    BY <1>8 DEF HandleResponse
  <2>2. RecordStep
    <3>1. CASE o.state = "removed"
      BY <1>0, <1>8, <2>1, <3>1, HandledStep
    <3>2. CASE o.state # "removed"
      <4> DEFINE row == Transition(pass.row, o.state, o.wait)
      <4>1. row.action = pass.row.action /\ row.lane = pass.row.lane
        BY <1>0, <1>8 DEF Transition, Rows
      <4>2. Handled(i, Stored(row), row, o.next)
        BY <2>1, <3>2
      <4> HIDE DEF row
      <4>3. QED
        BY <1>0, <1>8, <4>1, <4>2, HandledStep
    <3>3. QED
      BY <3>1, <3>2
  <2>3. QED
    BY <1>0, <1>8, <2>2, RecordStepLanes DEF HandleResponse
<1>9. ASSUME pass.phase = "record", NEW i \in Pending, HandleAnswer(i)
      PROVE  LaneInv(db') /\ LaneInv(disk') /\ PassInv'
  <2> DEFINE resolved == [pass.row EXCEPT !.wait = "none", !.issue = 0, !.prompted = 0]
             ready == [resolved EXCEPT !.state = "ready"]
  <2>1. /\ resolved.action = pass.row.action /\ resolved.lane = pass.row.lane
        /\ ready.action = pass.row.action /\ ready.lane = pass.row.lane
    BY <1>0, <1>9 DEF Rows
  <2>2. \/ Handled(i, db.journal, pass.row, "none")
        \/ Handled(i, Removed, resolved, "none")
        \/ Handled(i, Stored(ready), ready, "none")
    BY <1>9 DEF HandleAnswer, Choices
  <2> HIDE DEF resolved, ready
  <2>3. RecordStep
    BY <1>0, <1>9, <2>1, <2>2, HandledStep
  <2>4. QED
    BY <1>0, <1>9, <2>3, RecordStepLanes DEF HandleAnswer
<1>10. CASE ProcessCancelled \/ ScheduleObsolete
  <2>1. /\ pass.phase = "record" /\ disk' = disk
        /\ \E instr : Decide(instr, pass.row)
        /\ db' = [db EXCEPT !.journal = Removed]
    BY <1>10 DEF ProcessCancelled, ScheduleObsolete, Schedulable, Undecided
  <2>2. db'.journal = Removed /\ db'.lanes = db.lanes
    BY <1>0, <2>1 DEF DatabaseOK
  <2>3. RecordStep
    BY <1>0, <2>1, <2>2, DecideStep
  <2>4. QED
    BY <1>0, <2>1, <2>3, RecordStepLanes
<1>11. CASE ScheduleRemoved \/ AwaitResult
  <2>1. /\ pass.phase = "record" /\ disk' = disk /\ db' = db
        /\ \E instr : Decide(instr, pass.row)
    BY <1>11 DEF ScheduleRemoved, AwaitResult, Schedulable, Undecided
  <2>2. RecordStep
    BY <1>0, <2>1, DecideStep
  <2>3. QED
    BY <1>0, <2>1, <2>2, RecordStepLanes
<1>12. CASE AwaitAnswer \/ AwaitRefresh \/ ScheduleRequest \/ ScheduleIssue \/ ScheduleImmediate
  <2>1. pass.phase = "record" /\ disk' = disk /\ pass.row \in Rows
    BY <1>0, <1>12 DEF AwaitAnswer, AwaitRefresh, ScheduleRequest, ScheduleIssue,
                       ScheduleImmediate, Schedulable, Undecided
  <2>2. \E row, instr :
           /\ row.action = pass.row.action /\ row.lane = pass.row.lane
           /\ Decide(instr, row)
           /\ db' = db \/ db' = [db EXCEPT !.journal = Stored(row)]
    <3>1. CASE AwaitAnswer
      <4> DEFINE row == [pass.row EXCEPT !.prompted = crashes + 1]
      <4>1. row.action = pass.row.action /\ row.lane = pass.row.lane
        BY <2>1 DEF Rows
      <4>2. QED
        BY <3>1, <4>1 DEF AwaitAnswer
    <3>2. CASE AwaitRefresh
      <4> DEFINE row == [pass.row EXCEPT !.wait = "none"]
      <4>1. row.action = pass.row.action /\ row.lane = pass.row.lane
        BY <2>1 DEF Rows
      <4>2. QED
        BY <3>2, <4>1 DEF AwaitRefresh
    <3>3. CASE ScheduleRequest
      <4> DEFINE row == [pass.row EXCEPT !.state = "processing", !.attempt = @ + 1]
      <4>1. row.action = pass.row.action /\ row.lane = pass.row.lane
        BY <2>1 DEF Rows
      <4>2. QED
        BY <3>3, <4>1 DEF ScheduleRequest
    <3>4. CASE ScheduleIssue
      <4>1. PICK state :
               LET row == [Transition(pass.row, state, "issue") EXCEPT !.attempt = @ + 1]
               IN  db' = [db EXCEPT !.journal = Stored(row)] /\ Decide("stop", row)
        BY <3>4 DEF ScheduleIssue
      <4> DEFINE row == [Transition(pass.row, state, "issue") EXCEPT !.attempt = @ + 1]
      <4>2. row.action = pass.row.action /\ row.lane = pass.row.lane
        BY <2>1 DEF Transition, Rows
      <4>3. QED
        BY <4>1, <4>2
    <3>5. CASE ScheduleImmediate
      <4> DEFINE row == [pass.row EXCEPT !.state = "completed", !.attempt = @ + 1]
      <4>1. row.action = pass.row.action /\ row.lane = pass.row.lane
        BY <2>1 DEF Rows
      <4>2. QED
        BY <3>5, <4>1 DEF ScheduleImmediate
    <3>6. QED
      BY <1>12, <3>1, <3>2, <3>3, <3>4, <3>5
  <2>3. RecordStep
    <3>1. PICK row, instr :
             /\ row.action = pass.row.action /\ row.lane = pass.row.lane
             /\ Decide(instr, row)
             /\ db' = db \/ db' = [db EXCEPT !.journal = Stored(row)]
      BY <2>2
    <3>2. db'.lanes = db.lanes /\ db'.journal \in {db.journal, Stored(row), Removed}
      BY <1>0, <3>1 DEF DatabaseOK
    <3>3. QED
      BY <1>0, <2>1, <3>1, <3>2, DecideStep
  <2>4. QED
    BY <1>0, <2>1, <2>3, RecordStepLanes
<1>13. CASE Stop
  <2>1. disk' = disk /\ pass.phase = "record" /\ \E used : LeaveLane(pass.n, used)
    BY <1>13 DEF Stop
  <2>2. QED
    BY <1>0, <2>1, LeaveLaneLanes
<1>14. CASE GoOn
  <2>1. /\ pass.phase = "record" /\ disk' = disk
        /\ db' = IF pass.instr = "deleteLast" THEN [db EXCEPT !.journal = Removed] ELSE db
    BY <1>14 DEF GoOn
  <2>2. /\ pass'.phase = "records" /\ pass'.lane = pass.lane
        /\ pass'.todo = pass.todo /\ pass'.active = pass.active
    BY <1>0, <1>14 DEF GoOn, PassOK, Idle
  <2>3. db'.lanes = db.lanes /\ db'.journal \in {db.journal, Removed}
    BY <1>0, <2>1 DEF DatabaseOK
  <2>4. LaneInv(db')
    BY <1>0, <2>3, SameLanes, RemoveLanes DEF Removed
  <2>5. QED
    BY <1>0, <2>1, <2>2, <2>3, <2>4 DEF IInv, PassInv
<1>15. CASE EndPass
  BY <1>0, <1>15 DEF EndPass, Idle, PassInv
<1>16. QED
  BY <1>1, <1>2, <1>3, <1>4, <1>5, <1>6, <1>7, <1>8, <1>9, <1>10, <1>11, <1>12, <1>13,
     <1>14, <1>15 DEF Next, PassStep, HandleEvent, Schedule

\* No two records with related tags are ever in progress together, in the open
\* transaction or on disk, whatever is cancelled, fails, crashes or is
\* answered: the lanes of OCCore+SyncEngine.m L719-738 do what they are for.
THEOREM ConflictFree == Spec => []NoConflictingActions
<1>1. Init => IInv
  <2>1. Init => TypeInv
    BY BoundsAssumption
       DEF Init, TypeInv, TypeOK, DatabaseOK, EmptyDatabase, PassOK, Idle, Instructions, RowInHand
  <2>2. Init => LaneInv(db) /\ LaneInv(disk) /\ PassInv
    BY DEF Init, EmptyDatabase, Idle, LaneInv, RowsPlaced, LanesOrdered, AfterEarlier,
           ProgressAllowed, PassInv
  <2>3. QED
    BY <2>1, <2>2 DEF IInv
<1>2. IInv => NoConflictingActions
  BY LaneInvSafe DEF IInv, TypeInv, TypeOK, NoConflictingActions, InProgress
<1>3. QED
  BY <1>1, <1>2, IInvStep, PTL DEF Spec
=============================================================================
