-------------------------- MODULE SyncEngine_requests --------------------------
(***************************************************************************)
(* Theorems about SyncEngine that need to know what is under way for each  *)
(* record: the requests of conflicting records are kept apart, and the     *)
(* result handler of every action is called or can still be.               *)
(***************************************************************************)
EXTENDS SyncEngine_answers

-----------------------------------------------------------------------------
(* Requests *)

\* The record waits for the response to a request.
Waiting(r) == InProgress(db, r) /\ db.journal[r].wait = "none"

\* A request or a response belongs to a record that has been submitted.
NumbersUsed ==
    /\ \A q \in requests : q.record < db.nextRecord
    /\ \A i \in DOMAIN Post : IsResponse(Post[i]) => Post[i].record < db.nextRecord

\* One request or one response is under way for a record that waits for it,
\* and none for any other record of the journal.
OneResult(r) ==
    /\ \A q \in requests : q.record = r =>
          Waiting(r) /\ \A p \in requests : p.record = r => p = q
    /\ \A i \in DOMAIN Post : IsResult(i, r) =>
          /\ Waiting(r)
          /\ \A q \in requests : q.record # r
          /\ \A j \in DOMAIN Post : IsResult(j, r) => j = i

ResultInv ==
    /\ IInv
    /\ RowCurrent
    /\ crashes = 0 => NumbersUsed /\ \A r \in DOMAIN db.journal : OneResult(r)

LEMMA ConcatAppend ==
    ASSUME NEW S, NEW s \in Seq(S), NEW t \in Seq(S), NEW e \in S
    PROVE  s \o Append(t, e) = Append(s \o t, e)
<1> DEFINE u == <<e>>
<1>1. u \in Seq(S) /\ s \o t \in Seq(S)
  BY ConcatProperties
<1>2. Append(t, e) = t \o u /\ Append(s \o t, e) = (s \o t) \o u
  BY <1>1, AppendIsConcat
<1> HIDE DEF u
<1>3. (s \o t) \o u = s \o (t \o u)
  BY <1>1, ConcatAssociative
<1>4. QED
  BY <1>2, <1>3

\* Appending an event to the queue appends it to the post.
LEMMA PostAppend ==
    ASSUME TypeInv, NEW e \in EventRecords, queue' = Append(queue, e), db' = db
    PROVE  /\ DOMAIN Post' = DOMAIN Post \cup {Len(Post) + 1}
           /\ Len(Post) + 1 \notin DOMAIN Post
           /\ \A i \in DOMAIN Post : Post'[i] = Post[i]
           /\ Post'[Len(Post) + 1] = e
<1>1. db.inbox \in Seq(EventRecords) /\ queue \in Seq(EventRecords)
  BY DEF TypeInv, TypeOK, DatabaseOK
<1>2. Post \in Seq(EventRecords)
  BY <1>1, ConcatProperties DEF Post
<1>3. Post' = Append(Post, e)
  <2>1. Post' = db.inbox \o Append(queue, e)
    BY DEF Post
  <2>2. \A s, t \in Seq(EventRecords) : s \o Append(t, e) = Append(s \o t, e)
    BY ConcatAppend
  <2> DEFINE s == db.inbox
             t == queue
  <2>3. s \in Seq(EventRecords) /\ t \in Seq(EventRecords)
    BY <1>1
  <2> HIDE DEF s, t
  <2>4. s \o Append(t, e) = Append(s \o t, e)
    BY <2>2, <2>3
  <2>5. QED
    BY <2>1, <2>4 DEF Post, s, t
<1> DEFINE s == Post
<1>4. /\ s \in Seq(EventRecords) /\ Len(s) \in Nat /\ DOMAIN s = 1 .. Len(s)
      /\ DOMAIN Append(s, e) = 1 .. Len(s) + 1
      /\ \A j \in 1 .. Len(s) : Append(s, e)[j] = s[j]
      /\ Append(s, e)[Len(s) + 1] = e
  BY <1>2, AppendProperties, LenProperties
<1>5. QED
  BY <1>3, <1>4

\* Where an event was before the i-th one was handled.
Before(i, j) == IF j < i THEN j ELSE j + 1

LEMMA PostWithout ==
    ASSUME TypeInv, NEW i \in DOMAIN db.inbox, queue' = queue,
           db'.inbox = Without(db.inbox, i)
    PROVE  /\ i \in DOMAIN Post /\ Post[i] = db.inbox[i]
           /\ \A j \in DOMAIN Post' :
                 /\ Before(i, j) \in DOMAIN Post \ {i}
                 /\ Post'[j] = Post[Before(i, j)]
           /\ \A j, k \in DOMAIN Post' : Before(i, j) = Before(i, k) => j = k
<1> DEFINE s == db.inbox
           t == Without(db.inbox, i)
<1>1. s \in Seq(EventRecords) /\ queue \in Seq(EventRecords)
  BY DEF TypeInv, TypeOK, DatabaseOK
<1>2. /\ Len(s) \in Nat /\ Len(queue) \in Nat /\ i \in 1 .. Len(s)
      /\ t \in Seq(EventRecords) /\ Len(t) = Len(s) - 1 /\ DOMAIN t = 1 .. Len(s) - 1
      /\ \A j \in 1 .. Len(s) - 1 : t[j] = s[Before(i, j)]
  <2>1. Len(s) \in Nat /\ Len(queue) \in Nat /\ i \in 1 .. Len(s)
    BY <1>1, LenProperties
  <2>2. /\ t \in Seq(EventRecords) /\ Len(t) = Len(s) - 1
        /\ \A j \in DOMAIN t : t[j] = s[Before(i, j)]
    BY <1>1, WithoutIndices DEF Before
  <2> HIDE DEF t
  <2>3. DOMAIN t = 1 .. Len(s) - 1
    BY <2>2, LenProperties
  <2>4. QED
    BY <2>1, <2>2, <2>3
<1>3. /\ DOMAIN Post = 1 .. Len(s) + Len(queue)
      /\ \A j \in 1 .. Len(s) + Len(queue) :
            Post[j] = IF j <= Len(s) THEN s[j] ELSE queue[j - Len(s)]
  <2>1. Post \in Seq(EventRecords) /\ Len(Post) = Len(s) + Len(queue)
    BY <1>1, ConcatProperties DEF Post
  <2>2. QED
    BY <1>1, <2>1, ConcatProperties, LenProperties DEF Post
<1>4. Post' = t \o queue
  BY DEF Post
<1> HIDE DEF s, t
<1>5. /\ DOMAIN Post' = 1 .. Len(s) - 1 + Len(queue)
      /\ \A j \in 1 .. Len(s) - 1 + Len(queue) :
            Post'[j] = IF j <= Len(s) - 1 THEN t[j] ELSE queue[j - (Len(s) - 1)]
  <2>1. /\ t \o queue \in Seq(EventRecords) /\ Len(t \o queue) = Len(t) + Len(queue)
        /\ \A j \in 1 .. Len(t) + Len(queue) :
              (t \o queue)[j] = IF j <= Len(t) THEN t[j] ELSE queue[j - Len(t)]
    BY <1>1, <1>2, ConcatProperties
  <2>2. DOMAIN (t \o queue) = 1 .. Len(t) + Len(queue)
    BY <2>1, LenProperties
  <2>3. QED
    BY <1>2, <1>4, <2>1, <2>2
<1>6. i \in DOMAIN Post /\ Post[i] = db.inbox[i]
  <2>1. i \in 1 .. Len(s) + Len(queue) /\ i <= Len(s)
    BY <1>2
  <2>2. QED
    BY <1>3, <2>1 DEF s
<1>7. ASSUME NEW j \in DOMAIN Post'
      PROVE  Before(i, j) \in DOMAIN Post \ {i} /\ Post'[j] = Post[Before(i, j)]
  <2>1. Before(i, j) \in 1 .. Len(s) + Len(queue) /\ Before(i, j) # i
    BY <1>2, <1>5 DEF Before
  <2>2. CASE j <= Len(s) - 1
    <3>1. j \in 1 .. Len(s) - 1 /\ Before(i, j) <= Len(s)
      BY <1>2, <1>5, <2>2 DEF Before
    <3>2. QED
      BY <1>2, <1>3, <1>5, <2>1, <2>2, <3>1
  <2>3. CASE ~(j <= Len(s) - 1)
    <3>1. /\ Before(i, j) = j + 1 /\ ~(Before(i, j) <= Len(s))
          /\ Before(i, j) - Len(s) = j - (Len(s) - 1)
      BY <1>2, <1>5, <2>3 DEF Before
    <3>2. QED
      BY <1>3, <1>5, <2>1, <2>3, <3>1
  <2>4. QED
    BY <2>2, <2>3, <2>1, <1>3
<1>8. \A j, k \in DOMAIN Post' : Before(i, j) = Before(i, k) => j = k
  BY <1>2, <1>5 DEF Before
<1>9. QED
  BY <1>6, <1>7, <1>8

\* What a decision does to requests: a record that waits for a response is left
\* alone or removed, and only a record that did not wait gets a request.
LEMMA DecisionRequests ==
    ASSUME IInv, RowCurrent, Decision
    PROVE  /\ queue' = queue /\ crashes' = crashes
           /\ \/ db'.journal \in {db.journal, Removed} /\ requests' = requests
              \/ \E row :
                    /\ InJournal /\ ~Waiting(pass.at)
                    /\ db'.journal = Stored(row)
                    /\ \/ requests' = requests
                       \/ /\ row.state = "processing" /\ row.wait = "none"
                          /\ \E q : requests' = requests \cup {q} /\ q.record = pass.at
<1>0. /\ TypeInv /\ DatabaseOK(db) /\ pass.phase = "record" /\ pass.row \in Rows
      /\ InJournal => pass.row = db.journal[pass.at]
  BY DEF IInv, RowCurrent, TypeInv, TypeOK, RowInHand, Decision, ProcessCancelled, AwaitAnswer,
         AwaitRefresh, Schedule, AwaitResult, ScheduleRequest, ScheduleIssue,
         ScheduleObsolete, ScheduleImmediate, ScheduleRemoved, Schedulable, Undecided
<1>1. queue' = queue /\ crashes' = crashes
  BY DEF Decision, ProcessCancelled, AwaitAnswer, AwaitRefresh, Schedule, AwaitResult,
         ScheduleRequest, ScheduleIssue, ScheduleObsolete, ScheduleImmediate,
         ScheduleRemoved, outside, world
<1>2. ASSUME NEW row, db' = [db EXCEPT !.journal = Stored(row)],
             pass.row.wait # "none" \/ pass.row.state # "processing",
             requests' = requests
      PROVE  /\ db'.journal = db.journal \/ (InJournal /\ ~Waiting(pass.at))
             /\ db'.journal = Stored(row)
  BY <1>0, <1>2 DEF DatabaseOK, Stored, Waiting, InProgress
<1>3. CASE ProcessCancelled \/ ScheduleObsolete
  BY <1>0, <1>1, <1>3 DEF ProcessCancelled, ScheduleObsolete, DatabaseOK, outside
<1>4. CASE ScheduleRemoved \/ AwaitResult
  BY <1>1, <1>4 DEF ScheduleRemoved, AwaitResult, outside
<1>5. CASE AwaitAnswer \/ AwaitRefresh
  <2>1. /\ requests' = requests /\ pass.row.wait # "none"
        /\ db' = db \/ \E row : db' = [db EXCEPT !.journal = Stored(row)]
    BY <1>5 DEF AwaitAnswer, AwaitRefresh, outside
  <2>2. QED
    BY <1>1, <1>2, <2>1
<1>6. CASE ScheduleIssue \/ ScheduleImmediate
  <2>1. /\ requests' = requests /\ pass.row.state # "processing"
        /\ \E row : db' = [db EXCEPT !.journal = Stored(row)]
    BY <1>6 DEF ScheduleIssue, ScheduleImmediate, Schedulable, outside
  <2>2. QED
    BY <1>1, <1>2, <2>1
<1>7. CASE ScheduleRequest
  <2> DEFINE row == [pass.row EXCEPT !.state = "processing", !.attempt = @ + 1]
             q == [record |-> pass.at, class |-> ClassOf[row.action],
                   attempt |-> row.attempt, epoch |-> crashes]
  <2>1. row.state = "processing" /\ row.wait = "none"
    BY <1>0, <1>7 DEF ScheduleRequest, Schedulable, Rows
  <2>2. requests' = requests \cup {q} /\ q.record = pass.at
    BY <1>7 DEF ScheduleRequest
  <2>3. db'.journal = Stored(row)
    BY <1>0, <1>7 DEF ScheduleRequest, DatabaseOK
  <2>4. InJournal /\ ~Waiting(pass.at)
    BY <1>0, <1>7 DEF ScheduleRequest, Schedulable, Waiting, InProgress
  <2> HIDE DEF row, q
  <2>5. QED
    BY <1>1, <2>1, <2>2, <2>3, <2>4
<1>8. QED
  BY <1>3, <1>4, <1>5, <1>6, <1>7 DEF Decision, Schedule

\* What an event does: a response is taken out of the post, an answer leaves a
\* record that waits for a response as it is.
LEMMA HandleEventRequests ==
    ASSUME IInv, RowCurrent, HandleEvent
    PROVE  /\ requests' = requests /\ queue' = queue /\ crashes' = crashes
           /\ db'.nextRecord = db.nextRecord
           /\ \E i \in DOMAIN db.inbox :
                 /\ db'.inbox = Without(db.inbox, i)
                 /\ db.inbox[i].record = pass.at
                 /\ \/ db'.journal \in {db.journal, Removed}
                    \/ \E row :
                          /\ db'.journal = Stored(row)
                          /\ IsResponse(db.inbox[i]) \/ ~Waiting(pass.at)
<1>0. TypeInv
  BY DEF IInv
<1>1. PICK i \in Pending : pass.phase = "record" /\ (HandleResponse(i) \/ HandleAnswer(i))
  BY DEF HandleEvent
<1>2. /\ requests' = requests /\ queue' = queue /\ crashes' = crashes /\ disk' = disk
      /\ i \in DOMAIN db.inbox /\ db.inbox[i].record = pass.at
  BY <1>1 DEF HandleResponse, HandleAnswer, outside, world, Pending, ForRecord
<1>3. ASSUME NEW journal, NEW row, NEW next, Handled(i, journal, row, next)
      PROVE  /\ db'.journal = journal /\ db'.nextRecord = db.nextRecord
             /\ db'.inbox = Without(db.inbox, i)
  BY <1>0, <1>1, <1>2, <1>3, HandledInHand DEF InHand
<1>4. CASE HandleResponse(i)
  <2>1. \/ \E row, next : Handled(i, Removed, row, next)
        \/ \E row, next : Handled(i, Stored(row), row, next)
    BY <1>4 DEF HandleResponse
  <2>2. IsResponse(db.inbox[i])
    BY <1>4 DEF HandleResponse, IsResponse
  <2>3. QED
    BY <1>2, <1>3, <2>1, <2>2
<1>5. CASE HandleAnswer(i)
  <2>1. \/ \E row, next : Handled(i, db.journal, row, next)
        \/ \E row, next : Handled(i, Removed, row, next)
        \/ \E row, next : pass.row.wait = "issue" /\ Handled(i, Stored(row), row, next)
    BY <1>5 DEF HandleAnswer, Choices
  <2>2. CASE \E row, next : pass.row.wait = "issue" /\ Handled(i, Stored(row), row, next)
    <3>1. PICK row : db'.journal = Stored(row)
      BY <1>3, <2>2
    <3>2. db'.journal = db.journal \/ ~Waiting(pass.at)
      BY <1>1, <2>2, <3>1 DEF RowCurrent, Waiting, InProgress, Stored
    <3>3. QED
      BY <1>2, <1>3, <2>2, <3>1, <3>2
  <2>3. QED
    BY <1>2, <1>3, <2>1, <2>2
<1>6. QED
  BY <1>1, <1>4, <1>5

LEMMA ResultStep == ResultInv /\ [Next]_vars => ResultInv'
<1> SUFFICES ASSUME ResultInv, [Next]_vars, crashes' = 0
             PROVE  NumbersUsed' /\ \A r \in DOMAIN db'.journal : OneResult(r)'
  BY IInvStep, RowCurrentStep DEF ResultInv, IInv
<1>0. /\ IInv /\ TypeInv /\ RowCurrent
      /\ db.inbox \in Seq(EventRecords) /\ queue \in Seq(EventRecords) /\ crashes \in Nat
      /\ db.nextRecord \in Nat
      /\ \A r \in DOMAIN db.journal : r \in Nat /\ r < db.nextRecord
      /\ \A q \in requests : q.record \in Nat
      /\ \A i \in DOMAIN Post : Post[i].record \in Nat
  <2>1. TypeInv /\ DatabaseOK(db) /\ crashes \in Nat
    BY BoundsAssumption DEF ResultInv, IInv, TypeInv, TypeOK
  <2>2. /\ db.inbox \in Seq(EventRecords) /\ queue \in Seq(EventRecords)
        /\ db.nextRecord \in Nat
        /\ \A r \in DOMAIN db.journal : r \in Nat /\ r < db.nextRecord
        /\ \A q \in requests : q.record \in Nat
    BY <2>1 DEF DatabaseOK, TypeInv, TypeOK, Requests
  <2>3. \A i \in DOMAIN Post : Post[i] \in EventRecords
    BY <2>2, ConcatProperties, ElementOfSeq DEF Post
  <2>4. QED
    BY <2>1, <2>2, <2>3 DEF ResultInv, EventRecords
<1>1. CASE Crash
  BY <1>0, <1>1 DEF Crash
<1>2. CASE ~Crash /\ crashes # 0
  <2>1. crashes' = crashes
    BY <1>2 DEF Next, PassStep, HandleEvent, Schedule, Submit, SubmitEnds, Cancel, Elapse,
       Respond, Answer, GoOffline, GoOnline, BeginPass, VisitLane, FetchRecord,
       HandleResponse, HandleAnswer, ProcessCancelled, AwaitAnswer, AwaitRefresh,
       AwaitResult, ScheduleRequest, ScheduleIssue, ScheduleObsolete, ScheduleImmediate,
       ScheduleRemoved, Stop, GoOn, EndPass, world, vars
  <2>2. QED
    BY <1>2, <2>1
<1>3. ASSUME crashes = 0
      PROVE  NumbersUsed /\ \A r \in DOMAIN db.journal : OneResult(r)
  BY <1>3 DEF ResultInv
<1>4. CASE crashes = 0 /\ Around
  <2>1. db' = db
    BY <1>4, AroundStep
  <2>2. ASSUME NEW q \in requests, Respond(q)
        PROVE  NumbersUsed' /\ \A r \in DOMAIN db'.journal : OneResult(r)'
    <3>1. PICK what \in Responses(q.class) : queue' = Append(queue, Event(q.record, what, 0))
      BY <2>2 DEF Respond
    <3> DEFINE e == Event(q.record, what, 0)
               n == Len(Post) + 1
    <3>2. e \in EventRecords
      BY <1>0 DEF Event, EventRecords, Answers, TypeInv, TypeOK, Requests
    <3>3. e.record = q.record /\ IsResponse(e)
      BY ResponsesApart DEF Event, IsResponse
    <3>4. /\ DOMAIN Post' = DOMAIN Post \cup {n} /\ n \notin DOMAIN Post
          /\ \A i \in DOMAIN Post : Post'[i] = Post[i]
          /\ Post'[n] = e
      BY <1>0, <2>1, <3>1, <3>2, PostAppend
    <3>5. requests' = requests \ {q}
      BY <2>2 DEF Respond
    <3> HIDE DEF e, n
    <3>6. NumbersUsed'
      BY <1>3, <1>4, <2>1, <3>3, <3>4, <3>5 DEF NumbersUsed
    <3>7. ASSUME NEW r \in DOMAIN db.journal
          PROVE  OneResult(r)'
      <4>1. OneResult(r) /\ (Waiting(r)' <=> Waiting(r))
        BY <1>3, <1>4, <2>1 DEF Waiting, InProgress
      <4>2. \A i \in DOMAIN Post' : IsResult(i, r)' =>
               IF i = n THEN r = q.record ELSE i \in DOMAIN Post /\ IsResult(i, r)
        BY <3>3, <3>4 DEF IsResult, IsResponse
      <4>3. QED
        BY <2>2, <3>5, <4>1, <4>2 DEF OneResult
    <3>8. QED
      BY <2>1, <3>6, <3>7
  <2>3. ASSUME NEW p \in prompts, Answer(p)
        PROVE  NumbersUsed' /\ \A r \in DOMAIN db'.journal : OneResult(r)'
    <3>1. PICK choice \in Choices : queue' = Append(queue, Event(p.record, choice, p.issue))
      BY <2>3 DEF Answer
    <3> DEFINE e == Event(p.record, choice, p.issue)
               n == Len(Post) + 1
    <3>2. e \in EventRecords
      BY <1>0 DEF Event, EventRecords, Answers, TypeInv, TypeOK, Prompts
    <3>3. ~IsResponse(e)
      BY DEF Event, IsResponse
    <3>4. /\ DOMAIN Post' = DOMAIN Post \cup {n} /\ n \notin DOMAIN Post
          /\ \A i \in DOMAIN Post : Post'[i] = Post[i]
          /\ Post'[n] = e
      BY <1>0, <2>1, <3>1, <3>2, PostAppend
    <3>5. requests' = requests
      BY <2>3 DEF Answer
    <3> HIDE DEF e, n
    <3>6. NumbersUsed'
      BY <1>3, <1>4, <2>1, <3>3, <3>4, <3>5 DEF NumbersUsed
    <3>7. ASSUME NEW r \in DOMAIN db.journal
          PROVE  OneResult(r)'
      <4>1. OneResult(r) /\ (Waiting(r)' <=> Waiting(r))
        BY <1>3, <1>4, <2>1 DEF Waiting, InProgress
      <4>2. \A i \in DOMAIN Post' : IsResult(i, r)' => i \in DOMAIN Post /\ IsResult(i, r)
        BY <3>3, <3>4 DEF IsResult, IsResponse
      <4>3. QED
        BY <3>5, <4>1, <4>2 DEF OneResult
    <3>8. QED
      BY <2>1, <3>6, <3>7
  <2>4. CASE \/ \E r \in DOMAIN disk.journal : Cancel(r) \/ Elapse(r)
             \/ GoOffline
             \/ GoOnline
             \/ UNCHANGED vars
    <3>1. queue' = queue /\ requests' = requests
      BY <2>4 DEF Cancel, Elapse, GoOffline, GoOnline, vars, outside
    <3>2. QED
      BY <1>3, <1>4, <2>1, <3>1
         DEF NumbersUsed, OneResult, IsResult, IsResponse, Waiting, InProgress, Post
  <2>5. QED
    BY <1>4, <2>2, <2>3, <2>4 DEF Around
\* Nothing but the journal changes, if that.
<1>5. ASSUME crashes = 0, Post' = Post, requests' = requests,
             db'.nextRecord \in Nat, db.nextRecord <= db'.nextRecord,
             \A r \in DOMAIN db'.journal :
                \/ r \in DOMAIN db.journal /\ db'.journal[r] = db.journal[r]
                \/ r = db.nextRecord
                \/ r \in DOMAIN db.journal /\ ~Waiting(r)
      PROVE  NumbersUsed' /\ \A r \in DOMAIN db'.journal : OneResult(r)'
  <2>1. NumbersUsed'
    BY <1>0, <1>3, <1>5 DEF NumbersUsed
  <2>2. ASSUME NEW r \in DOMAIN db'.journal
        PROVE  OneResult(r)'
    <3>1. CASE r \in DOMAIN db.journal /\ db'.journal[r] = db.journal[r]
      BY <1>3, <1>5, <3>1 DEF OneResult, IsResult, IsResponse, Waiting, InProgress
    <3>2. CASE r = db.nextRecord
      BY <1>0, <1>3, <1>5, <3>2 DEF NumbersUsed, OneResult, IsResult, IsResponse
    <3>3. CASE r \in DOMAIN db.journal /\ ~Waiting(r)
      BY <1>3, <1>5, <3>3 DEF OneResult, IsResult, IsResponse
    <3>4. QED
      BY <1>5, <3>1, <3>2, <3>3
  <2>3. QED
    BY <2>1, <2>2
<1>6. CASE crashes = 0 /\ \E a \in Actions : Submit(a) \/ SubmitEnds(a)
  <2>1. PICK a \in Actions : Submit(a) \/ SubmitEnds(a)
    BY <1>6
  <2>2. /\ db'.inbox = db.inbox /\ queue' = queue /\ requests' = requests
        /\ db'.nextRecord = db.nextRecord + 1
        /\ \A r \in DOMAIN db'.journal : r \in DOMAIN db.journal \/ r = db.nextRecord
        /\ \A r \in DOMAIN db.journal : db'.journal[r] = db.journal[r]
    BY <1>0, <2>1, SubmitStep DEF outside
  <2>3. QED
    BY <1>0, <1>5, <1>6, <2>2 DEF Post
<1>7. CASE crashes = 0 /\ BeginPass
  <2>1. Post' = Post
    <3>1. (db.inbox \o queue) \o <<>> = db.inbox \o queue
      BY <1>0, ConcatProperties, ConcatEmptySeq
    <3>2. QED
      BY <1>0, <1>7, <3>1, BeginPassStep DEF Post
  <2>2. QED
    BY <1>0, <1>5, <1>7, <2>1, BeginPassStep
<1>8. CASE crashes = 0 /\ (Walk \/ GoOn)
  <2>1. /\ db'.inbox = db.inbox /\ queue' = queue /\ requests' = requests
        /\ db'.nextRecord = db.nextRecord
        /\ db'.journal \in {db.journal, Removed}
    BY <1>0, <1>8, WalkStep, GoOnStep DEF outside
  <2>2. QED
    BY <1>0, <1>5, <1>8, <2>1, RemovedRows DEF Post
<1>9. CASE crashes = 0 /\ Decision
  <2>1. db'.inbox = db.inbox /\ db'.nextRecord = db.nextRecord /\ queue' = queue
    BY <1>0, <1>9, DecisionStep, DecisionRequests DEF InHand
  <2>2. Post' = Post
    BY <2>1 DEF Post
  <2>3. CASE db'.journal \in {db.journal, Removed} /\ requests' = requests
    BY <1>0, <1>5, <1>9, <2>1, <2>2, <2>3, RemovedRows
  <2>4. ASSUME NEW row, InJournal, ~Waiting(pass.at), db'.journal = Stored(row)
        PROVE  \A r \in DOMAIN db'.journal :
                  \/ r \in DOMAIN db.journal /\ db'.journal[r] = db.journal[r]
                  \/ r = pass.at /\ r \in DOMAIN db.journal /\ ~Waiting(r)
    BY <2>4, StoredRows
  <2>5. ASSUME NEW row, InJournal, ~Waiting(pass.at), db'.journal = Stored(row),
               row.state = "processing", row.wait = "none",
               NEW q, requests' = requests \cup {q}, q.record = pass.at
        PROVE  NumbersUsed' /\ \A r \in DOMAIN db'.journal : OneResult(r)'
    <3>1. NumbersUsed'
      BY <1>0, <1>3, <1>9, <2>1, <2>2, <2>5 DEF NumbersUsed, InJournal
    <3>2. ASSUME NEW r \in DOMAIN db'.journal
          PROVE  OneResult(r)'
      <4>1. CASE r \in DOMAIN db.journal /\ db'.journal[r] = db.journal[r] /\ r # pass.at
        BY <1>3, <1>9, <2>2, <2>5, <4>1 DEF OneResult, IsResult, IsResponse, Waiting, InProgress
      <4>2. CASE r = pass.at
        <5>1. Waiting(r)'
          BY <2>5, <4>2, StoredRows DEF Waiting, InProgress, InJournal
        <5>2. /\ \A p \in requests : p.record # r
              /\ \A i \in DOMAIN Post : ~IsResult(i, r)
          BY <1>3, <1>9, <2>5, <4>2 DEF OneResult, InJournal
        <5>3. QED
          BY <2>2, <2>5, <4>2, <5>1, <5>2 DEF OneResult, IsResult, IsResponse
      <4>3. QED
        BY <2>4, <2>5, <4>1, <4>2
    <3>3. QED
      BY <3>1, <3>2
  <2>6. QED
    BY <1>0, <1>5, <1>9, <2>1, <2>2, <2>3, <2>4, <2>5, DecisionRequests
<1>10. CASE crashes = 0 /\ HandleEvent
  <2>1. requests' = requests /\ queue' = queue /\ db'.nextRecord = db.nextRecord
    BY <1>0, <1>10, HandleEventRequests
  <2>2. PICK i \in DOMAIN db.inbox :
           /\ db'.inbox = Without(db.inbox, i)
           /\ db.inbox[i].record = pass.at
           /\ \/ db'.journal \in {db.journal, Removed}
              \/ \E row :
                    /\ db'.journal = Stored(row)
                    /\ IsResponse(db.inbox[i]) \/ ~Waiting(pass.at)
    BY <1>0, <1>10, HandleEventRequests
  <2>3. /\ i \in DOMAIN Post /\ Post[i] = db.inbox[i]
        /\ \A j \in DOMAIN Post' :
              /\ Before(i, j) \in DOMAIN Post \ {i}
              /\ Post'[j] = Post[Before(i, j)]
        /\ \A j, k \in DOMAIN Post' : Before(i, j) = Before(i, k) => j = k
    BY <1>0, <2>1, <2>2, PostWithout
  <2>4. NumbersUsed'
    BY <1>3, <1>10, <2>1, <2>3 DEF NumbersUsed
  <2>5. \A r : \A j \in DOMAIN Post' : IsResult(j, r)' =>
           Before(i, j) \in DOMAIN Post \ {i} /\ IsResult(Before(i, j), r)
    BY <2>3 DEF IsResult, IsResponse
  <2>6. ASSUME NEW r \in DOMAIN db'.journal
        PROVE  OneResult(r)'
    <3>1. r \in DOMAIN db.journal /\ OneResult(r)
      BY <1>3, <1>10, <2>2, <2>6, RemovedRows, StoredRows
    <3>2. CASE db'.journal[r] = db.journal[r]
      <4>1. Waiting(r)' <=> Waiting(r)
        BY <2>6, <3>1, <3>2 DEF Waiting, InProgress
      <4>2. QED
        BY <2>1, <2>3, <2>5, <3>1, <4>1 DEF OneResult
    <3>3. CASE r = pass.at /\ ~Waiting(r)
      BY <2>1, <2>3, <2>5, <3>1, <3>3 DEF OneResult
    \* The response that was handled was all that was under way.
    <3>4. CASE r = pass.at /\ IsResponse(db.inbox[i])
      <4>1. IsResult(i, r)
        BY <2>2, <2>3, <3>4 DEF IsResult, IsResponse
      <4>2. /\ \A q \in requests : q.record # r
            /\ \A j \in DOMAIN Post \ {i} : ~IsResult(j, r)
        BY <2>3, <3>1, <4>1 DEF OneResult
      <4>3. QED
        BY <2>1, <2>5, <4>2 DEF OneResult
    <3>5. QED
      BY <2>2, <2>6, <3>1, <3>2, <3>3, <3>4, RemovedRows, StoredRows
  <2>7. QED
    BY <2>4, <2>6
<1>11. QED
  BY <1>0, <1>1, <1>2, <1>4, <1>6, <1>7, <1>8, <1>9, <1>10, StepKinds

LEMMA ResultInit == Init => ResultInv
<1>1. Init => IInv
  BY TypeInit DEF IInv, Init, EmptyDatabase, Idle, LaneInv, RowsPlaced, LanesOrdered,
                  AfterEarlier, ProgressAllowed, PassInv
<1>2. Init => RowCurrent
  BY DEF Init, Idle, RowCurrent
<1>3. Init => requests = {} /\ Post = <<>> /\ db.journal = <<>>
  BY DEF Init, EmptyDatabase, Post
<1>4. QED
  BY <1>1, <1>2, <1>3 DEF ResultInv, NumbersUsed

\* As long as no pass was rolled back, no response to an earlier attempt is left
\* when a record is scheduled anew: of requests and responses for a record one is
\* under way at most, and the record waits for it (OCCore+SyncEngine.m L1116-1160).
THEOREM OneResultForEach == Spec => []OneResultUnderWay
<1>1. ResultInv => OneResultUnderWay
  <2> SUFFICES ASSUME ResultInv, crashes = 0, NEW r \in DOMAIN db.journal
               PROVE  LET out == {x \in requests : x.record = r}
                          back == {i \in DOMAIN Post : IsResult(i, r)}
                      IN  /\ \A x, y \in out : x = y
                          /\ \A i, j \in back : i = j
                          /\ out = {} \/ back = {}
                          /\ out # {} \/ back # {} =>
                                InProgress(db, r) /\ db.journal[r].wait = "none"
    BY DEF OneResultUnderWay
  <2>1. OneResult(r)
    BY DEF ResultInv
  <2>2. QED
    BY <2>1 DEF OneResult, Waiting
<1>2. QED
  BY <1>1, ResultInit, ResultStep, PTL DEF Spec

\* A process that goes on never asks the server for conflicting things at the
\* same time: a request that is out belongs to a record that waits for it, and
\* no two such records have related tags (OCCore+SyncEngine.m L719-738).
THEOREM RequestsKeptApart == Spec => []RequestsApart
<1>1. ResultInv => RequestsApart
  <2> SUFFICES ASSUME ResultInv, crashes = 0, NEW q1 \in requests, NEW q2 \in requests,
                      q1.record \in DOMAIN db.journal, q2.record \in DOMAIN db.journal,
                      q1.record # q2.record
               PROVE  ~Conflict(db, q1.record, q2.record)
    BY DEF RequestsApart, NoConflictingRequests
  <2>1. InProgress(db, q1.record) /\ InProgress(db, q2.record)
    BY DEF ResultInv, OneResult, Waiting
  <2>2. DatabaseOK(db) /\ LaneInv(db)
    BY DEF ResultInv, IInv, TypeInv, TypeOK
  <2>3. QED
    BY <2>1, <2>2, LaneInvSafe DEF InProgress
<1>2. QED
  BY <1>1, ResultInit, ResultStep, PTL DEF Spec

-----------------------------------------------------------------------------
(* Result handlers *)

\* The classes whose actions owe their caller a result.  The others may end
\* without one: see NoHandlerForgotten.
Told == {"delete", "copyMove", "createFolder", "update", "upload"}

\* The caller of action a is still owed a result, if these are the actions
\* whose handlers wait.
Owed(a, waiting) == ClassOf[a] \in Told /\ a \in waiting

HandlerInv ==
    /\ TypeInv
    /\ RowCurrent
    /\ NoHandlerForgotten
    /\ \A r \in DOMAIN db.journal : db.journal[r].action \in submitted
    /\ \A r \in DOMAIN disk.journal : disk.journal[r].action \in submitted
    /\ \A r \in DOMAIN db.journal :
          db.journal[r].state = "completed" => ~Owed(db.journal[r].action, unanswered)
    /\ pass.phase = "record" /\ (pass.row.state = "completed" \/ pass.instr = "deleteLast") =>
          ~Owed(pass.row.action, unanswered)
    /\ pass.phase # "record" => pass.instr = "none"

\* An action that completes, or removes its record, calls its result handler.
LEMMA ResultsCall ==
    ASSUME NEW class \in Told, NEW response, NEW o \in Results(class, response)
    PROVE  o.state \in {"completed", "removed"} \/ o.next = "deleteLast" => o.call
<1>1. o \in {Done, Ask, [Ask EXCEPT !.call = FALSE],
             Outcome("removed", "none", TRUE, "processNext"),
             Outcome("ready", "none", TRUE, "stop")}
  BY DEF Told, Results, CreateFolderResults, UpdateResults, DeleteResults, UploadResults,
         CopyMoveResults
<1>2. Done.call /\ Outcome("removed", "none", TRUE, "processNext").call
  BY Zenon DEF Done, Outcome
<1>3. /\ Ask.state = "processing" /\ Ask.next = "none"
      /\ [Ask EXCEPT !.call = FALSE].state = "processing"
      /\ [Ask EXCEPT !.call = FALSE].next = "none"
      /\ Outcome("ready", "none", TRUE, "stop").state = "ready"
      /\ Outcome("ready", "none", TRUE, "stop").next = "stop"
  BY DEF Ask, Outcome
<1>4. QED
  BY <1>1, <1>2, <1>3

\* A step on the record in hand does not delete or complete it before its
\* result handler is called.
SettlingStep ==
    \E row, instr :
        /\ InHand(db'.journal, row, instr)
        /\ db'.journal \in {db.journal, Stored(row), Removed}
        /\ row.action = pass.row.action
        /\ submitted' = submitted
        /\ unanswered' \in {unanswered, unanswered \ {pass.row.action}}
        /\ InJournal /\ db'.journal = Removed => ~Owed(pass.row.action, unanswered')
        /\ row.state = "completed" \/ instr = "deleteLast" => ~Owed(row.action, unanswered')

LEMMA DecisionSettles == HandlerInv /\ Decision => SettlingStep
<1> SUFFICES ASSUME HandlerInv, Decision
             PROVE  SettlingStep
  OBVIOUS
<1>0. /\ TypeInv /\ pass.phase = "record" /\ pass.row \in Rows /\ pass.instr = "none"
      /\ pass.row.state = "completed" => ~Owed(pass.row.action, unanswered)
      /\ disk' = disk /\ submitted' = submitted
  BY DEF HandlerInv, TypeInv, RowInHand, Decision, ProcessCancelled, AwaitAnswer,
         AwaitRefresh, Schedule, AwaitResult, ScheduleRequest, ScheduleIssue,
         ScheduleObsolete, ScheduleImmediate, ScheduleRemoved, Schedulable, Undecided, app
<1>1. ASSUME NEW row, NEW instr, Decide(instr, row),
             \/ db' = db /\ row = pass.row
             \/ db' = [db EXCEPT !.journal = Stored(row)],
             row.action = pass.row.action, unanswered' = unanswered,
             row.state = "completed" \/ instr = "deleteLast" => ~Owed(row.action, unanswered)
      PROVE  SettlingStep
  <2>1. InHand(db'.journal, row, instr) /\ db'.journal \in {db.journal, Stored(row)}
    <3>1. CASE db' = db /\ row = pass.row
      BY <1>0, <1>1, <3>1, KeepInHand DEF InHand
    <3>2. CASE db' = [db EXCEPT !.journal = Stored(row)]
      BY <1>0, <1>1, <3>2, DecideInHand DEF InHand
    <3>3. QED
      BY <1>1, <3>1, <3>2
  <2>2. ~(InJournal /\ db'.journal = Removed)
    BY <2>1, RemovedRows, StoredRows DEF InJournal
  <2>3. QED
    BY <1>0, <1>1, <2>1, <2>2 DEF SettlingStep
<1>2. CASE ProcessCancelled \/ ScheduleObsolete
  <2>1. PICK instr \in {"processNext", "stop"} :
           /\ Decide(instr, pass.row)
           /\ db' = [db EXCEPT !.journal = Removed]
           /\ CallHandler(TRUE)
    BY <1>2 DEF ProcessCancelled, ScheduleObsolete
  <2>2. InHand(Removed, pass.row, instr) /\ db'.journal = Removed
    BY <1>0, <2>1, DecideInHand DEF InHand
  <2>3. unanswered' = unanswered \ {pass.row.action}
    BY <2>1, Zenon DEF CallHandler
  <2>4. ~Owed(pass.row.action, unanswered')
    BY <2>3 DEF Owed
  <2>5. QED
    BY <1>0, <2>2, <2>3, <2>4 DEF SettlingStep
<1>3. CASE ScheduleRemoved
  <2>1. /\ Decide("stop", pass.row) /\ db' = db /\ unanswered' = unanswered
        /\ pass.row.state # "completed"
    BY <1>3 DEF ScheduleRemoved, Schedulable, app
  <2>2. QED
    BY <1>1, <2>1
<1>4. CASE AwaitResult
  <2>1. PICK instr : /\ Decide(instr, pass.row) /\ db' = db /\ unanswered' = unanswered
                     /\ instr = "deleteLast" => pass.row.state = "completed"
    BY <1>0, <1>4 DEF AwaitResult, app, Rows, RecordStates
  <2>2. QED
    BY <1>0, <1>1, <2>1
<1>5. CASE AwaitAnswer
  <2> DEFINE row == [pass.row EXCEPT !.prompted = crashes + 1]
  <2>1. row.action = pass.row.action /\ row.state = pass.row.state
    BY <1>0 DEF Rows
  <2>2. /\ Decide("sideline", row) /\ db' = [db EXCEPT !.journal = Stored(row)]
        /\ unanswered' = unanswered
    BY <1>5 DEF AwaitAnswer, app
  <2> HIDE DEF row
  <2>3. QED
    BY <1>0, <1>1, <2>1, <2>2
<1>6. CASE AwaitRefresh
  <2> DEFINE row == [pass.row EXCEPT !.wait = "none"]
  <2>1. row.action = pass.row.action /\ row.state = pass.row.state
    BY <1>0 DEF Rows
  <2>2. /\ \/ Decide("none", row) /\ db' = [db EXCEPT !.journal = Stored(row)]
           \/ Decide("sideline", pass.row) /\ db' = db
        /\ unanswered' = unanswered
    BY <1>6 DEF AwaitRefresh, app
  <2> HIDE DEF row
  <2>3. QED
    BY <1>0, <1>1, <2>1, <2>2
<1>7. CASE ScheduleRequest
  <2> DEFINE row == [pass.row EXCEPT !.state = "processing", !.attempt = @ + 1]
  <2>1. row.action = pass.row.action /\ row.state = "processing"
    BY <1>0 DEF Rows
  <2>2. /\ Decide("stop", row) /\ db' = [db EXCEPT !.journal = Stored(row)]
        /\ unanswered' = unanswered
    BY <1>7 DEF ScheduleRequest, app
  <2> HIDE DEF row
  <2>3. QED
    BY <1>1, <2>1, <2>2
<1>8. CASE ScheduleIssue
  <2>1. PICK state \in {"processing", "ready"} :
           LET row == [Transition(pass.row, state, "issue") EXCEPT !.attempt = @ + 1]
           IN  db' = [db EXCEPT !.journal = Stored(row)] /\ Decide("stop", row)
    BY <1>8 DEF ScheduleIssue
  <2> DEFINE row == [Transition(pass.row, state, "issue") EXCEPT !.attempt = @ + 1]
  <2>2. row.action = pass.row.action /\ row.state = state
    BY <1>0 DEF Transition, Rows
  <2>3. Decide("stop", row) /\ db' = [db EXCEPT !.journal = Stored(row)]
    BY <2>1
  <2>4. unanswered' = unanswered
    BY <1>8 DEF ScheduleIssue, app
  <2> HIDE DEF row
  <2>5. QED
    BY <1>1, <2>1, <2>2, <2>3, <2>4
<1>9. CASE ScheduleImmediate
  <2> DEFINE row == [pass.row EXCEPT !.state = "completed", !.attempt = @ + 1]
  <2>1. row.action = pass.row.action
    BY <1>0 DEF Rows
  <2>2. /\ Decide("deleteLast", row) /\ db' = [db EXCEPT !.journal = Stored(row)]
        /\ unanswered' = unanswered
        /\ "immediate" \in Schedules(ClassOf[pass.row.action])
    BY <1>9 DEF ScheduleImmediate, app
  <2>3. ClassOf[pass.row.action] \notin Told
    BY <2>2 DEF Told, Schedules, UploadSchedules, DeleteSchedules, CopyMoveSchedules,
                CreateFolderSchedules, UpdateSchedules
  <2> HIDE DEF row
  <2>4. QED
    BY <1>1, <2>1, <2>2, <2>3 DEF Owed
<1>10. QED
  BY <1>2, <1>3, <1>4, <1>5, <1>6, <1>7, <1>8, <1>9 DEF Decision, Schedule

LEMMA HandleEventSettles == HandlerInv /\ HandleEvent => SettlingStep
<1> SUFFICES ASSUME HandlerInv, HandleEvent
             PROVE  SettlingStep
  OBVIOUS
<1>1. PICK i \in Pending : pass.phase = "record" /\ (HandleResponse(i) \/ HandleAnswer(i))
  BY DEF HandleEvent
<1>2. /\ TypeInv /\ pass.row \in Rows /\ disk' = disk /\ submitted' = submitted
      /\ pass.row.state = "completed" \/ pass.instr = "deleteLast" =>
            ~Owed(pass.row.action, unanswered)
  BY <1>1 DEF HandlerInv, TypeInv, RowInHand, HandleResponse, HandleAnswer
<1>3. ASSUME NEW journal \in {db.journal, Removed}, NEW row, NEW next,
             Handled(i, journal, row, next) \/ Handled(i, Stored(row), row, next)
      PROVE  /\ InHand(db'.journal, row, IF next = "none" THEN pass.instr ELSE next)
             /\ db'.journal \in {db.journal, Stored(row), Removed}
  BY <1>1, <1>2, <1>3, HandledInHand DEF InHand
<1>4. ASSUME NEW called \in BOOLEAN, CallHandler(called)
      PROVE  unanswered' = IF called THEN unanswered \ {pass.row.action} ELSE unanswered
  BY <1>4, Zenon DEF CallHandler
<1>5. CASE HandleResponse(i)
  <2> DEFINE class == ClassOf[pass.row.action]
  <2>1. PICK o \in Results(class, db.inbox[i].what) :
           /\ IF o.state = "removed"
              THEN Handled(i, Removed, pass.row, o.next)
              ELSE LET row == Transition(pass.row, o.state, o.wait)
                   IN  Handled(i, Stored(row), row, o.next)
           /\ CallHandler(o.call)
    BY <1>5 DEF HandleResponse
  <2> DEFINE row == IF o.state = "removed" THEN pass.row
                    ELSE Transition(pass.row, o.state, o.wait)
             instr == IF o.next = "none" THEN pass.instr ELSE o.next
  <2>2. row.action = pass.row.action /\ (o.state # "removed" => row.state = o.state)
    BY <1>2 DEF Transition, Rows
  <2>3. /\ o.state = "removed" => Handled(i, Removed, row, o.next)
        /\ o.state # "removed" => Handled(i, Stored(row), row, o.next)
    BY <2>1
  <2>4. unanswered' \in {unanswered, unanswered \ {pass.row.action}}
    BY <2>1 DEF CallHandler
  <2>5. class \in Told /\ o.call => pass.row.action \notin unanswered'
    BY <2>1 DEF CallHandler
  <2>6. o.state \in {"completed", "removed"} \/ o.next = "deleteLast" =>
           ~Owed(pass.row.action, unanswered')
    BY <2>5, ResultsCall DEF Owed
  <2> HIDE DEF row, class
  <2>7. InHand(db'.journal, row, instr) /\ db'.journal \in {db.journal, Stored(row), Removed}
    BY <1>3, <2>3
  <2>8. InJournal /\ db'.journal = Removed => o.state = "removed"
    <3>1. o.state # "removed" => db'.journal = Stored(row)
      BY <1>1, <1>2, <2>3, HandledInHand DEF InHand
    <3>2. QED
      BY <3>1, StoredRows, RemovedRows DEF InJournal
  <2>9. row.state = "completed" \/ instr = "deleteLast" =>
           ~Owed(pass.row.action, unanswered')
    BY <1>2, <2>2, <2>4, <2>6 DEF Owed
  <2>10. QED
    BY <1>2, <2>2, <2>4, <2>6, <2>7, <2>8, <2>9 DEF SettlingStep
<1>6. CASE HandleAnswer(i)
  <2> DEFINE resolved == [pass.row EXCEPT !.wait = "none", !.issue = 0, !.prompted = 0]
             ready == [resolved EXCEPT !.state = "ready"]
             valid == pass.row.wait = "issue" /\ pass.row.issue = db.inbox[i].issue
             cancel == db.inbox[i].what = "cancel"
  <2>1. /\ ready.state = "ready" /\ ready.action = pass.row.action
        /\ resolved.state = pass.row.state /\ resolved.action = pass.row.action
    BY <1>2 DEF Rows
  <2>2. /\ \/ ~valid /\ Handled(i, db.journal, pass.row, "none")
           \/ valid /\ cancel /\ Handled(i, Removed, resolved, "none")
           \/ valid /\ ~cancel /\ Handled(i, Stored(ready), ready, "none")
        /\ CallHandler(valid /\ cancel)
    BY <1>6 DEF HandleAnswer, Choices
  <2> HIDE DEF resolved, ready, valid, cancel
  <2>3. ASSUME ~(valid /\ cancel)
        PROVE  unanswered' = unanswered
    BY <2>2, <2>3 DEF CallHandler
  <2>4. ASSUME valid /\ cancel
        PROVE  unanswered' = unanswered \ {pass.row.action}
    BY <2>2, <2>4 DEF CallHandler
  <2>5. CASE ~valid
    <3>1. InHand(db.journal, pass.row, pass.instr) /\ unanswered' = unanswered
      BY <1>1, <1>2, <2>2, <2>3, <2>5, HandledInHand
    <3>2. db'.journal = db.journal /\ ~(InJournal /\ db'.journal = Removed)
      BY <3>1, RemovedRows DEF InHand, InJournal
    <3>3. QED
      BY <1>2, <3>1, <3>2 DEF SettlingStep
  <2>6. CASE valid /\ cancel
    <3>1. InHand(Removed, resolved, pass.instr) /\ unanswered' = unanswered \ {pass.row.action}
      BY <1>1, <1>2, <2>2, <2>4, <2>6, HandledInHand
    <3>2. db'.journal = Removed /\ ~Owed(pass.row.action, unanswered')
      BY <3>1 DEF InHand, Owed
    <3>3. QED
      BY <1>2, <2>1, <3>1, <3>2 DEF SettlingStep
  <2>7. CASE valid /\ ~cancel
    <3>1. InHand(Stored(ready), ready, pass.instr) /\ unanswered' = unanswered
      BY <1>1, <1>2, <2>2, <2>3, <2>7, HandledInHand
    <3>2. db'.journal = Stored(ready) /\ ~(InJournal /\ db'.journal = Removed)
      BY <3>1, RemovedRows, StoredRows DEF InHand, InJournal
    <3>3. QED
      BY <1>2, <2>1, <3>1, <3>2 DEF SettlingStep
  <2>8. QED
    BY <2>5, <2>6, <2>7
<1>7. QED
  BY <1>1, <1>5, <1>6

\* Only a download or a local update can turn out not to be needed.
LEMMA ToldNeeded == ASSUME NEW class \in Told PROVE "satisfied" \notin Preflights(class)
  BY DEF Told, Preflights, DownloadPreflights, CopyMovePreflights, UpdatePreflights,
         DeletePreflights, LocalDeletePreflights, CreateFolderPreflights, UploadPreflights

LEMMA HandlerStep == HandlerInv /\ [Next]_vars => HandlerInv'
<1> SUFFICES ASSUME HandlerInv, [Next]_vars
             PROVE  HandlerInv'
  OBVIOUS
<1>0. TypeInv /\ TypeInv' /\ RowCurrent'
  BY TypeInvStep, RowCurrentStep DEF HandlerInv
<1>1. CASE Around
  <2>1. UNCHANGED <<db, disk, pass, unanswered, submitted>>
    BY <1>1, AroundStep DEF Around, Cancel, Elapse, Respond, Answer, GoOffline, GoOnline,
                            vars, app
  <2>2. QED
    BY <1>0, <2>1 DEF HandlerInv, NoHandlerForgotten, Owed, Told
<1>2. CASE \E a \in Actions : Submit(a) \/ SubmitEnds(a)
  <2>1. PICK a \in Actions : Submit(a) \/ SubmitEnds(a)
    BY <1>2
  <2>2. /\ disk' = db' /\ pass' = pass /\ pass.phase = "idle" /\ a \notin submitted
        /\ DOMAIN db'.journal = DOMAIN db.journal
              \cup (IF Submit(a) THEN {db.nextRecord} ELSE {})
        /\ \A r \in DOMAIN db.journal : db'.journal[r] = db.journal[r]
        /\ Submit(a) => \E l : db'.journal[db.nextRecord] = NewRow(a, l)
    BY <1>0, <2>1, SubmitStep
  <2>3. /\ submitted' = submitted \cup {a}
        /\ unanswered' \in {unanswered, unanswered \cup {a}}
    BY <2>1 DEF Submit, SubmitEnds
  <2>4. Submit(a) => /\ db'.journal[db.nextRecord].action = a
                     /\ db'.journal[db.nextRecord].state = "ready"
    <3>1. \A l : NewRow(a, l).action = a /\ NewRow(a, l).state = "ready"
      BY DEF NewRow
    <3>2. QED
      BY <2>2, <3>1
  <2>5. ~Submit(a) /\ ClassOf[a] \in Told => unanswered' = unanswered
    BY <2>1, ToldNeeded DEF SubmitEnds
  <2>6. \A r \in DOMAIN db'.journal :
           \/ r \in DOMAIN db.journal /\ db'.journal[r] = db.journal[r]
              /\ db'.journal[r].action # a /\ db'.journal[r].action \in submitted
           \/ db'.journal[r].action = a /\ db'.journal[r].state = "ready"
    BY <2>2, <2>4 DEF HandlerInv
  <2>7. NoHandlerForgotten'
    <3> SUFFICES ASSUME NEW b \in unanswered', ClassOf[b] \in Told
                 PROVE  \E r \in DOMAIN db'.journal : db'.journal[r].action = b
      BY DEF NoHandlerForgotten, Told
    <3>1. CASE b \in unanswered
      <4>1. PICK r \in DOMAIN db.journal : db.journal[r].action = b
        BY <3>1 DEF HandlerInv, NoHandlerForgotten, Told
      <4>2. QED
        BY <2>2, <4>1
    <3>2. CASE b \notin unanswered
      BY <2>2, <2>3, <2>4, <2>5, <3>2
    <3>3. QED
      BY <3>1, <3>2
  <2>8. QED
    BY <1>0, <2>2, <2>3, <2>6, <2>7 DEF HandlerInv, Owed
<1>3. CASE Crash
  <2>1. /\ db' = disk /\ disk' = disk /\ unanswered' = {} /\ submitted' = submitted
        /\ pass'.phase = "idle" /\ pass'.instr = "none"
    BY <1>3 DEF Crash, Idle
  <2>2. QED
    BY <1>0, <2>1 DEF HandlerInv, NoHandlerForgotten, Owed
<1>4. CASE BeginPass \/ Walk
  <2>1. /\ db'.journal = db.journal /\ disk'.journal \in {disk.journal, db.journal}
        /\ unanswered' = unanswered /\ submitted' = submitted
        /\ pass'.phase = "record" =>
              /\ pass'.instr = pass.instr /\ pass.phase # "record"
              /\ pass'.at \in DOMAIN db.journal
              /\ pass'.row = db.journal[pass'.at]
        /\ pass'.phase # "record" =>
              pass'.instr = "none" \/ (pass'.instr = pass.instr /\ pass.phase # "record")
    <3>1. CASE BeginPass
      BY <1>0, <3>1, BeginPassStep DEF app
    <3>2. CASE Walk
      BY <1>0, <3>2, WalkStep DEF app
    <3>3. QED
      BY <1>4, <3>1, <3>2
  <2>2. QED
    BY <1>0, <2>1 DEF HandlerInv, NoHandlerForgotten, Owed
<1>5. ASSUME disk' = disk, submitted' = submitted, unanswered' \subseteq unanswered,
             DOMAIN db'.journal \subseteq DOMAIN db.journal,
             \A r \in DOMAIN db'.journal :
                /\ db'.journal[r].action = db.journal[r].action
                /\ db'.journal[r].state = "completed" =>
                      ~Owed(db'.journal[r].action, unanswered'),
             \A r \in DOMAIN db.journal \ DOMAIN db'.journal :
                ~Owed(db.journal[r].action, unanswered'),
             pass'.phase = "record" /\ (pass'.row.state = "completed" \/ pass'.instr = "deleteLast") =>
                ~Owed(pass'.row.action, unanswered'),
             pass'.phase # "record" => pass'.instr = "none"
      PROVE  HandlerInv'
  <2>1. NoHandlerForgotten'
    <3> SUFFICES ASSUME NEW b \in unanswered', ClassOf[b] \in Told
                 PROVE  \E r \in DOMAIN db'.journal : db'.journal[r].action = b
      BY DEF NoHandlerForgotten, Told
    <3>1. PICK r \in DOMAIN db.journal : db.journal[r].action = b
      BY <1>5 DEF HandlerInv, NoHandlerForgotten, Told
    <3>2. Owed(b, unanswered')
      BY DEF Owed
    <3>3. QED
      BY <1>5, <3>1, <3>2
  <2>2. \A r \in DOMAIN db'.journal : db'.journal[r].action \in submitted'
    BY <1>5 DEF HandlerInv
  <2>3. \A r \in DOMAIN disk'.journal : disk'.journal[r].action \in submitted'
    BY <1>5 DEF HandlerInv
  <2>4. QED
    BY <1>0, <1>5, <2>1, <2>2, <2>3 DEF HandlerInv
<1>6. CASE Decision \/ HandleEvent
  <2>1. SettlingStep /\ disk' = disk /\ RowCurrent
    BY <1>6, DecisionSettles, HandleEventSettles DEF HandlerInv, SettlingStep, InHand
  <2>2. PICK row, instr :
           /\ InHand(db'.journal, row, instr)
           /\ db'.journal \in {db.journal, Stored(row), Removed}
           /\ row.action = pass.row.action
           /\ submitted' = submitted
           /\ unanswered' \in {unanswered, unanswered \ {pass.row.action}}
           /\ InJournal /\ db'.journal = Removed => ~Owed(pass.row.action, unanswered')
           /\ row.state = "completed" \/ instr = "deleteLast" => ~Owed(row.action, unanswered')
    BY <2>1 DEF SettlingStep
  <2>3. /\ pass'.phase = "record" /\ pass'.row = row /\ pass'.instr = instr
        /\ pass.at \in DOMAIN db.journal => db.journal[pass.at] = pass.row
        /\ unanswered' \subseteq unanswered
    BY <2>1, <2>2 DEF InHand, RowCurrent, InJournal
  <2>4. \A a : Owed(a, unanswered') => Owed(a, unanswered)
    BY <2>3 DEF Owed
  <2>5. \A r \in DOMAIN db.journal :
           db.journal[r].state = "completed" => ~Owed(db.journal[r].action, unanswered')
    BY <2>4 DEF HandlerInv
  <2>6. CASE db'.journal = db.journal
    BY <1>5, <2>1, <2>2, <2>3, <2>5, <2>6
  <2>7. CASE db'.journal = Stored(row)
    <3>1. \A r \in DOMAIN db.journal :
             /\ db'.journal[r].action = db.journal[r].action
             /\ db'.journal[r].state = "completed" =>
                   ~Owed(db'.journal[r].action, unanswered')
      BY <2>2, <2>3, <2>5, <2>7, StoredRows
    <3>2. DOMAIN db'.journal = DOMAIN db.journal
      BY <2>7, StoredRows
    <3>3. QED
      BY <1>5, <2>1, <2>2, <2>3, <3>1, <3>2
  <2>8. CASE db'.journal = Removed
    <3>1. /\ DOMAIN db'.journal = DOMAIN db.journal \ {pass.at}
          /\ \A r \in DOMAIN db'.journal : db'.journal[r] = db.journal[r]
      BY <2>8, RemovedRows
    <3>2. \A r \in DOMAIN db.journal \ DOMAIN db'.journal :
             ~Owed(db.journal[r].action, unanswered')
      BY <2>2, <2>3, <2>8, <3>1 DEF InJournal
    <3>3. QED
      BY <1>5, <2>1, <2>2, <2>3, <2>5, <3>1, <3>2
  <2>9. QED
    BY <2>2, <2>6, <2>7, <2>8
<1>7. CASE GoOn
  <2>1. /\ disk' = disk /\ pass'.phase = "records" /\ pass'.instr = "none"
        /\ db'.journal = IF pass.instr = "deleteLast" THEN Removed ELSE db.journal
        /\ unanswered' = unanswered /\ submitted' = submitted /\ pass.phase = "record"
    BY <1>0, <1>7, GoOnStep DEF app, GoOn
  <2>2. /\ DOMAIN db'.journal \subseteq DOMAIN db.journal
        /\ \A r \in DOMAIN db'.journal : db'.journal[r] = db.journal[r]
    BY <2>1, RemovedRows
  <2>3. \A r \in DOMAIN db.journal \ DOMAIN db'.journal :
           ~Owed(db.journal[r].action, unanswered')
    BY <2>1, RemovedRows DEF HandlerInv, RowCurrent, InJournal
  <2>4. \A r \in DOMAIN db'.journal :
           db'.journal[r].state = "completed" => ~Owed(db'.journal[r].action, unanswered')
    BY <2>1, <2>2 DEF HandlerInv
  <2>5. QED
    BY <1>5, <2>1, <2>2, <2>3, <2>4
<1>8. QED
  BY StepKinds, <1>1, <1>2, <1>3, <1>4, <1>6, <1>7

\* Whatever is retried, cancelled, answered, obsolete or completed, an action
\* of these classes does not leave the journal before its caller was told, in
\* a process that lives (-completeWithError:core:item:parameter: of
\* OCSyncRecord.m and its callers).
THEOREM HandlersCalled == Spec => []NoHandlerForgotten
<1>1. Init => HandlerInv
  <2>1. Init => RowCurrent /\ NoHandlerForgotten
    BY DEF Init, Idle, RowCurrent, NoHandlerForgotten
  <2>2. QED
    BY <2>1, TypeInit DEF HandlerInv, Init, EmptyDatabase, Idle
<1>2. HandlerInv => NoHandlerForgotten
  BY DEF HandlerInv
<1>3. QED
  BY <1>1, <1>2, HandlerStep, PTL DEF Spec

=============================================================================
