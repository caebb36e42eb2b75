----------------------------- MODULE SyncEngine -----------------------------
(***************************************************************************)
(* The sync engine of one process (Core/Sync/OCCore+SyncEngine.m): how     *)
(* actions become records in the sync journal, how a pass of               *)
(* -processSyncRecords walks the lanes and the records at their heads, and *)
(* how responses, answers of the user, cancellations, expiring waits, a    *)
(* lost connection and crashes interleave with it.                         *)
(*                                                                         *)
(* A submission is one exclusive transaction and so is the walk over the   *)
(* lanes: db is the database as the open transaction sees it and disk what *)
(* is committed.  A crash goes back to disk; requests, queued events and   *)
(* prompts are kept outside of it.  How an event gets from the HTTP        *)
(* pipeline to the events table is abstracted to a queue that loses and    *)
(* repeats nothing, which SyncEvents shows of one process.                 *)
(***************************************************************************)
EXTENDS SyncLanes, SyncActions, Sequences, FiniteSets, Functions

CONSTANTS
    Actions,            \* the actions the app may submit, each once
    ClassOf,            \* the class of an action
    TagsOf,             \* its lane tags
    CategoriesOf,       \* its categories
    Categories,
    Budget,             \* actionBudgetsByCategory, 0 for no limit
    MaximumSyncLanes,   \* maximumSyncLanes, 0 for no limit
    MaxAttempts,        \* bound: the attempt at a record that does not fail
    MaxCrashes,         \* bound on crashes
    MaxOffline          \* bound on losses of the connection

ASSUME ActionsAssumption ==
    /\ ClassOf \in [Actions -> Classes]
    /\ TagsOf \in [Actions -> (SUBSET Tags) \ {{}}]
    /\ CategoriesOf \in [Actions -> SUBSET Categories]
    /\ Budget \in [Categories -> Nat]

ASSUME BoundsAssumption ==
    /\ MaximumSyncLanes \in Nat
    /\ MaxAttempts \in Nat \ {0}
    /\ MaxCrashes \in Nat
    /\ MaxOffline \in Nat

VARIABLES
    db,         \* database seen by the open transaction
    disk,       \* committed database
    pass,       \* the pass of -processSyncRecords, if one is running
    needs,      \* _needsToProcessSyncRecords
    queue,      \* events stored but not yet in the database
    requests,   \* requests that are with the HTTP pipeline
    prompts,    \* issues shown to the user
    issues,     \* issues raised so far; numbers them
    cancelled,  \* records whose progress was cancelled in this process
    elapsed,    \* waits for metadata that are over: pairs of record, attempt
    unanswered, \* actions whose result handler waits in this process
    submitted,  \* actions submitted so far
    online,     \* connectionStatus
    losses,     \* losses of the connection so far
    crashes     \* crashes so far

outside == <<queue, requests, prompts, issues>>
app == <<cancelled, elapsed, unanswered, submitted>>
world == <<online, losses, crashes>>
vars == <<db, disk, pass, needs, outside, app, world>>

-----------------------------------------------------------------------------
(* State *)

RecordStates == {"ready", "processing", "completed"}
Waits == {"none", "issue", "refresh"}
Choices == {"retry", "cancel"}
Answers == Choices \cup UNION {Responses(c) : c \in Classes}

\* issue is the number of the issue the record waits for, prompted the process
\* (counting restarts, from 1) that showed it to the user.
Rows == [action : Actions, lane : Nat, state : RecordStates, wait : Waits,
         issue : Nat, prompted : Nat, attempt : Nat]
Lanes == [tags : SUBSET Tags, after : SUBSET Nat]
EventRecords == [record : Nat, what : Answers, issue : Nat]
Requests == [record : Nat, class : Classes, attempt : Nat, epoch : Nat]
Prompts == [record : Nat, issue : Nat, retry : BOOLEAN]

Instructions == {"none", "stop", "sideline", "deleteLast", "processNext"}

\* row is the record in hand: it may have left the journal in the meantime.
NoRow == [state |-> "none"]

Idle ==
    [phase |-> "idle", lane |-> 0, at |-> 0, row |-> NoRow,
     todo |-> {}, active |-> {}, used |-> [c \in Categories |-> 0],
     n |-> 0, visited |-> 0, instr |-> "none"]

EmptyDatabase ==
    [journal |-> <<>>, lanes |-> <<>>, inbox |-> <<>>,
     nextRecord |-> 1, nextLane |-> 1]

Init ==
    /\ db = EmptyDatabase
    /\ disk = EmptyDatabase
    /\ pass = Idle
    /\ needs = TRUE
    /\ queue = <<>>
    /\ requests = {}
    /\ prompts = {}
    /\ issues = 0
    /\ cancelled = {}
    /\ elapsed = {}
    /\ unanswered = {}
    /\ submitted = {}
    /\ online = TRUE
    /\ losses = 0
    /\ crashes = 0

-----------------------------------------------------------------------------
(* Submitting an action *)

RowsOn(d, l) == {r \in DOMAIN d.journal : d.journal[r].lane = l}
IsHead(d, l, r) == r \in RowsOn(d, l) /\ \A s \in RowsOn(d, l) : r <= s
Tagged(d, r) == Considered(TagsOf[d.journal[r].action])

NewRow(a, l) ==
    [action |-> a, lane |-> l, state |-> "ready", wait |-> "none",
     issue |-> 0, prompted |-> 0, attempt |-> 0]

\* -addSyncRecords: and -updateSyncRecords: after the lane was assigned.
AddRow(d, a, l) ==
    [d EXCEPT !.journal = [r \in DOMAIN d.journal \cup {d.nextRecord} |->
                              IF r = d.nextRecord THEN NewRow(a, l) ELSE d.journal[r]],
              !.nextRecord = d.nextRecord + 1]

\* Mutant: lane IDs are used again.
AddLaneIDReused(d, tags) ==
    [d EXCEPT !.lanes = [l \in DOMAIN d.lanes \cup {d.nextLane} |->
                            IF l = d.nextLane THEN NewLane(d.lanes, tags) ELSE d.lanes[l]]]

\* -addSyncLane:
AddLane(d, tags) ==
    [d EXCEPT !.lanes = [l \in DOMAIN d.lanes \cup {d.nextLane} |->
                            IF l = d.nextLane THEN NewLane(d.lanes, tags) ELSE d.lanes[l]],
              !.nextLane = d.nextLane + 1]

\* The action passes preflight and is queued on the lane with its tags, or on
\* a new lane behind the lanes its tags relate to.
Submit(a) ==
    /\ pass.phase = "idle"
    /\ a \notin submitted
    /\ "ready" \in Preflights(ClassOf[a])
    /\ IF \E l \in DOMAIN db.lanes : IsLaneForTags(db.lanes, TagsOf[a], l)
       THEN \E l \in DOMAIN db.lanes :
               /\ IsLaneForTags(db.lanes, TagsOf[a], l)
               /\ db' = AddRow(db, a, l)
       ELSE db' = AddRow(AddLane(db, TagsOf[a]), a, db.nextLane)
    /\ disk' = db'
    /\ submitted' = submitted \cup {a}
    /\ unanswered' = unanswered \cup {a}
    /\ needs' = TRUE
    /\ UNCHANGED <<pass, outside, cancelled, elapsed, world>>

\* The action ends in preflight, with an error or because it is not needed.
SubmitEnds(a) ==
    /\ pass.phase = "idle"
    /\ a \notin submitted
    /\ \E end \in Preflights(ClassOf[a]) \ {"ready"} :
          unanswered' = IF end = "satisfied" /\ ~CallsHandlerWhenSatisfied(ClassOf[a])
                        THEN unanswered \cup {a} ELSE unanswered
    /\ db' = [db EXCEPT !.nextRecord = @ + 1]
    /\ disk' = db'
    /\ submitted' = submitted \cup {a}
    /\ needs' = TRUE
    /\ UNCHANGED <<pass, outside, cancelled, elapsed, world>>

-----------------------------------------------------------------------------
(* What happens around the engine *)

Event(record, what, issue) == [record |-> record, what |-> what, issue |-> issue]

\* The app cancels the progress of a record, which cancels its requests too.
Cancel(r) ==
    /\ r \in DOMAIN disk.journal
    /\ Cancellable(ClassOf[disk.journal[r].action])
    /\ r \notin cancelled
    /\ cancelled' = cancelled \cup {r}
    /\ needs' = TRUE
    /\ UNCHANGED <<db, disk, pass, outside, elapsed, unanswered, submitted, world>>

\* A response arrives and is queued as an event.  Failures are bounded by the
\* attempt; only a cancelled record's request comes back as cancelled.
Respond(q) ==
    /\ \E what \in Responses(q.class) :
          /\ what \in {"error", "network"} => q.attempt < MaxAttempts
          /\ what = "cancelled" => q.record \in cancelled
          /\ queue' = Append(queue, Event(q.record, what, 0))
    /\ requests' = requests \ {q}
    /\ needs' = TRUE
    /\ UNCHANGED <<db, disk, pass, prompts, issues, app, world>>

\* The user chooses one of the answers an issue offers.
Answer(p) ==
    /\ \E choice \in Choices :
          /\ choice = "retry" => p.retry
          /\ queue' = Append(queue, Event(p.record, choice, p.issue))
    /\ prompts' = prompts \ {p}
    /\ needs' = TRUE
    /\ UNCHANGED <<db, disk, pass, requests, issues, app, world>>

\* Mutant: the engine is not told.
ElapseQuietly(r) ==
    /\ r \in DOMAIN disk.journal
    /\ disk.journal[r].wait = "refresh"
    /\ <<r, disk.journal[r].attempt>> \notin elapsed
    /\ elapsed' = elapsed \cup {<<r, disk.journal[r].attempt>>}
    /\ UNCHANGED <<db, disk, pass, needs, outside, cancelled, unanswered, submitted, world>>

\* The metadata a record waits for changes, or the wait expires.
Elapse(r) ==
    /\ r \in DOMAIN disk.journal
    /\ disk.journal[r].wait = "refresh"
    /\ <<r, disk.journal[r].attempt>> \notin elapsed
    /\ elapsed' = elapsed \cup {<<r, disk.journal[r].attempt>>}
    /\ needs' = TRUE
    /\ UNCHANGED <<db, disk, pass, outside, cancelled, unanswered, submitted, world>>

GoOffline ==
    /\ online
    /\ losses < MaxOffline
    /\ online' = FALSE
    /\ losses' = losses + 1
    /\ UNCHANGED <<db, disk, pass, needs, outside, app, crashes>>

GoOnline ==
    /\ ~online
    /\ online' = TRUE
    /\ needs' = TRUE
    /\ UNCHANGED <<db, disk, pass, outside, app, losses, crashes>>

\* The process dies, the open transaction is rolled back, and the process
\* starts again without result handlers and progress objects.  Prompts in the
\* message queue survive, those the app showed itself do not.
Crash ==
    /\ crashes < MaxCrashes
    /\ crashes' = crashes + 1
    /\ db' = disk
    /\ pass' = Idle
    /\ needs' = TRUE
    /\ cancelled' = {}
    /\ unanswered' = {}
    /\ prompts' \in SUBSET prompts
    /\ UNCHANGED <<disk, queue, requests, issues, elapsed, submitted, online, losses>>

-----------------------------------------------------------------------------
(* A pass: -processSyncRecords *)

\* The queued events are moved to the database, in a transaction of its own.
\* Events of records that are gone stay there, never to be looked at again.
BeginPass ==
    /\ pass.phase = "idle"
    /\ online
    /\ needs
    /\ needs' = FALSE
    /\ db' = [db EXCEPT !.inbox = @ \o queue]
    /\ disk' = db'
    /\ queue' = <<>>
    /\ pass' = [Idle EXCEPT !.phase = "lanes",
                            !.todo = DOMAIN db.lanes,
                            !.active = DOMAIN db.lanes]
    /\ UNCHANGED <<requests, prompts, issues, app, world>>

\* Mutant: lanes do not wait for each other.
VisitLaneUnordered ==
    /\ pass.phase = "lanes"
    /\ \E l \in pass.todo :
          /\ \A m \in pass.todo : l <= m
          /\ pass' = [pass EXCEPT !.todo = @ \ {l}, !.phase = "records", !.lane = l, !.n = 0]
    /\ UNCHANGED <<db, disk, needs, outside, app, world>>

\* The next lane, unless a lane it has to wait for is still active.
VisitLane ==
    /\ pass.phase = "lanes"
    /\ \E l \in pass.todo :
          /\ \A m \in pass.todo : l <= m
          /\ pass' = IF pass.active \cap db.lanes[l].after # {}
                     THEN [pass EXCEPT !.todo = @ \ {l}]
                     ELSE [pass EXCEPT !.todo = @ \ {l}, !.phase = "records",
                                       !.lane = l, !.n = 0]
    /\ UNCHANGED <<db, disk, needs, outside, app, world>>

\* Mutant: off by one.
OverBudgetEarly(a) ==
    \E c \in CategoriesOf[a] : Budget[c] > 0 /\ pass.used[c] + 1 >= Budget[c]

\* A category of the action has no budget left.
OverBudget(a) ==
    \E c \in CategoriesOf[a] : Budget[c] > 0 /\ pass.used[c] >= Budget[c]

Charge(a, change) ==
    [c \in Categories |-> pass.used[c] + (IF c \in CategoriesOf[a] THEN change ELSE 0)]

\* The pass is done with its lane, on which it met n records that it did not
\* delete: an empty lane goes, and too many lanes with records end the walk.
LeaveLane(n, used) ==
    LET visited == pass.visited + (IF n > 0 THEN 1 ELSE 0)
        enough == n > 0 /\ MaximumSyncLanes # 0 /\ visited > MaximumSyncLanes
        empty == n = 0 /\ RowsOn(db, pass.lane) = {}
    IN  /\ db' = IF empty
                 THEN [db EXCEPT !.lanes = Restrict(@, DOMAIN @ \ {pass.lane})]
                 ELSE db
        /\ pass' = [pass EXCEPT !.phase = "lanes", !.lane = 0, !.at = 0, !.row = NoRow,
                                !.n = 0, !.instr = "none", !.used = used,
                                !.visited = visited,
                                !.todo = IF enough THEN {} ELSE @,
                                !.active = IF empty THEN @ \ {pass.lane} ELSE @]

\* The first record on the lane.  The code asks for the first one after the
\* last record it deleted or went past, whose recordID is nil by then.
FetchRecord ==
    /\ pass.phase = "records"
    /\ \/ /\ RowsOn(db, pass.lane) = {}
          /\ LeaveLane(pass.n, pass.used)
       \/ \E r \in RowsOn(db, pass.lane) :
             /\ IsHead(db, pass.lane, r)
             /\ IF db.journal[r].state = "ready" /\ OverBudget(db.journal[r].action)
                THEN LeaveLane(pass.n + 1, pass.used)
                ELSE /\ pass' = [pass EXCEPT !.phase = "record", !.at = r,
                                             !.row = db.journal[r], !.n = @ + 1,
                                             !.used = Charge(db.journal[r].action, 1)]
                     /\ UNCHANGED db
    /\ UNCHANGED <<disk, needs, outside, app, world>>

-----------------------------------------------------------------------------
(* Processing a record: -processSyncRecord:error: *)

InJournal == pass.at \in DOMAIN db.journal

\* -updateSyncRecords: and -removeSyncRecords: skip a record that has no ID.
Stored(row) ==
    IF InJournal THEN [db.journal EXCEPT ![pass.at] = row] ELSE db.journal
Removed == Restrict(db.journal, DOMAIN db.journal \ {pass.at})

\* -transitionToState:withWaitConditions: with the conditions queued so far.
Transition(row, state, wait) ==
    [row EXCEPT !.state = state, !.wait = wait, !.prompted = 0,
                !.issue = IF wait = "issue" THEN issues + 1 ELSE 0]

RaisesIssue(wait) == issues' = IF wait = "issue" THEN issues + 1 ELSE issues

\* -completeWithError:...: the result handler is called at most once.
CallHandler(called) ==
    unanswered' = IF called THEN unanswered \ {pass.row.action} ELSE unanswered

ForRecord(e) == e.record = pass.at
Pending == {i \in DOMAIN db.inbox : ForRecord(db.inbox[i])}
IsNext(i) == i \in Pending /\ \A j \in Pending : i <= j

\* The next event leaves the events table, the record in hand becomes row, and
\* the last instruction other than none counts.
Handled(i, journal, row, next) ==
    /\ db' = [db EXCEPT !.inbox = SubSeq(@, 1, i - 1) \o SubSeq(@, i + 1, Len(@)),
                        !.journal = journal]
    /\ pass' = [pass EXCEPT !.row = row, !.instr = IF next = "none" THEN @ ELSE next]

HandleResponse(i) ==
    /\ IsNext(i)
    /\ db.inbox[i].what \notin Choices
    /\ \E o \in Results(ClassOf[pass.row.action], db.inbox[i].what) :
          /\ IF o.state = "removed"
             THEN Handled(i, Removed, pass.row, o.next)
             ELSE LET row == Transition(pass.row, o.state, o.wait)
                  IN  Handled(i, Stored(row), row, o.next)
          /\ RaisesIssue(o.wait)
          /\ CallHandler(o.call)
          \* A record is only rescheduled or descheduled with these.
          /\ needs' = (needs \/ o.next \in {"stop", "processNext"})
    /\ UNCHANGED <<disk, queue, requests, prompts, cancelled, elapsed, submitted, world>>

\* Mutant: a record to be retried is not made ready.
HandleAnswerKeepsState(i) ==
    LET answer == db.inbox[i]
        valid == pass.row.wait = "issue" /\ pass.row.issue = answer.issue
        resolved == [pass.row EXCEPT !.wait = "none", !.issue = 0, !.prompted = 0]
    IN  /\ IsNext(i)
        /\ answer.what \in Choices
        /\ CASE ~valid -> Handled(i, db.journal, pass.row, "none")
             [] valid /\ answer.what = "cancel" -> Handled(i, Removed, resolved, "none")
             [] valid /\ answer.what = "retry" -> Handled(i, Stored(resolved), resolved, "none")
        /\ CallHandler(valid /\ answer.what = "cancel")
        /\ needs' = (needs \/ valid)
        /\ UNCHANGED <<disk, outside, cancelled, elapsed, submitted, world>>

\* The choice for an issue the record no longer waits for is ignored, retrying
\* reschedules the record and cancelling deschedules it.
HandleAnswer(i) ==
    LET answer == db.inbox[i]
        valid == pass.row.wait = "issue" /\ pass.row.issue = answer.issue
        resolved == [pass.row EXCEPT !.wait = "none", !.issue = 0, !.prompted = 0]
        ready == [resolved EXCEPT !.state = "ready"]
    IN  /\ IsNext(i)
        /\ answer.what \in Choices
        /\ CASE ~valid -> Handled(i, db.journal, pass.row, "none")
             [] valid /\ answer.what = "cancel" -> Handled(i, Removed, resolved, "none")
             [] valid /\ answer.what = "retry" -> Handled(i, Stored(ready), ready, "none")
        /\ CallHandler(valid /\ answer.what = "cancel")
        /\ needs' = (needs \/ valid)
        /\ UNCHANGED <<disk, outside, cancelled, elapsed, submitted, world>>

\* All events are handled and none of them ended the processing.
Undecided == pass.phase = "record" /\ Pending = {} /\ pass.instr = "none"

Decide(instr, row) == pass' = [pass EXCEPT !.instr = instr, !.row = row]

\* Mutant: no new pass is asked for.
ProcessCancelledQuietly ==
    /\ Undecided
    /\ pass.at \in cancelled
    /\ db' = [db EXCEPT !.journal = Removed]
    /\ Decide("processNext", pass.row)
    /\ CallHandler(TRUE)
    /\ UNCHANGED <<disk, needs, outside, cancelled, elapsed, submitted, world>>

\* The progress was cancelled: the record is descheduled.
ProcessCancelled ==
    /\ Undecided
    /\ pass.at \in cancelled
    /\ db' = [db EXCEPT !.journal = Removed]
    /\ Decide("processNext", pass.row)
    /\ CallHandler(TRUE)
    /\ needs' = TRUE
    /\ UNCHANGED <<disk, outside, cancelled, elapsed, submitted, world>>

\* Mutant: a record prompted for before a restart is not prompted for again.
AwaitAnswerOnce ==
    /\ Undecided
    /\ pass.at \notin cancelled
    /\ pass.row.wait = "issue"
    /\ LET row == [pass.row EXCEPT !.prompted = crashes + 1]
           prompt == [record |-> pass.at, issue |-> row.issue,
                      retry |-> OffersRetry(ClassOf[row.action])]
       IN  /\ db' = [db EXCEPT !.journal = Stored(row)]
           /\ prompts' = IF pass.row.prompted # 0 \/ ~InJournal
                         THEN prompts ELSE prompts \cup {prompt}
           /\ Decide("sideline", row)
    /\ UNCHANGED <<disk, needs, queue, requests, issues, app, world>>

\* Mutant: the user is prompted whenever the record is looked at.
AwaitAnswerAgain ==
    /\ Undecided
    /\ pass.at \notin cancelled
    /\ pass.row.wait = "issue"
    /\ LET row == [pass.row EXCEPT !.prompted = crashes + 1]
           prompt == [record |-> pass.at, issue |-> row.issue,
                      retry |-> OffersRetry(ClassOf[row.action])]
       IN  /\ db' = [db EXCEPT !.journal = Stored(row)]
           /\ prompts' = IF InJournal THEN prompts \cup {prompt} ELSE prompts
           /\ Decide("sideline", row)
    /\ UNCHANGED <<disk, needs, queue, requests, issues, app, world>>

\* The record waits for the user, who is prompted once per process.
AwaitAnswer ==
    /\ Undecided
    /\ pass.at \notin cancelled
    /\ pass.row.wait = "issue"
    /\ LET row == [pass.row EXCEPT !.prompted = crashes + 1]
           prompt == [record |-> pass.at, issue |-> row.issue,
                      retry |-> OffersRetry(ClassOf[row.action])]
       IN  /\ db' = [db EXCEPT !.journal = Stored(row)]
           /\ prompts' = IF pass.row.prompted = crashes + 1 \/ ~InJournal
                         THEN prompts ELSE prompts \cup {prompt}
           /\ Decide("sideline", row)
    /\ UNCHANGED <<disk, needs, queue, requests, issues, app, world>>

\* The record waits for metadata.
AwaitRefresh ==
    /\ Undecided
    /\ pass.at \notin cancelled
    /\ pass.row.wait = "refresh"
    /\ IF <<pass.at, pass.row.attempt>> \in elapsed
       THEN LET row == [pass.row EXCEPT !.wait = "none"]
            IN  /\ db' = [db EXCEPT !.journal = Stored(row)]
                /\ Decide("none", row)
       ELSE /\ Decide("sideline", pass.row)
            /\ UNCHANGED db
    /\ UNCHANGED <<disk, needs, outside, app, world>>

\* Mutant: a record in progress is scheduled once more.
SchedulableAgain ==
    /\ Undecided
    /\ pass.at \notin cancelled
    /\ pass.row.wait = "none"
    /\ pass.row.state # "completed"

Schedulable ==
    /\ Undecided
    /\ pass.at \notin cancelled
    /\ pass.row.wait = "none"
    /\ pass.row.state = "ready"

\* The action sends its request.  Without a recordID it fails to name the
\* record its response is for: see ScheduleRemoved.
ScheduleRequest ==
    /\ Schedulable
    /\ InJournal
    /\ "request" \in Schedules(ClassOf[pass.row.action])
    /\ LET row == [pass.row EXCEPT !.state = "processing", !.attempt = @ + 1]
       IN  /\ db' = [db EXCEPT !.journal = Stored(row)]
           /\ requests' = requests \cup
                 {[record |-> pass.at, class |-> ClassOf[row.action],
                   attempt |-> row.attempt, epoch |-> crashes]}
           /\ Decide("stop", row)
    /\ UNCHANGED <<disk, needs, queue, prompts, issues, app, world>>

\* The action raises an issue instead: an upload that would replace another
\* item, or a download that would replace local modifications.
ScheduleIssue ==
    /\ Schedulable
    /\ InJournal
    /\ pass.row.attempt + 1 < MaxAttempts
    /\ \E how \in Schedules(ClassOf[pass.row.action]) \cap {"ask", "askReady"} :
          LET state == IF how = "ask" THEN "processing" ELSE "ready"
              row == [Transition(pass.row, state, "issue") EXCEPT !.attempt = @ + 1]
          IN  /\ db' = [db EXCEPT !.journal = Stored(row)]
              /\ Decide("stop", row)
    /\ RaisesIssue("issue")
    /\ needs' = TRUE
    /\ UNCHANGED <<disk, queue, requests, prompts, app, world>>

\* Nothing needs downloading: the record is descheduled.
ScheduleObsolete ==
    /\ Schedulable
    /\ InJournal
    /\ "obsolete" \in Schedules(ClassOf[pass.row.action])
    /\ db' = [db EXCEPT !.journal = Removed]
    /\ Decide("stop", pass.row)
    /\ CallHandler(TRUE)
    /\ needs' = TRUE
    /\ UNCHANGED <<disk, outside, cancelled, elapsed, submitted, world>>

\* Nothing to send: the record completes on the spot.
ScheduleImmediate ==
    /\ Schedulable
    /\ InJournal
    /\ "immediate" \in Schedules(ClassOf[pass.row.action])
    /\ LET row == [pass.row EXCEPT !.state = "completed", !.attempt = @ + 1]
       IN  /\ db' = [db EXCEPT !.journal = Stored(row)]
           /\ Decide("deleteLast", row)
    /\ UNCHANGED <<disk, needs, outside, app, world>>

\* The record was descheduled by the answer to its issue but is still ready.
\* The issue is raised again, for nobody, or there is nothing to do; sending a
\* request would end the process, as there is no recordID to put in it.
ScheduleRemoved ==
    /\ Schedulable
    /\ ~InJournal
    /\ Decide("stop", pass.row)
    /\ needs' = TRUE
    /\ UNCHANGED <<db, disk, outside, app, world>>

\* A record in progress is waited for, a completed one is deleted.
AwaitResult ==
    /\ Undecided
    /\ pass.at \notin cancelled
    /\ pass.row.wait = "none"
    /\ pass.row.state # "ready"
    /\ Decide(IF pass.row.state = "processing" THEN "stop" ELSE "deleteLast", pass.row)
    /\ UNCHANGED <<db, disk, needs, outside, app, world>>

\* Mutant: a record that is waited for gives its budget back.
StopGivesBack ==
    /\ pass.phase = "record"
    /\ Pending = {}
    /\ pass.instr \in {"stop", "sideline"}
    /\ LeaveLane(pass.n, Charge(pass.row.action, -1))
    /\ UNCHANGED <<disk, needs, outside, app, world>>

\* The instruction is carried out once the events are handled.
Stop ==
    /\ pass.phase = "record"
    /\ Pending = {}
    /\ pass.instr \in {"stop", "sideline"}
    /\ LeaveLane(pass.n, IF pass.instr = "sideline"
                         THEN Charge(pass.row.action, -1) ELSE pass.used)
    /\ UNCHANGED <<disk, needs, outside, app, world>>

GoOn ==
    /\ pass.phase = "record"
    /\ Pending = {}
    /\ pass.instr \in {"deleteLast", "processNext"}
    /\ pass' = [pass EXCEPT !.phase = "records", !.at = 0, !.row = NoRow, !.instr = "none",
                            !.n = IF pass.instr = "deleteLast" THEN @ - 1 ELSE @,
                            !.used = IF pass.instr = "deleteLast"
                                     THEN Charge(pass.row.action, -1) ELSE @]
    /\ db' = IF pass.instr = "deleteLast" THEN [db EXCEPT !.journal = Removed] ELSE db
    /\ UNCHANGED <<disk, needs, outside, app, world>>

\* The transaction of the pass is committed.
EndPass ==
    /\ pass.phase = "lanes"
    /\ pass.todo = {}
    /\ disk' = db
    /\ pass' = Idle
    /\ UNCHANGED <<db, needs, outside, app, world>>

HandleEvent ==
    /\ pass.phase = "record"
    /\ \E i \in Pending : HandleResponse(i) \/ HandleAnswer(i)

Schedule ==
    \/ ScheduleRequest
    \/ ScheduleIssue
    \/ ScheduleObsolete
    \/ ScheduleImmediate
    \/ ScheduleRemoved

PassStep ==
    \/ BeginPass
    \/ VisitLane
    \/ FetchRecord
    \/ HandleEvent
    \/ ProcessCancelled
    \/ AwaitAnswer
    \/ AwaitRefresh
    \/ Schedule
    \/ AwaitResult
    \/ Stop
    \/ GoOn
    \/ EndPass

Next ==
    \/ \E a \in Actions : Submit(a) \/ SubmitEnds(a)
    \/ \E r \in DOMAIN disk.journal : Cancel(r) \/ Elapse(r)
    \/ \E q \in requests : Respond(q)
    \/ \E p \in prompts : Answer(p)
    \/ GoOffline
    \/ GoOnline
    \/ Crash
    \/ PassStep

Spec == Init /\ [][Next]_vars

\* The main queue runs the passes it is asked for, the server answers every
\* request, the user every prompt, waits expire and the connection returns.
FairSpec ==
    /\ Spec
    /\ WF_vars(PassStep)
    /\ WF_vars(\E q \in requests : Respond(q))
    /\ WF_vars(\E p \in prompts : Answer(p))
    /\ WF_vars(\E r \in DOMAIN disk.journal : Elapse(r))
    /\ WF_vars(GoOnline)

-----------------------------------------------------------------------------
(* Properties *)

\* Types of the two databases, for TypeOK.
DatabaseOK(d) ==
    /\ DOMAIN d = {"journal", "lanes", "inbox", "nextRecord", "nextLane"}
    /\ d.nextRecord \in Nat \ {0}
    /\ d.nextLane \in Nat \ {0}
    /\ DOMAIN d.journal \subseteq 1 .. d.nextRecord - 1
    /\ \A r \in DOMAIN d.journal : d.journal[r] \in Rows
    /\ DOMAIN d.lanes \subseteq 1 .. d.nextLane - 1
    /\ \A l \in DOMAIN d.lanes : d.lanes[l] \in Lanes
    /\ d.inbox \in Seq(EventRecords)

\* Type of a pass, for TypeOK.
PassOK(x) ==
    /\ DOMAIN x = DOMAIN Idle
    /\ x.phase \in {"idle", "lanes", "records", "record"}
    /\ x.lane \in Nat
    /\ x.at \in Nat
    /\ x.row \in Rows \cup {NoRow}
    /\ x.todo \subseteq Nat
    /\ x.active \subseteq Nat
    /\ x.used \in [Categories -> Int]
    /\ x.n \in Int
    /\ x.visited \in Nat
    /\ x.instr \in Instructions

\* Every variable has its type.
TypeOK ==
    /\ DatabaseOK(db)
    /\ DatabaseOK(disk)
    /\ PassOK(pass)
    /\ needs \in BOOLEAN
    /\ queue \in Seq(EventRecords)
    /\ requests \subseteq Requests
    /\ prompts \subseteq Prompts
    /\ issues \in Nat
    /\ cancelled \subseteq Nat
    /\ elapsed \subseteq Nat \X Nat
    /\ unanswered \subseteq Actions
    /\ submitted \subseteq Actions
    /\ online \in BOOLEAN
    /\ losses \in 0 .. MaxOffline
    /\ crashes \in 0 .. MaxCrashes

Conflict(d, r, s) ==
    \E a \in Tagged(d, r), b \in Tagged(d, s) : Related(a, b)
InProgress(d, r) == r \in DOMAIN d.journal /\ d.journal[r].state = "processing"

\* No two records with related tags are in progress at the same time, neither
\* as a pass sees it nor as it would come back after a crash (lanes and their
\* afterLanes, OCCore+SyncEngine.m L719-738).
NoConflictingActions ==
    \A d \in {db, disk} : \A r, s \in DOMAIN d.journal :
        InProgress(d, r) /\ InProgress(d, s) /\ r # s => ~Conflict(d, r, s)

\* What the server is asked to do on behalf of different records that are
\* still in the journal is never in conflict: no previously scheduled record
\* that is running has tags related to a record that gets executed
\* (doc/SYNCENGINE.md L8, OCCore+SyncEngine.m L719-738).
NoConflictingRequests ==
    \A q1, q2 \in requests :
        /\ q1.record \in DOMAIN db.journal
        /\ q2.record \in DOMAIN db.journal
        /\ q1.record # q2.record
        => ~Conflict(db, q1.record, q2.record)

\* Only a crash can lead to such requests: whatever is retried, cancelled,
\* answered or obsolete, a process that goes on keeps them apart.
RequestsApart == crashes = 0 => NoConflictingRequests

\* A record that waits for a result has a request out or a response on its
\* way, so no record waits for ever (OCCore+SyncEngine.m L1266-1275).
ResultIsComing ==
    \A d \in {db, disk} : \A r \in DOMAIN d.journal :
        InProgress(d, r) /\ d.journal[r].wait = "none" =>
            \/ \E q \in requests : q.record = r
            \/ \E i \in DOMAIN queue : queue[i].record = r /\ queue[i].what \notin Choices
            \/ \E i \in DOMAIN d.inbox :
                   d.inbox[i].record = r /\ d.inbox[i].what \notin Choices

\* The events the open transaction will get to see, in their order.
Post == db.inbox \o queue

\* A response, not an answer to an issue, for this record.
IsResult(i, r) == Post[i].record = r /\ Post[i].what \notin Choices

\* As long as no pass was rolled back, at most one request or response is under
\* way for a record, and only while the record waits for it: a response to an
\* earlier attempt never meets a record that was rescheduled, and completes a
\* later attempt (OCCore+SyncEngine.m L1116-1160).
OneResultUnderWay ==
    crashes = 0 => \A r \in DOMAIN db.journal :
        LET out == {x \in requests : x.record = r}
            back == {i \in DOMAIN Post : IsResult(i, r)}
        IN  /\ \A x, y \in out : x = y
            /\ \A i, j \in back : i = j
            /\ out = {} \/ back = {}
            /\ out # {} \/ back # {} => InProgress(db, r) /\ db.journal[r].wait = "none"

\* As long as the process does not die, the user is asked once about an issue:
\* it is not shown again when its answer is already on its way, and not
\* answered twice (-evaluateWithOptions: of OCWaitConditionIssue.m).
AskedOnce ==
    crashes = 0 => \A i \in DOMAIN Post : Post[i].what \in Choices =>
        /\ \A x \in prompts : x.issue # Post[i].issue
        /\ \A j \in DOMAIN Post : Post[j].what \in Choices /\ Post[j].issue = Post[i].issue => j = i

\* Records of category c on this lane and those before it with a request out.
OutUpTo(c, lane) ==
    {r \in DOMAIN db.journal :
        /\ c \in CategoriesOf[db.journal[r].action]
        /\ db.journal[r].lane <= lane
        /\ \E x \in requests : x.record = r}

\* "Limit total number of concurrent transfers to 6" (OCCore.m L142) and its
\* like: when a request is sent, fewer records of its category than its budget
\* have one out, on its lane and the lanes before it. What runs on later lanes
\* is not counted by then (OCCore+SyncEngine.m L763-784).
SentWithinBudget ==
    [][\A x \in requests' \ requests : crashes = 0 =>
          \A c \in CategoriesOf[db.journal[x.record].action] : Budget[c] > 0 =>
              Cardinality(OutUpTo(c, db.journal[x.record].lane)) < Budget[c]]_vars

\* An issue this process prompted for is still on display, or its answer is on
\* its way (-evaluateWithOptions: of OCWaitConditionIssue.m).
QuestionIsAsked ==
    \A r \in DOMAIN disk.journal :
        LET row == disk.journal[r]
        IN  row.wait = "issue" /\ row.prompted = crashes + 1 =>
                \/ \E p \in prompts : p.record = r /\ p.issue = row.issue
                \/ \E i \in DOMAIN queue : queue[i].issue = row.issue
                \/ \E i \in DOMAIN disk.inbox : disk.inbox[i].issue = row.issue

\* The caller of an action that left the journal got its result, unless the
\* process died (-completeWithError:... of OCSyncRecord.m and its callers).
NoHandlerForgotten ==
    \A a \in unanswered :
        ClassOf[a] \in {"delete", "copyMove", "createFolder", "update", "upload"} =>
            \E r \in DOMAIN db.journal : db.journal[r].action = a

InJournalOnDisk(a) == \E r \in DOMAIN disk.journal : disk.journal[r].action = a

\* Every submitted action leaves the journal: no wake-up is lost, no record
\* is stuck behind another one, whatever fails (bounded by MaxAttempts).
EventuallyFinished == \A a \in Actions : InJournalOnDisk(a) ~> ~InJournalOnDisk(a)

\* A lane does not outlive its records for ever: it would hold back every
\* later lane with related tags (OCCore+SyncEngine.m L873-896).
LanesRemoved ==
    \A l \in 1 .. Cardinality(Actions) : l \in DOMAIN disk.lanes ~> l \notin DOMAIN disk.lanes
=============================================================================
