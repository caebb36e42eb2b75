----------------------------- MODULE SyncEvents -----------------------------
(***************************************************************************)
(* The path of a sync event from the HTTP pipeline to its sync record.     *)
(*                                                                         *)
(* A finished HTTP request is kept in the pipeline's own database until    *)
(* its result handler returns.  -queueSyncEvent:sender: (Core/Sync/        *)
(* OCCore+SyncEngine.m) stores the event in the key-value store, a file    *)
(* shared by the processes of the app group of which each process keeps a  *)
(* cache, and asks for a pass of the sync engine.  A pass copies the       *)
(* queued events into the events table of the core's database in one       *)
(* exclusive transaction and delivers them in a second one, taking each    *)
(* event out of the key-value store before its record handles it.          *)
(*                                                                         *)
(* A crash discards what is in memory and rolls the open transaction back; *)
(* the pipeline database, the key-value store's file and what was          *)
(* committed survive.                                                      *)
(***************************************************************************)
EXTENDS Naturals, Sequences, SequencesExt

CONSTANTS
    Processes,      \* processes with a core for the bookmark (app, extensions)
    Records,        \* sync records, all in the journal initially
    Events,         \* the events; one per HTTP request, named by its request ID
    RecordOf,       \* the sync record an event is addressed to
    Owner,          \* the process that submitted a sync record
    UsedLimit,      \* how many used UUIDs the event queue remembers (100)
    MaxCrashes,     \* bound on crashes
    None            \* no process, no event

ASSUME EventsAssumption ==
    /\ RecordOf \in [Events -> Records]
    /\ Owner \in [Records -> Processes]
    /\ UsedLimit \in Nat
    /\ MaxCrashes \in Nat
    /\ None \notin Processes \cup Events

VARIABLES
    http,       \* how far the response to each event's request has come
    kvs,        \* event queue in the key-value store's file: records, used
    cache,      \* each process' cached copy of it
    db,         \* committed database: event rows, journal, handled events
    work,       \* the same as the open transaction sees it
    holder,     \* process holding the exclusive transaction, or None
    todo,       \* event records the transfer has yet to look at
    current,    \* event out of the key-value store but not yet handled
    phase,      \* where each process is in its pass
    needs,      \* _needsToProcessSyncRecords
    up,         \* processes that run
    triggered,  \* records whose owner each process asked to process them
    exempt,     \* _remoteSyncEngineTimedOutSyncRecordIDs of each process
    received,   \* history: events accepted into the queue, oldest first
    crashes

memVars == <<todo, current, phase, needs, triggered, exempt>>
vars == <<http, kvs, cache, db, work, holder, memVars, up, received, crashes>>

\* A response is in the pipeline's database until the request is dropped.
RequestStates == {"finished", "stored", "signalled", "dropped"}
Queues == [records : Seq(Events), used : Seq(Events)]
Databases == [events : Seq(Events), journal : SUBSET Records, handled : Seq(Events)]

TypeOK ==
    /\ http \in [Events -> RequestStates]
    /\ kvs \in Queues
    /\ cache \in [Processes -> Queues]
    /\ db \in Databases
    /\ work \in Databases
    /\ holder \in Processes \cup {None}
    /\ todo \in Seq(Events)
    /\ current \in Events \cup {None}
    /\ phase \in [Processes -> {"idle", "transfer", "process"}]
    /\ needs \in [Processes -> BOOLEAN]
    /\ up \in SUBSET Processes
    /\ triggered \in [Processes -> SUBSET Records]
    /\ exempt \in [Processes -> SUBSET Records]
    /\ received \in Seq(Events)
    /\ crashes \in 0 .. MaxCrashes

Init ==
    /\ http = [e \in Events |-> "finished"]
    /\ kvs = [records |-> <<>>, used |-> <<>>]
    /\ cache = [p \in Processes |-> kvs]
    /\ db = [events |-> <<>>, journal |-> Records, handled |-> <<>>]
    /\ work = db
    /\ holder = None
    /\ todo = <<>>
    /\ current = None
    /\ phase = [p \in Processes |-> "idle"]
    /\ needs = [p \in Processes |-> FALSE]
    /\ up = Processes
    /\ triggered = [p \in Processes |-> {}]
    /\ exempt = [p \in Processes |-> {}]
    /\ received = <<>>
    /\ crashes = 0

-----------------------------------------------------------------------------
(* OCEventQueue *)

\* Mutant: the used UUIDs are not looked at.
AddsRecordUsedIgnored(q, e) == e \notin ToSet(q.records)

AddsRecord(q, e) == e \notin ToSet(q.used) /\ e \notin ToSet(q.records)

AddEventRecord(q, e) == [q EXCEPT !.records = Append(@, e)]

RemoveEventRecord(q, e) ==
    [records |-> RemoveFirst(q.records, e),
     used |-> LET newest == <<e>> \o q.used
              IN  SubSeq(newest, 1, IF Len(newest) < UsedLimit THEN Len(newest) ELSE UsedLimit)]

-----------------------------------------------------------------------------
(* From the HTTP pipeline into the key-value store *)

\* The first half of -queueSyncEvent:sender:, which returns only when the
\* file is written.  The store refreshes its own cache only if it wrote.
StoreEvent(p, e) ==
    /\ p \in up
    /\ Owner[RecordOf[e]] = p
    /\ http[e] = "finished"
    /\ http' = [http EXCEPT ![e] = "stored"]
    /\ IF AddsRecord(kvs, e)
       THEN /\ kvs' = AddEventRecord(kvs, e)
            /\ cache' = [cache EXCEPT ![p] = kvs']
            /\ received' = Append(received, e)
       ELSE UNCHANGED <<kvs, cache, received>>
    /\ UNCHANGED <<db, work, holder, memVars, up, crashes>>

\* Its second half.
SignalEvent(p, e) ==
    /\ p \in up
    /\ Owner[RecordOf[e]] = p
    /\ http[e] = "stored"
    /\ http' = [http EXCEPT ![e] = "signalled"]
    /\ needs' = [needs EXCEPT ![p] = TRUE]
    /\ UNCHANGED <<kvs, cache, db, work, holder, todo, current, phase, triggered, exempt,
                   up, received, crashes>>

\* The result handler has returned: the pipeline forgets the request.
RemoveTask(p, e) ==
    /\ p \in up
    /\ Owner[RecordOf[e]] = p
    /\ http[e] = "signalled"
    /\ http' = [http EXCEPT ![e] = "dropped"]
    /\ UNCHANGED <<kvs, cache, db, work, holder, memVars, up, received, crashes>>

\* The rate-limited notification about a change made by another process.
UpdateFromStoreContents(p) ==
    /\ p \in up
    /\ cache[p] # kvs
    /\ cache' = [cache EXCEPT ![p] = kvs]
    /\ UNCHANGED <<http, kvs, db, work, holder, memVars, up, received, crashes>>

-----------------------------------------------------------------------------
(* A pass of the sync engine *)

BeginPass(p) ==
    /\ p \in up
    /\ phase[p] = "idle"
    /\ needs[p]
    /\ needs' = [needs EXCEPT ![p] = FALSE]
    /\ phase' = [phase EXCEPT ![p] = "transfer"]
    /\ UNCHANGED <<http, kvs, cache, db, work, holder, todo, current, triggered, exempt,
                   up, received, crashes>>

\* -readObjectForKey: answers from the cache.
BeginTransfer(p) ==
    /\ phase[p] = "transfer"
    /\ holder = None
    /\ holder' = p
    /\ work' = db
    /\ todo' = cache[p].records
    /\ UNCHANGED <<http, kvs, cache, db, current, phase, needs, triggered, exempt, up,
                   received, crashes>>

\* Mutant: the transfer takes the event out of the key-value store itself.
TransferEventRemoves(p) ==
    /\ holder = p
    /\ phase[p] = "transfer"
    /\ todo # <<>>
    /\ todo' = Tail(todo)
    /\ work' = [work EXCEPT !.events = Append(@, Head(todo))]
    /\ kvs' = RemoveEventRecord(kvs, Head(todo))
    /\ cache' = [cache EXCEPT ![p] = kvs']
    /\ UNCHANGED <<http, db, holder, current, phase, needs, triggered, exempt,
                   up, received, crashes>>

TransferEvent(p) ==
    /\ holder = p
    /\ phase[p] = "transfer"
    /\ todo # <<>>
    /\ todo' = Tail(todo)
    /\ work' = IF Head(todo) \in ToSet(work.events)      \* -queueContainsEvent:
               THEN work
               ELSE [work EXCEPT !.events = Append(@, Head(todo))]
    /\ UNCHANGED <<http, kvs, cache, db, holder, current, phase, needs, triggered, exempt,
                   up, received, crashes>>

CommitTransfer(p) ==
    /\ holder = p
    /\ phase[p] = "transfer"
    /\ todo = <<>>
    /\ db' = work
    /\ holder' = None
    /\ phase' = [phase EXCEPT ![p] = "process"]
    /\ UNCHANGED <<http, kvs, cache, work, todo, current, needs, triggered, exempt, up,
                   received, crashes>>

BeginProcessing(p) ==
    /\ phase[p] = "process"
    /\ holder = None
    /\ holder' = p
    /\ work' = db
    /\ UNCHANGED <<http, kvs, cache, db, memVars, up, received, crashes>>

Processing(p) == holder = p /\ phase[p] = "process"

\* A record of another running process is left to that process, unless it
\* did not acknowledge a trigger in time.
MayProcess(p, r) == Owner[r] = p \/ Owner[r] \notin up \/ r \in exempt[p]

\* The row -nextEventForSyncRecordID: returns for the record of event e.
IsNextEvent(e) ==
    \E i \in 1 .. Len(work.events) :
        /\ work.events[i] = e
        /\ \A j \in 1 .. (i - 1) : RecordOf[work.events[j]] # RecordOf[e]

Deliverable(p, e) ==
    /\ RecordOf[e] \in work.journal
    /\ MayProcess(p, RecordOf[e])
    /\ IsNextEvent(e)

TakeEvent(p, e) ==
    /\ Processing(p)
    /\ current = None
    /\ Deliverable(p, e)
    /\ current' = e
    /\ IF e \in ToSet(kvs.records)
       THEN /\ kvs' = RemoveEventRecord(kvs, e)
            /\ cache' = [cache EXCEPT ![p] = kvs']
       ELSE UNCHANGED <<kvs, cache>>
    /\ UNCHANGED <<http, db, work, holder, todo, phase, needs, triggered, exempt, up,
                   received, crashes>>

\* Mutant: the event is released before its handling is recorded.
HandleEventReleased(p) ==
    /\ Processing(p)
    /\ current # None
    /\ current' = None
    /\ work' = [work EXCEPT !.events = RemoveFirst(@, current),
                            !.handled = Append(@, current')]
    /\ UNCHANGED <<http, kvs, cache, db, holder, todo, phase, needs, triggered,
                   exempt, up, received, crashes>>

\* The record's action handles the event and the row is deleted.
HandleEvent(p) ==
    /\ Processing(p)
    /\ current # None
    /\ work' = [work EXCEPT !.events = RemoveFirst(@, current),
                            !.handled = Append(@, current)]
    /\ current' = None
    /\ UNCHANGED <<http, kvs, cache, db, holder, todo, phase, needs, triggered, exempt,
                   up, received, crashes>>

\* A record that completed or was cancelled leaves the journal, after the
\* loop over its events.  Rows of later events stay behind.
RemoveRecord(p, r) ==
    /\ Processing(p)
    /\ current = None
    /\ r \in work.journal
    /\ MayProcess(p, r)
    /\ \A e \in ToSet(work.events) : RecordOf[e] # r
    /\ work' = [work EXCEPT !.journal = @ \ {r}]
    /\ UNCHANGED <<http, kvs, cache, db, holder, memVars, up, received, crashes>>

\* Mutant: the request for a pass is cleared when the pass ends.
EndPassClearsNeeds(p) ==
    /\ Processing(p)
    /\ current = None
    /\ \A e \in Events : ~Deliverable(p, e)
    /\ db' = work
    /\ holder' = None
    /\ phase' = [phase EXCEPT ![p] = "idle"]
    /\ needs' = [needs EXCEPT ![p] = FALSE]
    /\ triggered' = [triggered EXCEPT ![p] = {r \in work.journal : ~MayProcess(p, r)}]
    /\ UNCHANGED <<http, kvs, cache, work, todo, current, exempt, up, received, crashes>>

\* The pass is over when every record it may process was visited; it has
\* triggered the owners of the others.
EndPass(p) ==
    /\ Processing(p)
    /\ current = None
    /\ \A e \in Events : ~Deliverable(p, e)
    /\ db' = work
    /\ holder' = None
    /\ phase' = [phase EXCEPT ![p] = "idle"]
    /\ triggered' = [triggered EXCEPT ![p] = {r \in work.journal : ~MayProcess(p, r)}]
    /\ UNCHANGED <<http, kvs, cache, work, todo, current, needs, exempt, up,
                   received, crashes>>

\* The owner of a record did not acknowledge within seven seconds.
TriggerTimeout(p, r) ==
    /\ p \in up
    /\ r \in triggered[p]
    /\ triggered' = [triggered EXCEPT ![p] = @ \ {r}]
    /\ exempt' = [exempt EXCEPT ![p] = @ \cup {r}]
    /\ needs' = [needs EXCEPT ![p] = TRUE]
    /\ UNCHANGED <<http, kvs, cache, db, work, holder, todo, current, phase, up,
                   received, crashes>>

-----------------------------------------------------------------------------
(* Termination and relaunch of a process *)

Crash(p) ==
    /\ p \in up
    /\ crashes < MaxCrashes
    /\ crashes' = crashes + 1
    /\ up' = up \ {p}
    /\ http' = [e \in Events |->
                  IF Owner[RecordOf[e]] = p /\ http[e] \in {"stored", "signalled"}
                  THEN "finished" ELSE http[e]]
    /\ phase' = [phase EXCEPT ![p] = "idle"]
    /\ needs' = [needs EXCEPT ![p] = FALSE]
    /\ triggered' = [triggered EXCEPT ![p] = {}]
    /\ exempt' = [exempt EXCEPT ![p] = {}]
    /\ IF holder = p
       THEN holder' = None /\ work' = db /\ todo' = <<>> /\ current' = None
       ELSE UNCHANGED <<holder, work, todo, current>>
    /\ UNCHANGED <<kvs, cache, db, received>>

\* The store reads its file when it is created; the core asks for a pass
\* when it has started.
Restart(p) ==
    /\ p \notin up
    /\ up' = up \cup {p}
    /\ cache' = [cache EXCEPT ![p] = kvs]
    /\ needs' = [needs EXCEPT ![p] = TRUE]
    /\ UNCHANGED <<http, kvs, db, work, holder, todo, current, phase, triggered, exempt,
                   received, crashes>>

-----------------------------------------------------------------------------
Pass(p) ==
    \/ BeginPass(p)
    \/ BeginTransfer(p) \/ TransferEvent(p) \/ CommitTransfer(p)
    \/ BeginProcessing(p) \/ HandleEvent(p) \/ EndPass(p)
    \/ \E e \in Events : TakeEvent(p, e)

Pipeline(p, e) == StoreEvent(p, e) \/ SignalEvent(p, e) \/ RemoveTask(p, e)

Next ==
    \E p \in Processes :
          \/ \E e \in Events : Pipeline(p, e)
          \/ UpdateFromStoreContents(p)
          \/ Pass(p)
          \/ \E r \in Records : RemoveRecord(p, r) \/ TriggerTimeout(p, r)
          \/ Crash(p)
          \/ Restart(p)

Spec == Init /\ [][Next]_vars

\* The queues that deliver results and run passes keep running while the
\* process does, and the user opens a terminated app again.
Fairness ==
    \A p \in Processes :
        /\ WF_vars(Pass(p))
        /\ \A e \in Events : WF_vars(Pipeline(p, e))
        /\ WF_vars(UpdateFromStoreContents(p))
        /\ WF_vars(Restart(p))

FairSpec == Spec /\ Fairness

-----------------------------------------------------------------------------
(* Properties *)

\* An event that reached -queueSyncEvent: is, at every instant, in at least
\* one place a crash cannot erase: its request (redelivered on relaunch), the
\* key-value store, the events table, or among the handled events.  About the
\* order "database first, then key-value store, then HTTP pipeline" of
\* OCCore+SyncEngine.m L1503-1544.
NoEventLost ==
    \A e \in Events :
        http[e] # "finished" =>
            e \in ToSet(kvs.records) \cup ToSet(db.events) \cup ToSet(db.handled)

\* No event is handled twice, whatever is redelivered after a crash: the
\* goal of OCCore+SyncEngine.m L1508 and the argument of its comment L629.
NoEventHandledTwice ==
    \A i, j \in 1 .. Len(db.handled) : i # j => db.handled[i] # db.handled[j]

\* The engine implements the abstract promise: per record, exactly once and
\* in the order of acceptance, across redeliveries and rolled back passes.
Delivery == INSTANCE EventDelivery WITH handled <- db.handled
DeliverySpec == Delivery!Spec

\* A finished request's event is eventually handled, unless its record left
\* the journal: no wake-up is lost between storing, signalling and the pass
\* that clears the flag before it reads the queue (L573-614, L1592).
EventuallyHandled ==
    \A e \in Events :
        <>(e \in ToSet(db.handled) \/ RecordOf[e] \notin db.journal)
=============================================================================
