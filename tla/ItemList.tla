------------------------------ MODULE ItemList ------------------------------
(***************************************************************************)
(* The content of a folder: server, cache and query                        *)
(* (Core/ItemList, Core/OCCore+ItemUpdates.m, the sync anchor of           *)
(* Core/Sync/OCCore+SyncEngine.m, the change notifications of OCCore.m).   *)
(*                                                                         *)
(* Processes share a database with a row for each file of the folder.      *)
(* Every change of rows happens in a transaction that increases a counter, *)
(* the sync anchor.  A scan of the folder (a task) reads the rows and the  *)
(* sync anchor, asks the server for its list, and merges the two if the    *)
(* anchor has not moved meanwhile.  Actions of the user change rows, too:  *)
(* a deleted file is hidden at once, an edited one keeps its local         *)
(* content, until the server has answered.  A query shows the folder.      *)
(*                                                                         *)
(* The blocks on the core's queue run one after another; the transactions  *)
(* of actions and of other processes come in between.  The model follows   *)
(* one folder and, in each process that scans, one query for it.           *)
(*                                                                         *)
(* The code compares sync anchors for equality, with the latest one; the   *)
(* model therefore keeps, in place of the numbers, which of those held     *)
(* are the latest, and which rows are newer than the one a process knows.  *)
(***************************************************************************)
EXTENDS Naturals, Sequences, SequencesExt

CONSTANTS
    Processes,      \* processes of the app group
    Scanners,       \* those that show the folder, and scan it
    Files,          \* files, by their fileID
    Slots,          \* bound: tasks a process can have at a time
    Initially,      \* the files on the server at first
    None,           \* no row, no list, no change
    Budget          \* bounds: what may happen how often

\* Changes other clients make on the server, actions, and lists not received.
Bounded == {"changes", "actions", "failures"}

ASSUME ItemListAssumption ==
    /\ Scanners \subseteq Processes
    /\ Slots \in Nat
    /\ Initially \subseteq Files
    /\ Budget \in [Bounded -> Nat]
    /\ None \notin Nat

VARIABLES
    server,     \* what the server has: the files' versions and its ETag
    db,         \* the folder's ETag, the rows of the files
    journal,    \* the action that is pending for a file
    unseen,     \* rows changed after the anchor the process knows, _latestSyncAnchor
    query,      \* the query's state and what it shows
    tasks,      \* item list tasks
    queue,      \* blocks on the core's queue
    running,    \* what the block that runs does next
    reader,     \* a cache read that has the rows, but not the anchor yet
    wanted,     \* the folder is to be scanned, whatever its ETag
    notices,    \* processes to be told of a change
    torn,       \* history: rows changed between the two halves of a cache read
    doubled,    \* history: a merge put off while another read of the cache waits
    stale,      \* history: files whose action wrote an old version last
    budget      \* what may still happen how often

cores == <<unseen, query, tasks, queue, running, reader, wanted>>
vars == <<server, db, journal, cores, notices, torn, doubled, stale, budget>>

\* Versions are those of the folder's ETag that came with them; 0: no file.
Row(v, p, r, w) == [ver |-> v, pending |-> p, removed |-> r, writer |-> w]
Rows == [ver : Nat, pending : BOOLEAN, removed : BOOLEAN, writer : Processes]
RowSets == [Files -> Rows \cup {None}]
Versions == [Files -> Nat]
Lists == [items : Versions, tag : Nat]

TaskRecords ==
    [open : BOOLEAN,        \* in _itemListTasksByPath
     chained : BOOLEAN,     \* the next task after the open one
     asked : BOOLEAN,       \* a cache read is queued
     wire : BOOLEAN,        \* the list was asked for
     current : BOOLEAN,     \* syncAnchorAtStart is the sync anchor
     cached : RowSets \cup {None},
     listing : Lists \cup {None},
     failed : BOOLEAN]
NoTask == [open |-> FALSE, chained |-> FALSE, asked |-> FALSE, wire |-> FALSE, current |-> FALSE,
           cached |-> None, listing |-> None, failed |-> FALSE]

Reads == [task : 1 .. Slots, items : RowSets, inline : BOOLEAN]

Entries == [kind : {"delete", "edit"}, by : Processes, ver : Nat,
            outcome : {"open", "done", "missing", "failed"}, new : Nat]

\* None is no record and no set of rows.
ASSUME NoneAssumption ==
    /\ None \notin Rows /\ None \notin RowSets /\ None \notin Entries
    /\ None \notin [op : {"inline", "merge"}, task : 1 .. Slots]

Blocks ==
    [op : {"cache"}, task : 1 .. Slots, items : RowSets, current : BOOLEAN]
    \cup [op : {"list"}, task : 1 .. Slots, listing : Lists \cup {None}]
    \cup [op : {"show"}, items : Versions, state : {"waiting", "cached"}]
    \cup [op : {"update"}, delta : [Files -> Nat \cup {None}], results : Versions \cup {None}]
    \cup [op : {"check"}]

TypeOK ==
    /\ server \in Lists
    /\ db \in [tag : Nat, rows : RowSets]
    /\ journal \in [Files -> Entries \cup {None}]
    /\ unseen \in [Scanners -> SUBSET Files]
    /\ query \in [Scanners -> [state : {"started", "waiting", "cached", "idle"}, shown : Versions]]
    /\ tasks \in [Scanners -> [1 .. Slots -> TaskRecords]]
    /\ queue \in [Scanners -> Seq(Blocks)]
    /\ running \in [Scanners -> [op : {"inline", "merge"}, task : 1 .. Slots] \cup {None}]
    /\ reader \in [Scanners -> Reads \cup {None}]
    /\ wanted \in [Scanners -> BOOLEAN]
    /\ notices \subseteq Scanners
    /\ torn \in BOOLEAN /\ doubled \in BOOLEAN
    /\ stale \subseteq Files
    /\ budget \in [Bounded -> Nat]

Init ==
    /\ server = [items |-> [f \in Files |-> IF f \in Initially THEN 1 ELSE 0], tag |-> 1]
    /\ db = [tag |-> 0, rows |-> [f \in Files |-> None]]
    /\ journal = [f \in Files |-> None]
    /\ unseen = [p \in Scanners |-> {}]
    /\ query = [p \in Scanners |-> [state |-> "started", shown |-> [f \in Files |-> 0]]]
    /\ tasks = [p \in Scanners |-> [t \in 1 .. Slots |-> NoTask]]
    /\ queue = [p \in Scanners |-> <<>>]
    /\ running = [p \in Scanners |-> None]
    /\ reader = [p \in Scanners |-> None]
    /\ wanted = [p \in Scanners |-> TRUE]
    /\ notices = {}
    /\ torn = FALSE /\ doubled = FALSE
    /\ stale = {}
    /\ budget = Budget

Spend(b) == budget[b] > 0 /\ budget' = [budget EXCEPT ![b] = @ - 1]

-----------------------------------------------------------------------------
(* Rows, and the transactions that change them.                            *)

\* -retrieveCacheItemsAtPath: finds the rows that are not removed.
Visible(rows) == [f \in Files |-> IF rows[f] # None /\ ~rows[f].removed THEN rows[f] ELSE None]
\* mutant: an item that is missing has no version
VersionsOrNone(items) == [f \in Files |-> IF items[f] = None THEN None ELSE items[f].ver]

VersionsOf(items) == [f \in Files |-> IF items[f] = None THEN 0 ELSE items[f].ver]

\* mutant: the queries are not told of removed items
DeltaOfVisible(rows, S) ==
    [f \in Files |-> IF f \in S /\ Visible(rows)[f] # None THEN rows[f].ver ELSE None]

\* What the update of the queries is told of the rows of S: the new version,
\* or 0 for a removed item.
Delta(rows, S) ==
    [f \in Files |-> IF f \in S THEN VersionsOf(Visible(rows))[f] ELSE None]
Changed(rows) == {f \in Files : rows[f] # db.rows[f]}

Update(delta, results) == [op |-> "update", delta |-> delta, results |-> results]

\* The thread of the process' database is free.
IsFree(p) == p \in Scanners => reader[p] = None

\* The sync anchor is increased: no process holds the latest any more.
Outdated(T) == [p \in Scanners |-> [t \in 1 .. Slots |-> [T[p][t] EXCEPT !.current = FALSE]]]
OutdatedReads(Q) ==
    [p \in Scanners |-> [i \in DOMAIN Q[p] |->
        IF Q[p][i].op = "cache" THEN [Q[p][i] EXCEPT !.current = FALSE] ELSE Q[p][i]]]

\* -incrementSyncAnchorWithProtectedBlock: around changed rows, with a block
\* that updates the queries (-performUpdatesForAddedItems:…).  Other processes
\* are notified; a change made while one of them reads tears its reading.
Transact(p, rows, tag, results) ==
    /\ IsFree(p)
    /\ db' = [tag |-> tag, rows |-> rows]
    /\ unseen' = [q \in Scanners |-> IF q = p THEN {} ELSE unseen[q] \cup Changed(rows)]
    /\ queue' = [q \in Scanners |->
            IF q = p THEN Append(OutdatedReads(queue)[q], Update(Delta(rows, Changed(rows)), results))
            ELSE OutdatedReads(queue)[q]]
    /\ notices' = notices \cup (Scanners \ {p})
    /\ torn' = (torn \/ \E q \in Scanners : reader[q] # None)

-----------------------------------------------------------------------------
(* Actions of the user.                                                    *)

\* The item acted upon: as the database has it, or as a query shows it.
Items(p, f) ==
    ({VersionsOf(Visible(db.rows))[f]} \cup (IF p \in Scanners THEN {query[p].shown[f]} ELSE {})) \ {0}

\* Preflight of -[OCSyncActionDelete …] and -[OCSyncActionUpload …]
Submit(p, f, kind) ==
    /\ Spend("actions")
    /\ journal[f] = None /\ db.rows[f] # None
    /\ \E v \in Items(p, f) :
        /\ Transact(p, [db.rows EXCEPT ![f] = Row(v, TRUE, kind = "delete", p)], db.tag, None)
        /\ tasks' = Outdated(tasks)
        /\ journal' = [journal EXCEPT ![f] =
                [kind |-> kind, by |-> p, ver |-> v, outcome |-> "open", new |-> 0]]
    /\ UNCHANGED <<server, query, running, reader, wanted, doubled, stale>>

\* The server carries an action out.
Perform(f) ==
    /\ journal[f] # None /\ journal[f].outcome = "open"
    /\ server.items[f] # 0
    /\ \E v \in {IF journal[f].kind = "delete" THEN 0 ELSE server.tag + 1} :
        /\ server' = [items |-> [server.items EXCEPT ![f] = v], tag |-> server.tag + 1]
        /\ journal' = [journal EXCEPT ![f].outcome = "done", ![f].new = v]
    /\ UNCHANGED <<db, cores, notices, torn, doubled, stale, budget>>

\* It has no such file, or refuses, and the user gives up the action.
Refuse(f) ==
    /\ journal[f] # None /\ journal[f].outcome = "open"
    /\ \E o \in {"failed"} \cup (IF journal[f].kind = "delete" /\ server.items[f] = 0
                                 THEN {"missing"} ELSE {}) :
        journal' = [journal EXCEPT ![f].outcome = o]
    /\ UNCHANGED <<server, db, cores, notices, torn, doubled, stale, budget>>

\* The action's own copy of the item is written back: with the new version,
\* removed for good, or as it was before (-descheduleWithContext:).
Restored(e) ==
    Row(IF e.kind = "edit" /\ e.outcome = "done" THEN e.new ELSE e.ver, FALSE,
        e.kind = "delete" /\ e.outcome # "failed", e.by)

Finish(f) ==
    /\ journal[f] # None /\ journal[f].outcome # "open"
    /\ \E p \in {journal[f].by} :
       \E rows \in {[db.rows EXCEPT ![f] = Restored(journal[f])]} :
        /\ Transact(p, rows, db.tag, None)
        /\ wanted' = [q \in Scanners |-> wanted[q] \/ (q = p /\ journal[f].outcome = "missing")]
        /\ stale' = IF db.tag = server.tag /\ VersionsOf(Visible(rows))[f] # server.items[f]
                    THEN stale \cup {f} ELSE stale
    /\ journal' = [journal EXCEPT ![f] = None]
    /\ tasks' = Outdated(tasks)
    /\ UNCHANGED <<server, query, running, reader, doubled, budget>>

\* Another client adds, changes, removes or restores a file.
ChangeOnServer(f) ==
    /\ Spend("changes")
    /\ \E v \in {0, server.tag + 1} \ {server.items[f]} :
        server' = [items |-> [server.items EXCEPT ![f] = v], tag |-> server.tag + 1]
    /\ UNCHANGED <<db, journal, cores, notices, torn, doubled, stale>>

-----------------------------------------------------------------------------
(* Scans: tasks, cache reads, lists.                                       *)

Unused(p, t) ==
    /\ ~tasks[p][t].open /\ ~tasks[p][t].chained /\ ~tasks[p][t].asked /\ ~tasks[p][t].wire
    /\ reader[p] # None => reader[p].task # t
    /\ running[p] # None => running[p].task # t
    /\ \A b \in ToSet(queue[p]) : b.op \in {"cache", "list"} => b.task # t

IsScanning(p) == \E t \in 1 .. Slots : tasks[p][t].open

\* A scan is wanted, or a look at the folder's ETag shows that it changed; the
\* scan that is under way will do, too.
Schedule(p) ==
    /\ wanted[p] \/ (db.tag # server.tag /\ ~IsScanning(p))
    /\ running[p] = None
    /\ wanted' = [wanted EXCEPT ![p] = FALSE]
    /\ \/ IsScanning(p) /\ UNCHANGED <<unseen, tasks>>
       \/ /\ ~IsScanning(p) /\ IsFree(p)
          /\ \E t \in 1 .. Slots :
                /\ Unused(p, t)
                /\ \A u \in 1 .. t - 1 : ~Unused(p, u)
                /\ tasks' = [tasks EXCEPT ![p][t] = [NoTask EXCEPT
                        !.open = TRUE, !.asked = TRUE, !.wire = TRUE, !.current = TRUE]]
          /\ unseen' = [unseen EXCEPT ![p] = {}]
    /\ UNCHANGED <<server, db, journal, query, queue, running, reader, notices, torn, doubled, stale, budget>>

\* The server's list, or an error, is queued.
Answer(p, t) ==
    /\ tasks[p][t].wire
    /\ tasks' = [tasks EXCEPT ![p][t].wire = FALSE]
    /\ \E l \in {server, None} :
        /\ IF l = None THEN Spend("failures") ELSE UNCHANGED budget
        /\ queue' = [queue EXCEPT ![p] = Append(@, [op |-> "list", task |-> t, listing |-> l])]
    /\ UNCHANGED <<server, db, journal, unseen, query, running, reader, wanted, notices, torn, doubled, stale>>

\* Of tasks T, t, now k, leaves _itemListTasksByPath; the next of its chain is
\* handled.
Leave(T, p, t, k) ==
    LET chained == {u \in 1 .. Slots : T[p][u].chained}
    IN \/ /\ ~k.open \/ chained = {}
          /\ tasks' = [T EXCEPT ![p][t] = [k EXCEPT !.open = FALSE]]
          /\ running' = [running EXCEPT ![p] = None]
       \/ /\ k.open
          /\ \E u \in chained :
                /\ tasks' = [T EXCEPT ![p][t] = [k EXCEPT !.open = FALSE],
                                      ![p][u].chained = FALSE, ![p][u].open = TRUE]
                /\ running' = [running EXCEPT ![p] = [op |-> "merge", task |-> u]]

Show(k, s) == [op |-> "show", items |-> VersionsOf(k.cached), state |-> s]

\* -handleUpdatedTask: of task t, now k, with q left on the queue
Handle(p, t, k, q) ==
    \/ /\ k.cached = None
       /\ tasks' = [tasks EXCEPT ![p][t] = k]
       /\ queue' = [queue EXCEPT ![p] = q]
       /\ running' = [running EXCEPT ![p] = None]
    \/ /\ k.cached # None /\ k.listing = None /\ ~k.failed
       /\ tasks' = [tasks EXCEPT ![p][t] = k]
       /\ queue' = [queue EXCEPT ![p] = Append(q, Show(k, "waiting"))]
       /\ running' = [running EXCEPT ![p] = None]
    \/ /\ k.cached # None /\ k.failed
       /\ queue' = [queue EXCEPT ![p] = Append(q, Show(k, "cached"))]
       /\ Leave(tasks, p, t, k)
    \/ /\ k.cached # None /\ k.listing # None
       /\ queue' = [queue EXCEPT ![p] = q]
       /\ \/ /\ \E u \in (1 .. Slots) \ {t} : tasks[p][u].open
             /\ tasks' = [tasks EXCEPT ![p][t] = [k EXCEPT !.chained = TRUE]]
             /\ running' = [running EXCEPT ![p] = None]
          \/ /\ \A u \in (1 .. Slots) \ {t} : ~tasks[p][u].open
             /\ tasks' = [tasks EXCEPT ![p][t] = [k EXCEPT !.open = TRUE]]
             /\ running' = [running EXCEPT ![p] = [op |-> "merge", task |-> t]]

\* First half of -_cacheUpdateInline:…: the rows.
ReadRows(p, t) ==
    /\ reader[p] = None
    /\ \/ tasks[p][t].asked
       \/ running[p] = [op |-> "inline", task |-> t]
    /\ tasks' = [tasks EXCEPT ![p][t].asked = FALSE]
    /\ reader' = [reader EXCEPT ![p] =
            [task |-> t, items |-> Visible(db.rows), inline |-> running[p] = [op |-> "inline", task |-> t]]]
    /\ UNCHANGED <<server, db, journal, unseen, query, queue, running, wanted, notices, torn, doubled, stale, budget>>

\* Second half: the sync anchor, and the block that takes both.
ReadAnchor(p) ==
    /\ reader[p] # None
    /\ reader' = [reader EXCEPT ![p] = None]
    /\ unseen' = [unseen EXCEPT ![p] = {}]
    /\ \E t \in {reader[p].task} :
        \/ /\ reader[p].inline
           /\ Handle(p, t, [tasks[p][t] EXCEPT !.current = TRUE, !.cached = reader[p].items], queue[p])
        \/ /\ ~reader[p].inline
           /\ queue' = [queue EXCEPT ![p] = Append(@,
                [op |-> "cache", task |-> t, items |-> reader[p].items, current |-> TRUE])]
           /\ UNCHANGED <<tasks, running>>
    /\ UNCHANGED <<server, db, journal, query, wanted, notices, torn, doubled, stale, budget>>

-----------------------------------------------------------------------------
(* The blocks on the core's queue.                                         *)

Begins(p, op) == running[p] = None /\ queue[p] # <<>> /\ Head(queue[p]).op = op

RunCache(p) ==
    /\ Begins(p, "cache")
    /\ \E b \in {Head(queue[p])} :
        Handle(p, b.task, [tasks[p][b.task] EXCEPT !.current = b.current, !.cached = b.items],
               Tail(queue[p]))
    /\ UNCHANGED <<server, db, journal, unseen, query, reader, wanted, notices, torn, doubled, stale, budget>>

\* The database's queue has done the cache reads asked for so far.
NoReadAhead(p) == IsFree(p) /\ \A t \in 1 .. Slots : ~tasks[p][t].asked

\* The cache is read anew, inline, if the anchor moved since the task began.
RunList(p) ==
    /\ Begins(p, "list")
    /\ NoReadAhead(p)
    /\ unseen' = [unseen EXCEPT ![p] = {}]
    /\ \E b \in {Head(queue[p])} :
       \E k \in {[tasks[p][b.task] EXCEPT !.listing = b.listing, !.failed = b.listing = None]} :
        \/ /\ k.current
           /\ Handle(p, b.task, k, Tail(queue[p]))
        \/ /\ ~k.current
           /\ tasks' = [tasks EXCEPT ![p][b.task] = k]
           /\ queue' = [queue EXCEPT ![p] = Tail(@)]
           /\ running' = [running EXCEPT ![p] = [op |-> "inline", task |-> b.task]]
    /\ UNCHANGED <<server, db, journal, query, reader, wanted, notices, torn, doubled, stale, budget>>

\* The row of a file by the merge algorithm: the cached item c, the listed
\* version l, the row r as it is.  A new item that is known keeps its action,
\* and stays hidden if that is its deletion.
Merged(p, c, l, r) ==
    CASE l # 0 /\ c # None /\ c.pending -> Row(c.ver, TRUE, FALSE, p)
      [] l # 0 /\ c # None /\ ~c.pending /\ l # c.ver -> Row(l, FALSE, FALSE, p)
      [] l # 0 /\ c = None /\ r # None ->
            Row(l, r.pending, r.pending /\ r.removed, p)
      [] l # 0 /\ c = None /\ r = None -> Row(l, FALSE, FALSE, p)
      [] l = 0 /\ c # None /\ ~c.pending -> Row(c.ver, FALSE, TRUE, p)
      [] OTHER -> r

\* What a query that is not idle yet is given.
Result(c, l, r) ==
    IF c # None /\ c.pending THEN c.ver
    ELSE IF c = None /\ r # None /\ r.pending /\ r.removed THEN 0
    ELSE l

Waiting(p, t) == \E b \in ToSet(queue[p]) : b.op = "cache" /\ b.task = t

\* mutant: the cache is not read again
PutOffOnly(p, t) ==
    /\ tasks' = [Outdated(tasks) EXCEPT ![p][t].current = TRUE, ![p][t].cached = None]
    /\ queue' = OutdatedReads(queue)
    /\ unseen' = [unseen EXCEPT ![p] = {}]
    /\ running' = [running EXCEPT ![p] = None]
    /\ doubled' = (doubled \/ Waiting(p, t))
    /\ UNCHANGED <<server, db, journal, query, reader, wanted, notices, torn, stale, budget>>

\* The anchor moved: it is increased, and the merge put off until the cache
\* was read again.
PutOff(p, t) ==
    /\ tasks' = [Outdated(tasks) EXCEPT ![p][t].current = TRUE, ![p][t].cached = None, ![p][t].asked = TRUE]
    /\ queue' = OutdatedReads(queue)
    /\ unseen' = [unseen EXCEPT ![p] = {}]
    /\ running' = [running EXCEPT ![p] = None]
    /\ doubled' = (doubled \/ Waiting(p, t))
    /\ UNCHANGED <<server, db, journal, query, reader, wanted, notices, torn, stale, budget>>

CompleteMerge(p, t) ==
    \E k \in {tasks[p][t]} :
        /\ Transact(p, [f \in Files |-> Merged(p, k.cached[f], k.listing.items[f], db.rows[f])],
                    k.listing.tag, [f \in Files |-> Result(k.cached[f], k.listing.items[f], db.rows[f])])
        /\ Leave(Outdated(tasks), p, t, [k EXCEPT !.current = FALSE])
        /\ UNCHANGED <<server, journal, query, reader, wanted, doubled, stale, budget>>

\* mutant: the anchor is not compared
MergeAnyway(p) ==
    /\ running[p] # None /\ running[p].op = "merge"
    /\ NoReadAhead(p)
    /\ CompleteMerge(p, running[p].task)

\* The transaction of -handleUpdatedTask:
Merge(p) ==
    /\ running[p] # None /\ running[p].op = "merge"
    /\ NoReadAhead(p)
    /\ \E t \in {running[p].task} :
        \/ (~tasks[p][t].current /\ PutOff(p, t))
        \/ (tasks[p][t].current /\ CompleteMerge(p, t))

\* Idle queries take the changes; others only what a scan found.
RunUpdate(p) ==
    /\ Begins(p, "update")
    /\ queue' = [queue EXCEPT ![p] = Tail(@)]
    /\ \E b \in {Head(queue[p])} :
        query' = [query EXCEPT ![p] =
            IF @.state = "idle"
            THEN [@ EXCEPT !.shown = [f \in Files |->
                    IF b.delta[f] = None THEN query[p].shown[f] ELSE b.delta[f]]]
            ELSE IF b.results # None THEN [state |-> "idle", shown |-> b.results]
            ELSE @]
    /\ UNCHANGED <<server, db, journal, unseen, tasks, running, reader, wanted, notices, torn, doubled, stale, budget>>

RunShow(p) ==
    /\ Begins(p, "show")
    /\ queue' = [queue EXCEPT ![p] = Tail(@)]
    /\ query' = [query EXCEPT ![p] =
            IF @.state = "idle" THEN @
            ELSE [state |-> Head(queue[p]).state, shown |-> Head(queue[p]).items]]
    /\ UNCHANGED <<server, db, journal, unseen, tasks, running, reader, wanted, notices, torn, doubled, stale, budget>>

\* -handleIPCChangeNotification
Notify(p) ==
    /\ p \in notices
    /\ notices' = notices \ {p}
    /\ queue' = [queue EXCEPT ![p] = Append(@, [op |-> "check"])]
    /\ UNCHANGED <<server, db, journal, unseen, query, tasks, running, reader, wanted, torn, doubled, stale, budget>>

\* -_checkForChangesByOtherProcessesAndUpdateQueries leaves the known anchor
\* as it is, and has what changed since replayed.
RunCheck(p) ==
    /\ Begins(p, "check")
    /\ IsFree(p)
    /\ queue' = [queue EXCEPT ![p] =
            IF unseen[p] = {} THEN Tail(@) ELSE Append(Tail(@), Update(Delta(db.rows, unseen[p]), None))]
    /\ UNCHANGED <<server, db, journal, unseen, query, tasks, running, reader, wanted, notices, torn, doubled, stale, budget>>

-----------------------------------------------------------------------------
(* The system.                                                             *)

Progress ==
    \/ \E p \in Scanners :
        \/ Schedule(p) \/ ReadAnchor(p) \/ Merge(p) \/ Notify(p)
        \/ RunCache(p) \/ RunList(p) \/ RunUpdate(p) \/ RunShow(p) \/ RunCheck(p)
        \/ \E t \in 1 .. Slots : Answer(p, t) \/ ReadRows(p, t)
    \/ \E f \in Files : Perform(f) \/ Refuse(f) \/ Finish(f)

Next ==
    \/ Progress
    \/ \E f \in Files :
        \/ ChangeOnServer(f)
        \/ \E p \in Processes, kind \in {"delete", "edit"} : Submit(p, f, kind)

\* Queues run, the server answers, the ETag is looked at again and again.
Fairness == WF_vars(Progress)

Spec == Init /\ [][Next]_vars /\ Fairness

-----------------------------------------------------------------------------
(* Properties.                                                             *)

\* A row is marked, and hidden, as long as and only if its file has an action,
\* or its deletion, under way, whatever is merged meanwhile and however old
\* the list and the rows read were; unless another process changed rows
\* between the two halves of a cache read.
PendingKept ==
    torn \/ \A f \in Files :
        /\ (journal[f] # None) <=> (db.rows[f] # None /\ db.rows[f].pending)
        /\ journal[f] # None => db.rows[f].removed = (journal[f].kind = "delete")

AtRest(p) ==
    /\ queue[p] = <<>> /\ running[p] = None /\ reader[p] = None /\ p \notin notices
    /\ query[p].state = "idle"

Shows(p, f) == query[p].shown[f] = VersionsOf(Visible(db.rows))[f]

\* A query that has had its first list shows the file as the cache has it, if
\* the process itself changed it last, or if it changed after the sync anchor
\* the process knows.
QueryShowsCache ==
    \A p \in Scanners : AtRest(p) =>
        \A f \in {g \in Files : db.rows[g] # None} :
            db.rows[f].writer = p \/ f \in unseen[p] => Shows(p, f)

\* When clients and users pause, the cache gets to have what the server has,
\* except where an action wrote back the version it started from after the
\* newer one had been merged; unless a cache read was torn, or two reads of the
\* cache for one task have met.
CatchesUp ==
    <>[](torn \/ doubled \/ \A f \in Files \ stale : VersionsOf(Visible(db.rows))[f] = server.items[f])
\* "Out of sync - trigger catching the latest from the cache again, rinse and
\* repeat" (-handleUpdatedTask:): a merge that is put off is carried out in the
\* end, when no one changes rows any more.
PutOffsEnd == \A p \in Scanners : <>[](running[p] = None)
=============================================================================
