# Formal models of the ownCloud iOS SDK

TLA+ models of the core of the SDK: the sync engine, which carries out what the
user does to files while the network, the server, other processes and the
operating system do as they please, and the parts it stands on and works with: the
HTTP pipeline, locks between processes, the refresh of tokens, and the scans that
bring the content of a folder into the cache and onto the screen. The models are
checked with TLC on small instances; the most important invariants are proved with
TLAPS for every value of the constants. `PROJECT.json` relates every definition to
the lines it models, lists the runs with their properties, the hazards of the code
and the findings.

Run a model with `tlc -config <run>.cfg <module>`, where `<module>` is `MC` and the
run's name up to the underscore: `MCSyncEngine`, `MCSyncEvents`, `MCHTTPPipeline`,
`MCLockManager`, `MCTokenRefresh` or `MCItemList`. Check the proofs with `tlapm` on
`SyncEngine_proofs.tla`, `SyncEngine_answers.tla`, `SyncEngine_requests.tla`,
`SyncEvents_proofs.tla`, `HTTPPipeline_proofs.tla`, `LockManager_proofs.tla`,
`TokenRefresh_proofs.tla` and `ItemList_proofs.tla`.

Paths below are relative to `src/ownCloudSDK/`; SE is
`Core/Sync/OCCore+SyncEngine.m`, DB is `Vaults/Database/OCDatabase.m`, PIPE is `HTTP/Pipeline/OCHTTPPipeline.m`, IL is
`Core/ItemList/OCCore+ItemList.m`.

## 1. The system

An app and its extensions (file provider, share sheet) are processes that share an
app group container. For every account each of them has an `OCCore`, which works on a
shared SQLite database, a shared key-value store file and a shared HTTP pipeline
database.

| Part | State it keeps | Operations | Hard part |
|---|---|---|---|
| Sync engine (SE) | sync journal, lanes, flag that asks for a pass, latest sync anchor | submit, process, reschedule, deschedule, queue event, resolve issue | the order of lanes and records; passes, events, cancellation and crashes interleave |
| Sync actions (`Core/Sync/Actions`) | the item and the parameters of a command | preflight, schedule, handle result, resolve issue, cancel | every path has to leave the record in a state the engine gets out of |
| Sync records, wait conditions, issues | record state, conditions, result handler | transition, evaluate, handle event | issues and answers that do not belong together any more |
| Sync lanes | tags, lanes to wait for | cover, extend | tags that are prefixes of each other |
| Event queue (`Events`, KV store) | queued event records, 100 used UUIDs | add, remove | exactly once, over three stores |
| Key-value store | file, cache per process, observers, stacks with claims | read, update, push, pop, notify | stale caches, lost notifications |
| HTTP pipeline | tasks in a database of its own, partitions, background sessions | enqueue, schedule, finish, deliver, cancel | relaunch in another process; late, repeated, missing responses |
| Database | journal, lanes, events, items, update jobs, counters | exclusive transactions | what is outside of a transaction |
| Core, core manager, connection status | state, queues, users of a core | start, stop, request, return, signal | stop against start; blocks that wait |
| Item list | scan tasks, item cache, sync anchor | scan, merge, replay | actions and other processes change rows while a scan runs |
| Policies, claims | policies, claims on local copies | apply, validate | run on what a scan changed |
| Query | full and processed results, change set | update, recompute, request changes | changes during a recomputation |
| Lock manager | locks with an expiry in a key-value store | request, release, keep alive | expiry while suspended |
| Message queue | messages, presenters per process | enqueue, present, resolve, dequeue | two processes present or answer one message |
| Authentication | token in the keychain, copies in bookmark objects | refresh, load, notify | one refresh at a time, each from the last one's token |
| TUS | segments sent | continue, retry | resumption after a failed segment |

How they interact. A command of the app creates an action and a record
(`_enqueueSyncRecordWithAction:`), which is preflighted and queued on a lane in one
transaction. The engine is asked for a pass (`setNeedsToProcessSyncRecords`); passes
run one at a time on the core's queue when the core is online. A pass moves queued
events to the database and then, in one transaction, walks the lanes and the records
at their heads: it lets a record handle its events, evaluates its wait conditions
and schedules it, which enqueues a request with the pipeline. The response becomes
an event addressed to the record, which is stored in the key-value store before the
pipeline forgets the request, and asks for the next pass. Issues are shown by the
app or the message queue, and their answers are events as well.

Before a request is sent, the connection asks the authentication method for its
token, which it may have to refresh; as the server may accept only the last refresh
token, processes take a lock of the lock manager to do so. Independent of the engine,
folders are scanned: a task reads the cached rows, asks the server for its list and
merges both in a transaction, unless a row has changed since the rows were read,
which the sync anchor tells. The actions of the engine change rows at their
preflight and when their result arrives. Open queries are told of every change, by
the process itself or through a notification and a replay from the sync anchor.

What makes each part correct is listed as hazards and properties in `PROJECT.json`.
In short: no two actions that touch the same part of the tree are under way
together; what was accepted is carried out or refused, and its caller told; every
event is handled exactly once; nothing waits for something that will not come.

Left aside: vendored code, tests, user interface, the example app, resources, and
parts that are data types or I/O only (see "components" in `PROJECT.json`).

## 2. Plan

Done in this order:

1. `SyncEvents`, with `EventDelivery` as its abstract specification: how an event
   gets to its record exactly once.
2. `SyncLanes`, `SyncActions`, `SyncEngine`: the engine of one process.
3. `SyncEvents_proofs`, `SyncEngine_proofs`; later `SyncEngine_answers` and
   `SyncEngine_requests`, for the rest of the engine's invariants.
4. `HTTPPipeline`: tasks, partitions, groups, delivery, relaunch: what `SyncEvents`
   assumes of the pipeline.
5. `LockManager`, with `LockService` as its abstract specification; `LockManager_proofs`.
6. `TokenRefresh`, composed with `LockService`, which the lock manager is proved to
   implement; `TokenRefresh_proofs`.
7. `ItemList`, with the sync anchor, the queries and what actions do to rows;
   `ItemList_proofs`.

To do, the most important first:

8. `KeyValueStore`: several keys, observers, stacks with claims, seeds.
9. `RemoteTrigger`: trigger, acknowledgement and timeout between processes
   (SE 1322-1420); `RetryTimer`: `_nextSchedulingDate` (SE 1450-1489).
10. `CoreManager`, `ConnectionStatus`: users of a core, stop against start, signals.
11. `Query`: change sets that are merged while a query recomputes.
12. `MessageQueue`, `Claims`, `TUS`, item policies.
13. An abstract specification of the engine (a journal of records that are each
    carried out and answered once) for `SyncEngine` to implement; a composition of
    `HTTPPipeline` and `SyncEvents`, with a `UsedLimit` that is exceeded.

Theorems to prove next: the step simulation behind `DeliverySpec`; of several
processes, what of the pipeline's invariants is left when each partition is attached
by one of them at a time.

## 3. The models

### SyncEvents and EventDelivery

`EventDelivery` is the promise: events are received in some order, and the events of
one record are handled in that order, each once. `SyncEvents` is the code.

| Model | Code |
|---|---|
| `http[e]` | the request behind an event in the pipeline's database; *dropped* once its result handler returned |
| `kvs`, `cache[p]` | the `OCEventQueue` in the key-value store's file, and each process' copy |
| `db`, `work`, `holder` | events table, journal and (as history) the handled events: committed, as the open transaction sees them, and whose transaction it is |
| `needs[p]`, `phase[p]` | `_needsToProcessSyncRecords`, where the process is in a pass |
| `triggered`, `exempt` | hand-off of records to the process that submitted them |
| `StoreEvent`, `SignalEvent`, `RemoveTask` | `-queueSyncEvent:sender:` and the return of the result handler |
| `BeginPass` … `CommitTransfer` | the first half of a pass, with its own transaction |
| `BeginProcessing`, `TakeEvent`, `HandleEvent`, `RemoveRecord`, `EndPass` | the second half |
| `UpdateFromStoreContents` | the rate-limited notification about changes of the file |
| `TriggerTimeout`, `Crash`, `Restart` | the environment |

The write to the key-value store is durable at once and outside of the transaction,
which is where the interesting interleavings with a crash come from: an event may be
gone from the key-value store while the transaction that handled it is rolled back.
`current` keeps these steps apart.

### SyncLanes, SyncActions and SyncEngine

`SyncLanes` has the tags: the code only compares them and looks for prefixes, so
tags are opaque and `Prefix` is a relation. `SyncActions` says what each kind of
action can answer; the choice is nondeterministic where it depends on data that the
engine does not see (what the server said, whether the file was modified).

| Model | Code |
|---|---|
| `db.journal`, `db.lanes`, `db.inbox` | sync journal, lanes and events tables; IDs are `AUTOINCREMENT` and never used again |
| `db`, `disk` | as the transaction of the pass sees it, and committed |
| `pass` | the locals of `-processSyncRecords` and `-processSyncRecord:error:`: lane and record in hand, lanes to visit and active, running actions by category, records on the lane, instruction |
| `pass.row` | the `OCSyncRecord` object in hand, which may have left the journal (its `recordID` is nil: `InJournal` is false) |
| `requests` | requests that are with the pipeline |
| `prompts`, `issues` | issues shown to the user; numbers that stand for their UUIDs |
| `cancelled`, `unanswered` | progress objects cancelled and result handlers waiting in this process: both are lost in a crash |
| `elapsed` | waits for metadata that are over |
| `Submit`, `SubmitEnds` | `-submitSyncRecord:…` with the preflight of the action |
| `Cancel`, `Respond`, `Answer`, `Elapse`, `GoOffline`, `GoOnline`, `Crash` | what happens around the engine |
| `BeginPass`, `VisitLane`, `FetchRecord`, `LeaveLane`, `EndPass` | the walk of `-processSyncRecords` |
| `HandleResponse`, `HandleAnswer` | delivery of an event to action or wait condition |
| `ProcessCancelled`, `AwaitAnswer`, `AwaitRefresh`, `Schedule…`, `AwaitResult` | the rest of `-processSyncRecord:error:` in the order of the code |
| `Stop`, `GoOn` | the instruction, carried out by the caller |

Decisions worth knowing:

- A pass always fetches the first record of its lane. The code asks for the first
  one *after* the last record, but the ID it passes is that of a record just removed,
  which is nil by then.
- Submission is atomic, as it is one exclusive transaction. A pass is not: other
  things happen between its steps, though not another submission, which waits for
  the database.
- Events of records that left the journal stay in the events table, as in the code.
- `ScheduleRemoved` covers a record that is scheduled although it was descheduled a
  moment before. Building a request for it would put nil into a dictionary and end
  the process; that outcome is `Crash`, the others stop the lane.
- `attempt` counts schedulings of a record and bounds failures: the model lets every
  response be good from attempt `MaxAttempts` on. `epoch` tells requests of different
  runs of the process apart.
- Waiting for metadata is over when it changed or expired; both wake the engine.
- The prompts of the message queue survive a crash and those of the app do not, so
  any subset may.
- Not in the model: the failed state (entered only when an issue is answered with a
  choice its action does not offer), actions without their parameters, database
  errors, updates of items, activities. The hand-off between processes is in
  `SyncEvents`.

### HTTPPipeline

The pipeline's database is shared by processes; each runs the blocks of its pipeline
one after another. A block is a transformation of what it can reach (`View`,
`Commit`), with the reads, writes and follow-up blocks in the order of the code.

| Model | Code |
|---|---|
| `rows` | the tasks table: state, `bundleID`, response, session |
| `objects[p]` | `_taskCache`: objects for tasks this process issued, preferred to the row |
| `wire` | session tasks; a background session's outlive their process |
| `queue[p]`, `needs[p]` | blocks on the backend's thread; `_needsScheduling` |
| `attached`, `busy[p]` | partition handlers; `_taskIDsInDelivery` |
| `recent[p]` | `_recentlyScheduledGroupIDs` |
| `signal[p]` | what the handler answers about the signals a request needs |
| `RunSchedule`, `Schedulable`, `Ordered`, `Rotated`, `StartTasks`, `Unblocked` | `-_schedule` and `-_scheduleTask:` |
| `RunAdd`, `RunCancel`, `RunCancelNonCritical`, `RunFinishPending` | enqueueing, cancelling, `-finishPendingRequestsForPartitionID:` |
| `RunComplete`, `RunFinish`, `RunFail` | end of a session task, `-_finishedTask:withResponse:` |
| `RunDeliver`, `RunRetry`, `RunAttach`, `RunDetach` | `-_deliverResultForTask:`, the answer about a certificate, partition handlers |
| `RunRecover` | `-_recoverQueueForURLSession:` after a launch |
| `Crash`, `DieInFinish`, `DieInDeliver`, `DieInRetry`, `DieInRecover`, `DieInFailing`, `DieInSchedule` | the end of a process, between two blocks or inside one |
| `Start`, `Enqueue`, `Cancel`, `Detach`, `FailAuthentication`, `SessionCompletes`, `Evaluate`, `Hold`, `Release` | other threads, the system, user and server |

Decisions worth knowing:

- The model follows one partition, all requests of which need the same signals.
- A request with an ephemeral result handler that a relaunch has taken with it counts
  as delivered when its row is.
- `early` and `lost` are history: requests that something other than their session's
  response finished. `passed` counts, for a group, the requests started while it could
  have had one.
- A process may die inside a block, with what it did so far left in the database. A
  delivery may stop before the handler is called, or after it was called (PIPE 1456,
  1467) and before the row is removed (1536); then the row stays completed and is
  delivered again after the next launch, as the comment at PIPE 1347 says. `torn`
  counts these. The response may have been stored (1295) and its delivery not begun. A
  block that finishes or delivers several requests may stop at any of them, and
  `-_schedule` between starting two, or in the middle of starting one: the row has the
  session already (1063) and is not stored as running yet (1189), and the session task
  was resumed (1148) or not. If it was, it runs unknown to the pipeline, which starts
  the request once more (`lost`, `noted`).
- Not divided are blocks that write one row once, and those that mark the tasks of a
  partition as cancelled or queue their end: where such a block stops, the rest of the
  tasks are as they would be without the cancellation. For another process a block is
  one step; what two processes can do to each other between the writes of a block is
  left out.

### LockManager and LockService

`LockService` is the promise: a request is answered; a lock is only given while
nobody else's; a process loses a lock only if it was not run for too long (`late`).
`LockManager` is the code, for one resource.

| Model | Code |
|---|---|
| `database` | the lock in the key-value store's value, with the time it has left |
| `requests`, `locks`, `released` | `_requests`, `_locks` with `_lockIdentifiers`, `_releasedLockIdentifiers` |
| `needsUpdate`, `pass` | `_needsUpdate`; what `-_updateLocks` has yet to do after its read-modify-write |
| `keepAlive`, `checks` | the keep-alive timer, timers for locks that are due to expire |
| `BeginUpdate` | the block given to `-updateObjectForKey:usingModifier:`: purge, release, grant, renew |
| `FinishUpdate` | what follows: acquired and attempted handlers, lost locks, timers |
| `KeepAliveFires`, `CheckFires`, `Notify`, `RequestLock`, `ReleaseLock`, `Invalidate` | timers, the store's notification, the interface |
| `Suspend`, `Resume`, `Crash`, `Tick` | system and time |

Time is in units: `Expiry` 4, `RenewBelow` 3 and `KeepAlive` 2 keep the order of the
code's 4 seconds, its renewal below 0.8 of them, and its timer at half. `Tick` waits
for processes that run: they keep up with their queues; a suspended process does
not. `slept` is how long one with a lock was suspended.

### TokenRefresh

Composed with `LockService`: `waiting`, `held` and `late` change only by its actions
(`Lock!Ask`, `Lock!Answer`, ...), so that what is checked here holds with the lock
manager in its place.

| Model | Code |
|---|---|
| `valid` | the refresh token the server accepts: it rotates them |
| `stored`, `copy[p]`, `news` | keychain, `_authenticationData` of the process' bookmark, processes yet to be notified that it changed |
| `call[p]` | the token request under way |
| `knownInvalid[p]` | `authenticationDataKnownInvalidDate` |
| `RequestRefresh`, `Refresh` | `-canSendAuthenticatedRequestsForConnection:…`; the block run when the lock was acquired |
| `Serve`, `Fail`, `Finish` | the server; the completion handler: keychain, notification, release of the lock |
| `AuthUpdated`, `ResignActive`, `Crash`, `Oversleep`, `Wake` | notifications, the app resigning, the system |

Storing a token and dropping the own copy is one step, as it is one setter. A secret
is always there: logging in and out are left. An answer that arrives but is not used
(the request for the user's ID failed) counts as lost.

### ItemList

| Model | Code |
|---|---|
| `server` | versions of the files and the folder's ETag |
| `db` | the folder's row with its ETag, and the files' rows: version, pending action, removed |
| `journal[f]` | the action under way for a file, whose own copy of the item is written back in the end |
| `tasks[p]` | item list tasks: cached set, retrieved set, whether `syncAnchorAtStart` is the latest, their place in `_itemListTasksByPath` and its chain |
| `queue[p]`, `running[p]` | blocks on the core's queue, the block under way |
| `reader[p]` | a cache read that has the rows and not yet the anchor |
| `unseen[p]` | rows newer than `_latestSyncAnchor` |
| `query[p]` | a query for the folder: state and results |
| `Transact` | `-incrementSyncAnchorWithProtectedBlock:` around changed rows and `-performUpdatesForAddedItems:…` |
| `Submit`, `Perform`, `Refuse`, `Finish` | delete and upload: preflight, the server, the result |
| `Schedule`, `ReadRows`, `ReadAnchor`, `Answer` | `-scheduleItemListTaskForPath:…`, the two updates of a task |
| `RunCache`, `RunList`, `Handle`, `Leave` | `-handleUpdatedTask:` up to the merge; leaving `_itemListTasksByPath` |
| `Merge`, `PutOff`, `CompleteMerge`, `Merged`, `Result` | its transaction and the merge algorithm |
| `RunUpdate`, `RunShow`, `Notify`, `RunCheck` | updates of queries, change notifications and the replay |

Decisions worth knowing:

- Anchors are compared for equality with the latest only, so a task keeps whether its
  anchor is the latest, and `Outdated` unsets that wherever the anchor is increased.
- The database's thread takes cache reads in turn: a list is handled, and a merge
  runs, only after the reads asked for before (`NoReadAhead`), and a transaction of
  the process itself does not come between the halves of its own read (`IsFree`).
- `Schedule` takes the anchor and starts the task at once; nothing can come between
  that matters, since an anchor that is too old only puts the merge off.
- Slots of tasks are used again when nothing refers to a task any more.
- A task that is open when another job for its folder comes is handled anew; as it
  goes on to be merged anyway, the model has no extra step for it.
- Not in the model: a folder that is gone (404), subfolders and moves, another file
  at the same path, update jobs kept in the database, a second query that forces an
  update of the cached set, tasks that wait for capacity.

## 4. The runs

Deadlock checking is off where the system may come to rest with all work done (sync
engine, events, pipeline, item list), and on for locks and tokens, where time passes
and refreshes are asked for without end.

| Run | Instance | Shows |
|---|---|---|
| `SyncEvents_delivery` | 1 process, 2 records, 3 events, 2 crashes | `TypeOK`, `NoEventLost`, implements `EventDelivery` |
| `SyncEvents_two` | 2 processes, a record with 2 events, 1 crash | nothing lost, every event handled in the end |
| `SyncEvents_stale` | 2 processes, a record with an event each | finding: an event is handled twice |
| `SyncEngine_conflicts` | delete a folder, upload into it, create it again; 1 crash, 2 attempts | `TypeOK`, `NoConflictingActions`, `ResultIsComing`, `QuestionIsAsked`, `NoHandlerForgotten`; as long as no pass was rolled back, `RequestsApart`, `OneResultUnderWay`, `AskedOnce` |
| `SyncEngine_liveness` | download /p, delete the local copy of /p/x; 1 crash, 2 attempts | `EventuallyFinished`, `LanesRemoved` |
| `SyncEngine_limits` | three unrelated actions, two of them transfers; one transfer, one lane; connection lost once | `EventuallyFinished`, `SentWithinBudget` |
| `SyncEngine_crashed` | two uploads of one file, move its folder; 1 crash | finding: requests conflict after a crash |
| `HTTPPipeline_delivery` | 1 process, 2 groups, up to 4 requests, 11 scenarios | `TypeOK`, `DeliveredOnce`, `OneRunningRowPerGroup`, `ScheduledFairly`, `EveryRequestAnswered` |
| `LockManager_exclusive` | 2 processes, 3 requests, 4 budgets | `TypeOK`, `Exclusive`, `EventuallyServed`, implements `LockService` |
| `TokenRefresh_tokens` | 2 processes, 3 tokens | `TypeOK`, `RefusedOnlyIfDisturbed`, `TokenKept`, `EveryRefreshEnds` |
| `ItemList_scan` | 2 processes, one of which scans, 2 files, 2 tasks; a change, an action, a failure | `TypeOK`, `PendingKept`, `QueryShowsCache`, `CatchesUp` |
| `ItemList_rinse` | the same with one file and no failure | finding: a merge is put off for ever |

Bounds. Two events of one record are enough for their order to be wrong and a third,
of another record, for them to interfere; two crashes let the second hit the
recovery from the first. Three actions are the smallest number with a lane that
waits for two others, one of which holds back the third; the instances make the tags
of two of them equal or prefixes of the third's. Two attempts are one failure, with
its issue and its answer, and one success. `UsedLimit` is above the number of events:
what happens beyond it depends on the pipeline.

The pipeline needs two groups for one to be passed over and two requests in one for
them to overlap; its scenarios are chosen so that each pair of crash, lost connection,
early end, detached handler and unmet signal meets in one of them, without all being
multiplied; two of them have a second crash, which hits the recovery from the first. One
of the requests is not critical, one cannot get a session task.
A lock needs two processes, and a third request for a process that comes back and
only tries; the budgets take crash, suspension and invalidation one at a time. Of
tokens, three are enough for a copy that is two refreshes old. A scan needs one file
that is on the server and one that is not; one action, by either process, and one
change by another client are the smallest case in which a list, the rows and the
anchor are of different ages; two tasks, for one to wait behind the other.

Fairness. Passes, deliveries and notifications are blocks on queues that run as long
as the process does, so each process' steps are weakly fair. A terminated app is
opened again. The server, or a timeout of the pipeline, ends every request. The
liveness of records also assumes that the user answers what is asked and that the
connection comes back: the engine waits for both, without limit and by design.
Nothing is assumed about which answer is given, in what order things happen, or that
a crash does not happen.

In `HTTPPipeline` and `ItemList` only progress as a whole is fair (`WF_vars(Progress)`):
queues run, sessions and the server answer, apps are launched again, questions about
certificates are answered and signals are met again; of a folder, the ETag is polled,
as the core does while it is online. Which of these comes first is open, and what
other clients and users do is bounded by budgets, as the code promises nothing while
they never pause. In `LockManager` time passes, managers run, suspended processes are
resumed and holders release. `TokenRefresh` assumes strong fairness of the step that
gets the lock, which is `EventuallyServed` of the lock manager in terms of its
service: a process that asks again and again is answered; weak fairness of
the server (or the timeout) and of handlers.

## 5. What is proved

All of it holds for any set of actions, processes, records and events, any tags with
any prefix relation, any budgets, limits and bounds, except that three theorems of
`HTTPPipeline_proofs` are about one process and say so in their hypothesis. The
assumptions are those the modules name: `ActionsAssumption` and `BoundsAssumption`,
`EventsAssumption`, `LockAssumption`, `TokenAssumption`, `ItemListAssumption`,
`PipelineAssumption` and `NoneAssumption`. They only type the constants (an action has at
least one lane tag, `None` is no value of the program), except `LockAssumption`, which also says what the code's constants
satisfy: 0 < `KeepAlive` < `RenewBelow` <= `Expiry`.

`SyncEngine_proofs`

- `TypeCorrect`: `Spec => []TypeOK`. Not inductive alone: between the fetch and the
  instruction the pass holds a row, which `RowInHand` adds.
- `ConflictFree`: `Spec => []NoConflictingActions`. The inductive invariant says, for
  the open transaction and for the committed database alike: every record is on a
  lane with its tags (`RowsPlaced`); of two related lanes the later waits for the
  earlier (`LanesOrdered`) and lanes wait for earlier ones only (`AfterEarlier`); and
  a record in progress is at the head of a lane none of whose predecessors is left
  (`ProgressAllowed`). `PassInv` adds that a pass works only on such a lane, so that
  what it schedules may be in progress. Both databases are needed because a crash
  replaces the one by the other at any step.

  The case that makes it hard is the one where lanes are removed and created while
  the pass holds a list of them: a lane that is gone may be skipped over, and a new
  one never has to be waited for, because IDs are not used again.

`SyncEngine_answers` first sums up what a step may do to the two databases and to the
record in hand (`StepKinds`); both theorems then only look at what concerns them.

- `ResultsCome`: `Spec => []ResultIsComing`. The invariant counts a response in the
  committed inbox and one that is still queued alike (`Mail`), for the open
  transaction and for what a crash would bring back (`Awaited`): an event is taken
  from one only in the step that settles its record there. `RefreshReady` is needed
  because a wait that ends must not leave a record in progress that nothing was sent
  for, and `RowCurrent` because the pass writes back the row it holds.
- `QuestionsAsked`: `Spec => []QuestionIsAsked`. `IssuesDistinct` says that an issue is
  about one record wherever its number is found, so that an answer is not used up by
  another one; `PromptedBefore`, that no record claims a prompt of a process to come,
  so that the process that follows a crash asks again.

`SyncEngine_requests`

- `OneResultForEach`: `Spec => []OneResultUnderWay`, the part of the invariant of the
  next theorem (`OneResult`) that is about responses: the engine does not look at which
  attempt a response is for, so none may be left when a record is scheduled anew.
- `RequestsKeptApart`: `Spec => []RequestsApart`. With `ConflictFree` it is left to show
  that a request belongs to a record in progress. That is not inductive: a second
  response to a record that has been rescheduled would end its new wait. `OneResult`
  says that at most one request or response is under way for a record, and only while
  it waits for one; it holds until a pass is rolled back, which is the hypothesis of
  `RequestsApart` and the subject of the run `SyncEngine_crashed`.
- `HandlersCalled`: `Spec => []NoHandlerForgotten`. A record is removed in a step after
  the one that decided so; `HandlerInv` therefore adds that a completed record, and
  one in hand that is about to be deleted, no longer owes its caller a result.

`SyncEvents_proofs`

- `TypeCorrect`: `Spec => []TypeOK`.
- `NothingLost`: `Spec => []NoEventLost`. Strengthened by what the open transaction
  would commit (`WorkKeeps`: every event of the database, as a row or handled), by the
  fact that used UUIDs belong to events the committed database has, and by the fact
  that only events with a committed row are delivered, so that taking one out of the
  key-value store before its handling is committed cannot lose it.

`LockManager_proofs`

- `TypeCorrect`: `Spec => []TypeOK`.
- `MutualExclusion`: `Spec => []Exclusive`. `Kept` says that the lock of a process that
  has not slept too long is in the database and has more time left than its timer
  needs, even if it is suspended for the rest of what it tolerates; `Ownership` that
  a request is on one list of one process only, so that nobody purges, releases or
  renews another's lock; `LostLate` that only a process that slept too long is told
  of a loss. A request made, or a lock released, while a pass is half done makes the
  difference between the two steps of a pass matter.
- `Implementation`: `Spec => ImplementsService`, from the same invariant: each step is
  one of `LockService` or leaves its variables alone. The end of a pass is `Answer`,
  or `Recover` if a late process finds its locks.

`TokenRefresh_proofs`

- `TypeCorrect`: `Spec => []TypeOK`.
- `TokensKept`: `Spec => []TokenKept`, from `TokenOrder`: tokens that are sent and copies
  are never newer than the keychain, and the keychain is at most one answer behind
  the server.
- `NoUndueRefusal`: `Spec => []RefusedOnlyIfDisturbed`, from `Undisturbed`: who has a
  request under way has the lock, and who was told of the last change has no copy
  but of what the keychain has. Both are needed: with the lock alone, a process
  refreshes from an old copy; with fresh copies alone, two requests overlap.

`ItemList_proofs`

- `TypeCorrect`: `Spec => []TypeOK`. It needs that a merge has a list and rows, which
  depends on the order of a task's blocks: one task is open at a time (`OneOpen`), a
  task that waits in the chain has both (`ChainWaits`), so has one that is merged
  (`MergeReady`), and a task is answered once (`ListOnce`).
- `MarksKept`: `Spec => []PendingKept`. `ReadsFresh` says that rows a task holds with the
  latest anchor, or that are queued for it, are those of the database, since every
  change of rows outdates what was read (unless a read was torn). A merge therefore
  knows of every action, and the merge algorithm keeps its mark (`MergedMarks`).

- `QueriesShow`: `Spec => []QueryShowsCache`. Whether a query is right is decided by the
  last block on its process' queue that mentions a file: `Settles` says so, for every
  file that the process wrote, or that changed after the anchor it knows and whose
  check is not already on its way (`Tracks`). `KnowsOwn` is what a merge contributes:
  rows that were read and are not outdated have what the process wrote itself, even
  where another process tore the reading. So the theorem, unlike `MarksKept`, needs
  no exception for torn readings.

`HTTPPipeline_proofs`

- `TypeCorrect`: `Spec => []TypeOK`, for any number of processes. It needs that blocks
  about a task name one, and that the tasks left to enqueue have a number.
- `AnsweredOnce`: `Spec => []DeliveredOnce`, for one process: the handler of a request
  that only its session finishes is called at most once more than its process died
  between the call and the removal of the row, wherever in a block it dies. `Sound`
  says that the two counts agree until the row is removed, and follows a task
  through everything that may lead to its delivery: the answer to its current attempt
  is still with the session, or in one `complete` block, or in one `finish` block, or
  the row is completed, or its certificate is being evaluated (`busy`, one `retry`
  block), and of these only one at a time; session tasks and blocks of earlier attempts
  may be left over and are told apart by the attempt (`Attempts`). `Coherent` says that
  the cache and the row agree on state and attempt, `RecoverFirst` that the recovery
  comes before the process finishes anything: a `finish` block that overtook it would
  find its task dropped. Each step of a block keeps `Sound`, so it holds wherever the block
  stops (`DieInBlockOnce`); the crash itself only takes blocks, objects and session tasks
  away, which keeps all of it (`Fewer`).
- `GroupsTakeTurns`: `Spec => []OneRunningRowPerGroup`, for one process. Of all blocks,
  only `RunSchedule`, done or in part, lets a row run (`NoneStarted`, `Started`); since cache and rows agree, and no
  row belongs to another process that runs, it sees every running row.
- `GroupsScheduledFairly`: `Spec => []ScheduledFairly`, for one process. `passed[g]` is at
  most the number of groups in `recent` behind `g` (`After`, `FairInv`): what is started
  while `g` waits is the eldest of its group, of a group that stood before `g`, and goes
  behind it, so that the two numbers grow alike (`BeforeWaiting`, `Grown`).

The operations on all tasks of a set, or of a sequence, are recursive functions
(`ForEach`, `InOrder`). Of each it is proved that it is a chain of the operation on one
task (`FinishAllChain` and its like), and what one keeps is carried along the chain with
induction over the interval (`UpTo`).

One process is the hypothesis of the last three because two are known to break the
first two: with two processes TLC finds a response with an unknown certificate that
each of them asks its user about and then delivers, and a process whose cache still has
a row as completed that another one has sent again, and which therefore starts the
next of its group. `passed` counts for all processes together, `recent` is each one's
own.

Only model-checked: liveness (fairness and ENABLED are out of the provers' reach),
`AskedOnce`, `SentWithinBudget`, and the refinement of `EventDelivery` (its order argument is an induction over
`SelectSeq`, which the provers cannot instantiate).

## 6. Findings

Each is a run that TLC must find violated; `PROJECT.json` quotes the sentence.

| Run | What the code does |
|---|---|
| `SyncEvents_stale` | The transfer reads the queue from a cache another process' removal has not reached (SE 633), and an event is handled again. |
| `SyncEngine_crashed` | A pass removes a cancelled record and schedules its successor; a crash rolls both back and leaves the successor's request with the pipeline (SE 719). The removed record is back, is scheduled, and its request joins that of its successor. |
| `ItemList_rinse` | A merge that is put off increases the sync anchor itself (IL 482). If an older read of the cache for its task is still queued, the two reads outdate each other for ever: nothing is merged and the core's queue never rests. |

Also met, and part of the models, but not stated as a property of their own:

In the engine. A record that fits an old lane overtakes an earlier one on a newer
lane (DB 1230). Every pass counts running records from nothing, and only those the walk
has reached (SE 763): a ready upload on an earlier lane, which had waited for its folder,
is scheduled before the one that runs on a later lane is counted, and more transfers run
than the budget allows. `SentWithinBudget` therefore looks at the lanes up to the one at
hand.
A record descheduled by its own event goes on to be scheduled without an ID (SE 1104,
1219). The issue about a wrong checksum is deleted with its record
(`OCSyncActionDownload.m:550`). The limit on lanes is compared with `>` after a lane was
processed (SE 860), so one lane more than `maximumSyncLanes` is at work. Events of
records that left the journal are never removed. The deletion of a local copy and an
update of local attributes call no result handler. The handler of a copy or move is
told of a failure although the record is rescheduled.

In the pipeline. A second process that starts a pipeline without a background session
takes the first one's running requests for dropped (PIPE 343). Requests finished when
authentication failed free their group while their session tasks run on (PIPE 1870).
A completed row is delivered by whatever process has its partition attached (PIPE 1567):
two that evaluate its certificate both call the result handler, and the process that
issued it keeps its object of a row it released (PIPE 1555), even after another one
has sent it again.
A process that dies between the call of a result handler and the removal of the row
calls the handler again after its next launch (PIPE 1347), which the sync engine bears
(`SyncEvents`); one that dies between the start of a session task and the note of it
runs the request twice (PIPE 1148, 1189).
A request whose pass was rolled back stays in the database beside the one that
replaces it.

In authentication. A process that has not been notified yet refreshes with the token
of its bookmark object, which another one replaced while it waited
(`OCAuthenticationMethodOAuth2.m:715`): `RefusedOnlyIfDisturbed` excepts it (`told`).

In the item list. The anchor another process moved is stored before its changes are
replayed (SE 213), so changes of other processes may not reach an open query:
`QueryShowsCache` requires them only while they are newer than the anchor the process
knows. A change of another process between the two halves of a cache read (`torn`,
`OCCoreItemListTask.m:98-99`) makes old rows look current; a merge may then undo an
action's mark. A cache read that is handled after its task was merged registers the
task again and merges its old list once more. The end of an action writes the
archived item back over a newer version merged meanwhile (`stale`,
`OCSyncActionDelete.m:108`, `OCSyncActionUpload.m:110`), and the folder's ETag does not
tell that a scan is due. A query whose first list could not be retrieved shows what
the cache had until a later scan succeeds.

## 7. Not modelled

See "components" in `PROJECT.json`, and the end of each part of section 3. Claims, item
policies, the message queue and TUS have a protocol worth a model and wait for it in
the plan; the key-value store, the connection status, the core and its manager are
modelled only as far as the other parts see them. Of the core manager, reading showed
that the count of a core's users is not taken back when the creation or the start of
the core fails, and that paths without a core never call the completion handler;
these belong to `CoreManager`. Of the pipeline, stopping and invalidating it,
destroying a partition, priorities, metrics, and two processes with one background
session are left. Data types, parsing, settings, logging and user interface have no
protocol worth a model. Coordinated file access and SQLite's transactions are taken as
atomic.
