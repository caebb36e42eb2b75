---------------------------- MODULE HTTPPipeline ----------------------------
(***************************************************************************)
(* An HTTP pipeline (HTTP/Pipeline/OCHTTPPipeline.m) and its backend.      *)
(*                                                                         *)
(* Requests are rows of a database that the processes of the app group     *)
(* share.  Every process runs the blocks of its pipeline one after another *)
(* on the backend's thread (queue), and keeps for the rows it issued an    *)
(* object that it prefers to the row (objects).  A request is scheduled,   *)
(* handed to the process' URL session (wire), completed, and delivered to  *)
(* the partition handler - the connection of a bookmark - if one is        *)
(* attached; delivery removes the row or schedules the request anew.       *)
(*                                                                         *)
(* The model follows one partition, whose requests need the same signals.  *)
(* A session survives its process only if it is a background session.      *)
(***************************************************************************)
EXTENDS Naturals, Sequences, FiniteSets, SequencesExt

CONSTANTS
    Processes,      \* processes that share the backend's database
    NumTasks,       \* tasks are numbered by their taskID
    IssuerOf,       \* the process that enqueues a task
    GroupOf,        \* request group of a task
    DefaultGroup,   \* the group of requests without groupID
    NonCritical,    \* tasks whose request is not critical
    Broken,         \* tasks for which no session task can be created
    Background,     \* does the pipeline use a background session?
    AnyBundle,      \* OCHTTPPipelineTaskAnyBundleID
    None,           \* no session, no response
    Scenarios       \* limits of the pipeline and bounds of the model

Tasks == 1 .. NumTasks
Groups == {GroupOf[t] : t \in Tasks}

\* Enqueued tasks, crashes, responses that say that the network failed,
\* cancellations and failed authentications, detached partition handlers, and
\* times the signals cease to be met: how often they may happen is bounded.
Bounded == {"tasks", "crashes", "offline", "early", "detaches", "holds"}

ASSUME PipelineAssumption ==
    /\ NumTasks \in Nat
    /\ IssuerOf \in [Tasks -> Processes]
    /\ NonCritical \subseteq Tasks /\ Broken \subseteq Tasks
    /\ Background \in BOOLEAN
    /\ AnyBundle \notin Processes /\ None \notin Processes
    /\ Scenarios \subseteq [limit : Nat, budget : [Bounded -> Nat]]
    /\ \A s \in Scenarios : s.budget.tasks <= NumTasks

VARIABLES
    rows,       \* the tasks table
    wire,       \* session tasks that run
    objects,    \* _taskCache of each process
    queue,      \* blocks queued on the backend's thread of each process
    needs,      \* _needsScheduling
    attached,   \* processes whose partition handler is attached
    recent,     \* _recentlyScheduledGroupIDs
    busy,       \* _taskIDsInDelivery
    up,         \* processes that run
    signal,     \* answer of the partition handler to -meetsSignalRequirements:…
    enqueued,   \* history: tasks enqueued so far,
    delivered,  \*   how often each result handler was called,
    torn,       \*   how often its process died before the task was removed,
    early,      \*   tasks finished by other means than a session's response,
    lost,       \*   tasks whose session task runs unknown to their pipeline,
    passed,     \*   requests started while a task of the group could have been
    limit,      \* maximumConcurrentRequests, 0 for no limit
    budget      \* what may still happen how often

memVars == <<objects, queue, needs, attached, recent, busy>>
history == <<enqueued, delivered, torn, early, lost, passed>>
vars == <<rows, wire, memVars, up, signal, history, limit, budget>>

States == {"absent", "pending", "running", "completed"}
\* Anything the result handler is to get, be it a reply, a refused certificate
\* or a cancellation, is one: "result".
Responses == {"result", "unverified", "offline", "dropped"}

\* A row, or the object for it; only an object knows its session task (live).
TaskRecords ==
    [state : States, bundle : Processes \cup {AnyBundle}, attempt : Nat,
     response : Responses \cup {None}, cancelled : BOOLEAN,
     session : Processes \cup {None}, live : BOOLEAN]

\* noted: was the task's row stored as running after the session task started?
SessionTasks == [task : Tasks, attempt : Nat, process : Processes, noted : BOOLEAN]

Operations == {"recover", "add", "schedule", "fail", "complete", "finish", "attach",
               "detach", "deliver", "retry", "cancel", "cancelNonCritical", "finishPending"}
Blocks == [op : Operations, task : Tasks \cup {0}, attempt : Nat,
           response : Responses \cup {None}]

TypeOK ==
    /\ rows \in [Tasks -> TaskRecords]
    /\ wire \in SUBSET SessionTasks
    /\ objects \in [Processes -> [Tasks -> TaskRecords]]
    /\ queue \in [Processes -> Seq(Blocks)]
    /\ needs \in [Processes -> BOOLEAN]
    /\ attached \in SUBSET Processes
    /\ recent \in [Processes -> Seq(Groups)]
    /\ busy \in [Processes -> SUBSET Tasks]
    /\ up \in SUBSET Processes
    /\ signal \in [Processes -> {"met", "wait", "fail"}]
    /\ enqueued \in 0 .. NumTasks
    /\ delivered \in [Tasks -> Nat] /\ torn \in [Tasks -> Nat]
    /\ early \in SUBSET Tasks /\ lost \in SUBSET Tasks
    /\ passed \in [Groups -> Nat]
    /\ limit \in Nat
    /\ budget \in [Bounded -> Nat]

Fresh(p) ==
    [state |-> "absent", bundle |-> p, attempt |-> 0, response |-> None,
     cancelled |-> FALSE, session |-> None, live |-> FALSE]
NoObjects == [t \in Tasks |-> Fresh(IssuerOf[t])]

Block(op, t, r) == [op |-> op, task |-> t, attempt |-> 0, response |-> r]

Init ==
    /\ rows = [t \in Tasks |-> Fresh(IssuerOf[t])]
    /\ wire = {}
    /\ objects = [p \in Processes |-> NoObjects]
    /\ queue = [p \in Processes |-> <<>>]
    /\ needs = [p \in Processes |-> FALSE]
    /\ attached = {}
    /\ recent = [p \in Processes |-> <<>>]
    /\ busy = [p \in Processes |-> {}]
    /\ up = {}
    /\ signal = [p \in Processes |-> "met"]
    /\ enqueued = 0
    /\ delivered = [t \in Tasks |-> 0] /\ torn = [t \in Tasks |-> 0]
    /\ early = {} /\ lost = {}
    /\ passed = [g \in Groups |-> 0]
    /\ \E s \in Scenarios : limit = s.limit /\ budget = s.budget

-----------------------------------------------------------------------------
(* A block of process p as a transformation of what it can reach.          *)

View(p) ==
    [rows |-> rows, wire |-> wire, objects |-> objects[p], queue |-> Tail(queue[p]),
     needs |-> needs[p], busy |-> busy[p], delivered |-> delivered,
     torn |-> torn, process |-> p, attached |-> p \in attached]

\* The blocks bind what they compute with \E, not LET: TLC then computes it once.
Commit(p, v) ==
    \E after \in {v} :
        /\ rows' = after.rows
        /\ wire' = after.wire
        /\ objects' = [objects EXCEPT ![p] = after.objects]
        /\ queue' = [queue EXCEPT ![p] = after.queue]
        /\ needs' = [needs EXCEPT ![p] = after.needs]
        /\ busy' = [busy EXCEPT ![p] = after.busy]
        /\ delivered' = after.delivered /\ torn' = after.torn

IsStored(v, t) == v.rows[t].state # "absent"
IsCached(v, t) == v.objects[t].state # "absent"

\* The task as the process sees it: its object, else one made from the row.
Loaded(v, t) == IF IsCached(v, t) THEN v.objects[t] ELSE v.rows[t]

\* Rows of the process that are read become objects of its cache.
Load(v, S) ==
    [v EXCEPT !.objects = [t \in Tasks |->
        IF t \in S /\ IsStored(v, t) /\ v.rows[t].bundle = v.process
        THEN Loaded(v, t) ELSE v.objects[t]]]

\* An object is written to its row, if there still is one.
Stored(v, t, o) ==
    [v EXCEPT
        !.rows[t] = IF IsStored(v, t) THEN [o EXCEPT !.live = FALSE] ELSE @,
        !.objects[t] = IF o.bundle = v.process \/ IsCached(v, t) THEN o ELSE @]

\* mutant: the row of a task that was released to all processes is kept
RemovedIfOwn(v, t, o) ==
    IF o.bundle = v.process
    THEN [v EXCEPT !.rows[t] = Fresh(IssuerOf[t]), !.objects[t] = Fresh(IssuerOf[t])]
    ELSE v

Removed(v, t, o) ==
    [v EXCEPT
        !.rows[t] = Fresh(IssuerOf[t]),
        !.objects[t] = IF o.bundle = v.process THEN Fresh(IssuerOf[t]) ELSE @]

Queued(v, b) == [v EXCEPT !.queue = Append(@, b)]

SetNeedsScheduling(v) ==
    IF v.needs THEN v ELSE Queued([v EXCEPT !.needs = TRUE], Block("schedule", 0, None))

\* A request that needs the core to be online is sent again after these.
Reschedules(r) == r \in {"offline", "dropped"}

Deliver(v, t, o) ==
    IF ~v.attached THEN
        IF o.bundle = v.process THEN Stored(v, t, [o EXCEPT !.bundle = AnyBundle]) ELSE v
    ELSE IF t \in v.busy THEN v
    ELSE IF o.response = "unverified" THEN [v EXCEPT !.busy = @ \cup {t}]
    ELSE IF Reschedules(o.response) THEN
        SetNeedsScheduling(Stored(v, t,
            [o EXCEPT !.state = "pending", !.attempt = @ + 1, !.response = None, !.session = None]))
    ELSE Removed([v EXCEPT !.delivered[t] = @ + 1], t, o)

Completed(v, t, r) == [Loaded(v, t) EXCEPT !.state = "completed", !.response = r]

Finished(v, t, r) ==
    LET o == Completed(v, t, r) IN Deliver(Stored(v, t, o), t, o)

\* op(v, t) for the tasks of S in the order of their taskIDs.
ForEach(op(_, _), v, S) ==
    LET after[t \in 0 .. NumTasks] ==
            IF t = 0 THEN v ELSE IF t \in S THEN op(after[t - 1], t) ELSE after[t - 1]
    IN  after[NumTasks]

FinishAll(v, S, r) == ForEach(LAMBDA w, t : Finished(w, t, r), v, S)
DeliverAll(v, S) == ForEach(LAMBDA w, t : Deliver(w, t, Loaded(w, t)), v, S)

\* op(v, t) for the tasks of a sequence.
InOrder(op(_, _), v, s) ==
    LET after[n \in 0 .. Len(s)] == IF n = 0 THEN v ELSE op(after[n - 1], s[n])
    IN  after[Len(s)]

-----------------------------------------------------------------------------
(* Scheduling.                                                             *)

\* Other processes' tasks are left alone for as long as those run.
Relevant(v) ==
    IF ~v.attached THEN {}
    ELSE {t \in Tasks : IsStored(v, t) /\ (Loaded(v, t).bundle \in up => Loaded(v, t).bundle = v.process)}

InState(v, s) == {t \in Relevant(v) : Loaded(v, t).state = s}

SameGroup(t, u) == GroupOf[t] = GroupOf[u] /\ GroupOf[t] # DefaultGroup

\* mutant: a task that runs does not keep the others of its group waiting
SchedulableBesideRunning(v) ==
    {t \in InState(v, "pending") :
        \A u \in InState(v, "pending") : u < t => ~SameGroup(t, u)}

\* The oldest pending task of each group none of whose tasks runs, and all
\* pending tasks of the default group.
Schedulable(v) ==
    {t \in InState(v, "pending") :
        /\ \A u \in InState(v, "running") : ~SameGroup(t, u)
        /\ \A u \in InState(v, "pending") : u < t => ~SameGroup(t, u)}

\* Position of a task: groups that were never scheduled come first, then those
\* scheduled longest ago, then what else there is in the default group.
Position(p, S, t) ==
    IF \E u \in S : u < t /\ GroupOf[u] = GroupOf[t] THEN Len(recent[p]) + 1
    ELSE IF GroupOf[t] \in ToSet(recent[p])
    THEN CHOOSE i \in DOMAIN recent[p] : recent[p][i] = GroupOf[t]
    ELSE 0

Ordered(p, S) ==
    {s \in SetToSeqs(S) : \A i, j \in DOMAIN s : i < j => Position(p, S, s[i]) <= Position(p, S, s[j])}

\* A list of groups has each of them at most once.
Without(r, g) == IF g \in ToSet(r) THEN RemoveAt(r, CHOOSE i \in DOMAIN r : r[i] = g) ELSE r

\* mutant: the group goes to the other end
RotatedToFront(r, t) == <<GroupOf[t]>> \o Without(r, GroupOf[t])

\* mutant: the task is remembered instead of its group
RotatedTask(r, t) == Append(Without(r, GroupOf[t]), t)

Rotated(r, t) == Append(Without(r, GroupOf[t]), GroupOf[t])

\* The URL session of a process; the ephemeral sessions have no identifier.
SessionOf(p) == IF Background THEN p ELSE None

ScheduleTask(v, t) ==
    LET o == Loaded(v, t)
        w == [task |-> t, attempt |-> o.attempt, process |-> v.process, noted |-> TRUE]
    IN IF o.cancelled \/ t \in Broken THEN Queued(v, Block("fail", t, "result"))
       ELSE Stored([v EXCEPT !.wire = @ \cup {w}], t,
                   [o EXCEPT !.state = "running", !.session = SessionOf(v.process), !.live = TRUE])

ScheduleAll(v, s) == InOrder(ScheduleTask, v, s)
RotateAll(r, s) == InOrder(Rotated, r, s)

\* The head of the queue is a block of this kind.
Runs(p, op) ==
    /\ p \in up
    /\ queue[p] # <<>>
    /\ Head(queue[p]).op = op

RunningRows == {t \in Tasks : rows[t].state = "running"}
Slots == IF limit = 0 THEN NumTasks
         ELSE IF limit > Cardinality(RunningRows) THEN limit - Cardinality(RunningRows) ELSE 0

\* No session task can be created for these.
Unstartable(v, S) == {t \in S : Loaded(v, t).cancelled \/ t \in Broken}

StartTasks(p, v, S) ==
    \E s \in Ordered(p, S) :
        LET chosen == SubSeq(s, 1, IF Len(s) < Slots THEN Len(s) ELSE Slots)
            started == ToSet(chosen)
        IN /\ Commit(p, ScheduleAll(v, chosen))
           /\ recent' = [recent EXCEPT ![p] = RotateAll(@, chosen)]
           /\ early' = early \cup Unstartable(v, started)
           /\ passed' = [g \in Groups |->
                IF \E t \in started : GroupOf[t] = g THEN 0
                ELSE IF \E t \in S : GroupOf[t] = g THEN passed[g] + Len(chosen)
                ELSE passed[g]]

\* A running task with a smaller taskID blocks its group.
Unblocked(v) ==
    {t \in InState(v, "pending") : \A u \in InState(v, "running") : u < t => ~SameGroup(t, u)}

\* -_schedule
RunSchedule(p) ==
    /\ Runs(p, "schedule")
    /\ \E v \in {[View(p) EXCEPT !.needs = FALSE]} : \E all \in {Load(v, Tasks)} :
        \/ /\ Slots = 0
           /\ Commit(p, v)
           /\ UNCHANGED <<recent, early, passed>>
        \/ /\ Slots > 0 /\ signal[p] = "wait"
           /\ Commit(p, all)
           /\ UNCHANGED <<recent, early, passed>>
        \/ /\ Slots > 0 /\ signal[p] = "fail"
           /\ Commit(p, FinishAll(all, Unblocked(all), "result"))
           /\ UNCHANGED <<recent, early, passed>>
        \/ /\ Slots > 0 /\ signal[p] = "met"
           /\ \E S \in {Schedulable(all)} : StartTasks(p, all, S)
    /\ UNCHANGED <<attached, up, signal, enqueued, lost, limit, budget>>

-----------------------------------------------------------------------------
(* The other blocks.                                                       *)

Task(p) == Head(queue[p]).task
Response(p) == Head(queue[p]).response

RunAdd(p) ==
    /\ Runs(p, "add")
    /\ \E new \in {[Fresh(p) EXCEPT !.state = "pending"]} :
        Commit(p, SetNeedsScheduling(
            [View(p) EXCEPT !.rows[Task(p)] = new, !.objects[Task(p)] = new]))
    /\ UNCHANGED <<attached, recent, up, signal, enqueued, early, lost, passed, limit, budget>>

\* The error of -_scheduleTask: is passed on in a block of its own.
RunFail(p) ==
    /\ Runs(p, "fail")
    /\ Commit(p, Queued(View(p), Block("finish", Task(p), Response(p))))
    /\ UNCHANGED <<attached, recent, up, signal, enqueued, early, lost, passed, limit, budget>>

\* The session's task is looked up by the request ID it was started with.
RunComplete(p) ==
    /\ Runs(p, "complete")
    /\ \E t \in {Task(p)} : \E v \in {View(p)} : \E w \in {Load(v, {t})} :
        Commit(p, IF IsStored(v, t) /\ v.rows[t].attempt = Head(queue[p]).attempt
                  THEN Queued(w, Block("finish", t,
                          IF Loaded(w, t).cancelled THEN "result" ELSE Response(p)))
                  ELSE v)
    /\ UNCHANGED <<attached, recent, up, signal, enqueued, early, lost, passed, limit, budget>>

\* mutant: nothing is scheduled in the place of the finished task
RunFinishQuietly(p) ==
    /\ Runs(p, "finish")
    /\ \E v \in {View(p)} : Commit(p, Finished(v, Task(p), Response(p)))
    /\ UNCHANGED <<attached, recent, up, signal, enqueued, early, lost, passed, limit, budget>>

RunFinish(p) ==
    /\ Runs(p, "finish")
    /\ \E v \in {View(p)} : \E w \in {Finished(v, Task(p), Response(p))} :
        Commit(p, SetNeedsScheduling(w))
    /\ UNCHANGED <<attached, recent, up, signal, enqueued, early, lost, passed, limit, budget>>

RunAttach(p) ==
    /\ Runs(p, "attach")
    /\ attached' = attached \cup {p}
    /\ Commit(p, SetNeedsScheduling(Queued(View(p), Block("deliver", 0, None))))
    /\ UNCHANGED <<recent, up, signal, enqueued, early, lost, passed, limit, budget>>

RunDetach(p) ==
    /\ Runs(p, "detach")
    /\ attached' = attached \ {p}
    /\ Commit(p, View(p))
    /\ UNCHANGED <<recent, up, signal, enqueued, early, lost, passed, limit, budget>>

\* -_deliverResultsForPartition: completed rows of whatever process.
RunDeliver(p) ==
    /\ Runs(p, "deliver")
    /\ \E completed \in {{t \in Tasks : rows[t].state = "completed"}} :
       \E all \in {Load(View(p), completed)} :
        Commit(p, DeliverAll(all, completed))
    /\ UNCHANGED <<attached, recent, up, signal, enqueued, early, lost, passed, limit, budget>>

\* The certificate of a response was evaluated; delivery is tried again.
RunRetry(p) ==
    /\ Runs(p, "retry")
    /\ \E t \in {Task(p)} : \E v \in {[View(p) EXCEPT !.busy = @ \ {t}]} :
       \E o \in {[Loaded(v, t) EXCEPT !.response = IF @ = "unverified" THEN Response(p) ELSE @]} :
        Commit(p, Deliver(Stored(v, t, o), t, o))
    /\ UNCHANGED <<attached, recent, up, signal, enqueued, early, lost, passed, limit, budget>>

\* -_cancelTask: of an object that is in the cache, or made for the purpose
CancelTask(v, t) ==
    LET o == Loaded(v, t)
        finish == Block("finish", t, "result")
        marked == [o EXCEPT !.cancelled = TRUE]
    IN CASE o.state = "running" /\ ~o.cancelled /\ o.live -> Stored(v, t, marked)
         [] o.state = "running" /\ ~(~o.cancelled /\ o.live) ->
                Queued(IF IsCached(v, t) THEN [v EXCEPT !.objects[t] = marked] ELSE v, finish)
         [] o.state = "pending" -> Queued(v, finish)
         [] OTHER -> v

CancelAll(v, S) == ForEach(CancelTask, v, S)

CancelTasks(p, S) ==
    /\ \E all \in {Load(View(p), S)} : Commit(p, CancelAll(all, S))
    /\ early' = early \cup S
    /\ UNCHANGED <<attached, recent, up, signal, enqueued, lost, passed, limit, budget>>

RunCancel(p) ==
    /\ Runs(p, "cancel")
    /\ CancelTasks(p, {Task(p)} \cap {t \in Tasks : rows[t].state # "absent"})

RunCancelNonCritical(p) ==
    /\ Runs(p, "cancelNonCritical")
    /\ CancelTasks(p, {t \in NonCritical : rows[t].state # "absent"})

QueueFinishAll(v, S) == ForEach(LAMBDA w, t : Queued(w, Block("finish", t, "result")), v, S)

\* Requests that need authentication end with an error, whatever their state.
RunFinishPending(p) ==
    LET S == {t \in Tasks : rows[t].state # "absent"}
    IN /\ Runs(p, "finishPending")
       /\ Commit(p, QueueFinishAll(Load(View(p), S), S))
       /\ early' = early \cup S
       /\ UNCHANGED <<attached, recent, up, signal, enqueued, lost, passed, limit, budget>>

\* A session task of the process runs for the current attempt at t, or its end
\* is still to be handled.
Unanswered(p, t) ==
    \/ \E w \in wire : w.process = p /\ w.task = t /\ w.attempt = rows[t].attempt
    \/ \E b \in ToSet(queue[p]) :
          b.op = "complete" /\ b.task = t /\ b.attempt = rows[t].attempt

\* Session tasks are only found again for tasks that are in the cache.
Reattached(p, v) ==
    [v EXCEPT !.objects = [t \in Tasks |->
        IF Unanswered(p, t) /\ IsCached(v, t)
        THEN [v.objects[t] EXCEPT !.live = TRUE] ELSE v.objects[t]]]

Dropped(v) ==
    {t \in Tasks : /\ IsStored(v, t)
                   /\ Loaded(v, t).session = SessionOf(v.process)
                   /\ Loaded(v, t).state = "running"
                   /\ ~Loaded(v, t).live}

\* -_recoverQueueForURLSession: tasks of the session that it no longer runs.
RunRecover(p) ==
    /\ Runs(p, "recover")
    /\ \E v \in {Reattached(p, Load(View(p), Tasks))} : \E dropped \in {Dropped(v)} :
        /\ Commit(p, FinishAll(v, dropped, "dropped"))
        /\ lost' = lost \cup {t \in dropped : \E q \in Processes : Unanswered(q, t)}
    /\ UNCHANGED <<attached, recent, up, signal, enqueued, early, passed, limit, budget>>

-----------------------------------------------------------------------------
(* What other threads, the session, the user and the system do.            *)

Post(p, b) == queue' = [queue EXCEPT ![p] = Append(@, b)]

\* Only the queue of a process changes.
OnlyQueue == UNCHANGED <<rows, wire, objects, needs, attached, recent, busy, up, signal,
                         delivered, torn, lost, passed>>

Spend(f) == budget[f] > 0 /\ budget' = [budget EXCEPT ![f] = @ - 1] /\ UNCHANGED limit

Start(p) ==
    /\ p \notin up
    /\ up' = up \cup {p}
    /\ Post(p, Block("recover", 0, None))
    /\ UNCHANGED <<rows, wire, objects, needs, attached, recent, busy, signal, history, limit, budget>>

Enqueue(p) ==
    /\ p \in up
    /\ Spend("tasks") /\ IssuerOf[enqueued + 1] = p
    /\ enqueued' = enqueued + 1
    /\ Post(p, Block("add", enqueued + 1, None))
    /\ OnlyQueue /\ UNCHANGED early

QueuedOps(p) == {b.op : b \in ToSet(queue[p])}

\* A connection attaches once; it detaches for good reasons, or not at all.
Attach(p) ==
    /\ p \in up \ attached
    /\ "attach" \notin QueuedOps(p)
    /\ Post(p, Block("attach", 0, None))
    /\ OnlyQueue /\ UNCHANGED <<enqueued, early, limit, budget>>

Detach(p) ==
    /\ p \in attached
    /\ QueuedOps(p) \cap {"attach", "detach"} = {}
    /\ Spend("detaches")
    /\ queue' = [queue EXCEPT ![p] =
            @ \o <<Block("cancelNonCritical", 0, None), Block("detach", 0, None)>>]
    /\ OnlyQueue /\ UNCHANGED <<enqueued, early>>

Cancel(p, t) ==
    /\ p \in up
    /\ t <= enqueued /\ IssuerOf[t] = p
    /\ Spend("early")
    /\ Post(p, Block("cancel", t, None))
    /\ OnlyQueue /\ UNCHANGED <<enqueued, early>>

FailAuthentication(p) ==
    /\ p \in attached
    /\ Spend("early")
    /\ Post(p, Block("finishPending", 0, None))
    /\ OnlyQueue /\ UNCHANGED <<enqueued, early>>

\* -URLSession:task:didCompleteWithError:
SessionCompletes(w, r) ==
    /\ w.process \in up
    /\ wire' = wire \ {w}
    /\ IF r = "offline" THEN Spend("offline") ELSE UNCHANGED <<limit, budget>>
    /\ Post(w.process, [op |-> "complete", task |-> w.task, attempt |-> w.attempt, response |-> r])
    /\ UNCHANGED <<rows, objects, needs, attached, recent, busy, up, signal, history>>

\* The user, or a rule, accepts or rejects the certificate.
Evaluate(p, t) ==
    /\ p \in up
    /\ t \in busy[p]
    /\ \A b \in ToSet(queue[p]) : ~(b.op = "retry" /\ b.task = t)
    /\ Post(p, Block("retry", t, "result"))
    /\ OnlyQueue /\ UNCHANGED <<enqueued, early, limit, budget>>

\* Signals change; the connection then asks for scheduling.
Hold(p, s) ==
    /\ signal[p] = "met"
    /\ Spend("holds")
    /\ signal' = [signal EXCEPT ![p] = s]
    /\ UNCHANGED <<rows, wire, memVars, up, history>>

Release(p) ==
    /\ signal[p] # "met"
    /\ signal' = [signal EXCEPT ![p] = "met"]
    /\ IF p \in up /\ ~needs[p]
       THEN /\ needs' = [needs EXCEPT ![p] = TRUE]
            /\ Post(p, Block("schedule", 0, None))
       ELSE UNCHANGED <<needs, queue>>
    /\ UNCHANGED <<rows, wire, objects, attached, recent, busy, up, history, limit, budget>>

-----------------------------------------------------------------------------
(* A process dies: between two blocks, or in one that it has done in part.  *)
(* What the part wrote to the database remains, and so do the handlers it  *)
(* called and the session tasks it started; memory is lost.                *)

\* An ephemeral session ends with its process, a background session goes on.
Dies(p, rows_, wire_) ==
    /\ p \in up
    /\ Spend("crashes")
    /\ up' = up \ {p}
    /\ rows' = rows_
    /\ wire' = IF Background THEN wire_ ELSE {w \in wire_ : w.process # p}
    /\ objects' = [objects EXCEPT ![p] = NoObjects]
    /\ queue' = [queue EXCEPT ![p] = <<>>]
    /\ needs' = [needs EXCEPT ![p] = FALSE]
    /\ attached' = attached \ {p}
    /\ recent' = [recent EXCEPT ![p] = <<>>]
    /\ busy' = [busy EXCEPT ![p] = {}]
    /\ passed' = [g \in Groups |-> 0]
    /\ UNCHANGED <<signal, enqueued>>

Crash(p) ==
    /\ Dies(p, rows, wire)
    /\ UNCHANGED <<delivered, torn, early, lost>>

\* The result handler was called; the row is still there.
Called(v, t) == [v EXCEPT !.delivered[t] = @ + 1, !.torn[t] = @ + 1]

HandsOver(v, t, o) ==
    v.attached /\ t \notin v.busy /\ o.response # "unverified" /\ ~Reschedules(o.response)

\* How far the delivery of t may have come.
Halfway(v, t, o) == {v} \cup (IF HandsOver(v, t, o) THEN {Called(v, t)} ELSE {})

DiesAs(p, v) ==
    /\ Dies(p, v.rows, v.wire)
    /\ delivered' = v.delivered /\ torn' = v.torn

DownTo(S, t) == {u \in S : u <= t}

\* The tasks of S before t are finished; the response of t may be stored, too.
DiesFinishing(p, v, S, t, r) ==
    \E w \in {FinishAll(v, DownTo(S, t - 1), r)} : \E o \in {Completed(w, t, r)} :
    \E half \in {w} \cup Halfway(Stored(w, t, o), t, o) : DiesAs(p, half)

DieInFinish(p) ==
    /\ Runs(p, "finish")
    /\ \E v \in {View(p)} : DiesFinishing(p, v, {Task(p)}, Task(p), Response(p))
    /\ UNCHANGED <<early, lost>>

DieInDeliver(p) ==
    /\ Runs(p, "deliver")
    /\ \E completed \in {{t \in Tasks : rows[t].state = "completed"}} : \E t \in completed :
       \E v \in {DeliverAll(Load(View(p), completed), DownTo(completed, t - 1))} :
       \E half \in Halfway(v, t, Loaded(v, t)) : DiesAs(p, half)
    /\ UNCHANGED <<early, lost>>

DieInRetry(p) ==
    /\ Runs(p, "retry")
    /\ \E t \in {Task(p)} : \E v \in {[View(p) EXCEPT !.busy = @ \ {t}]} :
       \E o \in {[Loaded(v, t) EXCEPT !.response = IF @ = "unverified" THEN Response(p) ELSE @]} :
       \E half \in Halfway(Stored(v, t, o), t, o) : DiesAs(p, half)
    /\ UNCHANGED <<early, lost>>

DieInRecover(p) ==
    /\ Runs(p, "recover")
    /\ \E v \in {Reattached(p, Load(View(p), Tasks))} : \E t \in Dropped(v) :
        /\ DiesFinishing(p, v, Dropped(v), t, "dropped")
        /\ lost' = lost \cup
              {u \in DownTo(Dropped(v), t) : \E q \in Processes : Unanswered(q, u)}
    /\ UNCHANGED early

DieInFailing(p) ==
    /\ Runs(p, "schedule")
    /\ Slots > 0 /\ signal[p] = "fail"
    /\ \E v \in {Load([View(p) EXCEPT !.needs = FALSE], Tasks)} : \E t \in Unblocked(v) :
        DiesFinishing(p, v, Unblocked(v), t, "result")
    /\ UNCHANGED <<early, lost>>

\* The row of t was stored with its session, but not as running yet; its
\* session task may run already.
DiesStarting(p, v, t) ==
    \E o \in {[Loaded(v, t) EXCEPT !.session = SessionOf(p)]} :
    \E w \in {[task |-> t, attempt |-> o.attempt, process |-> p, noted |-> FALSE]} :
    \E begun \in {{}, {w}} :
        /\ DiesAs(p, Stored([v EXCEPT !.wire = @ \cup begun], t, o))
        /\ lost' = lost \cup {x.task : x \in begun}

DieInSchedule(p) ==
    /\ Runs(p, "schedule")
    /\ Slots > 0 /\ signal[p] = "met"
    /\ \E all \in {Load([View(p) EXCEPT !.needs = FALSE], Tasks)} :
       \E s \in Ordered(p, Schedulable(all)) : \E n \in 1 .. Len(s) :
        /\ n <= Slots /\ s[n] \notin Unstartable(all, Tasks)
        /\ DiesStarting(p, ScheduleAll(all, SubSeq(s, 1, n - 1)), s[n])
        /\ early' = early \cup Unstartable(all, ToSet(SubSeq(s, 1, n - 1)))

RunBlock(p) ==
    \/ RunSchedule(p) \/ RunAdd(p) \/ RunFail(p) \/ RunComplete(p) \/ RunFinish(p)
    \/ RunAttach(p) \/ RunDetach(p) \/ RunDeliver(p) \/ RunRetry(p) \/ RunCancel(p)
    \/ RunCancelNonCritical(p) \/ RunFinishPending(p) \/ RunRecover(p)

DieInBlock(p) ==
    \/ DieInFinish(p) \/ DieInDeliver(p) \/ DieInRetry(p) \/ DieInRecover(p)
    \/ DieInFailing(p) \/ DieInSchedule(p)

\* Threads run, processes are launched again and attach their connection,
\* servers answer, questions about certificates are answered, and the signals
\* a request needs are met again.
Progress ==
    \/ \E p \in Processes :
        \/ RunBlock(p) \/ Start(p) \/ Attach(p) \/ Release(p)
        \/ \E t \in Tasks : Evaluate(p, t)
    \/ \E w \in wire, r \in {"result", "unverified", "offline"} : SessionCompletes(w, r)

Next ==
    \/ Progress
    \/ \E p \in Processes :
        \/ Enqueue(p) \/ Detach(p) \/ FailAuthentication(p) \/ Crash(p) \/ DieInBlock(p)
        \/ \E s \in {"wait", "fail"} : Hold(p, s)
        \/ \E t \in Tasks : Cancel(p, t)

\* What can go on does not stop; which of it comes first is open.
Fairness == WF_vars(Progress)

Spec == Init /\ [][Next]_vars /\ Fairness

-----------------------------------------------------------------------------
(* Properties.                                                             *)

\* The result handler of a request is called once - and once more each time
\* the process dies before the request is removed: "a crash/app termination
\* will automatically result in delivery being retried"
\* (-_deliverResultForTask:) - unless something other than its session finished
\* it: a cancellation, a failed authentication, a session task that could not
\* be created, ran unknown to the pipeline or was missed by the recovery.
DeliveredOnce == \A t \in Tasks : delivered[t] > 1 + torn[t] => t \in early \cup lost

\* The tasks of a group are executed one at a time as far as the database
\* tells, whatever order they are finished, rescheduled and recovered in.
OneRunningRowPerGroup ==
    \A t, u \in RunningRows : t # u => ~SameGroup(t, u)

\* "every group will get one request scheduled after N slots have become
\* available" (-_schedule): a group that could have had a task started is
\* passed over at most once by each other group.
ScheduledFairly == \A g \in Groups : passed[g] < Cardinality(Groups)

\* Every request in the database gets an answer: its result handler is called.
EveryRequestAnswered ==
    \A t \in Tasks : rows[t].state # "absent" ~> delivered[t] > 0
=============================================================================
