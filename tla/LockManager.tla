---------------------------- MODULE LockManager ----------------------------
(***************************************************************************)
(* Locks between the processes of the app group                            *)
(* (Lock Manager/OCLockManager.m, OCLock.m, OCLockRequest.m).              *)
(*                                                                         *)
(* The database of locks is a value in a key-value store, which every      *)
(* process modifies under the store's file coordination (database).  A     *)
(* lock expires unless its process renews it; the manager of a process     *)
(* makes passes (-_updateLocks) on a serial queue: one step reads and      *)
(* modifies the database, a second one tells the requesters and sets the   *)
(* timers.  A process can be suspended, and crash, at any point.           *)
(*                                                                         *)
(* The model follows one resource.  Requests are numbered in the order in  *)
(* which they are made; the lock of a request has the request's number.    *)
(***************************************************************************)
EXTENDS Naturals

CONSTANTS
    Processes,      \* processes of the app group
    NumRequests,    \* requests made, over all processes
    OwnerOf,        \* the process that makes a request
    Try,            \* requests with returnAfterFirstAttempt
    Expiry,         \* OCLockExpirationInterval
    RenewBelow,     \* -keepAlive: renews a lock with less time left
    KeepAlive,      \* interval of the keep-alive timer
    None,           \* no lock, no timer, no pass
    Budgets         \* bounds: what may happen how often, for one behaviour each

Requests == 1 .. NumRequests
Own(p) == {r \in Requests : OwnerOf[r] = p}

\* What a budget bounds; suspensions are those of all processes together.
Bounded == {"requests", "crashes", "suspensions", "invalidations"}

\* How long a holder may be suspended without losing its lock.
Tolerance == RenewBelow - KeepAlive

\* The requests a pass takes off the list, the one of them that got the lock,
\* the locks that are gone, and when to look again.
Passes == [processed : SUBSET Requests, granted : Requests \cup {None},
           lost : SUBSET Requests, check : Nat \cup {None}]

ASSUME LockAssumption ==
    /\ NumRequests \in Nat
    /\ OwnerOf \in [Requests -> Processes]
    /\ Try \subseteq Requests
    /\ Expiry \in Nat /\ RenewBelow \in Nat /\ KeepAlive \in Nat
    /\ 0 < KeepAlive /\ KeepAlive < RenewBelow /\ RenewBelow <= Expiry
    /\ None \notin Nat /\ None \notin Passes
    /\ Budgets \subseteq [Bounded -> Nat]
    /\ \A b \in Budgets : b.requests <= NumRequests

VARIABLES
    database,       \* the lock in the database and the time it has left
    requests,       \* _requests of each process
    locks,          \* _locks and _lockIdentifiers
    released,       \* _releasedLockIdentifiers
    invalidated,    \* requests that were invalidated
    needsUpdate,    \* _needsUpdate: a pass is queued
    pass,           \* what a pass has yet to do after it modified the database
    keepAlive,      \* time left on the keep-alive timer (_keepAliveScheduled)
    checks,         \* time left on the timers for locks due to expire
    notices,        \* processes the store still has to tell of a change
    suspended,      \* processes that do not run
    slept,          \* how long a process with a lock, or in a pass, was suspended
                    \* since the last pass that found all of its locks
    issued,         \* requests made so far
    budget          \* what may still happen how often

managers == <<requests, locks, released, needsUpdate, pass, keepAlive, checks>>
vars == <<database, managers, invalidated, notices, suspended, slept, issued, budget>>

TypeOK ==
    /\ database \in [lock : Requests \cup {None}, left : 0 .. Expiry]
    /\ requests \in [Processes -> SUBSET Requests]
    /\ locks \in [Processes -> SUBSET Requests]
    /\ released \in [Processes -> SUBSET Requests]
    /\ invalidated \in SUBSET Requests
    /\ needsUpdate \in [Processes -> BOOLEAN]
    /\ pass \in [Processes -> Passes \cup {None}]
    /\ keepAlive \in [Processes -> 0 .. KeepAlive \cup {None}]
    /\ checks \in [Processes -> SUBSET Nat]
    /\ notices \in SUBSET Processes
    /\ suspended \in SUBSET Processes
    /\ slept \in [Processes -> 0 .. Tolerance]
    /\ issued \in 0 .. NumRequests
    /\ budget \in [Bounded -> Nat]

Init ==
    /\ database = [lock |-> None, left |-> 0]
    /\ requests = [p \in Processes |-> {}]
    /\ locks = [p \in Processes |-> {}]
    /\ released = [p \in Processes |-> {}]
    /\ invalidated = {}
    /\ needsUpdate = [p \in Processes |-> FALSE]
    /\ pass = [p \in Processes |-> None]
    /\ keepAlive = [p \in Processes |-> None]
    /\ checks = [p \in Processes |-> {}]
    /\ notices = {}
    /\ suspended = {}
    /\ slept = [p \in Processes |-> 0]
    /\ issued = 0
    /\ budget \in Budgets

Runs(p) == p \notin suspended
Idle(p) == Runs(p) /\ pass[p] = None

-----------------------------------------------------------------------------
(* A pass.                                                                 *)

\* (mutant) A lock is taken to be expired before its time is up.
PurgesEarly(p) ==
    /\ database.lock # None
    /\ \/ database.left <= 1 /\ database.lock \notin locks[p]
       \/ database.lock \in released[p]

\* Locks that expired are purged, unless they are the process' own, and locks
\* that were released.
Purges(p) ==
    /\ database.lock # None
    /\ \/ database.left = 0 /\ database.lock \notin locks[p]
       \/ database.lock \in released[p]

IsFree(p) == database.lock = None \/ Purges(p)

\* (mutant) Locks are renewed only when the next pass would be too late.
RenewsLate(p) ==
    /\ ~Purges(p)
    /\ database.lock \in locks[p]
    /\ database.left < KeepAlive

\* -keepAlive:
Renews(p) ==
    /\ ~Purges(p)
    /\ database.lock \in locks[p]
    /\ database.left < RenewBelow

Candidates(p) == requests[p] \ invalidated

\* The oldest request that is still valid gets a free lock.
Grants(p, r) ==
    /\ IsFree(p)
    /\ r \in Candidates(p)
    /\ \A q \in Candidates(p) : r <= q

\* Requests that find a lock that they cannot have: those after the one that
\* gets it, or all of them.
Blocked(p) ==
    {q \in requests[p] : ~IsFree(p) \/ \E r \in Candidates(p) : Grants(p, r) /\ r < q}

\* Invalidated requests that find no lock, and attempts that find one.
Settled(p) == (requests[p] \ (Blocked(p) \cup Candidates(p))) \cup (Blocked(p) \cap Try)

\* (mutant) A renewal adds to the time that is left.
UpdatedByAdding(p, granted) ==
    IF granted # None THEN [lock |-> granted, left |-> Expiry]
    ELSE IF Purges(p) THEN [lock |-> None, left |-> 0]
    ELSE IF Renews(p) THEN [database EXCEPT !.left = @ + Expiry]
    ELSE database

Updated(p, granted) ==
    IF granted # None THEN [lock |-> granted, left |-> Expiry]
    ELSE IF Purges(p) THEN [lock |-> None, left |-> 0]
    ELSE IF Renews(p) THEN [database EXCEPT !.left = Expiry]
    ELSE database

\* First part of -_updateLocks: the modification of the database.  Locks of
\* the process that are not in the database any more are found to be lost.
\* A modification queues another pass here and notifies the others.
Update(p, granted) ==
    LET lost == locks[p] \ (IF Purges(p) THEN {} ELSE {database.lock})
        modifies == granted # None \/ Purges(p) \/ Renews(p)
    IN /\ \/ granted = None /\ \A r \in Requests : ~Grants(p, r)
          \/ granted # None /\ Grants(p, granted)
       /\ database' = Updated(p, granted)
       /\ released' = [released EXCEPT ![p] = {}]
       /\ invalidated' = invalidated \cup (Blocked(p) \cap Try)
       /\ pass' = [pass EXCEPT ![p] =
            [processed |-> Settled(p) \cup ({granted} \ {None}),
             granted |-> granted, lost |-> lost,
             check |-> IF Blocked(p) = {} THEN None ELSE Updated(p, granted).left]]
       /\ needsUpdate' = [needsUpdate EXCEPT ![p] = modifies]
       /\ notices' = IF modifies THEN notices \cup (Processes \ {p}) ELSE notices
       /\ slept' = [slept EXCEPT ![p] = IF lost = {} THEN 0 ELSE @]
       /\ UNCHANGED <<requests, locks, checks, suspended, issued, budget>>

BeginUpdate(p) ==
    /\ Idle(p)
    /\ needsUpdate[p]
    /\ \E granted \in Requests \cup {None} : Update(p, granted)
    /\ UNCHANGED keepAlive

\* (mutant) No timer is set for a lock that is due to expire.
FinishUpdateUnchecked(p) ==
    LET held == (locks[p] \cup ({pass[p].granted} \ {None})) \ pass[p].lost
    IN /\ Runs(p)
       /\ pass[p] # None
       /\ requests' = [requests EXCEPT ![p] = @ \ pass[p].processed]
       /\ locks' = [locks EXCEPT ![p] = held]
       /\ keepAlive' = [keepAlive EXCEPT ![p] = IF held # {} /\ @ = None THEN KeepAlive ELSE @]
       /\ pass' = [pass EXCEPT ![p] = None]
       /\ UNCHANGED <<database, released, invalidated, needsUpdate, checks, notices,
                      suspended, slept, issued, budget>>

\* Second part of -_updateLocks: requesters are told, the expiration handlers
\* of lost locks are called, and the timers are set.
FinishUpdate(p) ==
    LET held == (locks[p] \cup ({pass[p].granted} \ {None})) \ pass[p].lost
    IN /\ Runs(p)
       /\ pass[p] # None
       /\ requests' = [requests EXCEPT ![p] = @ \ pass[p].processed]
       /\ locks' = [locks EXCEPT ![p] = held]
       /\ checks' = [checks EXCEPT ![p] = @ \cup ({pass[p].check} \ {None})]
       /\ keepAlive' = [keepAlive EXCEPT ![p] = IF held # {} /\ @ = None THEN KeepAlive ELSE @]
       /\ pass' = [pass EXCEPT ![p] = None]
       /\ UNCHANGED <<database, released, invalidated, needsUpdate, notices, suspended,
                      slept, issued, budget>>

\* The keep-alive timer makes a pass, unless one is imminent.
KeepAliveFires(p) ==
    /\ Idle(p)
    /\ keepAlive[p] = 0
    /\ keepAlive' = [keepAlive EXCEPT ![p] = None]
    /\ \/ /\ needsUpdate[p]
          /\ UNCHANGED <<database, requests, locks, released, needsUpdate, pass, checks,
                         invalidated, notices, suspended, slept, issued, budget>>
       \/ /\ ~needsUpdate[p]
          /\ \E granted \in Requests \cup {None} : Update(p, granted)

-----------------------------------------------------------------------------
(* What queues passes.                                                     *)

SetNeedsLockUpdate(p) == needsUpdate' = [needsUpdate EXCEPT ![p] = TRUE]

CheckFires(p) ==
    /\ Idle(p)
    /\ 0 \in checks[p]
    /\ checks' = [checks EXCEPT ![p] = @ \ {0}]
    /\ SetNeedsLockUpdate(p)
    /\ UNCHANGED <<database, requests, locks, released, pass, keepAlive, invalidated,
                   notices, suspended, slept, issued, budget>>

\* The store tells a process that the database has changed.
Notify(p) ==
    /\ Runs(p)
    /\ p \in notices
    /\ notices' = notices \ {p}
    /\ SetNeedsLockUpdate(p)
    /\ UNCHANGED <<database, requests, locks, released, pass, keepAlive, checks,
                   invalidated, suspended, slept, issued, budget>>

Spend(b) == budget[b] > 0 /\ budget' = [budget EXCEPT ![b] = @ - 1]

\* -requestLock:
RequestLock(p) ==
    LET r == issued + 1
    IN /\ Runs(p)
       /\ Spend("requests")
       /\ r \in Own(p)
       /\ issued' = r
       /\ requests' = [requests EXCEPT ![p] = @ \cup {r}]
       /\ SetNeedsLockUpdate(p)
       /\ UNCHANGED <<database, locks, released, pass, keepAlive, checks, invalidated,
                      notices, suspended, slept>>

\* -releaseLock: of a lock the process still counts among its own
ReleaseLock(p, r) ==
    /\ Runs(p)
    /\ r \in locks[p]
    /\ locks' = [locks EXCEPT ![p] = @ \ {r}]
    /\ released' = [released EXCEPT ![p] = @ \cup {r}]
    /\ SetNeedsLockUpdate(p)
    /\ UNCHANGED <<database, requests, pass, keepAlive, checks, invalidated, notices,
                   suspended, slept, issued, budget>>

\* -[OCLockRequest invalidate]
Invalidate(p, r) ==
    /\ Runs(p)
    /\ r \in requests[p] \ invalidated
    /\ Spend("invalidations")
    /\ invalidated' = invalidated \cup {r}
    /\ UNCHANGED <<database, managers, notices, suspended, slept, issued>>

-----------------------------------------------------------------------------
(* The system.                                                             *)

Suspend(p) ==
    /\ Runs(p)
    /\ Spend("suspensions")
    /\ suspended' = suspended \cup {p}
    /\ UNCHANGED <<database, managers, invalidated, notices, slept, issued>>

Resume(p) ==
    /\ p \in suspended
    /\ suspended' = suspended \ {p}
    /\ UNCHANGED <<database, managers, invalidated, notices, slept, issued, budget>>

\* A process that crashes leaves its lock in the database.
Crash(p) ==
    /\ Spend("crashes")
    /\ requests' = [requests EXCEPT ![p] = {}]
    /\ locks' = [locks EXCEPT ![p] = {}]
    /\ released' = [released EXCEPT ![p] = {}]
    /\ needsUpdate' = [needsUpdate EXCEPT ![p] = FALSE]
    /\ pass' = [pass EXCEPT ![p] = None]
    /\ keepAlive' = [keepAlive EXCEPT ![p] = None]
    /\ checks' = [checks EXCEPT ![p] = {}]
    /\ notices' = notices \ {p}
    /\ suspended' = suspended \ {p}
    /\ slept' = [slept EXCEPT ![p] = 0]
    /\ UNCHANGED <<database, invalidated, issued>>

Less(n) == IF n = 0 THEN 0 ELSE n - 1

\* A process that is not suspended keeps up with its queue and its timers.
KeepsUp(p) == pass[p] = None /\ ~needsUpdate[p] /\ keepAlive[p] # 0 /\ 0 \notin checks[p]

Counts(p) == locks[p] # {} \/ pass[p] # None

Tick ==
    /\ \A p \in Processes : Runs(p) => KeepsUp(p)
    /\ database' = [database EXCEPT !.left = Less(@)]
    /\ keepAlive' = [p \in Processes |->
            IF keepAlive[p] = None THEN None ELSE Less(keepAlive[p])]
    /\ checks' = [p \in Processes |-> {Less(c) : c \in checks[p]}]
    /\ slept' = [p \in Processes |->
            IF p \in suspended /\ Counts(p) /\ slept[p] < Tolerance
            THEN slept[p] + 1 ELSE slept[p]]
    /\ UNCHANGED <<requests, locks, released, needsUpdate, pass, invalidated, notices,
                   suspended, issued, budget>>

Manage(p) == BeginUpdate(p) \/ FinishUpdate(p) \/ KeepAliveFires(p) \/ CheckFires(p) \/ Notify(p)

Next ==
    \/ \E p \in Processes :
        \/ Manage(p) \/ RequestLock(p)
        \/ Suspend(p) \/ Resume(p) \/ Crash(p)
        \/ \E r \in Requests : ReleaseLock(p, r) \/ Invalidate(p, r)
    \/ Tick

\* Time passes, managers get to run, suspended processes run again, and
\* holders release their locks.
Fairness ==
    /\ WF_vars(Tick)
    /\ \A p \in Processes :
        /\ WF_vars(Manage(p))
        /\ WF_vars(Resume(p))
        /\ WF_vars(\E r \in Requests : ReleaseLock(p, r))

Spec == Init /\ [][Next]_vars /\ Fairness

-----------------------------------------------------------------------------
(* Properties.                                                             *)

\* Those who were given a lock and neither released it nor were told that it
\* is lost.
Holders == UNION {locks[p] : p \in Processes}

\* Two processes never believe to hold the lock, unless one of them was not
\* run for the time by which a renewal comes before the lock expires: timers
\* that skip renewals, releases and requests during a pass, and passes of
\* others never cost a holder its lock.
Exclusive ==
    \A r, q \in Holders :
        r # q => slept[OwnerOf[r]] = Tolerance \/ slept[OwnerOf[q]] = Tolerance

\* A request is answered or given up with its process, although its own
\* process may be the last to learn that the lock is free: also after the
\* holder crashed.
EventuallyServed ==
    \A r \in Requests : (\E p \in Processes : r \in requests[p]) ~> (\A p \in Processes : r \notin requests[p])

\* What requesters see of the managers is what the abstract service promises:
\* a lock is only given while it is nobody else's, a process only loses one
\* that it overslept, and it has recovered once it has found its own.
Late == {p \in Processes : slept[p] = Tolerance}
Service == INSTANCE LockService WITH waiting <- requests, held <- locks, late <- Late
ImplementsService == Service!ServiceSpec
=============================================================================
