---------------------------- MODULE LockService ----------------------------
(***************************************************************************)
(* What those who lock a resource of the app group see of OCLockManager:   *)
(* the requests they wait for (waiting), the locks they were given and     *)
(* were not told to have lost (held).                                      *)
(*                                                                         *)
(* A process that is suspended for too long (late) may lose its lock to    *)
(* another one, and learns of it, or finds its lock unharmed, only later.  *)
(***************************************************************************)

CONSTANTS
    Processes,      \* processes of the app group
    Requests        \* requests they make

VARIABLES waiting, held, late

service == <<waiting, held, late>>

ServiceTypeOK ==
    /\ waiting \in [Processes -> SUBSET Requests]
    /\ held \in [Processes -> SUBSET Requests]
    /\ late \in SUBSET Processes

ServiceInit ==
    /\ waiting = [p \in Processes |-> {}]
    /\ held = [p \in Processes |-> {}]
    /\ late = {}

\* Of two different locks, one is that of a process that is late.
Apart(h, l) ==
    \A p, q \in Processes : \A r \in h[p], s \in h[q] : r # s => p \in l \/ q \in l

\* -requestLock:
Ask(p, r) ==
    /\ r \notin waiting[p] \cup held[p]
    /\ waiting' = [waiting EXCEPT ![p] = @ \cup {r}]
    /\ UNCHANGED <<held, late>>

\* A pass ends: some requests are answered, one of them with the lock, and
\* some locks turn out to be lost.
Answer(p, answered, granted, lost) ==
    /\ granted \subseteq answered
    /\ answered \subseteq waiting[p]
    /\ \A r, s \in granted : r = s
    /\ lost # {} => p \in late
    /\ waiting' = [waiting EXCEPT ![p] = @ \ answered]
    /\ held' = [held EXCEPT ![p] = (@ \cup granted) \ lost]
    /\ Apart(held', late)
    /\ UNCHANGED late

\* -releaseLock:
Release(p, r) ==
    /\ r \in held[p]
    /\ held' = [held EXCEPT ![p] = @ \ {r}]
    /\ UNCHANGED <<waiting, late>>

\* Nothing of a process outlives it.
Die(p) ==
    /\ waiting' = [waiting EXCEPT ![p] = {}]
    /\ held' = [held EXCEPT ![p] = {}]
    /\ late' = late \ {p}

\* Processes are not run for too long.
Oversleep(S) ==
    /\ late' = late \cup S
    /\ UNCHANGED <<waiting, held>>

\* A pass finds that the process has lost nothing.
Recover(p) ==
    /\ Apart(held, late \ {p})
    /\ late' = late \ {p}
    /\ UNCHANGED <<waiting, held>>

ServiceNext ==
    \/ \E p \in Processes :
        \/ \E r \in Requests : Ask(p, r) \/ Release(p, r)
        \/ \E answered, granted, lost \in SUBSET Requests : Answer(p, answered, granted, lost)
        \/ Die(p) \/ Recover(p)
    \/ \E S \in SUBSET Processes : Oversleep(S)

ServiceSpec == ServiceInit /\ [][ServiceNext]_service
=============================================================================
