------------------------- MODULE LockManager_proofs -------------------------
(***************************************************************************)
(* Theorems about LockManager, for any processes, requests and intervals:  *)
(* TypeCorrect and MutualExclusion.                                        *)
(*                                                                         *)
(* A lock whose holder has not been suspended for too long is in the       *)
(* database, and has more time left than the keep-alive timer needs        *)
(* (Kept).  What one process does to the database spares the locks of the  *)
(* others, since those are neither expired nor released (Ownership).       *)
(***************************************************************************)
EXTENDS LockManager, TLAPS

\* A request is at most one of: on the list, held, and released; each of its
\* own process.
Ownership ==
    \A p \in Processes :
        /\ requests[p] \cup locks[p] \cup released[p] \subseteq {r \in Own(p) : r <= issued}
        /\ requests[p] \cap (locks[p] \cup released[p]) = {}
        /\ locks[p] \cap released[p] = {}
        /\ pass[p] # None /\ pass[p].granted # None =>
            pass[p].granted \in requests[p] \cap pass[p].processed

\* A pass that finds a lock lost is one of a process that slept too long.
LostLate ==
    \A p \in Processes : pass[p] # None /\ pass[p].lost # {} => slept[p] = Tolerance

\* Time until the keep-alive timer fires.
Timer(p) == IF keepAlive[p] = None THEN 0 ELSE keepAlive[p]

\* The locks of a process that did not sleep too long, and the one it is about
\* to be given, are safe in the database.
KeptBy(p) ==
    slept[p] < Tolerance =>
        /\ \A r \in locks[p] :
            /\ database.lock = r
            /\ pass[p] = None =>
                /\ database.left + slept[p] >= Tolerance + Timer(p)
                /\ keepAlive[p] = None => needsUpdate[p]
            /\ pass[p] # None => database.left + slept[p] >= RenewBelow
        /\ pass[p] # None /\ pass[p].granted # None =>
            /\ database.lock = pass[p].granted
            /\ database.left + slept[p] >= RenewBelow

Kept == \A p \in Processes : KeptBy(p)

IInv == TypeOK /\ Ownership /\ LostLate /\ Kept

-----------------------------------------------------------------------------
(* Type correctness.                                                       *)

Timers == [Processes -> 0 .. KeepAlive \cup {None}]

LEMMA TypeUpdate ==
    ASSUME TypeOK, NEW p \in Processes, NEW granted \in Requests \cup {None},
           Update(p, granted), keepAlive' \in Timers
    PROVE  TypeOK'
<1> USE LockAssumption
<1>1. Expiry \in Nat /\ database \in [lock : Requests \cup {None}, left : 0 .. Expiry]
  BY DEF TypeOK
<1>2. Updated(p, granted) \in [lock : Requests \cup {None}, left : 0 .. Expiry]
  BY <1>1 DEF Updated
<1>3. Settled(p) \subseteq Requests /\ Blocked(p) \subseteq Requests
  BY DEF TypeOK, Settled, Blocked
<1>4. Updated(p, granted).left \in Nat
  BY <1>1, <1>2
<1>5. pass' \in [Processes -> Passes \cup {None}]
  <2> DEFINE lost == locks[p] \ (IF Purges(p) THEN {} ELSE {database.lock})
             new == [processed |-> Settled(p) \cup ({granted} \ {None}),
                     granted |-> granted, lost |-> lost,
                     check |-> IF Blocked(p) = {} THEN None ELSE Updated(p, granted).left]
  <2>1. new \in Passes
    <3>1. lost \subseteq Requests
      BY DEF TypeOK
    <3>2. Settled(p) \cup ({granted} \ {None}) \subseteq Requests
      BY <1>3
    <3> HIDE DEF lost
    <3>3. QED
      BY <1>4, <3>1, <3>2 DEF Passes
  <2>2. pass' = [pass EXCEPT ![p] = new]
    BY DEF Update
  <2> HIDE DEF new
  <2>3. QED
    BY <2>1, <2>2 DEF TypeOK
<1>6. slept' \in [Processes -> 0 .. Tolerance]
  <2>1. 0 \in 0 .. Tolerance
    BY DEF Tolerance
  <2>2. PICK b \in BOOLEAN : slept' = [slept EXCEPT ![p] = IF b THEN 0 ELSE @]
    BY DEF Update
  <2>3. QED
    BY <2>1, <2>2 DEF TypeOK
<1>7. invalidated' \in SUBSET Requests
  BY <1>3 DEF Update, TypeOK
<1>8. notices' \in SUBSET Processes
  BY DEF Update, TypeOK
<1>9. needsUpdate' \in [Processes -> BOOLEAN]
  <2>1. PICK b \in BOOLEAN : needsUpdate' = [needsUpdate EXCEPT ![p] = b]
    BY Zenon DEF Update
  <2>2. QED
    BY <2>1 DEF TypeOK
<1>10. released' \in [Processes -> SUBSET Requests]
  BY DEF Update, TypeOK
<1>11. /\ database' = Updated(p, granted)
       /\ UNCHANGED <<requests, locks, checks, suspended, issued, budget>>
  BY DEF Update
<1>12. QED
  BY <1>2, <1>5, <1>6, <1>7, <1>8, <1>9, <1>10, <1>11 DEF TypeOK, Timers

LEMMA TypeTick ==
    ASSUME TypeOK, Tick
    PROVE  TypeOK'
<1> USE LockAssumption
<1>1. \A n \in Nat : Less(n) \in Nat /\ Less(n) <= n
  BY DEF Less
<1>2. database' \in [lock : Requests \cup {None}, left : 0 .. Expiry]
  BY <1>1 DEF Tick, TypeOK
<1>3. keepAlive' \in [Processes -> 0 .. KeepAlive \cup {None}]
  BY <1>1 DEF Tick, TypeOK
<1>4. checks' \in [Processes -> SUBSET Nat]
  BY <1>1 DEF Tick, TypeOK
<1>5. slept' \in [Processes -> 0 .. Tolerance]
  BY DEF Tick, TypeOK, Tolerance
<1>6. QED
  BY <1>2, <1>3, <1>4, <1>5 DEF Tick, TypeOK

LEMMA TypeStep ==
    ASSUME TypeOK, [Next]_vars
    PROVE  TypeOK'
<1> USE LockAssumption
<1>1. SUFFICES ASSUME Next PROVE TypeOK'
  BY DEF TypeOK, vars, managers
<1>2. ASSUME NEW p \in Processes, BeginUpdate(p) PROVE TypeOK'
  <2>1. keepAlive' \in Timers
    BY <1>2 DEF BeginUpdate, TypeOK, Timers
  <2>2. QED
    BY <1>2, <2>1, TypeUpdate DEF BeginUpdate
<1>3. ASSUME NEW p \in Processes, FinishUpdate(p) PROVE TypeOK'
  <2>1. pass[p] \in Passes
    BY <1>3 DEF FinishUpdate, TypeOK
  <2>2. /\ pass[p].processed \subseteq Requests /\ pass[p].granted \in Requests \cup {None}
        /\ pass[p].check \in Nat \cup {None}
    BY <2>1 DEF Passes
  <2>3. requests' \in [Processes -> SUBSET Requests]
    BY <1>3 DEF FinishUpdate, TypeOK
  <2>4. locks' \in [Processes -> SUBSET Requests]
    BY <1>3, <2>2 DEF FinishUpdate, TypeOK
  <2>5. checks' \in [Processes -> SUBSET Nat]
    BY <1>3, <2>2 DEF FinishUpdate, TypeOK
  <2>6. keepAlive' \in [Processes -> 0 .. KeepAlive \cup {None}]
    BY <1>3 DEF FinishUpdate, TypeOK
  <2>7. pass' \in [Processes -> Passes \cup {None}]
    BY <1>3 DEF FinishUpdate, TypeOK
  <2>8. QED
    BY <1>3, <2>3, <2>4, <2>5, <2>6, <2>7 DEF FinishUpdate, TypeOK
<1>4. ASSUME NEW p \in Processes, KeepAliveFires(p) PROVE TypeOK'
  <2>1. keepAlive' \in Timers
    BY <1>4 DEF KeepAliveFires, TypeOK, Timers
  <2>2. CASE needsUpdate[p]
    BY <1>4, <2>1, <2>2 DEF KeepAliveFires, TypeOK, Timers
  <2>3. CASE ~needsUpdate[p]
    BY <1>4, <2>1, <2>3, TypeUpdate DEF KeepAliveFires
  <2>4. QED
    BY <2>2, <2>3
<1>5. ASSUME NEW p \in Processes, CheckFires(p) \/ Notify(p) PROVE TypeOK'
  <2>1. needsUpdate' \in [Processes -> BOOLEAN]
    BY <1>5 DEF CheckFires, Notify, SetNeedsLockUpdate, TypeOK
  <2>2. checks' \in [Processes -> SUBSET Nat]
    BY <1>5 DEF CheckFires, Notify, TypeOK
  <2>3. notices' \in SUBSET Processes
    BY <1>5 DEF CheckFires, Notify, TypeOK
  <2>4. QED
    BY <1>5, <2>1, <2>2, <2>3 DEF CheckFires, Notify, TypeOK
<1>6. ASSUME NEW p \in Processes, RequestLock(p) PROVE TypeOK'
  <2>1. issued + 1 \in Requests /\ issued + 1 \in 0 .. NumRequests
    BY <1>6 DEF RequestLock, Own, Requests
  <2>2. requests' \in [Processes -> SUBSET Requests]
    BY <1>6, <2>1 DEF RequestLock, TypeOK
  <2>3. budget' \in [Bounded -> Nat]
    BY <1>6 DEF RequestLock, Spend, TypeOK, Bounded
  <2>4. QED
    BY <1>6, <2>1, <2>2, <2>3 DEF RequestLock, SetNeedsLockUpdate, TypeOK
<1>7. ASSUME NEW p \in Processes, NEW r \in Requests, ReleaseLock(p, r) PROVE TypeOK'
  BY <1>7 DEF ReleaseLock, SetNeedsLockUpdate, TypeOK
<1>8. ASSUME NEW p \in Processes, NEW r \in Requests, Invalidate(p, r) PROVE TypeOK'
  BY <1>8 DEF Invalidate, Spend, managers, TypeOK, Bounded
<1>9. ASSUME NEW p \in Processes, Suspend(p) \/ Resume(p) PROVE TypeOK'
  BY <1>9 DEF Suspend, Resume, Spend, managers, TypeOK, Bounded
<1>10. ASSUME NEW p \in Processes, Crash(p) PROVE TypeOK'
  <2>1. budget' \in [Bounded -> Nat]
    BY <1>10 DEF Crash, Spend, TypeOK, Bounded
  <2>2. slept' \in [Processes -> 0 .. Tolerance]
    BY <1>10 DEF Crash, TypeOK, Tolerance
  <2>3. QED
    BY <1>10, <2>1, <2>2 DEF Crash, TypeOK
<1>11. QED
  BY <1>1, <1>2, <1>3, <1>4, <1>5, <1>6, <1>7, <1>8, <1>9, <1>10, TypeTick DEF Next, Manage

LEMMA TypeInit == Init => TypeOK
  BY LockAssumption DEF Init, TypeOK, Tolerance

\* The state of the lock managers is well typed (-_updateLocks and its callers).
THEOREM TypeCorrect == Spec => []TypeOK
  BY TypeInit, TypeStep, PTL DEF Spec

-----------------------------------------------------------------------------
(* Mutual exclusion.                                                       *)

LEMMA OwnershipStep ==
    ASSUME TypeOK, Ownership, [Next]_vars
    PROVE  Ownership'
<1> USE LockAssumption
<1>1. SUFFICES ASSUME Next, NEW q \in Processes
               PROVE  /\ requests'[q] \cup locks'[q] \cup released'[q]
                            \subseteq {r \in Own(q) : r <= issued'}
                      /\ requests'[q] \cap (locks'[q] \cup released'[q]) = {}
                      /\ locks'[q] \cap released'[q] = {}
                      /\ pass'[q] # None /\ pass'[q].granted # None =>
                            pass'[q].granted \in requests'[q] \cap pass'[q].processed
  BY DEF Ownership, vars, managers, Own
<1> DEFINE Owned(n, S, l, x, a) ==
        /\ S \cup l \cup x \subseteq {r \in Own(q) : r <= n}
        /\ S \cap (l \cup x) = {}
        /\ l \cap x = {}
        /\ a # None /\ a.granted # None => a.granted \in S \cap a.processed
<1>2. Owned(issued, requests[q], locks[q], released[q], pass[q])
  BY DEF Ownership
<1>3. ASSUME NEW p \in Processes, NEW granted \in Requests \cup {None}, Update(p, granted)
      PROVE Owned(issued', requests'[q], locks'[q], released'[q], pass'[q])
  <2>1. granted # None => granted \in requests[p]
    BY <1>3 DEF Update, Grants, Candidates
  <2>2. UNCHANGED <<issued, requests, locks>>
    BY <1>3 DEF Update
  <2>3. released'[q] \subseteq released[q]
    BY <1>3 DEF Update, TypeOK
  <2>4. \/ pass'[q] = pass[q]
        \/ p = q /\ pass'[q].granted = granted /\ (granted # None => granted \in pass'[q].processed)
    BY <1>3 DEF Update, TypeOK
  <2>5. QED
    BY <1>2, <2>1, <2>2, <2>3, <2>4
<1>4. ASSUME NEW p \in Processes, FinishUpdate(p)
      PROVE Owned(issued', requests'[q], locks'[q], released'[q], pass'[q])
  <2>1. UNCHANGED <<issued, released>>
    BY <1>4 DEF FinishUpdate
  <2>2. CASE p # q
    <3>1. requests'[q] = requests[q] /\ locks'[q] = locks[q] /\ pass'[q] = pass[q]
      BY <1>4, <2>2 DEF FinishUpdate, TypeOK
    <3>2. QED
      BY <1>2, <2>1, <3>1
  <2>3. CASE p = q
    <3>1. /\ requests'[q] = requests[q] \ pass[q].processed
          /\ locks'[q] = (locks[q] \cup ({pass[q].granted} \ {None})) \ pass[q].lost
          /\ pass'[q] = None
          /\ pass[q] # None
      BY <1>4, <2>3 DEF FinishUpdate, TypeOK
    <3>2. pass[q].granted # None => pass[q].granted \in pass[q].processed
      BY <1>4, <3>1 DEF Ownership
    <3>3. QED
      BY <1>2, <2>1, <3>1, <3>2
  <2>4. QED
    BY <2>2, <2>3
<1>5. ASSUME NEW p \in Processes, RequestLock(p)
      PROVE Owned(issued', requests'[q], locks'[q], released'[q], pass'[q])
  <2>1. /\ issued' = issued + 1 /\ issued + 1 \in Own(p)
        /\ UNCHANGED <<locks, released, pass>>
    BY <1>5 DEF RequestLock
  <2>2. requests'[q] = IF p = q THEN requests[q] \cup {issued + 1} ELSE requests[q]
    BY <1>5 DEF RequestLock, TypeOK
  <2>3. issued \in Nat /\ \A r \in Own(q) : r \in Nat
    BY DEF TypeOK, Own, Requests
  <2>4. QED
    BY <1>2, <2>1, <2>2, <2>3
<1>6. ASSUME NEW p \in Processes, NEW r \in Requests, ReleaseLock(p, r)
      PROVE Owned(issued', requests'[q], locks'[q], released'[q], pass'[q])
  <2>1. UNCHANGED <<issued, requests, pass>>
    BY <1>6 DEF ReleaseLock
  <2>2. r \in locks[p]
    BY <1>6 DEF ReleaseLock
  <2>3. /\ locks'[q] = IF p = q THEN locks[q] \ {r} ELSE locks[q]
        /\ released'[q] = IF p = q THEN released[q] \cup {r} ELSE released[q]
    BY <1>6 DEF ReleaseLock, TypeOK
  <2>4. QED
    BY <1>2, <2>1, <2>2, <2>3
<1>7. ASSUME NEW p \in Processes, Crash(p)
      PROVE Owned(issued', requests'[q], locks'[q], released'[q], pass'[q])
  <2>1. /\ requests'[q] = IF p = q THEN {} ELSE requests[q]
        /\ locks'[q] = IF p = q THEN {} ELSE locks[q]
        /\ released'[q] = IF p = q THEN {} ELSE released[q]
        /\ pass'[q] = IF p = q THEN None ELSE pass[q]
        /\ issued' = issued
    BY <1>7 DEF Crash, TypeOK
  <2>2. QED
    BY <1>2, <2>1
<1>8. ASSUME UNCHANGED <<issued, requests, locks, released, pass>>
      PROVE Owned(issued', requests'[q], locks'[q], released'[q], pass'[q])
  BY <1>2, <1>8
<1> HIDE DEF Owned
<1>9. Owned(issued', requests'[q], locks'[q], released'[q], pass'[q])
  <2>1. ASSUME NEW p \in Processes, BeginUpdate(p) \/ KeepAliveFires(p)
        PROVE Owned(issued', requests'[q], locks'[q], released'[q], pass'[q])
    BY <1>3, <1>8, <2>1 DEF BeginUpdate, KeepAliveFires
  <2>2. ASSUME NEW p \in Processes, CheckFires(p) \/ Notify(p) \/ Suspend(p) \/ Resume(p)
        PROVE Owned(issued', requests'[q], locks'[q], released'[q], pass'[q])
    BY <1>8, <2>2 DEF CheckFires, Notify, Suspend, Resume, managers
  <2>3. ASSUME NEW p \in Processes, NEW r \in Requests, Invalidate(p, r)
        PROVE Owned(issued', requests'[q], locks'[q], released'[q], pass'[q])
    BY <1>8, <2>3 DEF Invalidate, managers
  <2>4. CASE Tick
    BY <1>8, <2>4 DEF Tick
  <2>5. QED
    BY <1>1, <1>4, <1>5, <1>6, <1>7, <2>1, <2>2, <2>3, <2>4 DEF Next, Manage
<1>10. QED
  BY <1>9 DEF Owned

LEMMA Numbers ==
    ASSUME TypeOK, NEW p \in Processes
    PROVE  /\ slept[p] \in Nat /\ slept[p] <= Tolerance
           /\ database.left \in Nat /\ database.left <= Expiry
           /\ Tolerance \in Nat /\ Tolerance > 0 /\ Tolerance + KeepAlive = RenewBelow
           /\ Timer(p) \in Nat /\ Timer(p) <= KeepAlive
           /\ KeepAlive \in Nat /\ RenewBelow \in Nat /\ Expiry \in Nat /\ RenewBelow <= Expiry
           /\ locks[p] \subseteq Requests /\ None \notin Requests
<1> USE LockAssumption
<1>1. slept[p] \in 0 .. Tolerance /\ database.left \in 0 .. Expiry
  BY DEF TypeOK
<1>2. keepAlive[p] \in 0 .. KeepAlive \cup {None}
  BY DEF TypeOK
<1>3. locks[p] \subseteq Requests /\ None \notin Requests
  BY DEF TypeOK, Requests
<1>4. QED
  BY <1>1, <1>2, <1>3 DEF Tolerance, Timer

\* A process that did not sleep too long finds its lock in the database.
LEMMA OwnLockFound ==
    ASSUME TypeOK, Ownership, NEW p \in Processes, KeptBy(p), slept[p] < Tolerance,
           NEW r \in locks[p]
    PROVE  database.lock = r /\ ~Purges(p)
<1>1. database.lock = r
  BY DEF KeptBy
<1>2. r \notin released[p]
  BY DEF Ownership
<1>3. QED
  BY <1>1, <1>2 DEF Purges

\* It loses nothing in its own pass,
LEMMA UpdateOwn ==
    ASSUME TypeOK, Ownership, NEW p \in Processes, KeptBy(p), pass[p] = None,
           NEW granted \in Requests \cup {None}, Update(p, granted)
    PROVE  /\ KeptBy(p)'
           /\ pass'[p] # None
           /\ pass'[p].lost # {} => slept'[p] = Tolerance
<1> USE LockAssumption
<1> DEFINE lost == locks[p] \ (IF Purges(p) THEN {} ELSE {database.lock})
<1>1. /\ pass'[p].lost = lost /\ pass'[p].granted = granted
      /\ pass'[p] # None
      /\ locks' = locks
      /\ database' = Updated(p, granted)
      /\ slept'[p] = IF lost = {} THEN 0 ELSE slept[p]
  <2>1. TypeOK' => pass'[p] \in Passes \cup {None}
    BY DEF TypeOK
  <2>2. Settled(p) \subseteq Requests /\ Blocked(p) \subseteq Requests
    BY DEF TypeOK, Settled, Blocked
  <2>3. Updated(p, granted).left \in Nat
    BY DEF TypeOK, Updated
  <2> DEFINE new == [processed |-> Settled(p) \cup ({granted} \ {None}),
                     granted |-> granted, lost |-> lost,
                     check |-> IF Blocked(p) = {} THEN None ELSE Updated(p, granted).left]
  <2>4. new \in Passes
    <3>1. lost \subseteq Requests
      BY DEF TypeOK
    <3>2. Settled(p) \cup ({granted} \ {None}) \subseteq Requests
      BY <2>2
    <3> HIDE DEF lost
    <3>3. QED
      BY <2>3, <3>1, <3>2 DEF Passes
  <2>5. pass' = [pass EXCEPT ![p] = new]
    BY DEF Update
  <2>6. pass'[p] = new /\ new.lost = lost /\ new.granted = granted
    BY <2>5 DEF TypeOK
  <2>7. slept' = [slept EXCEPT ![p] = IF lost = {} THEN 0 ELSE @]
    BY DEF Update
  <2>8. locks' = locks /\ database' = Updated(p, granted)
    BY DEF Update
  <2> HIDE DEF new, lost
  <2>9. QED
    BY <2>4, <2>6, <2>7, <2>8 DEF TypeOK
<1>2. lost # {} => slept[p] = Tolerance
  <2>1. slept[p] < Tolerance => lost = {}
    BY OwnLockFound
  <2>2. QED
    BY <2>1, Numbers
<1>3. ASSUME lost = {}
      PROVE  KeptBy(p)'
  <2>1. slept'[p] = 0
    BY <1>1, <1>3
  <2>2. \A r \in locks[p] : ~Purges(p) /\ database.lock = r
    BY <1>3
  <2>3. \A r \in locks[p] : Updated(p, granted).lock = r /\ Updated(p, granted).left >= RenewBelow
    <3> SUFFICES ASSUME NEW r \in locks[p]
                 PROVE  Updated(p, granted).lock = r /\ Updated(p, granted).left >= RenewBelow
      OBVIOUS
    <3>1. granted = None
      <4>1. database.lock # None
        BY <2>2, Numbers
      <4>2. ~IsFree(p)
        BY <2>2, <4>1 DEF IsFree
      <4>3. QED
        BY <4>2 DEF Update, Grants
    <3>2. CASE Renews(p)
      BY <2>2, <3>1, <3>2, Numbers DEF Updated, TypeOK
    <3>3. CASE ~Renews(p)
      <4>1. ~(database.left < RenewBelow)
        BY <2>2, <3>3 DEF Renews
      <4>2. Updated(p, granted) = database
        BY <2>2, <3>1, <3>3 DEF Updated
      <4>3. QED
        BY <2>2, <4>1, <4>2, Numbers
    <3>4. QED
      BY <3>2, <3>3
  <2>4. granted # None => Updated(p, granted).lock = granted /\ Updated(p, granted).left >= RenewBelow
    BY Numbers DEF Updated
  <2>5. database'.left \in Nat
    BY <1>1, Numbers DEF Updated, TypeOK
  <2> HIDE DEF lost
  <2>6. QED
    BY <1>1, <2>1, <2>3, <2>4, <2>5, Numbers DEF KeptBy
<1>4. ASSUME lost # {}
      PROVE  KeptBy(p)' /\ slept'[p] = Tolerance
  <2>1. slept'[p] = Tolerance
    BY <1>1, <1>2, <1>4
  <2>2. QED
    BY <2>1, Numbers DEF KeptBy, Tolerance
<1> HIDE DEF lost
<1>5. QED
  BY <1>1, <1>3, <1>4

\* nor in the pass of another one.
LEMMA UpdateOther ==
    ASSUME TypeOK, Ownership, NEW p \in Processes, NEW q \in Processes, p # q, KeptBy(q),
           NEW granted \in Requests \cup {None}, Update(p, granted)
    PROVE  database' = database \/ ~(slept[q] < Tolerance) \/
           (locks[q] = {} /\ (pass[q] = None \/ pass[q].granted = None))
<1> USE LockAssumption
<1>1. SUFFICES ASSUME slept[q] < Tolerance, NEW r,
                      r \in locks[q] \/ (pass[q] # None /\ pass[q].granted = r /\ r # None)
               PROVE  database' = database
  OBVIOUS
<1>2. r \in Own(q) /\ r # None
  BY <1>1 DEF Ownership, Own, Requests
<1>3. database.lock = r /\ database.left > 0
  BY <1>1, Numbers DEF KeptBy
<1>4. r \notin locks[p] /\ r \notin released[p]
  BY <1>2 DEF Ownership, Own
<1>5. ~Purges(p) /\ ~Renews(p) /\ ~IsFree(p)
  BY <1>2, <1>3, <1>4, Numbers DEF Purges, Renews, IsFree
<1>6. granted = None
  BY <1>5 DEF Update, Grants
<1>7. QED
  BY <1>5, <1>6 DEF Update, Updated

LEMMA KeptUpdate ==
    ASSUME TypeOK, Ownership, Kept, LostLate,
           NEW p \in Processes, pass[p] = None,
           NEW granted \in Requests \cup {None}, Update(p, granted),
           \A q \in Processes : q # p => keepAlive'[q] = keepAlive[q]
    PROVE  Kept' /\ LostLate'
<1>1. SUFFICES ASSUME NEW q \in Processes
               PROVE  KeptBy(q)' /\ (pass'[q] # None /\ pass'[q].lost # {} => slept'[q] = Tolerance)
  BY DEF Kept, LostLate, Tolerance
<1>2. CASE q = p
  BY <1>2, UpdateOwn DEF Kept
<1>3. CASE q # p
  <2>1. /\ locks'[q] = locks[q] /\ pass'[q] = pass[q] /\ slept'[q] = slept[q]
        /\ keepAlive'[q] = keepAlive[q] /\ needsUpdate'[q] = needsUpdate[q]
    BY <1>3 DEF Update, TypeOK
  <2>2. KeptBy(q)
    BY DEF Kept
  <2>3. \/ database' = database \/ ~(slept[q] < Tolerance)
        \/ locks[q] = {} /\ (pass[q] = None \/ pass[q].granted = None)
    BY <1>3, <2>2, UpdateOther
  <2>4. KeptBy(q)'
    BY <2>1, <2>2, <2>3 DEF KeptBy, Timer, Tolerance
  <2>5. QED
    BY <2>1, <2>4 DEF LostLate
<1>4. QED
  BY <1>2, <1>3

LEMMA KeptFinish ==
    ASSUME TypeOK, Ownership, Kept, LostLate, NEW p \in Processes, FinishUpdate(p)
    PROVE  Kept' /\ LostLate'
<1> USE LockAssumption
<1>1. SUFFICES ASSUME NEW q \in Processes
               PROVE  KeptBy(q)' /\ (pass'[q] # None /\ pass'[q].lost # {} => slept'[q] = Tolerance)
  BY DEF Kept, LostLate, Tolerance
<1>2. database' = database /\ slept' = slept /\ needsUpdate' = needsUpdate
  BY DEF FinishUpdate
<1>3. CASE q # p
  <2>1. locks'[q] = locks[q] /\ pass'[q] = pass[q] /\ keepAlive'[q] = keepAlive[q]
    BY <1>3 DEF FinishUpdate, TypeOK
  <2>2. QED
    BY <1>2, <2>1 DEF Kept, KeptBy, LostLate, Timer, Tolerance
<1>4. CASE q = p
  <2> DEFINE held == (locks[p] \cup ({pass[p].granted} \ {None})) \ pass[p].lost
  <2>1. /\ locks'[q] = held /\ pass'[q] = None /\ pass[p] # None
        /\ keepAlive'[q] = IF held # {} /\ keepAlive[p] = None THEN KeepAlive ELSE keepAlive[p]
    BY <1>4 DEF FinishUpdate, TypeOK
  <2>2. KeptBy(p)
    BY DEF Kept
  <2>3. slept[p] < Tolerance =>
            \A r \in held : database.lock = r /\ database.left + slept[p] >= RenewBelow
    BY <2>1, <2>2 DEF KeptBy
  <2>4. held # {} => keepAlive'[q] # None
    BY <2>1
  <2>5. Timer(q)' \in Nat /\ Timer(q)' <= KeepAlive
    <3>1. keepAlive'[q] \in 0 .. KeepAlive \cup {None}
      BY <1>4, <2>1 DEF TypeOK
    <3>2. QED
      BY <3>1 DEF Timer
  <2>6. KeptBy(q)'
    <3> HIDE DEF held
    <3>1. SUFFICES ASSUME slept[p] < Tolerance, NEW r \in held
                   PROVE  /\ database.lock = r
                          /\ database.left + slept[p] >= Tolerance + Timer(q)'
                          /\ keepAlive'[q] # None
      BY <1>2, <1>4, <2>1 DEF KeptBy, Tolerance
    <3>2. QED
      BY <2>3, <2>4, <2>5, <3>1, Numbers
  <2>7. QED
    BY <2>1, <2>6
<1>5. QED
  BY <1>3, <1>4

LEMMA KeptTick ==
    ASSUME TypeOK, Kept, LostLate, Tick
    PROVE  Kept' /\ LostLate'
<1> USE LockAssumption
<1>1. SUFFICES ASSUME NEW q \in Processes
               PROVE  KeptBy(q)' /\ (pass'[q] # None /\ pass'[q].lost # {} => slept'[q] = Tolerance)
  BY DEF Kept, LostLate, Tolerance
<1>2. /\ pass' = pass /\ locks' = locks /\ needsUpdate' = needsUpdate
      /\ database' = [database EXCEPT !.left = Less(@)]
  BY DEF Tick
<1>3. slept'[q] = IF q \in suspended /\ Counts(q) /\ slept[q] < Tolerance
                  THEN slept[q] + 1 ELSE slept[q]
  BY DEF Tick
<1>4. keepAlive'[q] = IF keepAlive[q] = None THEN None ELSE Less(keepAlive[q])
  BY DEF Tick
<1>5. database'.lock = database.lock /\ database'.left = Less(database.left)
  BY <1>2 DEF TypeOK
<1>6. keepAlive[q] \in 0 .. KeepAlive \cup {None}
  BY DEF TypeOK
<1>7. keepAlive[q] # None => Less(keepAlive[q]) \in Nat /\ Less(keepAlive[q]) # None
  <2>1. SUFFICES ASSUME keepAlive[q] # None
                 PROVE  Less(keepAlive[q]) \in Nat /\ Less(keepAlive[q]) # None
    OBVIOUS
  <2>2. Less(keepAlive[q]) \in Nat
    BY <1>6, <2>1 DEF Less
  <2>3. QED
    BY <2>2
<1>8. Timer(q)' = Less(Timer(q))
  BY <1>4, <1>6, <1>7 DEF Timer, Less
<1>9. pass'[q] # None /\ pass'[q].lost # {} => slept'[q] = Tolerance
  <2>1. SUFFICES ASSUME pass[q] # None, pass[q].lost # {}
                 PROVE  slept'[q] = Tolerance
    BY <1>2
  <2>2. slept[q] = Tolerance
    BY <2>1 DEF LostLate
  <2>3. QED
    BY <1>3, <2>2, Numbers
<1>10. KeptBy(q)'
  <2>1. SUFFICES ASSUME slept'[q] < Tolerance PROVE KeptBy(q)'
    BY DEF KeptBy, Tolerance
  <2>2. slept[q] < Tolerance
    BY <1>3, <2>1, Numbers
  <2>3. KeptBy(q)
    BY DEF Kept
  <2>4. ASSUME Counts(q), q \notin suspended
        PROVE  KeptBy(q)'
    <3>1. pass[q] = None /\ ~needsUpdate[q] /\ keepAlive[q] # 0
      BY <2>4 DEF Tick, Runs, KeepsUp
    <3>2. SUFFICES ASSUME NEW r \in locks[q]
                   PROVE  /\ database.lock = r
                          /\ database'.left + slept'[q] >= Tolerance + Timer(q)'
                          /\ keepAlive'[q] # None
      BY <1>2, <1>5, <3>1 DEF KeptBy, Tolerance
    <3>3. /\ database.lock = r /\ keepAlive[q] # None
          /\ database.left + slept[q] >= Tolerance + Timer(q)
      BY <2>2, <2>3, <3>1 DEF KeptBy
    <3>4. Timer(q) > 0
      BY <1>6, <3>1, <3>3 DEF Timer
    <3>5. QED
      BY <1>3, <1>4, <1>5, <1>7, <1>8, <2>2, <2>4, <3>3, <3>4, Numbers DEF Less
  <2>5. ASSUME Counts(q), q \in suspended
        PROVE  KeptBy(q)'
    <3>1. slept'[q] = slept[q] + 1
      BY <1>3, <2>2, <2>5
    <3>2. \A n \in Nat : database.left + slept[q] >= n => database'.left + slept'[q] >= n
      BY <1>5, <3>1, Numbers DEF Less
    <3>3. Timer(q)' <= Timer(q) /\ Timer(q)' \in Nat
      BY <1>8, Numbers DEF Less
    <3>4. \A r \in locks[q] : pass[q] = None =>
              /\ database'.left + slept'[q] >= Tolerance + Timer(q)'
              /\ keepAlive'[q] = None => needsUpdate[q]
      <4>1. SUFFICES ASSUME NEW r \in locks[q], pass[q] = None
                     PROVE  /\ database'.left + slept'[q] >= Tolerance + Timer(q)'
                            /\ keepAlive'[q] = None => needsUpdate[q]
        OBVIOUS
      <4>2. /\ database.left + slept[q] >= Tolerance + Timer(q)
            /\ keepAlive[q] = None => needsUpdate[q]
        BY <2>2, <2>3, <4>1 DEF KeptBy
      <4>3. Tolerance + Timer(q) \in Nat
        BY Numbers
      <4>4. database'.left + slept'[q] >= Tolerance + Timer(q)
        BY <3>2, <4>2, <4>3
      <4>5. database'.left \in Nat /\ slept'[q] \in Nat
        BY <1>5, <3>1, Numbers DEF Less
      <4>6. QED
        BY <1>4, <1>7, <3>3, <4>2, <4>4, <4>5, Numbers
    <3>5. QED
      BY <1>2, <1>5, <2>2, <2>3, <3>2, <3>4, Numbers DEF KeptBy, Tolerance
  <2>6. ASSUME ~Counts(q)
        PROVE  KeptBy(q)'
    BY <1>2, <2>6 DEF Counts, KeptBy
  <2>7. QED
    BY <2>4, <2>5, <2>6
<1>11. QED
  BY <1>9, <1>10

\* What only queues a pass, or leaves the managers alone, keeps everything.
LEMMA KeptQueue ==
    ASSUME TypeOK, Kept, LostLate,
           UNCHANGED <<database, locks, pass, keepAlive, slept>>,
           \A q \in Processes : needsUpdate[q] => needsUpdate'[q]
    PROVE  Kept' /\ LostLate'
  BY DEF Kept, KeptBy, LostLate, Timer, Tolerance

LEMMA KeptKeepAlive ==
    ASSUME TypeOK, Ownership, Kept, LostLate, NEW p \in Processes, KeepAliveFires(p)
    PROVE  Kept' /\ LostLate'
<1> USE LockAssumption
<1>1. /\ pass[p] = None /\ keepAlive[p] = 0
      /\ keepAlive' = [keepAlive EXCEPT ![p] = None]
  BY DEF KeepAliveFires, Idle
<1>2. \A q \in Processes : q # p => keepAlive'[q] = keepAlive[q]
  BY <1>1 DEF TypeOK
<1>3. ASSUME NEW granted \in Requests \cup {None}, Update(p, granted)
      PROVE  Kept' /\ LostLate'
  BY <1>1, <1>2, <1>3, KeptUpdate
<1>4. ASSUME needsUpdate[p],
             UNCHANGED <<database, locks, needsUpdate, pass, slept>>
      PROVE  Kept' /\ LostLate'
  <2>1. Timer(p) = 0 /\ Timer(p)' = 0
    BY <1>1 DEF Timer, TypeOK
  <2>2. \A q \in Processes : Timer(q)' = Timer(q)
    BY <1>2, <2>1 DEF Timer
  <2>3. \A q \in Processes : keepAlive'[q] = None => keepAlive[q] = None \/ needsUpdate[q]
    BY <1>2, <1>4
  <2>4. QED
    BY <1>4, <2>2, <2>3 DEF Kept, KeptBy, LostLate, Tolerance
<1>5. QED
  BY <1>3, <1>4 DEF KeepAliveFires

LEMMA KeptRelease ==
    ASSUME TypeOK, Kept, LostLate, NEW p \in Processes, NEW r \in Requests, ReleaseLock(p, r)
    PROVE  Kept' /\ LostLate'
<1>1. UNCHANGED <<database, pass, keepAlive, slept>>
  BY DEF ReleaseLock
<1>2. \A q \in Processes :
        /\ locks'[q] \subseteq locks[q]
        /\ needsUpdate[q] => needsUpdate'[q]
  BY DEF ReleaseLock, SetNeedsLockUpdate, TypeOK
<1>3. QED
  BY <1>1, <1>2 DEF Kept, KeptBy, LostLate, Timer, Tolerance

LEMMA KeptCrash ==
    ASSUME TypeOK, Kept, LostLate, NEW p \in Processes, Crash(p)
    PROVE  Kept' /\ LostLate'
<1>1. SUFFICES ASSUME NEW q \in Processes
               PROVE  KeptBy(q)' /\ (pass'[q] # None /\ pass'[q].lost # {} => slept'[q] = Tolerance)
  BY DEF Kept, LostLate, Tolerance
<1>2. CASE q = p
  <2>1. locks'[q] = {} /\ pass'[q] = None
    BY <1>2 DEF Crash, TypeOK
  <2>2. QED
    BY <2>1 DEF KeptBy
<1>3. CASE q # p
  <2>1. /\ locks'[q] = locks[q] /\ pass'[q] = pass[q] /\ keepAlive'[q] = keepAlive[q]
        /\ needsUpdate'[q] = needsUpdate[q] /\ slept'[q] = slept[q] /\ database' = database
    BY <1>3 DEF Crash, TypeOK
  <2>2. QED
    BY <2>1 DEF Kept, KeptBy, LostLate, Timer, Tolerance
<1>4. QED
  BY <1>2, <1>3

LEMMA KeptStep ==
    ASSUME TypeOK, Ownership, Kept, LostLate, [Next]_vars
    PROVE  Kept' /\ LostLate'
<1>1. CASE UNCHANGED vars
  <2>1. UNCHANGED <<database, locks, pass, keepAlive, slept, needsUpdate>>
    BY <1>1 DEF vars, managers
  <2>2. QED
    BY <2>1, KeptQueue
<1>2. ASSUME NEW p \in Processes, BeginUpdate(p)
      PROVE  Kept' /\ LostLate'
  <2>1. pass[p] = None /\ keepAlive' = keepAlive
    BY <1>2 DEF BeginUpdate, Idle
  <2>2. PICK granted \in Requests \cup {None} : Update(p, granted)
    BY <1>2 DEF BeginUpdate
  <2>3. QED
    BY <2>1, <2>2, KeptUpdate
<1>3. ASSUME NEW p \in Processes, CheckFires(p) \/ Notify(p) \/ RequestLock(p)
      PROVE  Kept' /\ LostLate'
  <2>1. UNCHANGED <<database, locks, pass, keepAlive, slept>>
    BY <1>3 DEF CheckFires, Notify, RequestLock
  <2>2. \A q \in Processes : needsUpdate[q] => needsUpdate'[q]
    BY <1>3 DEF CheckFires, Notify, RequestLock, SetNeedsLockUpdate, TypeOK
  <2>3. QED
    BY <2>1, <2>2, KeptQueue
<1>4. ASSUME NEW p \in Processes, NEW r \in Requests, Invalidate(p, r)
      PROVE  Kept' /\ LostLate'
  <2>1. UNCHANGED <<database, locks, pass, keepAlive, slept, needsUpdate>>
    BY <1>4 DEF Invalidate, managers
  <2>2. QED
    BY <2>1, KeptQueue
<1>5. ASSUME NEW p \in Processes, Suspend(p) \/ Resume(p)
      PROVE  Kept' /\ LostLate'
  <2>1. UNCHANGED <<database, locks, pass, keepAlive, slept, needsUpdate>>
    BY <1>5 DEF Suspend, Resume, managers
  <2>2. QED
    BY <2>1, KeptQueue
<1>6. QED
  BY <1>1, <1>2, <1>3, <1>4, <1>5, KeptFinish, KeptKeepAlive, KeptRelease, KeptCrash, KeptTick
     DEF Next, Manage

LEMMA IInvInit == Init => IInv
<1> SUFFICES ASSUME Init PROVE IInv
  OBVIOUS
<1>1. \A p \in Processes :
        /\ requests[p] = {} /\ locks[p] = {} /\ released[p] = {} /\ pass[p] = None
  BY DEF Init
<1>2. QED
  BY <1>1, TypeInit DEF IInv, Ownership, LostLate, Kept, KeptBy

\* A held lock of a process that did not sleep too long is the one in the
\* database, and there is only one in the database.
LEMMA IInvExclusive == IInv => Exclusive
<1> SUFFICES ASSUME IInv, NEW r \in Holders, NEW q \in Holders, r # q
             PROVE  slept[OwnerOf[r]] = Tolerance \/ slept[OwnerOf[q]] = Tolerance
  BY DEF Exclusive
<1>1. \A s \in Holders : OwnerOf[s] \in Processes /\ s \in locks[OwnerOf[s]]
  <2>1. SUFFICES ASSUME NEW p \in Processes, NEW s \in locks[p]
                 PROVE  OwnerOf[s] = p
    BY DEF Holders
  <2>2. QED
    BY <2>1 DEF IInv, Ownership, Own
<1>2. \A s \in Holders : slept[OwnerOf[s]] < Tolerance => database.lock = s
  BY <1>1 DEF IInv, Kept, KeptBy
<1>3. \A s \in Holders : slept[OwnerOf[s]] < Tolerance \/ slept[OwnerOf[s]] = Tolerance
  BY <1>1, Numbers DEF IInv
<1>4. QED
  BY <1>2, <1>3

\* Locks exclude each other between processes (-_updateLocks, its timers and
\* its callers), as long as no holder is suspended for RenewBelow - KeepAlive.
THEOREM MutualExclusion == Spec => []Exclusive
<1>1. IInv /\ [Next]_vars => IInv'
  BY TypeStep, OwnershipStep, KeptStep DEF IInv
<1>2. QED
  BY <1>1, IInvInit, IInvExclusive, PTL DEF Spec

-----------------------------------------------------------------------------
(* What requesters see.                                                    *)

LEMMA LocksApart == IInv => Service!Apart(locks, Late)
<1> SUFFICES ASSUME IInv, NEW p \in Processes, NEW q \in Processes,
                    NEW r \in locks[p], NEW s \in locks[q], r # s
             PROVE  p \in Late \/ q \in Late
  BY DEF Service!Apart
<1>1. r \in Holders /\ s \in Holders
  BY DEF Holders
<1>2. OwnerOf[r] = p /\ OwnerOf[s] = q
  BY DEF IInv, Ownership, Own
<1>3. slept[p] = Tolerance \/ slept[q] = Tolerance
  BY <1>1, <1>2, IInvExclusive DEF Exclusive
<1>4. QED
  BY <1>3 DEF Late

LEMMA LocksApartNext == IInv' => Service!Apart(locks, Late)'
  BY LocksApart, PTL

\* A pass changes nothing for requesters but that the process has recovered.
LEMMA UpdateService ==
    ASSUME IInv, IInv', NEW p \in Processes,
           NEW granted \in Requests \cup {None}, Update(p, granted)
    PROVE  Service!Recover(p) \/ UNCHANGED <<requests, locks, Late>>
<1> DEFINE lost == locks[p] \ (IF Purges(p) THEN {} ELSE {database.lock})
<1>1. UNCHANGED <<requests, locks>>
  BY DEF Update
<1>2. slept' = [slept EXCEPT ![p] = IF lost = {} THEN 0 ELSE @]
  BY DEF Update
<1>3. CASE lost # {}
  <2>1. slept' = slept
    BY <1>2, <1>3 DEF IInv, TypeOK
  <2>2. QED
    BY <1>1, <2>1 DEF Late, Tolerance
<1>4. CASE lost = {}
  <2>1. \A q \in Processes : slept'[q] = IF q = p THEN 0 ELSE slept[q]
    BY <1>2, <1>4 DEF IInv, TypeOK
  <2>2. Tolerance # 0
    BY Numbers DEF IInv
  <2>3. Late' = Late \ {p}
    BY <2>1, <2>2 DEF Late, Tolerance
  <2>4. Service!Apart(locks, Late \ {p})
    <3>1. Service!Apart(locks', Late')
      BY LocksApartNext DEF Service!Apart
    <3>2. QED
      BY <1>1, <2>3, <3>1
  <2>5. QED
    BY <1>1, <2>3, <2>4 DEF Service!Recover
<1>5. QED
  BY <1>3, <1>4

LEMMA FinishService ==
    ASSUME IInv, IInv', NEW p \in Processes, FinishUpdate(p)
    PROVE  \E answered, granted, lost \in SUBSET Requests :
                Service!Answer(p, answered, granted, lost)
<1> USE LockAssumption
<1> DEFINE answered == requests[p] \cap pass[p].processed
           granted == {pass[p].granted} \ {None}
           lost == pass[p].lost
<1>1. pass[p] \in Passes /\ pass[p] # None
  BY DEF FinishUpdate, IInv, TypeOK
<1>2. answered \in SUBSET Requests /\ granted \in SUBSET Requests /\ lost \in SUBSET Requests
  BY <1>1 DEF Passes
<1>3. granted \subseteq answered /\ answered \subseteq requests[p]
  BY <1>1 DEF IInv, Ownership
<1>4. lost # {} => p \in Late
  BY <1>1 DEF IInv, LostLate, Late
<1>5. requests' = [requests EXCEPT ![p] = @ \ answered]
  <2>1. requests[p] \ answered = requests[p] \ pass[p].processed
    OBVIOUS
  <2>2. requests' = [requests EXCEPT ![p] = requests[p] \ pass[p].processed]
    BY DEF FinishUpdate
  <2> HIDE DEF answered
  <2>3. QED
    BY <2>1, <2>2
<1>6. locks' = [locks EXCEPT ![p] = (@ \cup granted) \ lost]
  BY Zenon DEF FinishUpdate
<1>7. Late' = Late
  BY DEF FinishUpdate, Late, Tolerance
<1>8. Service!Apart(locks', Late)
  <2>1. Service!Apart(locks', Late')
    BY LocksApartNext DEF Service!Apart
  <2>2. QED
    BY <1>7, <2>1
<1>9. \A r, s \in granted : r = s
  OBVIOUS
<1> HIDE DEF answered, granted, lost
<1>10. Service!Answer(p, answered, granted, lost)
  BY <1>3, <1>4, <1>5, <1>6, <1>7, <1>8, <1>9 DEF Service!Answer
<1>11. QED
  BY <1>2, <1>10

LEMMA ServiceStep ==
    ASSUME IInv, IInv', [Next]_vars
    PROVE  [Service!ServiceNext]_<<requests, locks, Late>>
<1> USE LockAssumption
<1>1. CASE UNCHANGED vars
  BY <1>1 DEF vars, managers, Late, Tolerance
<1>2. ASSUME NEW p \in Processes, BeginUpdate(p) \/ KeepAliveFires(p)
      PROVE  Service!Recover(p) \/ UNCHANGED <<requests, locks, Late>>
  <2>1. ASSUME NEW granted \in Requests \cup {None}, Update(p, granted)
        PROVE  Service!Recover(p) \/ UNCHANGED <<requests, locks, Late>>
    BY <2>1, UpdateService
  <2>2. ASSUME UNCHANGED <<requests, locks, slept>>
        PROVE  UNCHANGED <<requests, locks, Late>>
    BY <2>2 DEF Late, Tolerance
  <2>3. QED
    BY <1>2, <2>1, <2>2 DEF BeginUpdate, KeepAliveFires
<1>3. ASSUME NEW p \in Processes, CheckFires(p) \/ Notify(p) \/ Suspend(p) \/ Resume(p)
      PROVE  UNCHANGED <<requests, locks, Late>>
  BY <1>3 DEF CheckFires, Notify, Suspend, Resume, managers, Late, Tolerance
<1>4. ASSUME NEW p \in Processes, NEW r \in Requests, Invalidate(p, r)
      PROVE  UNCHANGED <<requests, locks, Late>>
  BY <1>4 DEF Invalidate, managers, Late, Tolerance
<1>5. ASSUME NEW p \in Processes, RequestLock(p)
      PROVE  \E r \in Requests : Service!Ask(p, r)
  <2>1. issued + 1 \in Requests /\ requests' = [requests EXCEPT ![p] = @ \cup {issued + 1}]
    BY <1>5 DEF RequestLock, Own
  <2>2. issued + 1 \notin requests[p] \cup locks[p]
    <3>1. \A r \in requests[p] \cup locks[p] : r <= issued
      BY DEF IInv, Ownership
    <3>2. issued \in Nat
      BY DEF IInv, TypeOK
    <3>3. QED
      BY <3>1, <3>2
  <2>3. UNCHANGED <<locks, Late>>
    BY <1>5 DEF RequestLock, Late, Tolerance
  <2>4. QED
    BY <2>1, <2>2, <2>3 DEF Service!Ask
<1>6. ASSUME NEW p \in Processes, NEW r \in Requests, ReleaseLock(p, r)
      PROVE  Service!Release(p, r)
  BY <1>6 DEF ReleaseLock, Service!Release, Late, Tolerance
<1>7. ASSUME NEW p \in Processes, Crash(p)
      PROVE  Service!Die(p)
  <2>1. \A q \in Processes : slept'[q] = IF q = p THEN 0 ELSE slept[q]
    BY <1>7 DEF Crash, IInv, TypeOK
  <2>2. Tolerance # 0
    BY Numbers DEF IInv
  <2>3. Late' = Late \ {p}
    BY <2>1, <2>2 DEF Late, Tolerance
  <2>4. QED
    BY <1>7, <2>3 DEF Crash, Service!Die
<1>8. CASE Tick
  <2>1. \A q \in Processes : slept[q] = Tolerance => slept'[q] = Tolerance
    <3>1. \A q \in Processes : slept[q] = Tolerance => ~(slept[q] < Tolerance)
      BY Numbers DEF IInv
    <3>2. QED
      BY <1>8, <3>1 DEF Tick
  <2>2. Late' = Late \cup Late' /\ Late' \in SUBSET Processes
    BY <2>1 DEF Late, Tolerance
  <2>3. UNCHANGED <<requests, locks>>
    BY <1>8 DEF Tick
  <2>4. Service!Oversleep(Late')
    BY <2>2, <2>3 DEF Service!Oversleep
  <2>5. QED
    BY <2>2, <2>4 DEF Service!ServiceNext
<1>9. ASSUME NEW p \in Processes, NEW r \in Requests, Service!Ask(p, r) \/ Service!Release(p, r)
      PROVE  Service!ServiceNext
  BY <1>9 DEF Service!ServiceNext
<1>10. ASSUME NEW p \in Processes, Service!Die(p) \/ Service!Recover(p)
       PROVE  Service!ServiceNext
  BY <1>10 DEF Service!ServiceNext
<1>11. ASSUME NEW p \in Processes, FinishUpdate(p)
       PROVE  Service!ServiceNext
  BY <1>11, FinishService DEF Service!ServiceNext
<1>12. QED
  BY <1>1, <1>2, <1>3, <1>4, <1>5, <1>6, <1>7, <1>8, <1>9, <1>10, <1>11 DEF Next, Manage

\* To its users a lock manager is the service LockService: it gives a lock only
\* while it is nobody else's, takes none from a process that kept running, and
\* forgets what a crashed process asked for.
THEOREM Implementation == Spec => ImplementsService
<1>1. Init => Service!ServiceInit
  <2> SUFFICES ASSUME Init PROVE Service!ServiceInit
    OBVIOUS
  <2>1. \A p \in Processes : slept[p] = 0
    BY DEF Init
  <2>2. Tolerance # 0
    BY LockAssumption DEF Tolerance
  <2>3. Late = {}
    BY <2>1, <2>2 DEF Late
  <2>4. QED
    BY <2>3 DEF Init, Service!ServiceInit
<1>2. IInv /\ [Next]_vars => IInv'
  BY TypeStep, OwnershipStep, KeptStep DEF IInv
<1>3. IInv /\ IInv' /\ [Next]_vars => [Service!ServiceNext]_(Service!service)
  BY ServiceStep DEF Service!service
<1>4. QED
  BY <1>1, <1>2, <1>3, IInvInit, PTL DEF Spec, ImplementsService, Service!ServiceSpec
=============================================================================
