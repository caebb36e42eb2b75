-------------------------- MODULE ItemList_proofs --------------------------
(***************************************************************************)
(* Theorems about ItemList, for any processes, files, tasks and budgets:   *)
(* TypeCorrect, MarksKept and QueriesShow.                                 *)
(*                                                                         *)
(* A merge only happens with the rows the task read if no row changed      *)
(* since (ReadsFresh): every change of rows increases the sync anchor, and *)
(* outdates what was read before.  That a merge has a list at all rests on *)
(* the order of a task's blocks, and on one task being open at a time      *)
(* (OneOpen, ChainWaits, ListOnce).                                        *)
(*                                                                         *)
(* A query comes to show a file because the last block on the queue that   *)
(* says anything of it says what the cache has (Settles), for the files    *)
(* the process changed last and, once it was warned of them, for those     *)
(* others changed (Tracks); and because rows read that a merge may use as  *)
(* they are have what the process wrote itself (KnowsOwn).                 *)
(***************************************************************************)
EXTENDS ItemList, TLAPS

TaskIDs == 1 .. Slots

\* One task is in _itemListTasksByPath.
OneOpen(T) == \A t, u \in TaskIDs : T[t].open /\ T[u].open => t = u

\* A task that waits for another has rows and list.
ChainWaits(T) ==
    \A t \in TaskIDs : T[t].chained =>
        /\ ~T[t].open /\ T[t].cached # None /\ T[t].listing # None
        /\ \E u \in TaskIDs : T[u].open

\* So does one that is merged.
MergeReady(T, run) ==
    run # None /\ run.op = "merge" =>
        T[run.task].open /\ T[run.task].cached # None /\ T[run.task].listing # None

\* An inline read is the running block's.
InlineRuns(run, rd) ==
    rd # None /\ rd.inline => run = [op |-> "inline", task |-> rd.task]

IsList(b, t) == b.op = "list" /\ b.task = t

\* A task is answered once.
ListOnce(T, q) ==
    /\ \A t \in TaskIDs : T[t].wire => T[t].listing = None
    /\ \A t \in TaskIDs : \A i \in DOMAIN q :
        IsList(q[i], t) => ~T[t].wire /\ T[t].listing = None
    /\ \A t \in TaskIDs : \A i, j \in DOMAIN q :
        IsList(q[i], t) /\ IsList(q[j], t) => i = j

Ordered(T, q, run, rd) ==
    /\ OneOpen(T) /\ ChainWaits(T)
    /\ MergeReady(T, run) /\ InlineRuns(run, rd)
    /\ ListOnce(T, q)

Order == \A p \in Scanners : Ordered(tasks[p], queue[p], running[p], reader[p])

\* Rows read are those of the database, unless a reading was torn.
Fresh(items) == torn \/ items = Visible(db.rows)

FreshIn(T, q, rd) ==
    /\ \A t \in TaskIDs : T[t].current /\ T[t].cached # None => Fresh(T[t].cached)
    /\ \A i \in DOMAIN q : q[i].op = "cache" /\ q[i].current => Fresh(q[i].items)
    /\ rd # None => Fresh(rd.items)

ReadsFresh == \A p \in Scanners : FreshIn(tasks[p], queue[p], reader[p])

IInv == TypeOK /\ Order /\ ReadsFresh /\ PendingKept

-----------------------------------------------------------------------------
(* What is read and written.                                               *)

LEMMA RowType ==
    ASSUME NEW v \in Nat, NEW a \in BOOLEAN, NEW b \in BOOLEAN, NEW p \in Processes
    PROVE  Row(v, a, b, p) \in Rows
BY DEF Row, Rows

LEMMA VisibleType ==
    ASSUME NEW rows \in RowSets
    PROVE  Visible(rows) \in RowSets
BY DEF Visible, RowSets

LEMMA VersionsType ==
    ASSUME NEW items \in RowSets
    PROVE  VersionsOf(items) \in Versions
BY DEF VersionsOf, Versions, RowSets, Rows

LEMMA UpdateType ==
    ASSUME NEW rows \in RowSets, NEW S, NEW results \in Versions \cup {None}
    PROVE  Update(Delta(rows, S), results) \in Blocks
<1>1. VersionsOf(Visible(rows)) \in Versions
  BY VisibleType, VersionsType
<1>2. Delta(rows, S) \in [Files -> Nat \cup {None}]
  BY <1>1 DEF Delta, Versions
<1>3. QED
  BY <1>2 DEF Update, Blocks

LEMMA BlockFields ==
    ASSUME NEW b \in Blocks
    PROVE  /\ b.op = "cache" => /\ b \in [op : {"cache"}, task : TaskIDs, items : RowSets, current : BOOLEAN]
                                /\ b.task \in TaskIDs /\ b.items \in RowSets /\ b.current \in BOOLEAN
           /\ b.op = "list" => b.task \in TaskIDs /\ b.listing \in Lists \cup {None}
           /\ b.op = "show" => b.items \in Versions /\ b.state \in {"waiting", "cached"}
           /\ b.op = "update" => b.delta \in [Files -> Nat \cup {None}] /\ b.results \in Versions \cup {None}
BY DEF Blocks, TaskIDs

\* Sets of what the variables of one process can be.
Tables == [TaskIDs -> TaskRecords]
Runs == [op : {"inline", "merge"}, task : TaskIDs] \cup {None}
Queries == [state : {"started", "waiting", "cached", "idle"}, shown : Versions]

TypeShared ==
    /\ server \in Lists
    /\ db \in [tag : Nat, rows : RowSets]
    /\ journal \in [Files -> Entries \cup {None}]
    /\ notices \subseteq Scanners
    /\ torn \in BOOLEAN /\ doubled \in BOOLEAN
    /\ stale \subseteq Files
    /\ budget \in [Bounded -> Nat]
TypeQuery ==
    /\ unseen \in [Scanners -> SUBSET Files]
    /\ query \in [Scanners -> Queries]
    /\ wanted \in [Scanners -> BOOLEAN]
TypeScan ==
    /\ tasks \in [Scanners -> Tables]
    /\ queue \in [Scanners -> Seq(Blocks)]
    /\ running \in [Scanners -> Runs]
    /\ reader \in [Scanners -> Reads \cup {None}]

LEMMA Parts == TypeOK <=> TypeShared /\ TypeQuery /\ TypeScan
BY Zenon DEF TypeOK, TypeShared, TypeQuery, TypeScan, Tables, Runs, Queries, TaskIDs

LEMMA PartsNext == TypeOK' <=> TypeShared' /\ TypeQuery' /\ TypeScan'
BY Zenon DEF TypeOK, TypeShared, TypeQuery, TypeScan, Tables, Runs, Queries, TaskIDs

\* Increasing the anchor keeps all but the flags.
LEMMA OutdatedType ==
    ASSUME TypeOK
    PROVE  /\ Outdated(tasks) \in [Scanners -> Tables]
           /\ \A p \in Scanners, t \in TaskIDs :
                Outdated(tasks)[p][t] = [tasks[p][t] EXCEPT !.current = FALSE]
<1>1. \A p \in Scanners, t \in TaskIDs :
        Outdated(tasks)[p][t] = [tasks[p][t] EXCEPT !.current = FALSE]
  BY DEF Outdated, TaskIDs
<1>2. ASSUME NEW p \in Scanners, NEW t \in TaskIDs
      PROVE  [tasks[p][t] EXCEPT !.current = FALSE] \in TaskRecords
  <2>1. tasks[p][t] \in TaskRecords
    BY Parts DEF TypeScan, Tables
  <2>2. QED
    BY <2>1 DEF TaskRecords
<1>3. QED
  BY <1>1, <1>2 DEF Outdated, TaskIDs, Tables

LEMMA OutdatedReadsType ==
    ASSUME TypeOK, NEW p \in Scanners
    PROVE  /\ OutdatedReads(queue)[p] \in Seq(Blocks)
           /\ DOMAIN OutdatedReads(queue)[p] = DOMAIN queue[p]
           /\ \A i \in DOMAIN queue[p] :
                /\ OutdatedReads(queue)[p][i].op = queue[p][i].op
                /\ OutdatedReads(queue)[p][i].op = "cache" => ~OutdatedReads(queue)[p][i].current
                /\ queue[p][i].op # "cache" => OutdatedReads(queue)[p][i] = queue[p][i]
<1> DEFINE q == OutdatedReads(queue)[p]
<1>1. queue[p] \in Seq(Blocks)
  BY Parts DEF TypeScan
<1>2. q = [i \in DOMAIN queue[p] |->
            IF queue[p][i].op = "cache" THEN [queue[p][i] EXCEPT !.current = FALSE] ELSE queue[p][i]]
  BY DEF OutdatedReads
<1>3. DOMAIN queue[p] = 1 .. Len(queue[p]) /\ Len(queue[p]) \in Nat
  BY <1>1
<1>4. \A i \in DOMAIN queue[p] : queue[p][i] \in Blocks
  BY <1>1
<1>5. ASSUME NEW i \in DOMAIN queue[p]
      PROVE  /\ q[i] \in Blocks
             /\ q[i].op = queue[p][i].op
             /\ q[i].op = "cache" => ~q[i].current
             /\ queue[p][i].op # "cache" => q[i] = queue[p][i]
  <2>1. CASE queue[p][i].op # "cache"
    BY <1>2, <1>4, <2>1
  <2>2. CASE queue[p][i].op = "cache"
    <3>1. queue[p][i] \in [op : {"cache"}, task : TaskIDs, items : RowSets, current : BOOLEAN]
      BY <1>4, <2>2, BlockFields
    <3>2. q[i] = [queue[p][i] EXCEPT !.current = FALSE]
      BY <1>2, <2>2
    <3> HIDE DEF q
    <3>3. /\ q[i] \in [op : {"cache"}, task : TaskIDs, items : RowSets, current : BOOLEAN]
          /\ q[i].op = "cache" /\ q[i].current = FALSE
      BY <3>1, <3>2
    <3>4. q[i] \in Blocks
      BY <3>3 DEF Blocks, TaskIDs
    <3>5. QED
      BY <2>2, <3>3, <3>4
  <2>3. QED
    BY <2>1, <2>2
<1>6. DOMAIN q = DOMAIN queue[p]
  BY <1>2
<1> HIDE DEF q
<1>7. q \in Seq(Blocks)
  <2>1. q \in [1 .. Len(queue[p]) -> Blocks]
    <3>1. q = [i \in DOMAIN q |-> q[i]]
      BY <1>2 DEF q
    <3>2. QED
      BY <1>3, <1>5, <1>6, <3>1
  <2>2. QED
    BY <1>3, <2>1
<1>8. QED
  BY <1>5, <1>6, <1>7 DEF q

-----------------------------------------------------------------------------
(* A task's list is answered once.                                         *)

\* Two tasks alike but for their place in _itemListTasksByPath.
Alike(a, b) ==
    a.wire = b.wire /\ a.listing = b.listing /\ a.cached = b.cached /\ a.current = b.current

LEMMA ListAlike ==
    ASSUME NEW T, NEW U, NEW q, ListOnce(T, q),
           \A t \in TaskIDs : U[t].wire = T[t].wire /\ U[t].listing = T[t].listing
    PROVE  ListOnce(U, q)
BY DEF ListOnce

LEMMA ListTail ==
    ASSUME NEW T, NEW q \in Seq(Blocks), q # <<>>, ListOnce(T, q)
    PROVE  ListOnce(T, Tail(q))
<1>1. /\ DOMAIN q = 1 .. Len(q) /\ DOMAIN Tail(q) = 1 .. Len(Tail(q))
      /\ Len(q) \in Nat /\ Len(Tail(q)) = Len(q) - 1
  OBVIOUS
<1>2. \A i \in DOMAIN Tail(q) : i + 1 \in DOMAIN q /\ Tail(q)[i] = q[i + 1]
  OBVIOUS
<1>3. \A i, j \in DOMAIN Tail(q) : i + 1 = j + 1 => i = j
  BY <1>1
<1>4. QED
  BY <1>2, <1>3 DEF ListOnce

LEMMA ListAppend ==
    ASSUME NEW T, NEW q \in Seq(Blocks), NEW b \in Blocks, b.op # "list", ListOnce(T, q)
    PROVE  ListOnce(T, Append(q, b))
<1>1. \A i \in DOMAIN Append(q, b) : (i \in DOMAIN q /\ Append(q, b)[i] = q[i]) \/ Append(q, b)[i] = b
  OBVIOUS
<1>2. \A t \in TaskIDs, i \in DOMAIN Append(q, b) :
        IsList(Append(q, b)[i], t) => i \in DOMAIN q /\ IsList(q[i], t)
  BY <1>1 DEF IsList
<1>3. QED
  BY <1>2 DEF ListOnce

LEMMA ListAnswer ==
    ASSUME NEW T, NEW U, NEW q \in Seq(Blocks), NEW t \in TaskIDs, NEW b \in Blocks,
           IsList(b, t), T[t].wire, ~U[t].wire, U[t].listing = T[t].listing,
           \A u \in TaskIDs \ {t} : U[u] = T[u],
           ListOnce(T, q)
    PROVE  ListOnce(U, Append(q, b))
<1> DEFINE n == Len(q) + 1
<1>1. /\ DOMAIN Append(q, b) = DOMAIN q \cup {n} /\ n \notin DOMAIN q
      /\ Append(q, b)[n] = b
      /\ \A i \in DOMAIN q : Append(q, b)[i] = q[i]
  OBVIOUS
<1>2. \A i \in DOMAIN q : ~IsList(q[i], t)
  BY DEF ListOnce
<1>3. \A u \in TaskIDs : IsList(b, u) => u = t
  BY DEF IsList
<1>4. U[t].listing = None
  BY DEF ListOnce
<1> HIDE DEF n
<1>5. \A u \in TaskIDs, i \in DOMAIN Append(q, b) :
        IsList(Append(q, b)[i], u) =>
            (u = t /\ i = n) \/ (u # t /\ i \in DOMAIN q /\ IsList(q[i], u))
  <2>1. ASSUME NEW u \in TaskIDs, NEW i \in DOMAIN Append(q, b), IsList(Append(q, b)[i], u)
        PROVE  (u = t /\ i = n) \/ (u # t /\ i \in DOMAIN q /\ IsList(q[i], u))
    <3>1. CASE i = n
      <4>1. Append(q, b)[i] = b
        BY <1>1, <3>1
      <4>2. u = t
        BY <2>1, <4>1 DEF IsList
      <4>3. QED
        BY <3>1, <4>2
    <3>2. CASE i \in DOMAIN q
      <4>1. IsList(q[i], u)
        BY <1>1, <2>1, <3>2
      <4>2. u # t
        BY <1>2, <3>2, <4>1
      <4>3. QED
        BY <3>2, <4>1, <4>2
    <3>3. QED
      BY <1>1, <3>1, <3>2
  <2>2. QED
    BY <2>1
<1>6. QED
  BY <1>4, <1>5 DEF ListOnce

-----------------------------------------------------------------------------
(* Tasks take turns.                                                       *)

LEMMA LeaveKeeps ==
    ASSUME NEW T \in [Scanners -> Tables], running \in [Scanners -> Runs],
           NEW p \in Scanners, NEW t \in TaskIDs, NEW k \in TaskRecords,
           OneOpen(T[p]), ChainWaits(T[p]),
           k.open = T[p][t].open, k.chained = T[p][t].chained,
           k.chained => k.cached # None /\ k.listing # None,
           Leave(T, p, t, k)
    PROVE  /\ tasks' \in [Scanners -> Tables]
           /\ running' \in [Scanners -> Runs]
           /\ OneOpen(tasks'[p]) /\ ChainWaits(tasks'[p])
           /\ MergeReady(tasks'[p], running'[p])
           /\ running'[p] = None \/ running'[p].op = "merge"
           /\ Alike(tasks'[p][t], k)
           /\ \A u \in TaskIDs \ {t} : Alike(tasks'[p][u], T[p][u])
           /\ \A r \in Scanners \ {p} : tasks'[r] = T[r] /\ running'[r] = running[r]
<1>1. T[p] \in Tables /\ \A u \in TaskIDs : T[p][u] \in TaskRecords
  BY DEF Tables
<1> DEFINE closed == [k EXCEPT !.open = FALSE]
<1>2. /\ closed \in TaskRecords /\ ~closed.open /\ closed.chained = k.chained /\ Alike(closed, k)
      /\ closed.cached = k.cached /\ closed.listing = k.listing
  BY DEF TaskRecords, Alike
<1>3. \A u \in TaskIDs : Alike(T[p][u], T[p][u])
  BY DEF Alike
<1> HIDE DEF closed
<1>4. CASE /\ ~k.open \/ \A u \in TaskIDs : ~T[p][u].chained
           /\ tasks' = [T EXCEPT ![p][t] = closed]
           /\ running' = [running EXCEPT ![p] = None]
  <2>1. tasks'[p][t] = closed /\ \A u \in TaskIDs \ {t} : tasks'[p][u] = T[p][u]
    BY <1>1, <1>4 DEF Tables
  <2>2. tasks' \in [Scanners -> Tables] /\ running' \in [Scanners -> Runs] /\ running'[p] = None
    BY <1>1, <1>2, <1>4 DEF Tables, Runs
  <2>3. OneOpen(tasks'[p])
    BY <1>2, <2>1 DEF OneOpen
  <2>4. ChainWaits(tasks'[p])
    BY <1>2, <1>4, <2>1 DEF ChainWaits
  <2>5. MergeReady(tasks'[p], running'[p])
    BY <2>2 DEF MergeReady
  <2>6. \A r \in Scanners \ {p} : tasks'[r] = T[r] /\ running'[r] = running[r]
    BY <1>4
  <2>7. QED
    BY <1>2, <1>3, <2>1, <2>2, <2>3, <2>4, <2>5, <2>6
<1>5. ASSUME k.open, NEW u \in TaskIDs, T[p][u].chained,
             tasks' = [T EXCEPT ![p][t] = closed, ![p][u].chained = FALSE, ![p][u].open = TRUE],
             running' = [running EXCEPT ![p] = [op |-> "merge", task |-> u]]
      PROVE  /\ tasks' \in [Scanners -> Tables]
             /\ running' \in [Scanners -> Runs]
             /\ OneOpen(tasks'[p]) /\ ChainWaits(tasks'[p])
             /\ MergeReady(tasks'[p], running'[p])
             /\ running'[p] = None \/ running'[p].op = "merge"
             /\ Alike(tasks'[p][t], k)
             /\ \A v \in TaskIDs \ {t} : Alike(tasks'[p][v], T[p][v])
             /\ \A r \in Scanners \ {p} : tasks'[r] = T[r] /\ running'[r] = running[r]
  <2>1. u # t /\ T[p][u].cached # None /\ T[p][u].listing # None
    BY <1>5 DEF ChainWaits
  <2> DEFINE next == [[T[p][u] EXCEPT !.chained = FALSE] EXCEPT !.open = TRUE]
  <2>2. /\ next \in TaskRecords /\ next.open /\ ~next.chained /\ Alike(next, T[p][u])
        /\ next.cached # None /\ next.listing # None
    BY <1>1, <2>1 DEF TaskRecords, Alike
  <2>3. /\ tasks'[p][t] = closed /\ tasks'[p][u] = next
        /\ \A v \in TaskIDs \ {t, u} : tasks'[p][v] = T[p][v]
    BY <1>1, <1>5, <2>1 DEF Tables
  <2>4. tasks'[p] \in Tables
    <3>1. tasks'[p] = [v \in TaskIDs |-> tasks'[p][v]]
      BY <1>1, <1>5 DEF Tables
    <3> HIDE DEF next
    <3>2. \A v \in TaskIDs : tasks'[p][v] \in TaskRecords
      BY <1>1, <1>2, <2>2, <2>3
    <3>3. QED
      BY <3>1, <3>2 DEF Tables
  <2> HIDE DEF next
  <2>5. \A r \in Scanners \ {p} : tasks'[r] = T[r] /\ running'[r] = running[r]
    BY <1>5
  <2>6. tasks' \in [Scanners -> Tables]
    BY <1>5, <2>4, <2>5
  <2>7. [op |-> "merge", task |-> u] \in Runs
    BY DEF Runs
  <2>8. running' \in [Scanners -> Runs] /\ running'[p] = [op |-> "merge", task |-> u]
    BY <1>5, <2>7
  <2>9. \A v \in TaskIDs : tasks'[p][v].open => v = u
    <3>1. \A v \in TaskIDs : T[p][v].open => v = t
      BY <1>5 DEF OneOpen
    <3>2. \A v \in TaskIDs \ {t, u} : ~tasks'[p][v].open
      BY <2>3, <3>1
    <3>3. QED
      BY <1>2, <2>3, <3>2
  <2>10. OneOpen(tasks'[p])
    BY <2>9 DEF OneOpen
  <2>11. ChainWaits(tasks'[p])
    <3>1. tasks'[p][u].open
      BY <2>2, <2>3
    <3>2. ASSUME NEW v \in TaskIDs, tasks'[p][v].chained
          PROVE  ~tasks'[p][v].open /\ tasks'[p][v].cached # None /\ tasks'[p][v].listing # None
      <4>1. CASE v = t
        BY <1>2, <2>3, <3>2, <4>1
      <4>2. CASE v = u
        BY <2>2, <2>3, <3>2, <4>2
      <4>3. CASE v \notin {t, u}
        BY <2>3, <3>2, <4>3 DEF ChainWaits
      <4>4. QED
        BY <4>1, <4>2, <4>3
    <3>3. QED
      BY <3>1, <3>2 DEF ChainWaits
  <2>12. MergeReady(tasks'[p], running'[p])
    BY <2>2, <2>3, <2>8 DEF MergeReady
  <2>13. Alike(tasks'[p][t], k) /\ \A v \in TaskIDs \ {t} : Alike(tasks'[p][v], T[p][v])
    BY <1>2, <1>3, <2>2, <2>3
  <2>14. QED
    BY <2>5, <2>6, <2>8, <2>10, <2>11, <2>12, <2>13
<1>6. \/ /\ ~k.open \/ \A u \in TaskIDs : ~T[p][u].chained
         /\ tasks' = [T EXCEPT ![p][t] = closed]
         /\ running' = [running EXCEPT ![p] = None]
      \/ /\ k.open
         /\ \E u \in TaskIDs :
              /\ T[p][u].chained
              /\ tasks' = [T EXCEPT ![p][t] = closed, ![p][u].chained = FALSE, ![p][u].open = TRUE]
              /\ running' = [running EXCEPT ![p] = [op |-> "merge", task |-> u]]
  BY DEF Leave, TaskIDs, closed
<1>7. QED
  BY <1>4, <1>5, <1>6

\* -handleUpdatedTask: keeps the order, and what the tasks have read; it adds
\* at most what the query shows to the queue.
LEMMA HandleKeeps ==
    ASSUME tasks \in [Scanners -> Tables], queue \in [Scanners -> Seq(Blocks)],
           running \in [Scanners -> Runs],
           NEW p \in Scanners, NEW t \in TaskIDs, NEW k \in TaskRecords, NEW q \in Seq(Blocks),
           OneOpen(tasks[p]), ChainWaits(tasks[p]),
           k.open = tasks[p][t].open, k.chained = tasks[p][t].chained,
           k.chained => k.cached # None /\ k.listing # None,
           ListOnce([tasks[p] EXCEPT ![t] = k], q),
           Handle(p, t, k, q)
    PROVE  /\ tasks' \in [Scanners -> Tables] /\ queue' \in [Scanners -> Seq(Blocks)]
           /\ running' \in [Scanners -> Runs]
           /\ OneOpen(tasks'[p]) /\ ChainWaits(tasks'[p])
           /\ MergeReady(tasks'[p], running'[p])
           /\ ListOnce(tasks'[p], queue'[p])
           /\ running'[p] = None \/ running'[p].op = "merge"
           /\ Alike(tasks'[p][t], k)
           /\ \A u \in TaskIDs \ {t} : Alike(tasks'[p][u], tasks[p][u])
           /\ \A i \in DOMAIN queue'[p] :
                queue'[p][i].op = "cache" => i \in DOMAIN q /\ queue'[p][i] = q[i]
           /\ \A r \in Scanners \ {p} :
                tasks'[r] = tasks[r] /\ queue'[r] = queue[r] /\ running'[r] = running[r]
<1> DEFINE Turns ==
        /\ tasks' \in [Scanners -> Tables] /\ running' \in [Scanners -> Runs]
        /\ OneOpen(tasks'[p]) /\ ChainWaits(tasks'[p])
        /\ MergeReady(tasks'[p], running'[p])
        /\ running'[p] = None \/ running'[p].op = "merge"
        /\ Alike(tasks'[p][t], k)
        /\ \A u \in TaskIDs \ {t} : Alike(tasks'[p][u], tasks[p][u])
        /\ \A r \in Scanners \ {p} : tasks'[r] = tasks[r] /\ running'[r] = running[r]
<1>1. tasks[p] \in Tables /\ \A u \in TaskIDs : tasks[p][u] \in TaskRecords
  BY DEF Tables
<1>2. \A u \in TaskIDs : Alike(tasks[p][u], tasks[p][u])
  BY DEF Alike
<1>3. ASSUME NEW l \in TaskRecords, Alike(l, k), l.cached = k.cached, l.listing = k.listing,
             tasks' = [tasks EXCEPT ![p][t] = l]
      PROVE  /\ tasks' \in [Scanners -> Tables] /\ tasks'[p][t] = l
             /\ \A u \in TaskIDs \ {t} : tasks'[p][u] = tasks[p][u]
             /\ Alike(tasks'[p][t], k)
             /\ \A u \in TaskIDs \ {t} : Alike(tasks'[p][u], tasks[p][u])
             /\ \A r \in Scanners \ {p} : tasks'[r] = tasks[r]
  <2>1. tasks'[p][t] = l /\ \A u \in TaskIDs \ {t} : tasks'[p][u] = tasks[p][u]
    BY <1>1, <1>3 DEF Tables
  <2>2. tasks' \in [Scanners -> Tables] /\ \A r \in Scanners \ {p} : tasks'[r] = tasks[r]
    BY <1>1, <1>3 DEF Tables
  <2>3. QED
    BY <1>2, <1>3, <2>1, <2>2
<1>4. ASSUME tasks' = [tasks EXCEPT ![p][t] = k], running' = [running EXCEPT ![p] = None]
      PROVE  Turns
  <2>1. Alike(k, k)
    BY DEF Alike
  <2>2. /\ tasks' \in [Scanners -> Tables] /\ tasks'[p][t] = k
        /\ \A u \in TaskIDs \ {t} : tasks'[p][u] = tasks[p][u]
        /\ Alike(tasks'[p][t], k)
        /\ \A u \in TaskIDs \ {t} : Alike(tasks'[p][u], tasks[p][u])
        /\ \A r \in Scanners \ {p} : tasks'[r] = tasks[r]
    BY <1>3, <1>4, <2>1
  <2>3. running' \in [Scanners -> Runs] /\ running'[p] = None
        /\ \A r \in Scanners \ {p} : running'[r] = running[r]
    BY <1>4 DEF Runs
  <2>4. \A u \in TaskIDs : tasks'[p][u].open = tasks[p][u].open
                           /\ tasks'[p][u].chained = tasks[p][u].chained
    BY <2>2
  <2>5. OneOpen(tasks'[p])
    BY <2>4 DEF OneOpen
  <2>6. ChainWaits(tasks'[p])
    BY <2>2, <2>4 DEF ChainWaits
  <2>7. QED
    BY <2>2, <2>3, <2>5, <2>6 DEF MergeReady
<1>5. ASSUME Leave(tasks, p, t, k)
      PROVE  Turns
  BY <1>5, LeaveKeeps
<1>6. ASSUME k.cached # None, k.listing # None,
             \E u \in TaskIDs \ {t} : tasks[p][u].open,
             tasks' = [tasks EXCEPT ![p][t] = [k EXCEPT !.chained = TRUE]],
             running' = [running EXCEPT ![p] = None]
      PROVE  Turns
  <2> DEFINE l == [k EXCEPT !.chained = TRUE]
  <2>1. /\ l \in TaskRecords /\ l.open = k.open /\ l.chained
        /\ l.cached = k.cached /\ l.listing = k.listing /\ Alike(l, k)
    BY DEF TaskRecords, Alike
  <2> HIDE DEF l
  <2>2. /\ tasks' \in [Scanners -> Tables] /\ tasks'[p][t] = l
        /\ \A u \in TaskIDs \ {t} : tasks'[p][u] = tasks[p][u]
        /\ Alike(tasks'[p][t], k)
        /\ \A u \in TaskIDs \ {t} : Alike(tasks'[p][u], tasks[p][u])
        /\ \A r \in Scanners \ {p} : tasks'[r] = tasks[r]
    BY <1>3, <1>6, <2>1 DEF l
  <2>3. running' \in [Scanners -> Runs] /\ running'[p] = None
        /\ \A r \in Scanners \ {p} : running'[r] = running[r]
    BY <1>6 DEF Runs
  <2>4. \A u \in TaskIDs : tasks'[p][u].open = tasks[p][u].open
    BY <2>1, <2>2
  <2>5. OneOpen(tasks'[p])
    BY <2>4 DEF OneOpen
  <2>6. ~tasks[p][t].open
    BY <1>6 DEF OneOpen
  <2>7. ChainWaits(tasks'[p])
    BY <1>6, <2>1, <2>2, <2>4, <2>6 DEF ChainWaits
  <2>8. QED
    BY <2>2, <2>3, <2>5, <2>7 DEF MergeReady
<1>7. ASSUME k.cached # None, k.listing # None,
             \A u \in TaskIDs \ {t} : ~tasks[p][u].open,
             tasks' = [tasks EXCEPT ![p][t] = [k EXCEPT !.open = TRUE]],
             running' = [running EXCEPT ![p] = [op |-> "merge", task |-> t]]
      PROVE  Turns
  <2> DEFINE l == [k EXCEPT !.open = TRUE]
  <2>1. /\ l \in TaskRecords /\ l.open /\ l.chained = k.chained
        /\ l.cached = k.cached /\ l.listing = k.listing /\ Alike(l, k)
    BY DEF TaskRecords, Alike
  <2> HIDE DEF l
  <2>2. /\ tasks' \in [Scanners -> Tables] /\ tasks'[p][t] = l
        /\ \A u \in TaskIDs \ {t} : tasks'[p][u] = tasks[p][u]
        /\ Alike(tasks'[p][t], k)
        /\ \A u \in TaskIDs \ {t} : Alike(tasks'[p][u], tasks[p][u])
        /\ \A r \in Scanners \ {p} : tasks'[r] = tasks[r]
    BY <1>3, <1>7, <2>1 DEF l
  <2>3. [op |-> "merge", task |-> t] \in Runs
    BY DEF Runs
  <2>4. running' \in [Scanners -> Runs] /\ running'[p] = [op |-> "merge", task |-> t]
        /\ \A r \in Scanners \ {p} : running'[r] = running[r]
    BY <1>7, <2>3
  <2>5. OneOpen(tasks'[p])
    BY <1>7, <2>2 DEF OneOpen
  <2>6. ~tasks[p][t].chained
    BY <1>7 DEF ChainWaits
  <2>7. ChainWaits(tasks'[p])
    BY <2>1, <2>2, <2>6 DEF ChainWaits
  <2>8. MergeReady(tasks'[p], running'[p])
    BY <1>7, <2>1, <2>2, <2>4 DEF MergeReady
  <2>9. QED
    BY <2>2, <2>4, <2>5, <2>7, <2>8
<1>8. Turns
  <2>1. \/ tasks' = [tasks EXCEPT ![p][t] = k] /\ running' = [running EXCEPT ![p] = None]
        \/ Leave(tasks, p, t, k)
        \/ /\ k.cached # None /\ k.listing # None
           /\ \E u \in TaskIDs \ {t} : tasks[p][u].open
           /\ tasks' = [tasks EXCEPT ![p][t] = [k EXCEPT !.chained = TRUE]]
           /\ running' = [running EXCEPT ![p] = None]
        \/ /\ k.cached # None /\ k.listing # None
           /\ \A u \in TaskIDs \ {t} : ~tasks[p][u].open
           /\ tasks' = [tasks EXCEPT ![p][t] = [k EXCEPT !.open = TRUE]]
           /\ running' = [running EXCEPT ![p] = [op |-> "merge", task |-> t]]
    BY Zenon DEF Handle, TaskIDs
  <2>2. QED
    BY <1>4, <1>5, <1>6, <1>7, <2>1
<1>9. \/ queue' = [queue EXCEPT ![p] = q]
      \/ \E b \in Blocks : b.op = "show" /\ queue' = [queue EXCEPT ![p] = Append(q, b)]
  <2>1. ASSUME NEW s \in {"waiting", "cached"}, k.cached # None
        PROVE  Show(k, s) \in Blocks /\ Show(k, s).op = "show"
    <3>1. VersionsOf(k.cached) \in Versions
      BY <2>1, VersionsType DEF TaskRecords
    <3>2. QED
      BY <3>1 DEF Show, Blocks
  <2>2. \/ queue' = [queue EXCEPT ![p] = q]
        \/ /\ k.cached # None
           /\ \E s \in {"waiting", "cached"} : queue' = [queue EXCEPT ![p] = Append(q, Show(k, s))]
    BY Zenon DEF Handle
  <2>3. QED
    BY <2>1, <2>2
<1>10. ASSUME NEW x \in Seq(Blocks), queue' = [queue EXCEPT ![p] = x]
       PROVE  /\ queue' \in [Scanners -> Seq(Blocks)] /\ queue'[p] = x
              /\ \A r \in Scanners \ {p} : queue'[r] = queue[r]
  BY <1>10
<1>11. ListOnce(tasks'[p], q)
  <2> DEFINE T == [tasks[p] EXCEPT ![t] = k]
             U == tasks'[p]
  <2>1. \A u \in TaskIDs : U[u].wire = T[u].wire /\ U[u].listing = T[u].listing
    BY <1>1, <1>8 DEF Tables, Alike
  <2>2. ListOnce(T, q)
    OBVIOUS
  <2> HIDE DEF Turns, T, U
  <2>3. ListOnce(U, q)
    BY <2>1, <2>2, ListAlike
  <2>4. QED
    BY <2>3 DEF U
<1> HIDE DEF Turns
<1>12. /\ queue' \in [Scanners -> Seq(Blocks)]
       /\ ListOnce(tasks'[p], queue'[p])
       /\ \A i \in DOMAIN queue'[p] :
            queue'[p][i].op = "cache" => i \in DOMAIN q /\ queue'[p][i] = q[i]
       /\ \A r \in Scanners \ {p} : queue'[r] = queue[r]
  <2>1. CASE queue' = [queue EXCEPT ![p] = q]
    BY <1>10, <1>11, <2>1
  <2>2. ASSUME NEW b \in Blocks, b.op = "show", queue' = [queue EXCEPT ![p] = Append(q, b)]
        PROVE  /\ queue' \in [Scanners -> Seq(Blocks)]
               /\ ListOnce(tasks'[p], queue'[p])
               /\ \A i \in DOMAIN queue'[p] :
                    queue'[p][i].op = "cache" => i \in DOMAIN q /\ queue'[p][i] = q[i]
               /\ \A r \in Scanners \ {p} : queue'[r] = queue[r]
    <3>1. Append(q, b) \in Seq(Blocks)
      OBVIOUS
    <3>2. /\ queue' \in [Scanners -> Seq(Blocks)] /\ queue'[p] = Append(q, b)
          /\ \A r \in Scanners \ {p} : queue'[r] = queue[r]
      BY <1>10, <2>2, <3>1
    <3>3. ListOnce(tasks'[p], queue'[p])
      BY <1>11, <2>2, <3>2, ListAppend
    <3>4. \A i \in DOMAIN Append(q, b) :
            (i \in DOMAIN q /\ Append(q, b)[i] = q[i]) \/ Append(q, b)[i] = b
      OBVIOUS
    <3>5. \A i \in DOMAIN queue'[p] :
            queue'[p][i].op = "cache" => i \in DOMAIN q /\ queue'[p][i] = q[i]
      BY <2>2, <3>2, <3>4
    <3>6. QED
      BY <3>2, <3>3, <3>5
  <2>3. QED
    BY <1>9, <2>1, <2>2
<1>13. QED
  BY <1>8, <1>12 DEF Turns

-----------------------------------------------------------------------------
(* The blocks on the core's queue, and the reads of the cache.             *)

\* Steps of one process that leave the database alone.
LEMMA LocalStep ==
    ASSUME Order, ReadsFresh, NEW p \in Scanners, UNCHANGED <<db, torn>>,
           \A r \in Scanners \ {p} : /\ tasks'[r] = tasks[r] /\ queue'[r] = queue[r]
                                     /\ running'[r] = running[r] /\ reader'[r] = reader[r],
           Ordered(tasks'[p], queue'[p], running'[p], reader'[p]),
           FreshIn(tasks'[p], queue'[p], reader'[p])
    PROVE  Order' /\ ReadsFresh'
<1>1. Order'
  BY DEF Order
<1>2. \A items : Fresh(items) <=> torn' \/ items = Visible(db'.rows)
  BY DEF Fresh
<1>3. ASSUME NEW r \in Scanners
      PROVE  FreshIn(tasks[r], queue[r], reader[r])'
  <2>1. FreshIn(tasks'[r], queue'[r], reader'[r])
    BY DEF ReadsFresh
  <2>2. QED
    BY <1>2, <2>1 DEF FreshIn, Fresh
<1>4. QED
  BY <1>1, <1>3 DEF ReadsFresh

LEMMA FreshAppend ==
    ASSUME NEW T, NEW rd, NEW q \in Seq(Blocks), NEW b \in Blocks, FreshIn(T, q, rd),
           b.op = "cache" /\ b.current => Fresh(b.items)
    PROVE  FreshIn(T, Append(q, b), rd)
<1>1. \A i \in DOMAIN Append(q, b) :
        (i \in DOMAIN q /\ Append(q, b)[i] = q[i]) \/ Append(q, b)[i] = b
  OBVIOUS
<1>2. QED
  BY <1>1 DEF FreshIn

LEMMA FreshTail ==
    ASSUME NEW T, NEW rd, NEW q \in Seq(Blocks), q # <<>>, FreshIn(T, q, rd)
    PROVE  FreshIn(T, Tail(q), rd)
<1>1. \A i \in DOMAIN Tail(q) : i + 1 \in DOMAIN q /\ Tail(q)[i] = q[i + 1]
  OBVIOUS
<1>2. QED
  BY <1>1 DEF FreshIn

LEMMA FreshAlike ==
    ASSUME NEW T, NEW U, NEW q, NEW rd, FreshIn(T, q, rd),
           \A t \in TaskIDs : Alike(U[t], T[t])
    PROVE  FreshIn(U, q, rd)
BY DEF FreshIn, Alike

\* Blocks that only concern the query.
LEMMA QueueStep ==
    ASSUME IInv, NEW p \in Scanners, NEW q \in Seq(Blocks), queue' = [queue EXCEPT ![p] = q],
           UNCHANGED <<db, journal, tasks, running, reader, torn>>,
           \/ q = Tail(queue[p]) /\ queue[p] # <<>>
           \/ \E b \in Blocks : b.op \notin {"cache", "list"} /\ q = Append(queue[p], b)
           \/ \E b \in Blocks : /\ b.op \notin {"cache", "list"} /\ queue[p] # <<>>
                                /\ q = Append(Tail(queue[p]), b)
    PROVE  TypeScan' /\ Order' /\ ReadsFresh' /\ PendingKept'
<1>1. queue[p] \in Seq(Blocks) /\ queue' \in [Scanners -> Seq(Blocks)] /\ queue'[p] = q
      /\ \A r \in Scanners \ {p} : queue'[r] = queue[r]
  BY Parts DEF IInv, TypeScan
<1>2. TypeScan'
  BY <1>1, Parts DEF IInv, TypeScan
<1>3. ListOnce(tasks[p], queue[p]) /\ FreshIn(tasks[p], queue[p], reader[p])
  BY DEF IInv, Order, Ordered, ReadsFresh
<1>4. /\ queue[p] # <<>> => /\ Tail(queue[p]) \in Seq(Blocks)
                            /\ ListOnce(tasks[p], Tail(queue[p]))
                            /\ FreshIn(tasks[p], Tail(queue[p]), reader[p])
  <2>1. queue[p] # <<>> => Tail(queue[p]) \in Seq(Blocks)
    BY <1>1
  <2>2. QED
    BY <1>1, <1>3, <2>1, ListTail, FreshTail
<1>5. ListOnce(tasks[p], q) /\ FreshIn(tasks[p], q, reader[p])
  <2>1. ASSUME NEW s \in Seq(Blocks), NEW b \in Blocks, b.op \notin {"cache", "list"},
               ListOnce(tasks[p], s), FreshIn(tasks[p], s, reader[p])
        PROVE  ListOnce(tasks[p], Append(s, b)) /\ FreshIn(tasks[p], Append(s, b), reader[p])
    BY <2>1, ListAppend, FreshAppend
  <2>2. CASE q = Tail(queue[p]) /\ queue[p] # <<>>
    BY <1>4, <2>2
  <2>3. CASE \E b \in Blocks : b.op \notin {"cache", "list"} /\ q = Append(queue[p], b)
    BY <1>1, <1>3, <2>1, <2>3
  <2>4. CASE \E b \in Blocks : /\ b.op \notin {"cache", "list"} /\ queue[p] # <<>>
                               /\ q = Append(Tail(queue[p]), b)
    BY <1>4, <2>1, <2>4
  <2>5. QED
    BY <2>2, <2>3, <2>4
<1>6. Ordered(tasks'[p], queue'[p], running'[p], reader'[p])
  BY <1>1, <1>5 DEF IInv, Order, Ordered
<1>7. Order' /\ ReadsFresh'
  BY <1>1, <1>5, <1>6, LocalStep DEF IInv
<1>8. PendingKept'
  BY DEF IInv, PendingKept
<1>9. QED
  BY <1>2, <1>7, <1>8

LEMMA UpdateStep ==
    ASSUME IInv, NEW p \in Scanners, RunUpdate(p)
    PROVE  IInv'
<1>1. queue[p] \in Seq(Blocks) /\ query[p] \in Queries
  BY Parts DEF IInv, TypeScan, TypeQuery
<1>2. queue[p] # <<>> /\ Head(queue[p]).op = "update" /\ queue' = [queue EXCEPT ![p] = Tail(queue[p])]
  BY DEF RunUpdate, Begins
<1>3. Head(queue[p]) \in Blocks /\ Tail(queue[p]) \in Seq(Blocks)
  BY <1>1, <1>2
<1>4. TypeScan' /\ Order' /\ ReadsFresh' /\ PendingKept'
  BY <1>2, <1>3, QueueStep DEF RunUpdate
<1>5. TypeQuery'
  <2> DEFINE b == Head(queue[p])
             shown == [f \in Files |-> IF b.delta[f] = None THEN query[p].shown[f] ELSE b.delta[f]]
             new == IF query[p].state = "idle" THEN [query[p] EXCEPT !.shown = shown]
                    ELSE IF b.results # None THEN [state |-> "idle", shown |-> b.results]
                    ELSE query[p]
  <2>1. b.delta \in [Files -> Nat \cup {None}] /\ b.results \in Versions \cup {None}
    BY <1>2, <1>3, BlockFields
  <2>2. shown \in Versions
    BY <1>1, <2>1 DEF Queries, Versions
  <2>3. query' = [query EXCEPT ![p] = new]
    BY DEF RunUpdate
  <2> HIDE DEF b, shown
  <2>4. new \in Queries
    BY <1>1, <2>1, <2>2 DEF Queries
  <2> HIDE DEF new
  <2>5. query' \in [Scanners -> Queries]
    BY <2>3, <2>4, Parts DEF IInv, TypeQuery
  <2>6. QED
    BY <2>5, Parts DEF IInv, TypeQuery, RunUpdate
<1>6. TypeShared'
  BY Parts DEF IInv, TypeShared, RunUpdate
<1>7. QED
  BY <1>4, <1>5, <1>6, PartsNext DEF IInv

LEMMA ShowStep ==
    ASSUME IInv, NEW p \in Scanners, RunShow(p)
    PROVE  IInv'
<1>1. queue[p] \in Seq(Blocks) /\ query[p] \in Queries
  BY Parts DEF IInv, TypeScan, TypeQuery
<1>2. queue[p] # <<>> /\ Head(queue[p]).op = "show" /\ queue' = [queue EXCEPT ![p] = Tail(queue[p])]
  BY DEF RunShow, Begins
<1>3. Head(queue[p]) \in Blocks /\ Tail(queue[p]) \in Seq(Blocks)
  BY <1>1, <1>2
<1>4. TypeScan' /\ Order' /\ ReadsFresh' /\ PendingKept'
  BY <1>2, <1>3, QueueStep DEF RunShow
<1>5. TypeQuery'
  <2> DEFINE b == Head(queue[p])
             new == IF query[p].state = "idle" THEN query[p]
                    ELSE [state |-> b.state, shown |-> b.items]
  <2>1. b.items \in Versions /\ b.state \in {"waiting", "cached"}
    BY <1>2, <1>3, BlockFields
  <2>2. query' = [query EXCEPT ![p] = new]
    BY DEF RunShow
  <2> HIDE DEF b
  <2>3. new \in Queries
    BY <1>1, <2>1 DEF Queries
  <2> HIDE DEF new
  <2>4. query' \in [Scanners -> Queries]
    BY <2>2, <2>3, Parts DEF IInv, TypeQuery
  <2>5. QED
    BY <2>4, Parts DEF IInv, TypeQuery, RunShow
<1>6. TypeShared'
  BY Parts DEF IInv, TypeShared, RunShow
<1>7. QED
  BY <1>4, <1>5, <1>6, PartsNext DEF IInv

LEMMA NotifyStep ==
    ASSUME IInv, NEW p \in Scanners, Notify(p) \/ RunCheck(p)
    PROVE  IInv'
<1>1. queue[p] \in Seq(Blocks) /\ db.rows \in RowSets
  BY Parts DEF IInv, TypeScan, TypeShared
<1>2. TypeScan' /\ Order' /\ ReadsFresh' /\ PendingKept'
  <2>1. CASE Notify(p)
    <3>1. [op |-> "check"] \in Blocks
      BY DEF Blocks
    <3>2. Append(queue[p], [op |-> "check"]) \in Seq(Blocks)
      BY <1>1, <3>1
    <3>3. QED
      BY <2>1, <3>1, <3>2, QueueStep DEF Notify
  <2>2. CASE RunCheck(p)
    <3> DEFINE b == Update(Delta(db.rows, unseen[p]), None)
    <3>1. b \in Blocks /\ b.op = "update"
      BY <1>1, UpdateType DEF Update
    <3>2. queue[p] # <<>> /\ Tail(queue[p]) \in Seq(Blocks)
      BY <1>1, <2>2 DEF RunCheck, Begins
    <3>3. queue' = [queue EXCEPT ![p] = IF unseen[p] = {} THEN Tail(queue[p]) ELSE Append(Tail(queue[p]), b)]
      BY <2>2 DEF RunCheck
    <3> HIDE DEF b
    <3>4. Append(Tail(queue[p]), b) \in Seq(Blocks)
      BY <3>1, <3>2
    <3>5. UNCHANGED <<db, journal, tasks, running, reader, torn>>
      BY <2>2 DEF RunCheck
    <3>6. CASE unseen[p] = {}
      BY <3>2, <3>3, <3>5, <3>6, QueueStep
    <3>7. CASE unseen[p] # {}
      BY <3>1, <3>2, <3>3, <3>4, <3>5, <3>7, QueueStep
    <3>8. QED
      BY <3>6, <3>7
  <2>3. QED
    BY <2>1, <2>2
<1>3. TypeShared' /\ TypeQuery'
  BY Parts DEF IInv, TypeShared, TypeQuery, Notify, RunCheck
<1>4. QED
  BY <1>2, <1>3, PartsNext DEF IInv

\* The server's answer comes once.
LEMMA AnswerStep ==
    ASSUME IInv, NEW p \in Scanners, NEW t \in TaskIDs, Answer(p, t)
    PROVE  IInv'
<1>1. /\ queue[p] \in Seq(Blocks) /\ tasks[p] \in Tables /\ tasks[p][t] \in TaskRecords
      /\ server \in Lists /\ budget \in [Bounded -> Nat]
  BY Parts DEF IInv, TypeScan, TypeShared, Tables
<1>2. PICK l \in Lists \cup {None} :
        /\ l = None => Spend("failures")
        /\ l # None => UNCHANGED budget
        /\ queue' = [queue EXCEPT ![p] = Append(@, [op |-> "list", task |-> t, listing |-> l])]
  BY <1>1 DEF Answer
<1> DEFINE b == [op |-> "list", task |-> t, listing |-> l]
           k == [tasks[p][t] EXCEPT !.wire = FALSE]
<1>3. b \in Blocks /\ IsList(b, t)
  BY DEF Blocks, IsList, TaskIDs
<1>4. /\ k \in TaskRecords /\ ~k.wire /\ k.open = tasks[p][t].open /\ k.chained = tasks[p][t].chained
      /\ k.listing = tasks[p][t].listing /\ k.cached = tasks[p][t].cached
      /\ k.current = tasks[p][t].current
  BY <1>1 DEF TaskRecords
<1>5. queue' = [queue EXCEPT ![p] = Append(queue[p], b)] /\ tasks' = [tasks EXCEPT ![p][t] = k]
      /\ tasks[p][t].wire /\ UNCHANGED <<db, journal, running, reader, torn>>
  BY <1>2 DEF Answer
<1> HIDE DEF b, k
<1>6. /\ tasks' \in [Scanners -> Tables] /\ tasks'[p][t] = k
      /\ \A u \in TaskIDs \ {t} : tasks'[p][u] = tasks[p][u]
      /\ \A r \in Scanners \ {p} : tasks'[r] = tasks[r]
  BY <1>1, <1>4, <1>5, Parts DEF IInv, TypeScan, Tables
<1>7. /\ queue' \in [Scanners -> Seq(Blocks)] /\ queue'[p] = Append(queue[p], b)
      /\ \A r \in Scanners \ {p} : queue'[r] = queue[r]
  <2>1. Append(queue[p], b) \in Seq(Blocks)
    BY <1>1, <1>3
  <2>2. QED
    BY <1>5, <2>1, Parts DEF IInv, TypeScan
<1>8. Ordered(tasks[p], queue[p], running[p], reader[p]) /\ FreshIn(tasks[p], queue[p], reader[p])
  BY DEF IInv, Order, ReadsFresh
<1>9. ListOnce(tasks'[p], queue'[p])
  <2>1. ListOnce(tasks[p], queue[p])
    BY <1>8 DEF Ordered
  <2>2. ~tasks'[p][t].wire /\ tasks'[p][t].listing = tasks[p][t].listing
    BY <1>4, <1>6
  <2>3. ListOnce(tasks'[p], Append(queue[p], b))
    BY <1>1, <1>3, <1>5, <1>6, <2>1, <2>2, ListAnswer
  <2>4. QED
    BY <1>7, <2>3
<1>10. OneOpen(tasks'[p]) /\ ChainWaits(tasks'[p])
  BY <1>4, <1>6, <1>8 DEF Ordered, OneOpen, ChainWaits
<1>11. MergeReady(tasks'[p], running'[p]) /\ InlineRuns(running'[p], reader'[p])
  <2>1. running[p] \in Runs
    BY Parts DEF IInv, TypeScan
  <2>2. running[p] # None => running[p].task \in TaskIDs
    BY <2>1 DEF Runs
  <2>3. QED
    BY <1>4, <1>5, <1>6, <1>8, <2>2 DEF Ordered, MergeReady
<1>12. FreshIn(tasks'[p], queue'[p], reader'[p])
  <2>1. FreshIn(tasks'[p], queue[p], reader[p])
    BY <1>4, <1>6, <1>8 DEF FreshIn
  <2>2. b.op # "cache"
    BY <1>3 DEF IsList
  <2>3. QED
    BY <1>1, <1>3, <1>5, <1>7, <2>1, <2>2, FreshAppend
<1>13. Order' /\ ReadsFresh'
  BY <1>5, <1>6, <1>7, <1>9, <1>10, <1>11, <1>12, LocalStep DEF IInv, Ordered
<1>14. PendingKept'
  BY <1>5 DEF IInv, PendingKept
<1>15. TypeScan' /\ TypeQuery'
  BY <1>5, <1>6, <1>7, Parts DEF IInv, TypeScan, TypeQuery, Answer
<1>16. TypeShared'
  <2>1. budget' \in [Bounded -> Nat]
    BY <1>1, <1>2 DEF Spend, Bounded
  <2>2. QED
    BY <2>1, Parts DEF IInv, TypeShared, Answer
<1>17. QED
  BY <1>13, <1>14, <1>15, <1>16, PartsNext DEF IInv

\* A block, or the end of an inline read, that handles task t, now k.
LEMMA HandleStep ==
    ASSUME IInv, NEW p \in Scanners, NEW t \in TaskIDs, NEW k \in TaskRecords, NEW q \in Seq(Blocks),
           k.open = tasks[p][t].open, k.chained = tasks[p][t].chained,
           k.chained => k.cached # None /\ k.listing # None,
           ListOnce([tasks[p] EXCEPT ![t] = k], q),
           Handle(p, t, k, q),
           k.current /\ k.cached # None => Fresh(k.cached),
           FreshIn(tasks[p], q, reader'[p]),
           reader' \in [Scanners -> Reads \cup {None}],
           \A r \in Scanners \ {p} : reader'[r] = reader[r],
           reader'[p] = None \/ ~reader'[p].inline,
           UNCHANGED <<db, journal, torn>>
    PROVE  TypeScan' /\ Order' /\ ReadsFresh' /\ PendingKept'
<1>1. Ordered(tasks[p], queue[p], running[p], reader[p])
  BY DEF IInv, Order
<1>2. TypeScan
  BY Parts DEF IInv
<1>3. /\ tasks' \in [Scanners -> Tables] /\ queue' \in [Scanners -> Seq(Blocks)]
      /\ running' \in [Scanners -> Runs]
      /\ OneOpen(tasks'[p]) /\ ChainWaits(tasks'[p])
      /\ MergeReady(tasks'[p], running'[p])
      /\ ListOnce(tasks'[p], queue'[p])
      /\ Alike(tasks'[p][t], k)
      /\ \A u \in TaskIDs \ {t} : Alike(tasks'[p][u], tasks[p][u])
      /\ \A i \in DOMAIN queue'[p] :
           queue'[p][i].op = "cache" => i \in DOMAIN q /\ queue'[p][i] = q[i]
      /\ \A r \in Scanners \ {p} :
           tasks'[r] = tasks[r] /\ queue'[r] = queue[r] /\ running'[r] = running[r]
  BY <1>1, <1>2, HandleKeeps DEF TypeScan, Ordered
<1>4. Ordered(tasks'[p], queue'[p], running'[p], reader'[p])
  BY <1>3 DEF Ordered, InlineRuns
<1>5. FreshIn(tasks'[p], queue'[p], reader'[p])
  BY <1>3 DEF FreshIn, Alike
<1>6. Order' /\ ReadsFresh'
  BY <1>3, <1>4, <1>5, LocalStep DEF IInv
<1>7. QED
  BY <1>3, <1>6 DEF TypeScan, IInv, PendingKept

LEMMA CacheStep ==
    ASSUME IInv, NEW p \in Scanners, RunCache(p)
    PROVE  IInv'
<1>1. /\ queue[p] \in Seq(Blocks) /\ tasks[p] \in Tables /\ running[p] = None
      /\ reader \in [Scanners -> Reads \cup {None}] /\ queue[p] # <<>>
  BY Parts DEF IInv, TypeScan, RunCache, Begins
<1> DEFINE b == Head(queue[p])
           t == b.task
           k == [tasks[p][t] EXCEPT !.current = b.current, !.cached = b.items]
           q == Tail(queue[p])
<1>2. b \in Blocks /\ q \in Seq(Blocks) /\ b.op = "cache" /\ 1 \in DOMAIN queue[p] /\ queue[p][1] = b
  BY <1>1 DEF RunCache, Begins
<1>3. t \in TaskIDs /\ b.items \in RowSets /\ b.current \in BOOLEAN
  BY <1>2, BlockFields
<1>4. Handle(p, t, k, q) /\ UNCHANGED <<server, db, journal, unseen, query, reader, wanted, notices, torn, doubled, stale, budget>>
  BY DEF RunCache
<1> HIDE DEF b, t, q
<1>5. /\ k \in TaskRecords /\ k.open = tasks[p][t].open /\ k.chained = tasks[p][t].chained
      /\ k.wire = tasks[p][t].wire /\ k.listing = tasks[p][t].listing
      /\ k.cached = b.items /\ k.current = b.current
  BY <1>1, <1>3 DEF Tables, TaskRecords
<1> HIDE DEF k
<1>6. Ordered(tasks[p], queue[p], running[p], reader[p]) /\ FreshIn(tasks[p], queue[p], reader[p])
  BY DEF IInv, Order, ReadsFresh
<1>7. k.chained => k.cached # None /\ k.listing # None
  BY <1>3, <1>5, <1>6, NoneAssumption DEF Ordered, ChainWaits
<1>8. ListOnce([tasks[p] EXCEPT ![t] = k], q)
  <2>1. ListOnce(tasks[p], q)
    BY <1>1, <1>6, ListTail DEF Ordered, q
  <2> DEFINE T == tasks[p]
             U == [tasks[p] EXCEPT ![t] = k]
  <2>2. \A u \in TaskIDs : U[u].wire = T[u].wire /\ U[u].listing = T[u].listing
    BY <1>1, <1>5 DEF Tables
  <2>3. ListOnce(T, q)
    BY <2>1
  <2> HIDE DEF T, U
  <2>4. ListOnce(U, q)
    BY <2>2, <2>3, ListAlike
  <2>5. QED
    BY <2>4 DEF U
<1>9. k.current /\ k.cached # None => Fresh(k.cached)
  BY <1>2, <1>5, <1>6 DEF FreshIn
<1>10. FreshIn(tasks[p], q, reader'[p])
  BY <1>1, <1>4, <1>6, FreshTail DEF q
<1>11. reader[p] = None \/ ~reader[p].inline
  <2>1. ASSUME reader[p] # None, reader[p].inline PROVE FALSE
    <3>1. reader[p].task \in TaskIDs
      BY <1>1, <2>1 DEF Reads, TaskIDs
    <3>2. running[p] = [op |-> "inline", task |-> reader[p].task]
      BY <1>6, <2>1 DEF Ordered, InlineRuns
    <3>3. QED
      BY <1>1, <3>1, <3>2, NoneAssumption DEF TaskIDs
  <2>2. QED
    BY <2>1
<1>12. TypeScan' /\ Order' /\ ReadsFresh' /\ PendingKept'
  BY <1>1, <1>2, <1>3, <1>4, <1>5, <1>7, <1>8, <1>9, <1>10, <1>11, HandleStep DEF q
<1>13. TypeShared' /\ TypeQuery'
  BY <1>4, Parts DEF IInv, TypeShared, TypeQuery
<1>14. QED
  BY <1>12, <1>13, PartsNext DEF IInv

LEMMA ListTaken ==
    ASSUME NEW T, NEW U, NEW q \in Seq(Blocks), NEW t \in TaskIDs, q # <<>>, IsList(Head(q), t),
           ListOnce(T, q), U[t].wire = T[t].wire, \A u \in TaskIDs \ {t} : U[u] = T[u]
    PROVE  ListOnce(U, Tail(q))
<1>1. /\ DOMAIN q = 1 .. Len(q) /\ DOMAIN Tail(q) = 1 .. Len(Tail(q))
      /\ Len(q) \in Nat /\ Len(Tail(q)) = Len(q) - 1 /\ 1 \in DOMAIN q /\ q[1] = Head(q)
  OBVIOUS
<1>2. \A i \in DOMAIN Tail(q) : i + 1 \in DOMAIN q /\ Tail(q)[i] = q[i + 1] /\ i + 1 # 1
  BY <1>1
<1>3. IsList(q[1], t)
  BY <1>1 DEF IsList
<1>4. \A i \in DOMAIN q : IsList(q[i], t) => i = 1
  BY <1>1, <1>3 DEF ListOnce
<1>5. \A i \in DOMAIN Tail(q) : ~IsList(Tail(q)[i], t)
  BY <1>2, <1>4 DEF IsList
<1>6. ListOnce(T, Tail(q)) /\ ~T[t].wire
  BY <1>1, <1>3, ListTail DEF ListOnce
<1>7. QED
  BY <1>5, <1>6 DEF ListOnce

LEMMA ListStep ==
    ASSUME IInv, NEW p \in Scanners, RunList(p)
    PROVE  IInv'
<1>1. /\ queue[p] \in Seq(Blocks) /\ tasks[p] \in Tables /\ running[p] = None
      /\ reader \in [Scanners -> Reads \cup {None}] /\ queue[p] # <<>> /\ reader[p] = None
  BY Parts DEF IInv, TypeScan, RunList, Begins, NoReadAhead, IsFree
<1> DEFINE b == Head(queue[p])
           t == b.task
           k == [tasks[p][t] EXCEPT !.listing = b.listing, !.failed = b.listing = None]
           q == Tail(queue[p])
<1>2. b \in Blocks /\ q \in Seq(Blocks) /\ b.op = "list"
  BY <1>1 DEF RunList, Begins
<1>3. t \in TaskIDs /\ b.listing \in Lists \cup {None} /\ IsList(b, t)
  BY <1>2, BlockFields DEF IsList
<1>4. /\ \/ k.current /\ Handle(p, t, k, q)
         \/ /\ ~k.current /\ tasks' = [tasks EXCEPT ![p][t] = k]
            /\ queue' = [queue EXCEPT ![p] = q]
            /\ running' = [running EXCEPT ![p] = [op |-> "inline", task |-> t]]
      /\ unseen' = [unseen EXCEPT ![p] = {}]
      /\ UNCHANGED <<server, db, journal, query, reader, wanted, notices, torn, doubled, stale, budget>>
  BY DEF RunList
<1>5. Ordered(tasks[p], queue[p], running[p], reader[p]) /\ FreshIn(tasks[p], queue[p], reader[p])
  BY DEF IInv, Order, ReadsFresh
<1>6. FreshIn(tasks[p], q, reader'[p])
  BY <1>1, <1>4, <1>5, FreshTail
<1>7. ListOnce(tasks[p], queue[p]) /\ IsList(Head(queue[p]), t)
  BY <1>3, <1>5 DEF Ordered
<1>8. ~tasks[p][t].chained
  <2>1. 1 \in DOMAIN queue[p] /\ queue[p][1] = Head(queue[p])
    BY <1>1
  <2>2. IsList(queue[p][1], t)
    BY <1>7, <2>1 DEF IsList
  <2> HIDE DEF b, t
  <2>3. tasks[p][t].listing = None
    BY <1>3, <1>7, <2>1, <2>2 DEF ListOnce
  <2>4. QED
    BY <1>3, <1>5, <2>3 DEF Ordered, ChainWaits
<1> HIDE DEF b, t
<1>9. /\ k \in TaskRecords /\ k.open = tasks[p][t].open /\ k.chained = tasks[p][t].chained
      /\ k.wire = tasks[p][t].wire /\ k.cached = tasks[p][t].cached /\ k.current = tasks[p][t].current
  BY <1>1, <1>3 DEF Tables, TaskRecords
<1> HIDE DEF k
<1> DEFINE T == tasks[p]
           U == [tasks[p] EXCEPT ![t] = k]
<1>10. U[t] = k /\ \A u \in TaskIDs \ {t} : U[u] = T[u]
  BY <1>1, <1>3 DEF Tables
<1>11. ListOnce(U, q)
  <2>1. ListOnce(T, queue[p]) /\ U[t].wire = T[t].wire
    BY <1>7, <1>9, <1>10
  <2> HIDE DEF T, U
  <2>2. QED
    BY <1>1, <1>3, <1>7, <1>10, <2>1, ListTaken
<1>12. k.current /\ k.cached # None => Fresh(k.cached)
  BY <1>3, <1>5, <1>9 DEF FreshIn
<1>13. CASE k.current /\ Handle(p, t, k, q)
  <2>1. TypeScan' /\ Order' /\ ReadsFresh' /\ PendingKept'
    BY <1>1, <1>2, <1>3, <1>4, <1>6, <1>8, <1>9, <1>11, <1>12, <1>13, HandleStep
  <2>2. TypeShared' /\ TypeQuery'
    BY <1>4, Parts DEF IInv, TypeShared, TypeQuery
  <2>3. QED
    BY <2>1, <2>2, PartsNext DEF IInv
<1>14. CASE /\ tasks' = [tasks EXCEPT ![p][t] = k]
            /\ queue' = [queue EXCEPT ![p] = q]
            /\ running' = [running EXCEPT ![p] = [op |-> "inline", task |-> t]]
  <2>1. /\ tasks' \in [Scanners -> Tables] /\ tasks'[p] = U
        /\ \A r \in Scanners \ {p} : tasks'[r] = tasks[r]
    BY <1>1, <1>3, <1>9, <1>14, Parts DEF IInv, TypeScan, Tables
  <2>2. /\ queue' \in [Scanners -> Seq(Blocks)] /\ queue'[p] = q
        /\ \A r \in Scanners \ {p} : queue'[r] = queue[r]
    BY <1>2, <1>14, Parts DEF IInv, TypeScan
  <2>3. [op |-> "inline", task |-> t] \in Runs
    BY <1>3 DEF Runs
  <2>4. /\ running' \in [Scanners -> Runs] /\ running'[p] = [op |-> "inline", task |-> t]
        /\ \A r \in Scanners \ {p} : running'[r] = running[r]
    BY <1>14, <2>3, Parts DEF IInv, TypeScan
  <2> HIDE DEF T, U, q
  <2>5. OneOpen(U)
    BY <1>5, <1>9, <1>10 DEF Ordered, OneOpen, T
  <2>6. ChainWaits(U)
    BY <1>5, <1>8, <1>9, <1>10 DEF Ordered, ChainWaits, T
  <2>7. MergeReady(U, running'[p])
    BY <2>4 DEF MergeReady
  <2>8. Ordered(tasks'[p], queue'[p], running'[p], reader'[p])
    BY <1>1, <1>4, <1>11, <2>1, <2>2, <2>5, <2>6, <2>7 DEF Ordered, InlineRuns
  <2>9. FreshIn(U, q, reader'[p])
    BY <1>6, <1>9, <1>10 DEF FreshIn, T
  <2>10. Order' /\ ReadsFresh'
    BY <1>4, <2>1, <2>2, <2>4, <2>8, <2>9, LocalStep DEF IInv
  <2>11. TypeScan' /\ TypeShared' /\ TypeQuery' /\ PendingKept'
    BY <1>4, <2>1, <2>2, <2>4, Parts DEF IInv, TypeScan, TypeShared, TypeQuery, PendingKept
  <2>12. QED
    BY <2>10, <2>11, PartsNext DEF IInv
<1>15. QED
  BY <1>4, <1>13, <1>14

LEMMA AnchorStep ==
    ASSUME IInv, NEW p \in Scanners, ReadAnchor(p)
    PROVE  IInv'
<1> DEFINE rd == reader[p]
           t == rd.task
           b == [op |-> "cache", task |-> t, items |-> rd.items, current |-> TRUE]
           k == [tasks[p][t] EXCEPT !.current = TRUE, !.cached = rd.items]
<1>1. /\ queue[p] \in Seq(Blocks) /\ tasks[p] \in Tables /\ rd \in Reads /\ rd # None
      /\ reader \in [Scanners -> Reads \cup {None}]
  BY Parts DEF IInv, TypeScan, ReadAnchor
<1>2. t \in TaskIDs /\ rd.items \in RowSets
  BY <1>1 DEF Reads, TaskIDs
<1>3. /\ reader' = [reader EXCEPT ![p] = None]
      /\ unseen' = [unseen EXCEPT ![p] = {}]
      /\ \/ rd.inline /\ Handle(p, t, k, queue[p])
         \/ /\ queue' = [queue EXCEPT ![p] = Append(queue[p], b)]
            /\ ~rd.inline /\ UNCHANGED <<tasks, running>>
      /\ UNCHANGED <<server, db, journal, query, wanted, notices, torn, doubled, stale, budget>>
  BY DEF ReadAnchor
<1>4. Ordered(tasks[p], queue[p], running[p], reader[p]) /\ FreshIn(tasks[p], queue[p], rd)
  BY DEF IInv, Order, ReadsFresh
<1>5. Fresh(rd.items)
  BY <1>1, <1>4 DEF FreshIn
<1>6. b \in Blocks /\ b.op = "cache"
  BY <1>2 DEF Blocks, TaskIDs
<1>7. reader'[p] = None /\ reader' \in [Scanners -> Reads \cup {None}]
      /\ \A r \in Scanners \ {p} : reader'[r] = reader[r]
  BY <1>1, <1>3
<1>8. FreshIn(tasks[p], queue[p], reader'[p])
  BY <1>4, <1>7 DEF FreshIn
<1>9. TypeShared' /\ TypeQuery'
  BY <1>3, Parts DEF IInv, TypeShared, TypeQuery
<1>10. CASE rd.inline /\ Handle(p, t, k, queue[p])
  <2> HIDE DEF t
  <2>1. /\ k \in TaskRecords /\ k.open = tasks[p][t].open /\ k.chained = tasks[p][t].chained
        /\ k.wire = tasks[p][t].wire /\ k.listing = tasks[p][t].listing /\ k.cached = rd.items
    BY <1>1, <1>2 DEF Tables, TaskRecords
  <2> HIDE DEF k
  <2>2. k.chained => k.cached # None /\ k.listing # None
    BY <1>2, <1>4, <2>1, NoneAssumption DEF Ordered, ChainWaits
  <2>3. ListOnce([tasks[p] EXCEPT ![t] = k], queue[p])
    <3> DEFINE T == tasks[p]
               U == [tasks[p] EXCEPT ![t] = k]
    <3>1. \A u \in TaskIDs : U[u].wire = T[u].wire /\ U[u].listing = T[u].listing
      BY <1>1, <2>1 DEF Tables
    <3>2. ListOnce(T, queue[p])
      BY <1>4 DEF Ordered
    <3> HIDE DEF T, U
    <3>3. ListOnce(U, queue[p])
      BY <3>1, <3>2, ListAlike
    <3>4. QED
      BY <3>3 DEF U
  <2>4. TypeScan' /\ Order' /\ ReadsFresh' /\ PendingKept'
    BY <1>1, <1>2, <1>3, <1>5, <1>7, <1>8, <1>10, <2>1, <2>2, <2>3, HandleStep
  <2>5. QED
    BY <1>9, <2>4, PartsNext DEF IInv
<1>11. CASE /\ queue' = [queue EXCEPT ![p] = Append(queue[p], b)]
            /\ ~rd.inline /\ UNCHANGED <<tasks, running>>
  <2> HIDE DEF b
  <2>1. Append(queue[p], b) \in Seq(Blocks)
    BY <1>1, <1>6
  <2>2. /\ queue' \in [Scanners -> Seq(Blocks)] /\ queue'[p] = Append(queue[p], b)
        /\ \A r \in Scanners \ {p} : queue'[r] = queue[r]
    BY <1>11, <2>1, Parts DEF IInv, TypeScan
  <2>3. ListOnce(tasks'[p], queue'[p])
    BY <1>1, <1>4, <1>6, <1>11, <2>2, ListAppend DEF Ordered
  <2>4. Ordered(tasks'[p], queue'[p], running'[p], reader'[p])
    BY <1>4, <1>7, <1>11, <2>3 DEF Ordered, InlineRuns
  <2>5. b.items = rd.items
    BY DEF b
  <2>6. FreshIn(tasks'[p], queue'[p], reader'[p])
    BY <1>1, <1>5, <1>6, <1>8, <1>11, <2>2, <2>5, FreshAppend
  <2>7. Order' /\ ReadsFresh'
    BY <1>3, <1>7, <1>11, <2>2, <2>4, <2>6, LocalStep DEF IInv
  <2>8. TypeScan' /\ PendingKept'
    BY <1>3, <1>7, <1>11, <2>2, Parts DEF IInv, TypeScan, PendingKept
  <2>9. QED
    BY <1>9, <2>7, <2>8, PartsNext DEF IInv
<1>12. QED
  BY <1>3, <1>10, <1>11

LEMMA RowsStep ==
    ASSUME IInv, NEW p \in Scanners, NEW t \in TaskIDs, ReadRows(p, t)
    PROVE  IInv'
<1> DEFINE k == [tasks[p][t] EXCEPT !.asked = FALSE]
           rd == [task |-> t, items |-> Visible(db.rows),
                  inline |-> running[p] = [op |-> "inline", task |-> t]]
<1>1. tasks[p] \in Tables /\ tasks[p][t] \in TaskRecords /\ db.rows \in RowSets
  BY Parts DEF IInv, TypeScan, TypeShared, Tables
<1>2. /\ k \in TaskRecords /\ Alike(k, tasks[p][t]) /\ k.open = tasks[p][t].open
      /\ k.chained = tasks[p][t].chained /\ k.cached = tasks[p][t].cached
      /\ k.listing = tasks[p][t].listing
  BY <1>1 DEF TaskRecords, Alike
<1>3. rd \in Reads /\ rd.items = Visible(db.rows)
      /\ (rd.inline => running[p] = [op |-> "inline", task |-> rd.task])
  <2>1. Visible(db.rows) \in RowSets
    BY <1>1, VisibleType
  <2>2. rd.inline \in BOOLEAN
    OBVIOUS
  <2>3. rd \in Reads
    BY <2>1, <2>2 DEF Reads, TaskIDs
  <2>4. QED
    BY <2>3
<1>4. /\ tasks' = [tasks EXCEPT ![p][t] = k] /\ reader' = [reader EXCEPT ![p] = rd]
      /\ UNCHANGED <<server, db, journal, unseen, query, queue, running, wanted, notices, torn, doubled, stale, budget>>
  BY DEF ReadRows
<1> HIDE DEF k, rd
<1>5. /\ tasks' \in [Scanners -> Tables] /\ tasks'[p][t] = k
      /\ \A u \in TaskIDs \ {t} : tasks'[p][u] = tasks[p][u]
      /\ \A r \in Scanners \ {p} : tasks'[r] = tasks[r]
  BY <1>1, <1>2, <1>4, Parts DEF IInv, TypeScan, Tables
<1>6. /\ reader' \in [Scanners -> Reads \cup {None}] /\ reader'[p] = rd
      /\ \A r \in Scanners \ {p} : reader'[r] = reader[r]
  BY <1>3, <1>4, Parts DEF IInv, TypeScan
<1>7. Ordered(tasks[p], queue[p], running[p], reader[p]) /\ FreshIn(tasks[p], queue[p], reader[p])
  BY DEF IInv, Order, ReadsFresh
<1>8. \A u \in TaskIDs : /\ Alike(tasks'[p][u], tasks[p][u])
                         /\ tasks'[p][u].open = tasks[p][u].open
                         /\ tasks'[p][u].chained = tasks[p][u].chained
  BY <1>2, <1>5 DEF Alike
<1>9. OneOpen(tasks'[p]) /\ ChainWaits(tasks'[p])
  BY <1>7, <1>8 DEF Ordered, OneOpen, ChainWaits, Alike
<1>10. ListOnce(tasks'[p], queue[p])
  BY <1>7, <1>8 DEF Ordered, ListOnce, Alike
<1>11. MergeReady(tasks'[p], running'[p])
  <2>1. running[p] # None => running[p].task \in TaskIDs
    BY Parts DEF IInv, TypeScan, Runs
  <2>2. QED
    BY <1>4, <1>7, <1>8, <2>1 DEF Ordered, MergeReady, Alike
<1>12. Ordered(tasks'[p], queue'[p], running'[p], reader'[p])
  BY <1>3, <1>4, <1>6, <1>9, <1>10, <1>11 DEF Ordered, InlineRuns
<1>13. FreshIn(tasks'[p], queue'[p], reader'[p])
  <2>1. Fresh(rd.items)
    BY <1>3 DEF Fresh
  <2>2. QED
    BY <1>4, <1>6, <1>7, <1>8, <2>1 DEF FreshIn, Alike
<1>14. Order' /\ ReadsFresh'
  BY <1>4, <1>5, <1>6, <1>12, <1>13, LocalStep DEF IInv
<1>15. TypeScan' /\ TypeShared' /\ TypeQuery' /\ PendingKept'
  BY <1>4, <1>5, <1>6, Parts DEF IInv, TypeScan, TypeShared, TypeQuery, PendingKept
<1>16. QED
  BY <1>14, <1>15, PartsNext DEF IInv

\* A new task has no list on the queue.
LEMMA ScheduleStep ==
    ASSUME IInv, NEW p \in Scanners, Schedule(p)
    PROVE  IInv'
<1>1. tasks[p] \in Tables /\ running[p] = None
  BY Parts DEF IInv, TypeScan, Schedule
<1>2. /\ wanted' = [wanted EXCEPT ![p] = FALSE]
      /\ UNCHANGED <<server, db, journal, query, queue, running, reader, notices, torn, doubled, stale, budget>>
  BY DEF Schedule
<1>3. Ordered(tasks[p], queue[p], running[p], reader[p]) /\ FreshIn(tasks[p], queue[p], reader[p])
  BY DEF IInv, Order, ReadsFresh
<1>4. wanted' \in [Scanners -> BOOLEAN]
  BY <1>2, Parts DEF IInv, TypeQuery
<1>5. TypeShared' /\ PendingKept'
  BY <1>2, Parts DEF IInv, TypeShared, PendingKept
<1>6. CASE UNCHANGED <<unseen, tasks>>
  <2>1. Order' /\ ReadsFresh'
    BY <1>2, <1>3, <1>6, LocalStep DEF IInv
  <2>2. TypeScan' /\ TypeQuery'
    BY <1>2, <1>4, <1>6, Parts DEF IInv, TypeScan, TypeQuery
  <2>3. QED
    BY <1>5, <2>1, <2>2, PartsNext DEF IInv
<1>7. ASSUME NEW t \in TaskIDs, ~IsScanning(p), IsFree(p), Unused(p, t),
             unseen' = [unseen EXCEPT ![p] = {}],
             tasks' = [tasks EXCEPT ![p][t] =
                [NoTask EXCEPT !.open = TRUE, !.asked = TRUE, !.wire = TRUE, !.current = TRUE]]
      PROVE  IInv'
  <2> DEFINE k == [NoTask EXCEPT !.open = TRUE, !.asked = TRUE, !.wire = TRUE, !.current = TRUE]
  <2>1. k \in TaskRecords /\ k.open /\ ~k.chained /\ k.wire /\ k.cached = None /\ k.listing = None
    BY DEF NoTask, TaskRecords
  <2>2. tasks' = [tasks EXCEPT ![p][t] = k]
    BY <1>7
  <2> HIDE DEF k
  <2>3. /\ tasks' \in [Scanners -> Tables] /\ tasks'[p][t] = k
        /\ \A u \in TaskIDs \ {t} : tasks'[p][u] = tasks[p][u]
        /\ \A r \in Scanners \ {p} : tasks'[r] = tasks[r]
    BY <1>1, <2>1, <2>2, Parts DEF IInv, TypeScan, Tables
  <2>4. \A u \in TaskIDs : ~tasks[p][u].open
    BY <1>7 DEF IsScanning, TaskIDs
  <2>5. \A u \in TaskIDs : ~tasks[p][u].chained
    BY <1>3, <2>4 DEF Ordered, ChainWaits
  <2>6. OneOpen(tasks'[p]) /\ ChainWaits(tasks'[p])
    BY <2>1, <2>3, <2>4, <2>5 DEF OneOpen, ChainWaits
  <2>7. \A i \in DOMAIN queue[p] : ~IsList(queue[p][i], t)
    BY <1>7 DEF Unused, ToSet, IsList
  <2>8. ListOnce(tasks'[p], queue[p])
    <3>1. ListOnce(tasks[p], queue[p])
      BY <1>3 DEF Ordered
    <3>2. QED
      BY <2>1, <2>3, <2>7, <3>1 DEF ListOnce
  <2>9. reader[p] = None
    BY <1>7 DEF IsFree
  <2>10. Ordered(tasks'[p], queue'[p], running'[p], reader'[p])
    BY <1>1, <1>2, <2>6, <2>8, <2>9 DEF Ordered, MergeReady, InlineRuns
  <2>11. FreshIn(tasks'[p], queue'[p], reader'[p])
    BY <1>2, <1>3, <2>1, <2>3 DEF FreshIn
  <2>12. Order' /\ ReadsFresh'
    BY <1>2, <2>3, <2>10, <2>11, LocalStep DEF IInv
  <2>13. TypeScan' /\ TypeQuery'
    BY <1>2, <1>4, <1>7, <2>3, Parts DEF IInv, TypeScan, TypeQuery
  <2>14. QED
    BY <1>5, <2>12, <2>13, PartsNext DEF IInv
<1>8. \/ UNCHANGED <<unseen, tasks>>
      \/ /\ ~IsScanning(p) /\ IsFree(p) /\ unseen' = [unseen EXCEPT ![p] = {}]
         /\ \E t \in TaskIDs :
              /\ Unused(p, t)
              /\ tasks' = [tasks EXCEPT ![p][t] =
                    [NoTask EXCEPT !.open = TRUE, !.asked = TRUE, !.wire = TRUE, !.current = TRUE]]
  BY Zenon DEF Schedule, TaskIDs
<1>9. QED
  BY <1>6, <1>7, <1>8

-----------------------------------------------------------------------------
(* Transactions that change rows, or only the sync anchor.                 *)

\* What an increased anchor leaves of order and of what was read.
LEMMA OutdatedKeeps ==
    ASSUME IInv, NEW r \in Scanners
    PROVE  /\ OneOpen(Outdated(tasks)[r]) /\ ChainWaits(Outdated(tasks)[r])
           /\ MergeReady(Outdated(tasks)[r], running[r])
           /\ ListOnce(Outdated(tasks)[r], OutdatedReads(queue)[r])
           /\ \A t \in TaskIDs : ~Outdated(tasks)[r][t].current
<1> DEFINE T == tasks[r]
           U == Outdated(tasks)[r]
           q == queue[r]
           s == OutdatedReads(queue)[r]
<1>1. T \in Tables /\ running[r] \in Runs
  BY Parts DEF IInv, TypeScan
<1>2. \A t \in TaskIDs : T[t] \in TaskRecords
  BY <1>1 DEF Tables
<1>3. \A t \in TaskIDs : U[t] = [T[t] EXCEPT !.current = FALSE]
  BY OutdatedType DEF IInv
<1>4. /\ DOMAIN s = DOMAIN q
      /\ \A i \in DOMAIN q : /\ s[i].op = q[i].op
                             /\ q[i].op # "cache" => s[i] = q[i]
  BY OutdatedReadsType DEF IInv
<1>5. OneOpen(T) /\ ChainWaits(T) /\ MergeReady(T, running[r]) /\ ListOnce(T, q)
  BY DEF IInv, Order, Ordered
<1> HIDE DEF T, U, q, s
<1>6. ASSUME NEW t \in TaskIDs
      PROVE  /\ U[t].open = T[t].open /\ U[t].chained = T[t].chained /\ U[t].cached = T[t].cached
             /\ U[t].listing = T[t].listing /\ U[t].wire = T[t].wire /\ ~U[t].current
  BY <1>2, <1>3 DEF TaskRecords
<1>7. \A i \in DOMAIN q, t \in TaskIDs : IsList(s[i], t) => IsList(q[i], t)
  BY <1>4 DEF IsList
<1>8. ListOnce(U, s)
  BY <1>4, <1>5, <1>6, <1>7 DEF ListOnce
<1>9. OneOpen(U) /\ ChainWaits(U)
  BY <1>5, <1>6 DEF OneOpen, ChainWaits
<1>10. MergeReady(U, running[r])
  <2>1. running[r] # None => running[r].task \in TaskIDs
    BY <1>1 DEF Runs
  <2>2. QED
    BY <1>5, <1>6, <2>1 DEF MergeReady
<1>11. QED
  BY <1>6, <1>8, <1>9, <1>10 DEF T, U, q, s

LEMMA TransactKeeps ==
    ASSUME IInv, NEW p \in Processes, NEW rows \in RowSets, NEW tag \in Nat,
           NEW results \in Versions \cup {None}, Transact(p, rows, tag, results)
    PROVE  /\ db' \in [tag : Nat, rows : RowSets] /\ db'.rows = rows
           /\ unseen' \in [Scanners -> SUBSET Files]
           /\ queue' \in [Scanners -> Seq(Blocks)]
           /\ notices' \subseteq Scanners /\ torn' \in BOOLEAN
           /\ torn => torn'
           /\ \A r \in Scanners : reader[r] # None => torn'
           /\ \A r \in Scanners : /\ \A i \in DOMAIN queue'[r] :
                                        queue'[r][i].op = "cache" => ~queue'[r][i].current
                                  /\ \A T : ListOnce(T, OutdatedReads(queue)[r]) => ListOnce(T, queue'[r])
<1> DEFINE b == Update(Delta(rows, Changed(rows)), results)
<1>1. b \in Blocks /\ b.op = "update"
  BY UpdateType DEF Update
<1>2. /\ db' = [tag |-> tag, rows |-> rows]
      /\ unseen' = [q \in Scanners |-> IF q = p THEN {} ELSE unseen[q] \cup Changed(rows)]
      /\ queue' = [q \in Scanners |->
            IF q = p THEN Append(OutdatedReads(queue)[q], b) ELSE OutdatedReads(queue)[q]]
      /\ notices' = notices \cup (Scanners \ {p})
      /\ torn' = (torn \/ \E q \in Scanners : reader[q] # None)
  BY DEF Transact
<1> HIDE DEF b
<1>3. db' \in [tag : Nat, rows : RowSets] /\ db'.rows = rows
  BY <1>2
<1>4. unseen' \in [Scanners -> SUBSET Files]
  <2>1. Changed(rows) \subseteq Files
    BY DEF Changed
  <2>2. QED
    BY <1>2, <2>1, Parts DEF IInv, TypeQuery
<1>5. notices' \subseteq Scanners
  BY <1>2, Parts DEF IInv, TypeShared
<1>6. torn' \in BOOLEAN /\ (torn => torn') /\ \A r \in Scanners : reader[r] # None => torn'
  BY Zenon, <1>2, Parts DEF IInv, TypeShared
<1>7. ASSUME NEW r \in Scanners
      PROVE  /\ queue'[r] \in Seq(Blocks)
             /\ \A i \in DOMAIN queue'[r] : queue'[r][i].op = "cache" => ~queue'[r][i].current
             /\ \A T : ListOnce(T, OutdatedReads(queue)[r]) => ListOnce(T, queue'[r])
  <2> DEFINE s == OutdatedReads(queue)[r]
  <2>1. /\ s \in Seq(Blocks)
        /\ \A i \in DOMAIN s : s[i].op = "cache" => ~s[i].current
    BY OutdatedReadsType DEF IInv
  <2>2. queue'[r] = s \/ queue'[r] = Append(s, b)
    BY <1>2
  <2> HIDE DEF s
  <2>3. /\ Append(s, b) \in Seq(Blocks)
        /\ \A i \in DOMAIN Append(s, b) : (i \in DOMAIN s /\ Append(s, b)[i] = s[i]) \/ Append(s, b)[i] = b
    BY <1>1, <2>1
  <2>4. \A i \in DOMAIN queue'[r] : queue'[r][i].op = "cache" => ~queue'[r][i].current
    BY <1>1, <2>1, <2>2, <2>3
  <2>5. \A T : ListOnce(T, s) => ListOnce(T, Append(s, b))
    BY <1>1, <2>1, ListAppend
  <2>6. QED
    BY <2>1, <2>2, <2>3, <2>4, <2>5 DEF s
<1>8. queue' \in [Scanners -> Seq(Blocks)]
  BY <1>2, <1>7
<1>9. QED
  BY <1>3, <1>4, <1>5, <1>6, <1>7, <1>8

\* The transaction of an action.
LEMMA ActionKeeps ==
    ASSUME IInv, NEW p \in Processes, NEW rows \in RowSets, NEW tag \in Nat,
           Transact(p, rows, tag, None), tasks' = Outdated(tasks), UNCHANGED <<running, reader>>
    PROVE  TypeScan' /\ Order' /\ ReadsFresh'
<1>1. /\ queue' \in [Scanners -> Seq(Blocks)]
      /\ \A r \in Scanners : reader[r] # None => torn'
      /\ \A r \in Scanners : /\ \A i \in DOMAIN queue'[r] :
                                   queue'[r][i].op = "cache" => ~queue'[r][i].current
                             /\ \A T : ListOnce(T, OutdatedReads(queue)[r]) => ListOnce(T, queue'[r])
  BY TransactKeeps
<1>2. TypeScan'
  BY <1>1, OutdatedType, Parts DEF IInv, TypeScan
<1>3. ASSUME NEW r \in Scanners
      PROVE  /\ Ordered(tasks'[r], queue'[r], running'[r], reader'[r])
             /\ FreshIn(tasks[r], queue[r], reader[r])'
  <2>1. InlineRuns(running'[r], reader'[r])
    BY DEF IInv, Order, Ordered
  <2>2. /\ OneOpen(tasks'[r]) /\ ChainWaits(tasks'[r]) /\ MergeReady(tasks'[r], running'[r])
        /\ ListOnce(tasks'[r], queue'[r])
        /\ \A t \in TaskIDs : ~tasks'[r][t].current
    BY <1>1, OutdatedKeeps
  <2>3. QED
    BY <1>1, <2>1, <2>2 DEF Ordered, FreshIn, Fresh
<1>4. QED
  BY <1>2, <1>3 DEF Order, ReadsFresh

LEMMA SubmitStep ==
    ASSUME IInv, NEW p \in Processes, NEW f \in Files, NEW kind \in {"delete", "edit"}, Submit(p, f, kind)
    PROVE  IInv'
<1>1. /\ db \in [tag : Nat, rows : RowSets] /\ db.rows \in RowSets /\ db.tag \in Nat
      /\ db.rows \in [Files -> Rows \cup {None}]
      /\ journal \in [Files -> Entries \cup {None}] /\ budget \in [Bounded -> Nat]
  BY Parts DEF IInv, TypeShared, RowSets
<1>2. \A v \in Items(p, f) : v \in Nat
  <2>1. VersionsOf(Visible(db.rows)) \in Versions
    BY <1>1, VisibleType, VersionsType
  <2>2. p \in Scanners => query[p].shown \in Versions
    BY Parts DEF IInv, TypeQuery, Queries
  <2>3. QED
    BY <2>1, <2>2 DEF Items, Versions
<1>3. PICK v \in Items(p, f) :
        /\ Transact(p, [db.rows EXCEPT ![f] = Row(v, TRUE, kind = "delete", p)], db.tag, None)
        /\ tasks' = Outdated(tasks)
        /\ journal' = [journal EXCEPT ![f] =
                [kind |-> kind, by |-> p, ver |-> v, outcome |-> "open", new |-> 0]]
  BY DEF Submit
<1> DEFINE new == Row(v, TRUE, kind = "delete", p)
           rows == [db.rows EXCEPT ![f] = new]
           e == [kind |-> kind, by |-> p, ver |-> v, outcome |-> "open", new |-> 0]
<1>4. /\ new \in Rows /\ new # None /\ new.pending /\ new.removed = (kind = "delete")
  <2>1. new \in Rows
    BY <1>2, RowType
  <2>2. QED
    BY <2>1, NoneAssumption DEF Row
<1>5. e \in Entries /\ e # None /\ e.kind = kind
  <2>1. e \in Entries
    BY <1>2 DEF Entries
  <2>2. QED
    BY <2>1, NoneAssumption
<1>6. Transact(p, rows, db.tag, None) /\ journal' = [journal EXCEPT ![f] = e] /\ journal[f] = None
  BY <1>3 DEF Submit
<1> HIDE DEF new, e
<1>7. rows \in RowSets /\ rows[f] = new /\ \A g \in Files \ {f} : rows[g] = db.rows[g]
  BY <1>1, <1>4 DEF RowSets
<1> HIDE DEF rows
<1>8. UNCHANGED <<server, query, running, reader, wanted, doubled, stale>>
  BY DEF Submit
<1>9. TypeScan' /\ Order' /\ ReadsFresh'
  BY <1>1, <1>3, <1>6, <1>7, <1>8, ActionKeeps
<1>10. /\ db' \in [tag : Nat, rows : RowSets] /\ db'.rows = rows
       /\ unseen' \in [Scanners -> SUBSET Files]
       /\ notices' \subseteq Scanners /\ torn' \in BOOLEAN /\ (torn => torn')
  BY <1>1, <1>6, <1>7, TransactKeeps
<1>11. journal' \in [Files -> Entries \cup {None}] /\ journal'[f] = e
       /\ \A g \in Files \ {f} : journal'[g] = journal[g]
  BY <1>1, <1>5, <1>6
<1>12. budget' \in [Bounded -> Nat]
  BY <1>1 DEF Submit, Spend, Bounded
<1>13. TypeShared' /\ TypeQuery'
  BY <1>8, <1>10, <1>11, <1>12, Parts DEF IInv, TypeShared, TypeQuery
<1>14. PendingKept'
  BY <1>4, <1>5, <1>7, <1>10, <1>11 DEF IInv, PendingKept
<1>15. QED
  BY <1>9, <1>13, <1>14, PartsNext DEF IInv

LEMMA FinishStep ==
    ASSUME IInv, NEW f \in Files, Finish(f)
    PROVE  IInv'
<1> DEFINE e == journal[f]
           p == e.by
           new == Restored(e)
           rows == [db.rows EXCEPT ![f] = new]
<1>1. /\ db \in [tag : Nat, rows : RowSets] /\ db.rows \in RowSets /\ db.tag \in Nat
      /\ db.rows \in [Files -> Rows \cup {None}]
      /\ journal \in [Files -> Entries \cup {None}] /\ stale \subseteq Files
      /\ wanted \in [Scanners -> BOOLEAN]
  BY Parts DEF IInv, TypeShared, TypeQuery, RowSets
<1>2. e \in Entries
  BY <1>1 DEF Finish
<1>3. p \in Processes /\ e.ver \in Nat /\ e.new \in Nat
  BY <1>2 DEF Entries
<1>4. new \in Rows /\ ~new.pending
  <2>1. new \in Rows
    BY <1>3, RowType DEF Restored
  <2>2. QED
    BY <2>1 DEF Restored, Row
<1>5. /\ Transact(p, rows, db.tag, None)
      /\ wanted' = [q \in Scanners |-> wanted[q] \/ (q = p /\ journal[f].outcome = "missing")]
      /\ stale' = IF db.tag = server.tag /\ VersionsOf(Visible(rows))[f] # server.items[f]
                  THEN stale \cup {f} ELSE stale
      /\ journal' = [journal EXCEPT ![f] = None]
      /\ tasks' = Outdated(tasks)
      /\ UNCHANGED <<server, query, running, reader, doubled, budget>>
  BY DEF Finish
<1> HIDE DEF new, p, e
<1>6. rows \in RowSets /\ rows[f] = new /\ \A g \in Files \ {f} : rows[g] = db.rows[g]
  BY <1>1, <1>4 DEF RowSets
<1> HIDE DEF rows
<1>7. TypeScan' /\ Order' /\ ReadsFresh'
  BY <1>1, <1>3, <1>5, <1>6, ActionKeeps
<1>8. /\ db' \in [tag : Nat, rows : RowSets] /\ db'.rows = rows
      /\ unseen' \in [Scanners -> SUBSET Files]
      /\ notices' \subseteq Scanners /\ torn' \in BOOLEAN /\ (torn => torn')
  BY <1>1, <1>3, <1>5, <1>6, TransactKeeps
<1>9. journal' \in [Files -> Entries \cup {None}] /\ journal'[f] = None
      /\ \A g \in Files \ {f} : journal'[g] = journal[g]
  BY <1>1, <1>5
<1>10. stale' \subseteq Files /\ wanted' \in [Scanners -> BOOLEAN]
  <2>1. stale' \subseteq Files
    BY <1>1, <1>5
  <2>2. wanted' \in [Scanners -> BOOLEAN]
    BY <1>5
  <2>3. QED
    BY <2>1, <2>2
<1>11. TypeShared' /\ TypeQuery'
  BY <1>5, <1>8, <1>9, <1>10, Parts DEF IInv, TypeShared, TypeQuery
<1>12. PendingKept'
  BY <1>4, <1>6, <1>8, <1>9 DEF IInv, PendingKept
<1>13. QED
  BY <1>7, <1>11, <1>12, PartsNext DEF IInv

-----------------------------------------------------------------------------
(* The merge.                                                              *)

\* The rows the merge writes.
LEMMA RowMarks ==
    ASSUME NEW v \in Nat, NEW p \in Processes
    PROVE  /\ Row(v, TRUE, FALSE, p) \in Rows
           /\ Row(v, TRUE, FALSE, p).pending /\ ~Row(v, TRUE, FALSE, p).removed
           /\ Row(v, FALSE, FALSE, p) \in Rows /\ ~Row(v, FALSE, FALSE, p).pending
           /\ Row(v, FALSE, TRUE, p) \in Rows /\ ~Row(v, FALSE, TRUE, p).pending
           /\ Row(v, TRUE, TRUE, p) \in Rows
           /\ Row(v, TRUE, TRUE, p).pending /\ Row(v, TRUE, TRUE, p).removed
<1>1. /\ Row(v, TRUE, FALSE, p) \in Rows /\ Row(v, FALSE, FALSE, p) \in Rows
      /\ Row(v, FALSE, TRUE, p) \in Rows /\ Row(v, TRUE, TRUE, p) \in Rows
  BY RowType
<1>2. Row(v, TRUE, FALSE, p).pending /\ ~Row(v, TRUE, FALSE, p).removed
  BY DEF Row
<1>3. ~Row(v, FALSE, FALSE, p).pending /\ ~Row(v, FALSE, TRUE, p).pending
  BY DEF Row
<1>4. Row(v, TRUE, TRUE, p).pending /\ Row(v, TRUE, TRUE, p).removed
  BY DEF Row
<1>5. QED
  BY <1>1, <1>2, <1>3, <1>4

\* The cases of the merge.
LEMMA MergedIs ==
    ASSUME NEW p \in Processes, NEW c \in Rows \cup {None}, NEW l \in Nat, NEW r \in Rows \cup {None},
           NEW m, m = Merged(p, c, l, r)
    PROVE  \/ c # None /\ c.pending /\ m \in Rows /\ m.pending /\ ~m.removed
           \/ c # None /\ ~c.pending /\ m \in Rows /\ ~m.pending
           \/ /\ c = None /\ r # None /\ m \in Rows
              /\ r.pending /\ r.removed => m.pending /\ m.removed
              /\ ~r.pending => ~m.pending
           \/ c = None /\ r = None /\ m \in Rows /\ ~m.pending
           \/ m = r
<1>1. c # None => c.ver \in Nat
  BY DEF Rows
<1>2. CASE l # 0 /\ c # None /\ c.pending
  <2>1. m = Row(c.ver, TRUE, FALSE, p)
    BY Zenon, <1>2 DEF Merged
  <2>2. m \in Rows /\ m.pending /\ ~m.removed
    BY Zenon, <1>1, <1>2, <2>1, RowMarks
  <2>3. QED
    BY <1>2, <2>2
<1>3. CASE l # 0 /\ c # None /\ ~c.pending /\ l # c.ver
  <2>1. m = Row(l, FALSE, FALSE, p)
    BY Zenon, <1>3 DEF Merged
  <2>2. m \in Rows /\ ~m.pending
    BY Zenon, <2>1, RowMarks
  <2>3. QED
    BY <1>3, <2>2
<1>4. CASE l # 0 /\ c = None /\ r # None
  <2>1. m = Row(l, r.pending, r.pending /\ r.removed, p)
    BY Zenon, <1>4 DEF Merged
  <2>2. r.pending \in BOOLEAN /\ r.removed \in BOOLEAN
    BY <1>4 DEF Rows
  <2>3. CASE r.pending /\ r.removed
    <3>1. r.pending = TRUE /\ (r.pending /\ r.removed) = TRUE
      BY <2>2, <2>3
    <3>2. m = Row(l, TRUE, TRUE, p)
      BY Zenon, <2>1, <3>1
    <3>3. m \in Rows /\ m.pending /\ m.removed
      BY Zenon, <3>2, RowMarks
    <3>4. QED
      BY <1>4, <2>3, <3>3
  <2>4. CASE r.pending /\ ~r.removed
    <3>1. r.pending = TRUE /\ (r.pending /\ r.removed) = FALSE
      BY <2>2, <2>4
    <3>2. m = Row(l, TRUE, FALSE, p)
      BY Zenon, <2>1, <3>1
    <3>3. m \in Rows
      BY Zenon, <3>2, RowMarks
    <3>4. QED
      BY <1>4, <2>4, <3>3
  <2>5. CASE ~r.pending
    <3>1. r.pending = FALSE /\ (r.pending /\ r.removed) = FALSE
      BY <2>2, <2>5
    <3>2. m = Row(l, FALSE, FALSE, p)
      BY Zenon, <2>1, <3>1
    <3>3. m \in Rows /\ ~m.pending
      BY Zenon, <3>2, RowMarks
    <3>4. QED
      BY <1>4, <2>5, <3>3
  <2>6. QED
    BY <2>3, <2>4, <2>5
<1>5. CASE l # 0 /\ c = None /\ r = None
  <2>1. m = Row(l, FALSE, FALSE, p)
    BY Zenon, <1>5 DEF Merged
  <2>2. m \in Rows /\ ~m.pending
    BY Zenon, <2>1, RowMarks
  <2>3. QED
    BY <1>5, <2>2
<1>6. CASE l = 0 /\ c # None /\ ~c.pending
  <2>1. m = Row(c.ver, FALSE, TRUE, p)
    BY Zenon, <1>6 DEF Merged
  <2>2. m \in Rows /\ ~m.pending
    BY Zenon, <1>1, <1>6, <2>1, RowMarks
  <2>3. QED
    BY <1>6, <2>2
<1>7. CASE /\ ~(l # 0 /\ c # None /\ c.pending)
           /\ ~(l # 0 /\ c # None /\ ~c.pending /\ l # c.ver)
           /\ ~(l # 0 /\ c = None /\ r # None) /\ ~(l # 0 /\ c = None /\ r = None)
           /\ ~(l = 0 /\ c # None /\ ~c.pending)
  BY <1>7 DEF Merged
<1>8. QED
  BY <1>2, <1>3, <1>4, <1>5, <1>6, <1>7

LEMMA MergedType ==
    ASSUME NEW p \in Processes, NEW c \in Rows \cup {None}, NEW l \in Nat, NEW r \in Rows \cup {None}
    PROVE  Merged(p, c, l, r) \in Rows \cup {None} /\ Result(c, l, r) \in Nat
<1>1. c # None => c.ver \in Nat
  BY DEF Rows
<1>2. Result(c, l, r) \in Nat
  BY <1>1 DEF Result
<1>3. ASSUME NEW m, m = Merged(p, c, l, r) PROVE m \in Rows \cup {None}
  BY <1>3, MergedIs
<1>4. QED
  BY <1>2, <1>3

Seen(r) == IF r # None /\ ~r.removed THEN r ELSE None

\* The merge of a row that was read as it is keeps its mark; a row that was
\* not found is one that is removed.
LEMMA MergedMarks ==
    ASSUME NEW p \in Processes, NEW l \in Nat, NEW r \in Rows \cup {None}, NEW c,
           c = Seen(r),
           NEW m, m = Merged(p, c, l, r)
    PROVE  /\ (m # None /\ m.pending) <=> (r # None /\ r.pending)
           /\ (r # None /\ r.pending) => m.removed = r.removed
<1>1. r # None => r.pending \in BOOLEAN /\ r.removed \in BOOLEAN
  BY DEF Rows
<1>2. \/ c # None /\ c = r /\ ~r.removed
      \/ c = None /\ (r = None \/ r.removed)
  BY DEF Seen
<1>3. CASE c # None /\ c.pending /\ m \in Rows /\ m.pending /\ ~m.removed
  <2>1. r # None /\ r.pending /\ ~r.removed
    BY <1>2, <1>3
  <2>2. m.removed \in BOOLEAN
    BY <1>3 DEF Rows
  <2>3. QED
    BY <1>1, <1>3, <2>1, <2>2, NoneAssumption
<1>4. CASE c # None /\ ~c.pending /\ m \in Rows /\ ~m.pending
  BY <1>2, <1>4
<1>5. CASE /\ c = None /\ r # None /\ m \in Rows
           /\ r.pending /\ r.removed => m.pending /\ m.removed
           /\ ~r.pending => ~m.pending
  <2>1. m.removed \in BOOLEAN
    BY <1>5 DEF Rows
  <2>2. r.removed
    BY <1>2, <1>5
  <2>3. QED
    BY <1>1, <1>5, <2>1, <2>2, NoneAssumption
<1>6. CASE c = None /\ r = None /\ m \in Rows /\ ~m.pending
  BY <1>6
<1>7. CASE m = r
  BY <1>7
<1>8. c \in Rows \cup {None}
  BY <1>2
<1>9. QED
  BY <1>3, <1>4, <1>5, <1>6, <1>7, <1>8, MergedIs

LEMMA CompleteStep ==
    ASSUME IInv, NEW p \in Scanners, running[p] # None, running[p].op = "merge", NoReadAhead(p),
           tasks[p][running[p].task].current, CompleteMerge(p, running[p].task)
    PROVE  IInv'
<1> DEFINE t == running[p].task
           k == tasks[p][t]
           T == Outdated(tasks)
           l == [k EXCEPT !.current = FALSE]
           rows == [f \in Files |-> Merged(p, k.cached[f], k.listing.items[f], db.rows[f])]
           results == [f \in Files |-> Result(k.cached[f], k.listing.items[f], db.rows[f])]
<1>1. /\ db \in [tag : Nat, rows : RowSets] /\ db.rows \in [Files -> Rows \cup {None}]
      /\ tasks[p] \in Tables /\ running \in [Scanners -> Runs] /\ reader[p] = None
      /\ tasks \in [Scanners -> Tables] /\ p \in Processes
  BY ItemListAssumption, Parts DEF IInv, TypeShared, TypeScan, RowSets, NoReadAhead, IsFree
<1>2. t \in TaskIDs
  BY <1>1 DEF Runs
<1>3. k \in TaskRecords /\ k.open /\ k.cached # None /\ k.listing # None
  BY <1>1, <1>2 DEF Tables, IInv, Order, Ordered, MergeReady
<1>4. /\ k.cached \in [Files -> Rows \cup {None}] /\ k.listing.items \in [Files -> Nat]
      /\ k.listing.tag \in Nat
  BY <1>3 DEF TaskRecords, RowSets, Lists, Versions
<1>5. rows \in RowSets /\ results \in Versions
  BY <1>1, <1>4, MergedType DEF RowSets, Versions
<1>6. /\ Transact(p, rows, k.listing.tag, results) /\ Leave(T, p, t, l)
      /\ UNCHANGED <<server, journal, query, reader, wanted, doubled, stale, budget>>
  BY DEF CompleteMerge
<1>7. torn \/ \A f \in Files :
        k.cached[f] = Seen(db.rows[f])
  <2>1. Fresh(k.cached)
    BY <1>2, <1>3 DEF IInv, ReadsFresh, FreshIn
  <2>2. QED
    BY <2>1 DEF Fresh, Visible, Seen
<1>8. \A f \in Files : rows[f] = Merged(p, k.cached[f], k.listing.items[f], db.rows[f])
  OBVIOUS
<1>9. T \in [Scanners -> Tables] /\ T[p][t] = l /\ \A r \in Scanners : T[r] \in Tables
  BY <1>2, OutdatedType DEF IInv
<1>10. /\ l \in TaskRecords /\ l.open = T[p][t].open /\ l.chained = T[p][t].chained /\ ~l.current
       /\ l.cached # None /\ l.listing # None
  <2>1. l \in TaskRecords /\ ~l.current /\ l.cached = k.cached /\ l.listing = k.listing
    BY <1>3 DEF TaskRecords
  <2>2. QED
    BY <1>3, <1>9, <2>1
<1> HIDE DEF t, k, T, l, rows, results
<1>11. \A r \in Scanners :
         /\ OneOpen(T[r]) /\ ChainWaits(T[r]) /\ MergeReady(T[r], running[r])
         /\ ListOnce(T[r], OutdatedReads(queue)[r])
         /\ \A u \in TaskIDs : ~T[r][u].current
  BY OutdatedKeeps DEF T
<1>12. /\ tasks' \in [Scanners -> Tables]
       /\ running' \in [Scanners -> Runs]
       /\ OneOpen(tasks'[p]) /\ ChainWaits(tasks'[p])
       /\ MergeReady(tasks'[p], running'[p])
       /\ Alike(tasks'[p][t], l)
       /\ \A u \in TaskIDs \ {t} : Alike(tasks'[p][u], T[p][u])
       /\ \A r \in Scanners \ {p} : tasks'[r] = T[r] /\ running'[r] = running[r]
  BY <1>1, <1>2, <1>6, <1>9, <1>10, <1>11, LeaveKeeps
<1>13. /\ db' \in [tag : Nat, rows : RowSets] /\ db'.rows = rows
       /\ unseen' \in [Scanners -> SUBSET Files]
       /\ queue' \in [Scanners -> Seq(Blocks)]
       /\ notices' \subseteq Scanners /\ torn' \in BOOLEAN /\ (torn => torn')
       /\ \A r \in Scanners : reader[r] # None => torn'
       /\ \A r \in Scanners : /\ \A i \in DOMAIN queue'[r] :
                                    queue'[r][i].op = "cache" => ~queue'[r][i].current
                              /\ \A U : ListOnce(U, OutdatedReads(queue)[r]) => ListOnce(U, queue'[r])
  BY <1>1, <1>4, <1>5, <1>6, TransactKeeps
<1>14. \A u \in TaskIDs : Alike(tasks'[p][u], T[p][u])
  BY <1>9, <1>12
<1>15. ListOnce(tasks'[p], queue'[p])
  <2> DEFINE U == tasks'[p]
             V == T[p]
  <2>1. \A u \in TaskIDs : U[u].wire = V[u].wire /\ U[u].listing = V[u].listing
    BY <1>14 DEF Alike
  <2>2. ListOnce(V, queue'[p])
    BY <1>11, <1>13
  <2> HIDE DEF U, V
  <2>3. ListOnce(U, queue'[p])
    BY <2>1, <2>2, ListAlike
  <2>4. QED
    BY <2>3 DEF U
<1>16. ASSUME NEW r \in Scanners
       PROVE  /\ Ordered(tasks'[r], queue'[r], running'[r], reader'[r])
              /\ FreshIn(tasks[r], queue[r], reader[r])'
  <2>1. \A u \in TaskIDs : ~tasks'[r][u].current
    BY <1>11, <1>12, <1>14 DEF Alike
  <2>2. reader'[r] = reader[r] /\ InlineRuns(running[r], reader[r])
    BY <1>6 DEF IInv, Order, Ordered
  <2>3. FreshIn(tasks[r], queue[r], reader[r])'
    BY <1>13, <2>1, <2>2 DEF FreshIn, Fresh
  <2>4. CASE r = p
    BY <1>1, <1>12, <1>15, <2>2, <2>3, <2>4 DEF Ordered, InlineRuns
  <2>5. CASE r # p
    BY <1>11, <1>12, <1>13, <2>2, <2>3, <2>5 DEF Ordered
  <2>6. QED
    BY <2>4, <2>5
<1>17. Order' /\ ReadsFresh'
  BY <1>16 DEF Order, ReadsFresh
<1>18. PendingKept'
  <2>1. SUFFICES ASSUME ~torn', NEW f \in Files
                 PROVE  /\ (journal[f] # None) <=> (rows[f] # None /\ rows[f].pending)
                        /\ journal[f] # None => rows[f].removed = (journal[f].kind = "delete")
    BY <1>6, <1>13 DEF PendingKept
  <2>2. /\ (journal[f] # None) <=> (db.rows[f] # None /\ db.rows[f].pending)
        /\ journal[f] # None => db.rows[f].removed = (journal[f].kind = "delete")
    BY <1>13, <2>1 DEF IInv, PendingKept
  <2>3. /\ (rows[f] # None /\ rows[f].pending) <=> (db.rows[f] # None /\ db.rows[f].pending)
        /\ db.rows[f] # None /\ db.rows[f].pending => rows[f].removed = db.rows[f].removed
    <3> DEFINE c == k.cached[f]
               r == db.rows[f]
               n == k.listing.items[f]
    <3>1. r \in Rows \cup {None} /\ n \in Nat
      BY <1>1, <1>4
    <3>2. c = Seen(r)
      BY <1>7, <1>13, <2>1
    <3>3. rows[f] = Merged(p, c, n, r)
      BY <1>8
    <3> DEFINE m == rows[f]
    <3> HIDE DEF c, r, n, m
    <3>4. m = Merged(p, c, n, r)
      BY <3>3 DEF m
    <3>5. /\ (m # None /\ m.pending) <=> (r # None /\ r.pending)
          /\ (r # None /\ r.pending) => m.removed = r.removed
      BY <1>1, <3>1, <3>2, <3>4, MergedMarks
    <3>6. QED
      BY <3>5 DEF r, m
  <2>4. QED
    BY <2>2, <2>3
<1>19. TypeScan' /\ TypeShared' /\ TypeQuery'
  BY <1>6, <1>12, <1>13, Parts DEF IInv, TypeScan, TypeShared, TypeQuery
<1>20. QED
  BY <1>17, <1>18, <1>19, PartsNext DEF IInv

LEMMA PutOffStep ==
    ASSUME IInv, NEW p \in Scanners, running[p] # None, running[p].op = "merge", NoReadAhead(p),
           PutOff(p, running[p].task)
    PROVE  IInv'
<1> DEFINE t == running[p].task
           T == Outdated(tasks)
           k == [T[p][t] EXCEPT !.current = TRUE, !.cached = None, !.asked = TRUE]
<1>1. /\ tasks[p] \in Tables /\ running \in [Scanners -> Runs] /\ reader[p] = None
  BY Parts DEF IInv, TypeScan, NoReadAhead, IsFree
<1>2. t \in TaskIDs
  BY <1>1 DEF Runs
<1>3. tasks[p][t].open
  BY <1>2 DEF IInv, Order, Ordered, MergeReady
<1>4. T \in [Scanners -> Tables] /\ T[p] \in Tables /\ T[p][t] \in TaskRecords /\ T[p][t].open
  <2>1. T \in [Scanners -> Tables] /\ T[p][t] = [tasks[p][t] EXCEPT !.current = FALSE]
    BY <1>2, OutdatedType DEF IInv
  <2>2. tasks[p][t] \in TaskRecords
    BY <1>1, <1>2 DEF Tables
  <2> HIDE DEF T
  <2>3. T[p] \in Tables /\ T[p][t] \in TaskRecords
    BY <1>2, <2>1 DEF Tables
  <2>4. T[p][t].open
    BY <1>3, <2>1, <2>2 DEF TaskRecords
  <2>5. QED
    BY <2>1, <2>3, <2>4
<1>5. /\ tasks' = [T EXCEPT ![p][t] = k] /\ queue' = OutdatedReads(queue)
      /\ unseen' = [unseen EXCEPT ![p] = {}] /\ running' = [running EXCEPT ![p] = None]
      /\ doubled' = (doubled \/ Waiting(p, t))
      /\ UNCHANGED <<server, db, journal, query, reader, wanted, notices, torn, stale, budget>>
  BY DEF PutOff
<1>6. \A r \in Scanners :
         /\ OneOpen(T[r]) /\ ChainWaits(T[r]) /\ MergeReady(T[r], running[r])
         /\ ListOnce(T[r], OutdatedReads(queue)[r])
         /\ \A u \in TaskIDs : ~T[r][u].current
  BY OutdatedKeeps
<1> HIDE DEF t, T
<1>7. /\ k \in TaskRecords /\ k.open = T[p][t].open /\ k.chained = T[p][t].chained
      /\ k.wire = T[p][t].wire /\ k.listing = T[p][t].listing /\ k.cached = None
  BY <1>4 DEF TaskRecords
<1> HIDE DEF k
<1>8. /\ tasks' \in [Scanners -> Tables] /\ tasks'[p][t] = k
      /\ \A u \in TaskIDs \ {t} : tasks'[p][u] = T[p][u]
      /\ \A r \in Scanners \ {p} : tasks'[r] = T[r]
  BY <1>2, <1>4, <1>5, <1>7 DEF Tables
<1>9. ~T[p][t].chained
  BY <1>2, <1>4, <1>6 DEF ChainWaits
<1>10. running' \in [Scanners -> Runs] /\ running'[p] = None
       /\ \A r \in Scanners \ {p} : running'[r] = running[r]
  BY <1>1, <1>5 DEF Runs
<1>11. queue' \in [Scanners -> Seq(Blocks)]
  BY <1>5, OutdatedReadsType DEF IInv, OutdatedReads
<1>12. OneOpen(tasks'[p]) /\ ChainWaits(tasks'[p])
  <2>1. \A u \in TaskIDs : tasks'[p][u].open = T[p][u].open
    BY <1>7, <1>8
  <2>2. OneOpen(tasks'[p])
    BY <1>6, <2>1 DEF OneOpen
  <2>3. ChainWaits(tasks'[p])
    BY <1>6, <1>7, <1>8, <1>9, <2>1 DEF ChainWaits
  <2>4. QED
    BY <2>2, <2>3
<1>13. ListOnce(tasks'[p], queue'[p])
  <2> DEFINE U == tasks'[p]
             V == T[p]
  <2>1. \A u \in TaskIDs : U[u].wire = V[u].wire /\ U[u].listing = V[u].listing
    BY <1>7, <1>8
  <2>2. ListOnce(V, queue'[p])
    BY <1>5, <1>6
  <2> HIDE DEF U, V
  <2>3. ListOnce(U, queue'[p])
    BY <2>1, <2>2, ListAlike
  <2>4. QED
    BY <2>3 DEF U
<1>14. ASSUME NEW r \in Scanners
       PROVE  /\ Ordered(tasks'[r], queue'[r], running'[r], reader'[r])
              /\ FreshIn(tasks[r], queue[r], reader[r])'
  <2>1. reader'[r] = reader[r] /\ InlineRuns(running[r], reader[r])
    BY <1>5 DEF IInv, Order, Ordered
  <2>2. \A i \in DOMAIN queue'[r] : queue'[r][i].op = "cache" => ~queue'[r][i].current
    BY <1>5, OutdatedReadsType DEF IInv
  <2>3. \A u \in TaskIDs : ~tasks'[r][u].current \/ tasks'[r][u].cached = None
    BY <1>6, <1>7, <1>8
  <2>4. reader[r] # None => Fresh(reader[r].items)
    BY DEF IInv, ReadsFresh, FreshIn
  <2>5. FreshIn(tasks[r], queue[r], reader[r])'
    BY <1>5, <2>1, <2>2, <2>3, <2>4 DEF FreshIn, Fresh
  <2>6. CASE r = p
    BY <1>1, <1>10, <1>12, <1>13, <2>1, <2>5, <2>6 DEF Ordered, InlineRuns, MergeReady
  <2>7. CASE r # p
    BY <1>5, <1>6, <1>8, <1>10, <2>1, <2>5, <2>7 DEF Ordered
  <2>8. QED
    BY <2>6, <2>7
<1>15. Order' /\ ReadsFresh'
  BY <1>14 DEF Order, ReadsFresh
<1>16. doubled' \in BOOLEAN
  BY Zenon, <1>5, Parts DEF IInv, TypeShared
<1>17. TypeScan' /\ TypeShared' /\ TypeQuery' /\ PendingKept'
  BY <1>5, <1>8, <1>10, <1>11, <1>16, Parts DEF IInv, TypeScan, TypeShared, TypeQuery, PendingKept
<1>18. QED
  BY <1>15, <1>17, PartsNext DEF IInv

LEMMA MergeStep ==
    ASSUME IInv, NEW p \in Scanners, Merge(p)
    PROVE  IInv'
<1>1. running[p] # None /\ running[p].op = "merge" /\ NoReadAhead(p)
  BY DEF Merge
<1>2. CASE tasks[p][running[p].task].current /\ CompleteMerge(p, running[p].task)
  BY <1>1, <1>2, CompleteStep
<1>3. CASE PutOff(p, running[p].task)
  BY <1>1, <1>3, PutOffStep
<1>4. QED
  BY <1>2, <1>3 DEF Merge

-----------------------------------------------------------------------------
(* Steps of the server and other clients, and the specification.           *)

\* Nothing a process or the database has changes, and what an action is for.
LEMMA OutsideStep ==
    ASSUME IInv, UNCHANGED <<db, cores, notices, torn, doubled, stale>>,
           server' \in Lists, budget' \in [Bounded -> Nat],
           journal' \in [Files -> Entries \cup {None}],
           \A f \in Files :
              /\ (journal'[f] # None) <=> (journal[f] # None)
              /\ journal[f] # None => journal'[f].kind = journal[f].kind
    PROVE  IInv'
<1>1. TypeShared'
  BY Parts DEF IInv, TypeShared
<1>2. TypeQuery' /\ TypeScan'
  BY Parts DEF IInv, TypeQuery, TypeScan, cores
<1>3. Order'
  BY DEF IInv, Order, Ordered, cores
<1>4. ReadsFresh'
  BY DEF IInv, ReadsFresh, FreshIn, Fresh, cores
<1>5. PendingKept'
  BY DEF IInv, PendingKept
<1>6. QED
  BY <1>1, <1>2, <1>3, <1>4, <1>5, PartsNext DEF IInv

LEMMA PerformStep ==
    ASSUME IInv, NEW f \in Files, Perform(f)
    PROVE  IInv'
<1>1. /\ server \in Lists /\ server.items \in Versions /\ server.tag \in Nat
      /\ journal \in [Files -> Entries \cup {None}] /\ journal[f] \in Entries /\ journal[f] # None
      /\ budget \in [Bounded -> Nat]
  BY Parts DEF IInv, TypeShared, Lists, Perform
<1>2. PICK v \in {IF journal[f].kind = "delete" THEN 0 ELSE server.tag + 1} :
        /\ server' = [items |-> [server.items EXCEPT ![f] = v], tag |-> server.tag + 1]
        /\ journal' = [journal EXCEPT ![f].outcome = "done", ![f].new = v]
  BY DEF Perform
<1>3. v \in Nat
  BY <1>1
<1>4. server' \in Lists
  BY <1>1, <1>2, <1>3 DEF Lists, Versions
<1>5. /\ journal' = [journal EXCEPT ![f] = [journal[f] EXCEPT !.outcome = "done", !.new = v]]
      /\ [journal[f] EXCEPT !.outcome = "done", !.new = v] \in Entries
      /\ [journal[f] EXCEPT !.outcome = "done", !.new = v].kind = journal[f].kind
  BY <1>1, <1>2, <1>3 DEF Entries
<1> DEFINE e == [journal[f] EXCEPT !.outcome = "done", !.new = v]
<1> HIDE DEF e
<1>6. /\ journal' = [journal EXCEPT ![f] = e] /\ e \in Entries /\ e # None
      /\ e.kind = journal[f].kind
  BY <1>5, NoneAssumption DEF e
<1>7. /\ journal' \in [Files -> Entries \cup {None}]
      /\ \A g \in Files :
            /\ (journal'[g] # None) <=> (journal[g] # None)
            /\ journal[g] # None => journal'[g].kind = journal[g].kind
  BY <1>1, <1>6
<1>8. UNCHANGED <<db, cores, notices, torn, doubled, stale, budget>>
  BY DEF Perform
<1>9. QED
  BY <1>1, <1>4, <1>7, <1>8, OutsideStep

LEMMA RefuseStep ==
    ASSUME IInv, NEW f \in Files, Refuse(f)
    PROVE  IInv'
<1>1. /\ server \in Lists /\ budget \in [Bounded -> Nat]
      /\ journal \in [Files -> Entries \cup {None}] /\ journal[f] \in Entries /\ journal[f] # None
  BY Parts DEF IInv, TypeShared, Refuse
<1>2. PICK o \in {"failed", "missing"} : journal' = [journal EXCEPT ![f].outcome = o]
  BY DEF Refuse
<1> DEFINE e == [journal[f] EXCEPT !.outcome = o]
<1>3. e \in Entries /\ e.kind = journal[f].kind
  BY <1>1 DEF Entries
<1>4. journal' = [journal EXCEPT ![f] = e]
  BY <1>2
<1> HIDE DEF e
<1>5. /\ journal' \in [Files -> Entries \cup {None}]
      /\ \A g \in Files :
            /\ (journal'[g] # None) <=> (journal[g] # None)
            /\ journal[g] # None => journal'[g].kind = journal[g].kind
  BY <1>1, <1>3, <1>4, NoneAssumption
<1>6. UNCHANGED <<server, db, cores, notices, torn, doubled, stale, budget>>
  BY DEF Refuse
<1>7. QED
  BY <1>1, <1>5, <1>6, OutsideStep

LEMMA OtherClientStep ==
    ASSUME IInv, NEW f \in Files, ChangeOnServer(f)
    PROVE  IInv'
<1>1. /\ server \in Lists /\ server.items \in Versions /\ server.tag \in Nat
      /\ budget \in [Bounded -> Nat] /\ journal \in [Files -> Entries \cup {None}]
  BY Parts DEF IInv, TypeShared, Lists
<1>2. PICK v \in {0, server.tag + 1} :
        server' = [items |-> [server.items EXCEPT ![f] = v], tag |-> server.tag + 1]
  BY DEF ChangeOnServer
<1>3. server' \in Lists
  BY <1>1, <1>2 DEF Lists, Versions
<1>4. budget' \in [Bounded -> Nat]
  BY <1>1 DEF ChangeOnServer, Spend, Bounded
<1>5. UNCHANGED <<db, journal, cores, notices, torn, doubled, stale>>
  BY DEF ChangeOnServer
<1>6. QED
  BY <1>1, <1>3, <1>4, <1>5, OutsideStep

LEMMA IInvInit == Init => IInv
<1> SUFFICES ASSUME Init PROVE IInv
  OBVIOUS
<1>1. NoTask \in TaskRecords
  BY DEF NoTask, TaskRecords
<1>2. TypeShared
  BY ItemListAssumption DEF Init, TypeShared, Lists, Versions, RowSets
<1>3. TypeQuery
  <2>1. [f \in Files |-> 0] \in Versions
    BY DEF Versions
  <2>2. [state |-> "started", shown |-> [f \in Files |-> 0]] \in Queries
    BY <2>1 DEF Queries
  <2>3. unseen \in [Scanners -> SUBSET Files] /\ wanted \in [Scanners -> BOOLEAN]
    BY Zenon DEF Init
  <2>4. query \in [Scanners -> Queries]
    BY <2>2 DEF Init
  <2>5. QED
    BY <2>3, <2>4 DEF TypeQuery
<1>4. TypeScan
  BY <1>1 DEF Init, TypeScan, Tables, Runs, TaskIDs
<1>5. ASSUME NEW p \in Scanners
      PROVE  /\ Ordered(tasks[p], queue[p], running[p], reader[p])
             /\ FreshIn(tasks[p], queue[p], reader[p])
  <2>1. /\ \A t \in TaskIDs : tasks[p][t] = NoTask
        /\ queue[p] = <<>> /\ running[p] = None /\ reader[p] = None
    BY DEF Init, TaskIDs
  <2>2. /\ ~NoTask.open /\ ~NoTask.chained /\ ~NoTask.wire /\ ~NoTask.current
    BY DEF NoTask
  <2>3. DOMAIN queue[p] = {}
    BY <2>1
  <2>4. QED
    BY <2>1, <2>2, <2>3
       DEF Ordered, OneOpen, ChainWaits, MergeReady, InlineRuns, ListOnce, FreshIn
<1>6. Order /\ ReadsFresh
  BY <1>5 DEF Order, ReadsFresh
<1>7. PendingKept
  BY DEF Init, PendingKept
<1>8. QED
  BY <1>2, <1>3, <1>4, <1>6, <1>7, Parts DEF IInv

LEMMA IInvStep == IInv /\ [Next]_vars => IInv'
<1> SUFFICES ASSUME IInv, [Next]_vars PROVE IInv'
  OBVIOUS
<1>1. ASSUME NEW p \in Scanners, Schedule(p) \/ ReadAnchor(p) \/ Merge(p) \/ Notify(p)
      PROVE  IInv'
  BY <1>1, ScheduleStep, AnchorStep, MergeStep, NotifyStep
<1>2. ASSUME NEW p \in Scanners,
             RunCache(p) \/ RunList(p) \/ RunUpdate(p) \/ RunShow(p) \/ RunCheck(p)
      PROVE  IInv'
  BY <1>2, CacheStep, ListStep, UpdateStep, ShowStep, NotifyStep
<1>3. ASSUME NEW p \in Scanners, NEW t \in 1 .. Slots, Answer(p, t) \/ ReadRows(p, t)
      PROVE  IInv'
  BY <1>3, AnswerStep, RowsStep DEF TaskIDs
<1>4. ASSUME NEW f \in Files, Perform(f) \/ Refuse(f) \/ Finish(f) \/ ChangeOnServer(f)
      PROVE  IInv'
  BY <1>4, PerformStep, RefuseStep, FinishStep, OtherClientStep
<1>5. ASSUME NEW p \in Processes, NEW f \in Files, NEW kind \in {"delete", "edit"}, Submit(p, f, kind)
      PROVE  IInv'
  BY <1>5, SubmitStep
<1>6. CASE UNCHANGED vars
  <2>1. UNCHANGED <<server, db, journal, cores, notices, torn, doubled, stale, budget>>
    BY <1>6 DEF vars
  <2>2. /\ server \in Lists /\ budget \in [Bounded -> Nat]
        /\ journal \in [Files -> Entries \cup {None}]
    BY Parts DEF IInv, TypeShared
  <2>3. QED
    BY <2>1, <2>2, OutsideStep
<1>7. QED
  BY <1>1, <1>2, <1>3, <1>4, <1>5, <1>6 DEF Next, Progress

\* Whatever the queues, the server and other clients do, the variables keep
\* their types: a merge never starts from a list or rows a task does not have
\* (-handleUpdatedTask:, OCCore+ItemList.m).
THEOREM TypeCorrect == Spec => []TypeOK
<1>1. IInv => TypeOK
  BY DEF IInv
<1>2. QED
  BY <1>1, IInvInit, IInvStep, PTL DEF Spec

\* A row is marked as having an action, and hidden if that is a deletion,
\* exactly as long as the action is pending, however scans, changes on the
\* server and other processes interleave with it; unless a change came between
\* the two halves of a cache read (OCCoreItemListTask.m).
THEOREM MarksKept == Spec => []PendingKept
<1>1. IInv => PendingKept
  BY DEF IInv
<1>2. QED
  BY <1>1, IInvInit, IInvStep, PTL DEF Spec

-----------------------------------------------------------------------------
(* What a query comes to show.                                             *)

\* The version of a file that the cache has.
Now(rows, f) == VersionsOf(Visible(rows))[f]

\* A block that tells the queries of a file.
Tells(b, f) == b.op = "update" /\ b.delta[f] # None
After(q, i, f) == \E j \in DOMAIN q : i < j /\ Tells(q[j], f)

\* A query that looks like this, with q left on the queue, shows version v of
\* the file if it is idle in the end: the last block that says anything of the
\* file says v.
Settles(q, look, f, v) ==
    /\ \A i \in DOMAIN q : Tells(q[i], f) => q[i].delta[f] = v \/ After(q, i, f)
    /\ \A i \in DOMAIN q : q[i].op = "update" /\ q[i].results # None =>
          q[i].results[f] = v \/ After(q, i, f)
    /\ look.state = "idle" => look.shown[f] = v \/ After(q, 0, f)

LEMMA TailIndices ==
    ASSUME NEW q \in Seq(Blocks), q # <<>>
    PROVE  /\ Tail(q) \in Seq(Blocks) /\ Head(q) \in Blocks /\ 1 \in DOMAIN q /\ q[1] = Head(q)
           /\ \A i \in DOMAIN Tail(q) : /\ i \in Nat /\ i >= 1 /\ i + 1 \in DOMAIN q
                                        /\ Tail(q)[i] = q[i + 1]
           /\ \A j \in DOMAIN q : j \in Nat /\ j >= 1
           /\ \A j \in DOMAIN q : j # 1 => /\ j - 1 \in DOMAIN Tail(q) /\ j - 1 >= 1
                                           /\ Tail(q)[j - 1] = q[j]
<1>1. /\ DOMAIN q = 1 .. Len(q) /\ DOMAIN Tail(q) = 1 .. Len(Tail(q))
      /\ Len(q) \in Nat /\ Len(Tail(q)) = Len(q) - 1
      /\ Tail(q) \in Seq(Blocks) /\ Head(q) \in Blocks /\ 1 \in DOMAIN q /\ q[1] = Head(q)
  OBVIOUS
<1>2. \A i \in DOMAIN Tail(q) : i + 1 \in DOMAIN q /\ Tail(q)[i] = q[i + 1]
  OBVIOUS
<1>3. \A i \in 1 .. Len(q) - 1 : Tail(q)[i] = q[i + 1]
  BY <1>1, <1>2
<1>4. \A j \in 1 .. Len(q) : j # 1 => j - 1 \in 1 .. Len(q) - 1 /\ (j - 1) + 1 = j
  BY <1>1
<1>5. QED
  BY <1>1, <1>2, <1>3, <1>4

LEMMA AppendIndices ==
    ASSUME NEW q \in Seq(Blocks), NEW b \in Blocks
    PROVE  /\ Append(q, b) \in Seq(Blocks)
           /\ DOMAIN Append(q, b) = DOMAIN q \cup {Len(q) + 1} /\ Len(q) + 1 \notin DOMAIN q
           /\ Append(q, b)[Len(q) + 1] = b
           /\ \A i \in DOMAIN q : i \in Nat /\ i < Len(q) + 1 /\ Append(q, b)[i] = q[i]
           /\ Len(q) + 1 \in Nat /\ 0 < Len(q) + 1
  OBVIOUS

LEMMA AfterTail ==
    ASSUME NEW q \in Seq(Blocks), q # <<>>, NEW f, NEW i \in Nat, After(q, i + 1, f)
    PROVE  After(Tail(q), i, f)
<1>1. PICK j \in DOMAIN q : i + 1 < j /\ Tells(q[j], f)
  BY DEF After
<1>2. j \in Nat /\ j # 1 /\ i < j - 1
  BY <1>1, TailIndices
<1>3. j - 1 \in DOMAIN Tail(q) /\ Tail(q)[j - 1] = q[j]
  BY <1>2, TailIndices
<1>4. QED
  BY <1>1, <1>2, <1>3 DEF After

\* What the blocks after the first say of a file.
LEMMA SettlesLater ==
    ASSUME NEW q \in Seq(Blocks), q # <<>>, NEW look, NEW f, NEW v, Settles(q, look, f, v)
    PROVE  /\ \A i \in DOMAIN Tail(q) :
                 Tells(Tail(q)[i], f) => Tail(q)[i].delta[f] = v \/ After(Tail(q), i, f)
           /\ \A i \in DOMAIN Tail(q) : Tail(q)[i].op = "update" /\ Tail(q)[i].results # None =>
                 Tail(q)[i].results[f] = v \/ After(Tail(q), i, f)
<1>1. ASSUME NEW i \in DOMAIN Tail(q)
      PROVE  /\ Tells(Tail(q)[i], f) => Tail(q)[i].delta[f] = v \/ After(Tail(q), i, f)
             /\ Tail(q)[i].op = "update" /\ Tail(q)[i].results # None =>
                  Tail(q)[i].results[f] = v \/ After(Tail(q), i, f)
  <2>1. i \in Nat /\ i + 1 \in DOMAIN q /\ Tail(q)[i] = q[i + 1]
    BY TailIndices
  <2>2. After(q, i + 1, f) => After(Tail(q), i, f)
    BY <2>1, AfterTail
  <2>3. QED
    BY <2>1, <2>2 DEF Settles
<1>2. QED
  BY <1>1

\* A block that is no update, at the head.
LEMMA SettlesTail ==
    ASSUME NEW q \in Seq(Blocks), q # <<>>, Head(q).op # "update",
           NEW look, NEW f, NEW v, Settles(q, look, f, v)
    PROVE  Settles(Tail(q), look, f, v)
<1>1. ASSUME After(q, 0, f) PROVE After(Tail(q), 0, f)
  <2>1. PICK j \in DOMAIN q : Tells(q[j], f)
    BY <1>1 DEF After
  <2>2. j # 1
    BY <2>1, TailIndices DEF Tells
  <2>3. j - 1 \in DOMAIN Tail(q) /\ Tail(q)[j - 1] = q[j] /\ 0 < j - 1
    BY <2>2, TailIndices
  <2>4. QED
    BY <2>1, <2>3 DEF After
<1>2. QED
  BY <1>1, SettlesLater DEF Settles

\* A block that tells of the file, or says nothing that is not so.
LEMMA SettlesAppend ==
    ASSUME NEW q \in Seq(Blocks), NEW b \in Blocks, NEW look, NEW f, NEW v,
           Tells(b, f) => b.delta[f] = v,
           b.op = "update" /\ b.results # None => b.results[f] = v,
           Tells(b, f) \/ Settles(q, look, f, v)
    PROVE  Settles(Append(q, b), look, f, v)
<1> DEFINE s == Append(q, b)
           n == Len(q) + 1
<1>1. /\ DOMAIN s = DOMAIN q \cup {n} /\ n \notin DOMAIN q /\ s[n] = b
      /\ \A i \in DOMAIN q : i \in Nat /\ i < n /\ s[i] = q[i]
      /\ n \in Nat /\ 0 < n
  BY AppendIndices
<1> HIDE DEF s, n
<1>2. \A i : After(q, i, f) => After(s, i, f)
  BY <1>1 DEF After
<1>3. Tells(b, f) => After(s, 0, f) /\ \A i \in DOMAIN q : After(s, i, f)
  BY <1>1 DEF After
<1>4. ASSUME NEW i \in DOMAIN s
      PROVE  /\ Tells(s[i], f) => s[i].delta[f] = v \/ After(s, i, f)
             /\ s[i].op = "update" /\ s[i].results # None => s[i].results[f] = v \/ After(s, i, f)
  <2>1. CASE i = n
    BY <1>1, <2>1
  <2>2. CASE i \in DOMAIN q
    BY <1>1, <1>2, <1>3, <2>2 DEF Settles
  <2>3. QED
    BY <1>1, <2>1, <2>2
<1>5. look.state = "idle" => look.shown[f] = v \/ After(s, 0, f)
  BY <1>2, <1>3 DEF Settles
<1>6. Settles(s, look, f, v)
  BY <1>4, <1>5 DEF Settles
<1>7. QED
  BY <1>6 DEF s

\* Queues whose updates are the same.
LEMMA SettlesAlike ==
    ASSUME NEW q, NEW s, NEW look, NEW f, NEW v, Settles(q, look, f, v),
           DOMAIN s = DOMAIN q,
           \A i \in DOMAIN q : s[i] = q[i] \/ (q[i].op # "update" /\ s[i].op # "update")
    PROVE  Settles(s, look, f, v)
<1>1. \A i \in DOMAIN q : Tells(q[i], f) <=> Tells(s[i], f)
  BY DEF Tells
<1>2. \A i : After(q, i, f) => After(s, i, f)
  BY <1>1 DEF After
<1>3. \A i \in DOMAIN q : (s[i] = q[i] \/ ~Tells(s[i], f)) /\ (s[i] = q[i] \/ s[i].op # "update")
  BY DEF Tells
<1>4. QED
  BY <1>2, <1>3 DEF Settles

\* A block that is no update, appended.
LEMMA SettlesQuietly ==
    ASSUME NEW q \in Seq(Blocks), NEW b \in Blocks, b.op # "update",
           NEW look, NEW f, NEW v, Settles(q, look, f, v)
    PROVE  Settles(Append(q, b), look, f, v)
BY SettlesAppend DEF Tells

\* An update, done.
LEMMA SettlesTaken ==
    ASSUME NEW q \in Seq(Blocks), q # <<>>, NEW b, b = Head(q), b.op = "update",
           NEW look, NEW new, NEW f, NEW v, Settles(q, look, f, v),
           look.state = "idle" => new.shown[f] = IF b.delta[f] = None THEN look.shown[f] ELSE b.delta[f],
           look.state # "idle" /\ new.state = "idle" => b.results # None /\ new.shown[f] = b.results[f]
    PROVE  Settles(Tail(q), new, f, v)
<1>1. 1 \in DOMAIN q /\ q[1] = b
  BY TailIndices
<1>2. After(q, 1, f) => After(Tail(q), 0, f)
  BY AfterTail
<1>3. Tells(b, f) => b.delta[f] = v \/ After(Tail(q), 0, f)
  BY <1>1, <1>2 DEF Settles
<1>4. b.results # None => b.results[f] = v \/ After(Tail(q), 0, f)
  BY <1>1, <1>2 DEF Settles
<1>5. After(q, 0, f) => Tells(b, f) \/ After(Tail(q), 0, f)
  <2>1. ASSUME NEW j \in DOMAIN q, Tells(q[j], f), j # 1 PROVE After(Tail(q), 0, f)
    <3>1. j - 1 \in DOMAIN Tail(q) /\ Tail(q)[j - 1] = q[j] /\ 0 < j - 1
      BY <2>1, TailIndices
    <3>2. QED
      BY <2>1, <3>1 DEF After
  <2>2. QED
    BY <1>1, <2>1 DEF After
<1>6. new.state = "idle" => new.shown[f] = v \/ After(Tail(q), 0, f)
  <2>1. CASE look.state = "idle"
    <3>1. look.shown[f] = v \/ After(q, 0, f)
      BY <2>1 DEF Settles
    <3>2. QED
      BY <1>3, <1>5, <2>1, <3>1 DEF Tells
  <2>2. CASE look.state # "idle"
    BY <1>4, <2>2
  <2>3. QED
    BY <2>1, <2>2
<1>7. QED
  BY <1>6, SettlesLater DEF Settles


-----------------------------------------------------------------------------
(* What is known of rows, and what a query is about to be told.            *)

\* The row is one the process wrote.
Mine(p, f) == db.rows[f] # None /\ db.rows[f].writer = p

\* The process has been, or is going to be, told of changes.
HasCheck(q) == \E i \in DOMAIN q : q[i].op = "check"
Warned(p) == p \in notices \/ HasCheck(queue[p])

Concern(p, f) ==
    /\ db.rows[f] # None
    /\ db.rows[f].writer = p \/ (f \in unseen[p] /\ ~Warned(p))

Tracks(p) ==
    \A f \in Files : Concern(p, f) => Settles(queue[p], query[p], f, Now(db.rows, f))

\* Rows read that a merge may use as they are.
ReadItems(T, q, rd) ==
    {T[t].cached : t \in {u \in TaskIDs : T[u].current /\ T[u].cached # None}}
    \cup {q[i].items : i \in {j \in DOMAIN q : q[j].op = "cache" /\ q[j].current}}
    \cup (IF rd # None THEN {rd.items} ELSE {})

\* They have what the process wrote itself, even if others tore the reading.
Known(p, items) == \A f \in Files : Mine(p, f) => items[f] = Visible(db.rows)[f]
KnowsOwn(p) == \A items \in ReadItems(tasks[p], queue[p], reader[p]) : Known(p, items)

QueryInv == \A p \in Scanners : Tracks(p) /\ KnowsOwn(p)

\* A queue that tells the query no less, and nothing else.
Silent(q, s) ==
    /\ \A look, f, v : Settles(q, look, f, v) => Settles(s, look, f, v)
    /\ HasCheck(q) => HasCheck(s)

\* A step that does not change the database, for process r.
Quiet(r) ==
    /\ query'[r] = query[r]
    /\ unseen'[r] \subseteq unseen[r]
    /\ r \in notices => r \in notices'
    /\ Silent(queue[r], queue'[r])
    /\ ReadItems(tasks'[r], queue'[r], reader'[r])
         \subseteq ReadItems(tasks[r], queue[r], reader[r]) \cup {Visible(db.rows)}

LEMMA SilentTail ==
    ASSUME NEW q \in Seq(Blocks), q # <<>>, Head(q).op \notin {"update", "check"}
    PROVE  Silent(q, Tail(q))
<1>1. \A look, f, v : Settles(q, look, f, v) => Settles(Tail(q), look, f, v)
  BY SettlesTail
<1>2. ASSUME NEW i \in DOMAIN q, q[i].op = "check" PROVE HasCheck(Tail(q))
  <2>1. i # 1
    BY <1>2, TailIndices
  <2>2. i - 1 \in DOMAIN Tail(q) /\ Tail(q)[i - 1] = q[i]
    BY <2>1, TailIndices
  <2>3. QED
    BY <1>2, <2>2 DEF HasCheck
<1>3. QED
  BY <1>1, <1>2 DEF Silent, HasCheck

LEMMA SilentAppend ==
    ASSUME NEW q \in Seq(Blocks), NEW b \in Blocks, b.op # "update"
    PROVE  Silent(q, Append(q, b))
<1>1. \A look, f, v : Settles(q, look, f, v) => Settles(Append(q, b), look, f, v)
  BY SettlesQuietly
<1>2. HasCheck(q) => HasCheck(Append(q, b))
  <2> DEFINE s == Append(q, b)
  <2>1. \A i \in DOMAIN q : i \in DOMAIN s /\ s[i] = q[i]
    BY AppendIndices
  <2> HIDE DEF s
  <2>2. HasCheck(q) => HasCheck(s)
    BY <2>1 DEF HasCheck
  <2>3. QED
    BY <2>2 DEF s
<1>3. QED
  BY <1>1, <1>2 DEF Silent

LEMMA SilentOutdated ==
    ASSUME TypeOK, NEW r \in Scanners
    PROVE  /\ OutdatedReads(queue)[r] \in Seq(Blocks)
           /\ Silent(queue[r], OutdatedReads(queue)[r])
           /\ \A i \in DOMAIN OutdatedReads(queue)[r] :
                OutdatedReads(queue)[r][i].op = "cache" => ~OutdatedReads(queue)[r][i].current
<1> DEFINE q == queue[r]
           s == OutdatedReads(queue)[r]
<1>1. /\ s \in Seq(Blocks) /\ DOMAIN s = DOMAIN q
      /\ \A i \in DOMAIN q : /\ s[i].op = q[i].op
                             /\ s[i].op = "cache" => ~s[i].current
                             /\ q[i].op # "cache" => s[i] = q[i]
  BY OutdatedReadsType
<1> HIDE DEF q, s
<1>2. \A i \in DOMAIN q : s[i] = q[i] \/ (q[i].op # "update" /\ s[i].op # "update")
  BY <1>1
<1>3. \A look, f, v : Settles(q, look, f, v) => Settles(s, look, f, v)
  BY <1>1, <1>2, SettlesAlike
<1>4. HasCheck(q) => HasCheck(s)
  BY <1>1 DEF HasCheck
<1>5. QED
  BY <1>1, <1>3, <1>4 DEF q, s, Silent

LEMMA SilentTwice ==
    ASSUME NEW q, NEW s, NEW u, Silent(q, s), Silent(s, u)
    PROVE  Silent(q, u)
BY DEF Silent

LEMMA SilentSame == \A q : Silent(q, q)
BY DEF Silent

\* Quiet steps keep what is known.
LEMMA QuietKeeps ==
    ASSUME QueryInv, db' = db, NEW r \in Scanners, Quiet(r)
    PROVE  Tracks(r)' /\ KnowsOwn(r)'
<1>1. \A f \in Files : Concern(r, f)' => Concern(r, f)
  BY DEF Quiet, Concern, Warned, Silent
<1>2. ASSUME NEW f \in Files, Concern(r, f)'
      PROVE  Settles(queue'[r], query'[r], f, Now(db'.rows, f))
  <2>1. Settles(queue[r], query[r], f, Now(db.rows, f))
    BY <1>1, <1>2 DEF QueryInv, Tracks
  <2>2. QED
    BY <2>1 DEF Quiet, Silent
<1>3. Tracks(r)'
  BY <1>2 DEF Tracks
<1>4. \A items : Known(r, items) => Known(r, items)'
  BY DEF Known, Mine
<1>5. Known(r, Visible(db.rows))
  BY DEF Known
<1>6. KnowsOwn(r)'
  BY <1>4, <1>5 DEF KnowsOwn, QueryInv, Quiet
<1>7. QED
  BY <1>3, <1>6

\* The rows among those read.
LEMMA ReadMembers ==
    ASSUME NEW T, NEW q, NEW rd
    PROVE  /\ \A t \in TaskIDs : T[t].current /\ T[t].cached # None => T[t].cached \in ReadItems(T, q, rd)
           /\ \A i \in DOMAIN q : q[i].op = "cache" /\ q[i].current => q[i].items \in ReadItems(T, q, rd)
           /\ rd # None => rd.items \in ReadItems(T, q, rd)
BY DEF ReadItems

LEMMA ReadsWithin ==
    ASSUME NEW T, NEW q, NEW rd, NEW S,
           \A t \in TaskIDs : T[t].current /\ T[t].cached # None => T[t].cached \in S,
           \A i \in DOMAIN q : q[i].op = "cache" /\ q[i].current => q[i].items \in S,
           rd # None => rd.items \in S
    PROVE  ReadItems(T, q, rd) \subseteq S
BY DEF ReadItems

\* What Leave and Handle do to the rows read.
LEMMA LeaveReads ==
    ASSUME NEW T \in [Scanners -> Tables], NEW p \in Scanners, NEW t \in TaskIDs, NEW k \in TaskRecords,
           Leave(T, p, t, k)
    PROVE  /\ tasks'[p][t].current = k.current /\ tasks'[p][t].cached = k.cached
           /\ \A u \in TaskIDs \ {t} : /\ tasks'[p][u].current = T[p][u].current
                                       /\ tasks'[p][u].cached = T[p][u].cached
           /\ \A r \in Scanners \ {p} : tasks'[r] = T[r]
<1>1. T[p] \in Tables /\ \A u \in TaskIDs : T[p][u] \in TaskRecords
  BY DEF Tables
<1> DEFINE l == [k EXCEPT !.open = FALSE]
<1>2. l \in TaskRecords /\ l.current = k.current /\ l.cached = k.cached
  BY DEF TaskRecords
<1>3. CASE tasks' = [T EXCEPT ![p][t] = l]
  <2> HIDE DEF l
  <2>1. tasks'[p][t] = l /\ \A u \in TaskIDs \ {t} : tasks'[p][u] = T[p][u]
    BY <1>1, <1>3 DEF Tables
  <2>2. QED
    BY <1>2, <1>3, <2>1
<1>4. ASSUME NEW u \in TaskIDs,
             tasks' = [T EXCEPT ![p][t] = l, ![p][u].chained = FALSE, ![p][u].open = TRUE]
      PROVE  /\ tasks'[p][t].current = k.current /\ tasks'[p][t].cached = k.cached
             /\ \A x \in TaskIDs \ {t} : /\ tasks'[p][x].current = T[p][x].current
                                         /\ tasks'[p][x].cached = T[p][x].cached
             /\ \A r \in Scanners \ {p} : tasks'[r] = T[r]
  <2> HIDE DEF l
  <2> DEFINE V == [T[p] EXCEPT ![t] = l]
             W == [V EXCEPT ![u].chained = FALSE, ![u].open = TRUE]
  <2>1. V \in Tables /\ V[t] = l /\ \A x \in TaskIDs \ {t} : V[x] = T[p][x]
    BY <1>1, <1>2 DEF Tables
  <2>2. V[u] \in TaskRecords
    BY <2>1 DEF Tables
  <2>3. tasks'[p] = W /\ \A r \in Scanners \ {p} : tasks'[r] = T[r]
    BY <1>1, <1>4 DEF Tables
  <2> HIDE DEF V
  <2>4. W[u].current = V[u].current /\ W[u].cached = V[u].cached
        /\ \A x \in TaskIDs \ {u} : W[x] = V[x]
    BY <2>1, <2>2 DEF Tables, TaskRecords
  <2> HIDE DEF W
  <2>5. \A x \in TaskIDs : W[x].current = V[x].current /\ W[x].cached = V[x].cached
    BY <2>4
  <2>6. QED
    BY <1>2, <2>1, <2>3, <2>5
<1>5. (tasks' = [T EXCEPT ![p][t] = l])
      \/ \E u \in TaskIDs : tasks' = [T EXCEPT ![p][t] = l, ![p][u].chained = FALSE, ![p][u].open = TRUE]
  BY Zenon DEF Leave, TaskIDs
<1>6. QED
  BY <1>3, <1>4, <1>5

LEMMA HandleReads ==
    ASSUME IInv, NEW p \in Scanners, NEW t \in TaskIDs, NEW k \in TaskRecords, NEW q \in Seq(Blocks),
           Handle(p, t, k, q)
    PROVE  /\ tasks'[p][t].current = k.current /\ tasks'[p][t].cached = k.cached
           /\ \A u \in TaskIDs \ {t} : /\ tasks'[p][u].current = tasks[p][u].current
                                       /\ tasks'[p][u].cached = tasks[p][u].cached
           /\ queue'[p] = q \/ (\E b \in Blocks : b.op = "show" /\ queue'[p] = Append(q, b))
           /\ \A r \in Scanners \ {p} : tasks'[r] = tasks[r] /\ queue'[r] = queue[r]
<1>1. /\ tasks \in [Scanners -> Tables] /\ tasks[p] \in Tables
      /\ \A u \in TaskIDs : tasks[p][u] \in TaskRecords
      /\ queue \in [Scanners -> Seq(Blocks)]
  BY Parts DEF IInv, TypeScan, Tables
<1>2. \/ queue' = [queue EXCEPT ![p] = q]
      \/ /\ k.cached # None
         /\ \E s \in {"waiting", "cached"} : queue' = [queue EXCEPT ![p] = Append(q, Show(k, s))]
  BY Zenon DEF Handle
<1>3. ASSUME NEW s \in {"waiting", "cached"}, k.cached # None
      PROVE  Show(k, s) \in Blocks /\ Show(k, s).op = "show"
  <2>1. k.cached \in RowSets
    BY <1>3 DEF TaskRecords
  <2>2. VersionsOf(k.cached) \in Versions
    BY <2>1, VersionsType
  <2>3. QED
    BY <2>2 DEF Show, Blocks
<1>4. /\ queue'[p] = q \/ (\E b \in Blocks : b.op = "show" /\ queue'[p] = Append(q, b))
      /\ \A r \in Scanners \ {p} : queue'[r] = queue[r]
  <2>1. CASE queue' = [queue EXCEPT ![p] = q]
    BY <1>1, <2>1
  <2>2. ASSUME NEW s \in {"waiting", "cached"}, k.cached # None,
               queue' = [queue EXCEPT ![p] = Append(q, Show(k, s))]
        PROVE  /\ \E b \in Blocks : b.op = "show" /\ queue'[p] = Append(q, b)
               /\ \A r \in Scanners \ {p} : queue'[r] = queue[r]
    <3> DEFINE b == Show(k, s)
    <3>1. b \in Blocks /\ b.op = "show"
      BY <1>3, <2>2
    <3>2. queue' = [queue EXCEPT ![p] = Append(q, b)]
      BY <2>2
    <3> HIDE DEF b
    <3>3. queue'[p] = Append(q, b) /\ \A r \in Scanners \ {p} : queue'[r] = queue[r]
      BY <1>1, <3>2
    <3>4. QED
      BY <3>1, <3>3
  <2>3. QED
    BY <1>2, <2>1, <2>2
<1> DEFINE Same ==
        /\ tasks'[p][t].current = k.current /\ tasks'[p][t].cached = k.cached
        /\ \A u \in TaskIDs \ {t} : /\ tasks'[p][u].current = tasks[p][u].current
                                    /\ tasks'[p][u].cached = tasks[p][u].cached
        /\ \A r \in Scanners \ {p} : tasks'[r] = tasks[r]
<1>5. ASSUME NEW l \in TaskRecords, l.current = k.current, l.cached = k.cached,
             tasks' = [tasks EXCEPT ![p][t] = l]
      PROVE  Same
  <2>1. tasks'[p][t] = l /\ \A u \in TaskIDs \ {t} : tasks'[p][u] = tasks[p][u]
    BY <1>1, <1>5 DEF Tables
  <2>2. QED
    BY <1>5, <2>1
<1>6. Leave(tasks, p, t, k) => Same
  BY <1>1, LeaveReads
<1>7. /\ [k EXCEPT !.chained = TRUE] \in TaskRecords
      /\ [k EXCEPT !.chained = TRUE].current = k.current /\ [k EXCEPT !.chained = TRUE].cached = k.cached
      /\ [k EXCEPT !.open = TRUE] \in TaskRecords
      /\ [k EXCEPT !.open = TRUE].current = k.current /\ [k EXCEPT !.open = TRUE].cached = k.cached
  BY DEF TaskRecords
<1>8. \/ tasks' = [tasks EXCEPT ![p][t] = k]
      \/ Leave(tasks, p, t, k)
      \/ tasks' = [tasks EXCEPT ![p][t] = [k EXCEPT !.chained = TRUE]]
      \/ tasks' = [tasks EXCEPT ![p][t] = [k EXCEPT !.open = TRUE]]
  BY Zenon DEF Handle
<1> HIDE DEF Same
<1>9. Same
  <2>1. CASE tasks' = [tasks EXCEPT ![p][t] = k]
    BY <1>5, <2>1
  <2>2. CASE tasks' = [tasks EXCEPT ![p][t] = [k EXCEPT !.chained = TRUE]]
    BY <1>5, <1>7, <2>2
  <2>3. CASE tasks' = [tasks EXCEPT ![p][t] = [k EXCEPT !.open = TRUE]]
    BY <1>5, <1>7, <2>3
  <2>4. QED
    BY <1>6, <1>8, <2>1, <2>2, <2>3
<1>10. QED
  BY <1>4, <1>9 DEF Same

-----------------------------------------------------------------------------
(* Steps that change no rows and no query.                                 *)

LEMMA QuietOther ==
    ASSUME NEW r \in Scanners, query'[r] = query[r], unseen'[r] \subseteq unseen[r],
           r \in notices => r \in notices',
           tasks'[r] = tasks[r], queue'[r] = queue[r], reader'[r] = reader[r]
    PROVE  Quiet(r)
BY SilentSame DEF Quiet

LEMMA HandleQuiet ==
    ASSUME IInv, NEW p \in Scanners, NEW t \in TaskIDs, NEW k \in TaskRecords, NEW q \in Seq(Blocks),
           Handle(p, t, k, q), query' = query, notices' = notices, unseen'[p] \subseteq unseen[p],
           Silent(queue[p], q),
           \A i \in DOMAIN q : q[i].op = "cache" /\ q[i].current =>
                q[i].items \in ReadItems(tasks[p], queue[p], reader[p]),
           k.current /\ k.cached # None => k.cached \in ReadItems(tasks[p], queue[p], reader[p]),
           reader'[p] = None \/ reader'[p] = reader[p],
           \A r \in Scanners \ {p} : unseen'[r] = unseen[r] /\ reader'[r] = reader[r]
    PROVE  \A r \in Scanners : Quiet(r)
<1>1. /\ tasks'[p][t].current = k.current /\ tasks'[p][t].cached = k.cached
      /\ \A u \in TaskIDs \ {t} : /\ tasks'[p][u].current = tasks[p][u].current
                                  /\ tasks'[p][u].cached = tasks[p][u].cached
      /\ queue'[p] = q \/ (\E b \in Blocks : b.op = "show" /\ queue'[p] = Append(q, b))
      /\ \A r \in Scanners \ {p} : tasks'[r] = tasks[r] /\ queue'[r] = queue[r]
  BY HandleReads
<1> DEFINE S == ReadItems(tasks[p], queue[p], reader[p])
<1>2. \A r \in Scanners \ {p} : Quiet(r)
  BY <1>1, QuietOther
<1>3. /\ \A u \in TaskIDs : tasks[p][u].current /\ tasks[p][u].cached # None => tasks[p][u].cached \in S
      /\ reader[p] # None => reader[p].items \in S
  BY ReadMembers
<1>4. /\ \A i \in DOMAIN q : q[i].op = "cache" /\ q[i].current => q[i].items \in S
      /\ k.current /\ k.cached # None => k.cached \in S
  OBVIOUS
<1> HIDE DEF S
<1>5. \A u \in TaskIDs : tasks'[p][u].current /\ tasks'[p][u].cached # None => tasks'[p][u].cached \in S
  BY <1>1, <1>3, <1>4
<1>6. /\ Silent(queue[p], queue'[p])
      /\ \A i \in DOMAIN queue'[p] :
           queue'[p][i].op = "cache" /\ queue'[p][i].current => queue'[p][i].items \in S
  <2>1. CASE queue'[p] = q
    BY <1>4, <2>1
  <2>2. ASSUME NEW b \in Blocks, b.op = "show", queue'[p] = Append(q, b)
        PROVE  /\ Silent(queue[p], queue'[p])
               /\ \A i \in DOMAIN queue'[p] :
                    queue'[p][i].op = "cache" /\ queue'[p][i].current => queue'[p][i].items \in S
    <3>1. Silent(q, queue'[p])
      BY <2>2, SilentAppend
    <3>2. \A i \in DOMAIN queue'[p] : (i \in DOMAIN q /\ queue'[p][i] = q[i]) \/ queue'[p][i] = b
      BY <2>2, AppendIndices
    <3>3. Silent(queue[p], queue'[p])
      BY <3>1, SilentTwice
    <3>4. QED
      BY <1>4, <2>2, <3>2, <3>3
  <2>3. QED
    BY <1>1, <2>1, <2>2
<1>7. reader'[p] # None => reader'[p].items \in S
  BY <1>3
<1>8. ReadItems(tasks'[p], queue'[p], reader'[p]) \subseteq S
  BY <1>5, <1>6, <1>7, ReadsWithin
<1>9. Quiet(p)
  BY <1>6, <1>8 DEF Quiet, S
<1>10. QED
  BY <1>2, <1>9

LEMMA CacheQuiet ==
    ASSUME IInv, NEW p \in Scanners, RunCache(p)
    PROVE  \A r \in Scanners : Quiet(r)
<1> DEFINE b == Head(queue[p])
           t == b.task
           k == [tasks[p][t] EXCEPT !.current = b.current, !.cached = b.items]
           q == Tail(queue[p])
<1>1. /\ queue[p] \in Seq(Blocks) /\ tasks[p] \in Tables /\ queue[p] # <<>>
  BY Parts DEF IInv, TypeScan, RunCache, Begins
<1>2. /\ b \in Blocks /\ q \in Seq(Blocks) /\ b.op = "cache" /\ 1 \in DOMAIN queue[p] /\ queue[p][1] = b
      /\ \A i \in DOMAIN q : i + 1 \in DOMAIN queue[p] /\ q[i] = queue[p][i + 1]
  BY <1>1, TailIndices DEF RunCache, Begins
<1>3. t \in TaskIDs /\ b.items \in RowSets /\ b.current \in BOOLEAN
  BY <1>2, BlockFields
<1>4. Handle(p, t, k, q) /\ UNCHANGED <<server, db, journal, unseen, query, reader, wanted, notices, torn, doubled, stale, budget>>
  BY DEF RunCache
<1>5. Silent(queue[p], q)
  BY <1>1, <1>2, SilentTail
<1> HIDE DEF b, t, q
<1>6. k \in TaskRecords /\ k.cached = b.items /\ k.current = b.current
  BY <1>1, <1>3 DEF Tables, TaskRecords
<1> HIDE DEF k
<1>7. \A i \in DOMAIN queue[p] : queue[p][i].op = "cache" /\ queue[p][i].current =>
        queue[p][i].items \in ReadItems(tasks[p], queue[p], reader[p])
  BY ReadMembers
<1>8. /\ k.current => k.cached \in ReadItems(tasks[p], queue[p], reader[p])
      /\ \A i \in DOMAIN q : q[i].op = "cache" /\ q[i].current =>
           q[i].items \in ReadItems(tasks[p], queue[p], reader[p])
  BY <1>2, <1>6, <1>7
<1>9. /\ query' = query /\ notices' = notices /\ unseen'[p] \subseteq unseen[p] /\ reader'[p] = reader[p]
      /\ \A r \in Scanners \ {p} : unseen'[r] = unseen[r] /\ reader'[r] = reader[r]
  BY <1>4
<1>10. QED
  BY <1>2, <1>3, <1>4, <1>5, <1>6, <1>8, <1>9, HandleQuiet

LEMMA ListQuiet ==
    ASSUME IInv, NEW p \in Scanners, RunList(p)
    PROVE  \A r \in Scanners : Quiet(r)
<1> DEFINE b == Head(queue[p])
           t == b.task
           k == [tasks[p][t] EXCEPT !.listing = b.listing, !.failed = b.listing = None]
           q == Tail(queue[p])
           S == ReadItems(tasks[p], queue[p], reader[p])
<1>1. /\ queue \in [Scanners -> Seq(Blocks)] /\ tasks \in [Scanners -> Tables]
      /\ tasks[p] \in Tables /\ queue[p] # <<>> /\ unseen \in [Scanners -> SUBSET Files]
  BY Parts DEF IInv, TypeScan, TypeQuery, RunList, Begins
<1>2. /\ b \in Blocks /\ q \in Seq(Blocks) /\ b.op = "list"
      /\ \A i \in DOMAIN q : i + 1 \in DOMAIN queue[p] /\ q[i] = queue[p][i + 1]
  BY <1>1, TailIndices DEF RunList, Begins
<1>3. t \in TaskIDs /\ b.listing \in Lists \cup {None}
  BY <1>2, BlockFields
<1>4. /\ \/ k.current /\ Handle(p, t, k, q)
         \/ /\ ~k.current /\ tasks' = [tasks EXCEPT ![p][t] = k]
            /\ queue' = [queue EXCEPT ![p] = q]
      /\ unseen' = [unseen EXCEPT ![p] = {}]
      /\ UNCHANGED <<server, db, journal, query, reader, wanted, notices, torn, doubled, stale, budget>>
  BY DEF RunList
<1>5. Silent(queue[p], q)
  BY <1>1, <1>2, SilentTail
<1> HIDE DEF b, t, q
<1>6. k \in TaskRecords /\ k.cached = tasks[p][t].cached /\ k.current = tasks[p][t].current
  BY <1>1, <1>3 DEF Tables, TaskRecords
<1> HIDE DEF k
<1>7. /\ \A i \in DOMAIN queue[p] : queue[p][i].op = "cache" /\ queue[p][i].current => queue[p][i].items \in S
      /\ \A u \in TaskIDs : tasks[p][u].current /\ tasks[p][u].cached # None => tasks[p][u].cached \in S
      /\ reader[p] # None => reader[p].items \in S
  BY ReadMembers
<1> HIDE DEF S
<1>8. /\ k.current /\ k.cached # None => k.cached \in S
      /\ \A i \in DOMAIN q : q[i].op = "cache" /\ q[i].current => q[i].items \in S
  BY <1>2, <1>3, <1>6, <1>7
<1>9. /\ query' = query /\ notices' = notices /\ unseen'[p] = {} /\ reader' = reader
      /\ \A r \in Scanners \ {p} : unseen'[r] = unseen[r]
  BY <1>1, <1>4
<1>10. CASE Handle(p, t, k, q)
  BY <1>2, <1>3, <1>5, <1>6, <1>8, <1>9, <1>10, HandleQuiet DEF S
<1>11. CASE tasks' = [tasks EXCEPT ![p][t] = k] /\ queue' = [queue EXCEPT ![p] = q]
  <2>1. /\ tasks'[p][t] = k /\ \A u \in TaskIDs \ {t} : tasks'[p][u] = tasks[p][u]
        /\ queue'[p] = q
        /\ \A r \in Scanners \ {p} : tasks'[r] = tasks[r] /\ queue'[r] = queue[r]
    BY <1>1, <1>3, <1>11 DEF Tables
  <2>2. \A u \in TaskIDs : tasks'[p][u].current /\ tasks'[p][u].cached # None => tasks'[p][u].cached \in S
    BY <1>7, <1>8, <2>1
  <2>3. ReadItems(tasks'[p], queue'[p], reader'[p]) \subseteq S
    BY <1>7, <1>8, <1>9, <2>1, <2>2, ReadsWithin
  <2>4. Quiet(p)
    BY <1>5, <1>9, <2>1, <2>3 DEF Quiet, S
  <2>5. QED
    BY <1>9, <2>1, <2>4, QuietOther
<1>12. QED
  BY <1>4, <1>10, <1>11

LEMMA AnchorQuiet ==
    ASSUME IInv, NEW p \in Scanners, ReadAnchor(p)
    PROVE  \A r \in Scanners : Quiet(r)
<1> DEFINE rd == reader[p]
           t == rd.task
           b == [op |-> "cache", task |-> t, items |-> rd.items, current |-> TRUE]
           k == [tasks[p][t] EXCEPT !.current = TRUE, !.cached = rd.items]
           S == ReadItems(tasks[p], queue[p], reader[p])
<1>1. /\ queue \in [Scanners -> Seq(Blocks)] /\ queue[p] \in Seq(Blocks) /\ tasks[p] \in Tables
      /\ rd \in Reads /\ rd # None
      /\ reader \in [Scanners -> Reads \cup {None}] /\ unseen \in [Scanners -> SUBSET Files]
  BY Parts DEF IInv, TypeScan, TypeQuery, ReadAnchor
<1>2. t \in TaskIDs /\ rd.items \in RowSets
  BY <1>1 DEF Reads, TaskIDs
<1>3. /\ reader' = [reader EXCEPT ![p] = None]
      /\ unseen' = [unseen EXCEPT ![p] = {}]
      /\ \/ Handle(p, t, k, queue[p])
         \/ queue' = [queue EXCEPT ![p] = Append(queue[p], b)] /\ UNCHANGED <<tasks, running>>
      /\ UNCHANGED <<server, db, journal, query, wanted, notices, torn, doubled, stale, budget>>
  BY DEF ReadAnchor
<1>4. b \in Blocks /\ b.op = "cache" /\ b.items = rd.items
  BY <1>2 DEF Blocks, TaskIDs
<1> HIDE DEF b, t
<1>5. k \in TaskRecords /\ k.cached = rd.items
  BY <1>1, <1>2 DEF Tables, TaskRecords
<1>6. /\ \A i \in DOMAIN queue[p] : queue[p][i].op = "cache" /\ queue[p][i].current => queue[p][i].items \in S
      /\ \A u \in TaskIDs : tasks[p][u].current /\ tasks[p][u].cached # None => tasks[p][u].cached \in S
      /\ rd.items \in S
  BY <1>1, ReadMembers
<1> HIDE DEF k, S
<1>7. /\ query' = query /\ notices' = notices /\ unseen'[p] = {} /\ reader'[p] = None
      /\ \A r \in Scanners \ {p} : unseen'[r] = unseen[r] /\ reader'[r] = reader[r]
  BY <1>1, <1>3
<1>8. CASE Handle(p, t, k, queue[p])
  BY <1>1, <1>2, <1>5, <1>6, <1>7, <1>8, SilentSame, HandleQuiet DEF S
<1>9. CASE queue' = [queue EXCEPT ![p] = Append(queue[p], b)] /\ UNCHANGED <<tasks, running>>
  <2>1. queue'[p] = Append(queue[p], b) /\ \A r \in Scanners \ {p} : queue'[r] = queue[r]
    BY <1>1, <1>9
  <2>2. \A i \in DOMAIN queue'[p] : (i \in DOMAIN queue[p] /\ queue'[p][i] = queue[p][i]) \/ queue'[p][i] = b
    BY <1>1, <1>4, <2>1, AppendIndices
  <2>3. \A i \in DOMAIN queue'[p] :
          queue'[p][i].op = "cache" /\ queue'[p][i].current => queue'[p][i].items \in S
    BY <1>4, <1>6, <2>2
  <2>4. ReadItems(tasks'[p], queue'[p], reader'[p]) \subseteq S
    BY <1>6, <1>7, <1>9, <2>3, ReadsWithin
  <2>5. Silent(queue[p], queue'[p])
    BY <1>1, <1>4, <2>1, SilentAppend
  <2>6. Quiet(p)
    BY <1>7, <2>4, <2>5 DEF Quiet, S
  <2>7. QED
    BY <1>7, <1>9, <2>1, <2>6, QuietOther
<1>10. QED
  BY <1>3, <1>8, <1>9

LEMMA AnswerQuiet ==
    ASSUME IInv, NEW p \in Scanners, NEW t \in TaskIDs, Answer(p, t)
    PROVE  \A r \in Scanners : Quiet(r)
<1>1. /\ queue \in [Scanners -> Seq(Blocks)] /\ queue[p] \in Seq(Blocks) /\ tasks \in [Scanners -> Tables]
      /\ tasks[p] \in Tables /\ tasks[p][t] \in TaskRecords /\ server \in Lists
  BY Parts DEF IInv, TypeScan, TypeShared, Tables
<1>2. PICK l \in Lists \cup {None} :
        queue' = [queue EXCEPT ![p] = Append(@, [op |-> "list", task |-> t, listing |-> l])]
  BY <1>1 DEF Answer
<1> DEFINE b == [op |-> "list", task |-> t, listing |-> l]
           k == [tasks[p][t] EXCEPT !.wire = FALSE]
           S == ReadItems(tasks[p], queue[p], reader[p])
<1>3. b \in Blocks /\ b.op = "list"
  BY DEF Blocks, TaskIDs
<1>4. k \in TaskRecords /\ k.cached = tasks[p][t].cached /\ k.current = tasks[p][t].current
  BY <1>1 DEF TaskRecords
<1>5. /\ queue' = [queue EXCEPT ![p] = Append(queue[p], b)] /\ tasks' = [tasks EXCEPT ![p][t] = k]
      /\ UNCHANGED <<unseen, query, notices, reader>>
  BY <1>2 DEF Answer
<1>6. /\ \A i \in DOMAIN queue[p] : queue[p][i].op = "cache" /\ queue[p][i].current => queue[p][i].items \in S
      /\ \A u \in TaskIDs : tasks[p][u].current /\ tasks[p][u].cached # None => tasks[p][u].cached \in S
      /\ reader[p] # None => reader[p].items \in S
  BY ReadMembers
<1> HIDE DEF b, k, S
<1>7. /\ tasks'[p][t] = k /\ \A u \in TaskIDs \ {t} : tasks'[p][u] = tasks[p][u]
      /\ queue'[p] = Append(queue[p], b)
      /\ \A r \in Scanners \ {p} : tasks'[r] = tasks[r] /\ queue'[r] = queue[r]
  BY <1>1, <1>5 DEF Tables
<1>8. \A i \in DOMAIN queue'[p] : (i \in DOMAIN queue[p] /\ queue'[p][i] = queue[p][i]) \/ queue'[p][i] = b
  BY <1>1, <1>3, <1>7, AppendIndices
<1>9. \A i \in DOMAIN queue'[p] :
        queue'[p][i].op = "cache" /\ queue'[p][i].current => queue'[p][i].items \in S
  BY <1>3, <1>6, <1>8
<1>10. \A u \in TaskIDs : tasks'[p][u].current /\ tasks'[p][u].cached # None => tasks'[p][u].cached \in S
  BY <1>4, <1>6, <1>7
<1>11. ReadItems(tasks'[p], queue'[p], reader'[p]) \subseteq S
  BY <1>5, <1>6, <1>9, <1>10, ReadsWithin
<1>12. Silent(queue[p], queue'[p])
  BY <1>1, <1>3, <1>7, SilentAppend
<1>13. Quiet(p)
  BY <1>5, <1>11, <1>12 DEF Quiet, S
<1>14. QED
  BY <1>5, <1>7, <1>13, QuietOther

LEMMA RowsQuiet ==
    ASSUME IInv, NEW p \in Scanners, NEW t \in TaskIDs, ReadRows(p, t)
    PROVE  \A r \in Scanners : Quiet(r)
<1> DEFINE k == [tasks[p][t] EXCEPT !.asked = FALSE]
           rd == [task |-> t, items |-> Visible(db.rows),
                  inline |-> running[p] = [op |-> "inline", task |-> t]]
           S == ReadItems(tasks[p], queue[p], reader[p])
<1>1. /\ tasks \in [Scanners -> Tables] /\ tasks[p] \in Tables /\ tasks[p][t] \in TaskRecords
      /\ reader \in [Scanners -> Reads \cup {None}]
  BY Parts DEF IInv, TypeScan, Tables
<1>2. k.cached = tasks[p][t].cached /\ k.current = tasks[p][t].current
  BY <1>1 DEF TaskRecords
<1>3. /\ tasks' = [tasks EXCEPT ![p][t] = k] /\ reader' = [reader EXCEPT ![p] = rd]
      /\ UNCHANGED <<unseen, query, queue, notices>>
  BY DEF ReadRows
<1>4. rd.items = Visible(db.rows)
  OBVIOUS
<1>5. /\ \A i \in DOMAIN queue[p] : queue[p][i].op = "cache" /\ queue[p][i].current => queue[p][i].items \in S
      /\ \A u \in TaskIDs : tasks[p][u].current /\ tasks[p][u].cached # None => tasks[p][u].cached \in S
  BY ReadMembers
<1> HIDE DEF k, rd, S
<1>6. /\ tasks'[p][t] = k /\ \A u \in TaskIDs \ {t} : tasks'[p][u] = tasks[p][u]
      /\ reader'[p] = rd
      /\ \A r \in Scanners \ {p} : tasks'[r] = tasks[r] /\ reader'[r] = reader[r]
  BY <1>1, <1>3 DEF Tables
<1> DEFINE R == S \cup {Visible(db.rows)}
<1>7. \A u \in TaskIDs : tasks'[p][u].current /\ tasks'[p][u].cached # None => tasks'[p][u].cached \in R
  BY <1>2, <1>5, <1>6
<1>8. /\ \A i \in DOMAIN queue'[p] :
           queue'[p][i].op = "cache" /\ queue'[p][i].current => queue'[p][i].items \in R
      /\ reader'[p].items \in R
  BY <1>3, <1>4, <1>5, <1>6
<1> HIDE DEF R
<1>9. ReadItems(tasks'[p], queue'[p], reader'[p]) \subseteq R
  BY <1>7, <1>8, ReadsWithin
<1>10. Quiet(p)
  BY <1>3, <1>9, SilentSame DEF Quiet, S, R
<1>11. QED
  BY <1>3, <1>6, <1>10, QuietOther

LEMMA ScheduleQuiet ==
    ASSUME IInv, NEW p \in Scanners, Schedule(p)
    PROVE  \A r \in Scanners : Quiet(r)
<1>1. /\ tasks \in [Scanners -> Tables] /\ tasks[p] \in Tables /\ unseen \in [Scanners -> SUBSET Files]
  BY Parts DEF IInv, TypeScan, TypeQuery
<1>2. UNCHANGED <<query, queue, notices, reader>>
  BY DEF Schedule
<1>3. CASE UNCHANGED <<unseen, tasks>>
  BY <1>2, <1>3, QuietOther
<1>4. ASSUME NEW t \in TaskIDs, unseen' = [unseen EXCEPT ![p] = {}],
             tasks' = [tasks EXCEPT ![p][t] =
                [NoTask EXCEPT !.open = TRUE, !.asked = TRUE, !.wire = TRUE, !.current = TRUE]]
      PROVE  \A r \in Scanners : Quiet(r)
  <2> DEFINE k == [NoTask EXCEPT !.open = TRUE, !.asked = TRUE, !.wire = TRUE, !.current = TRUE]
             S == ReadItems(tasks[p], queue[p], reader[p])
  <2>1. k.cached = None
    BY DEF NoTask
  <2>2. tasks' = [tasks EXCEPT ![p][t] = k]
    BY <1>4
  <2>3. /\ \A i \in DOMAIN queue[p] : queue[p][i].op = "cache" /\ queue[p][i].current => queue[p][i].items \in S
        /\ \A u \in TaskIDs : tasks[p][u].current /\ tasks[p][u].cached # None => tasks[p][u].cached \in S
        /\ reader[p] # None => reader[p].items \in S
    BY ReadMembers
  <2> HIDE DEF k, S
  <2>4. /\ tasks'[p][t] = k /\ \A u \in TaskIDs \ {t} : tasks'[p][u] = tasks[p][u]
        /\ \A r \in Scanners \ {p} : tasks'[r] = tasks[r]
    BY <1>1, <2>2 DEF Tables
  <2>5. \A u \in TaskIDs : tasks'[p][u].current /\ tasks'[p][u].cached # None => tasks'[p][u].cached \in S
    BY <2>1, <2>3, <2>4
  <2>6. ReadItems(tasks'[p], queue'[p], reader'[p]) \subseteq S
    BY <1>2, <2>3, <2>5, ReadsWithin
  <2>7. unseen'[p] = {} /\ \A r \in Scanners \ {p} : unseen'[r] = unseen[r]
    BY <1>1, <1>4
  <2>8. Quiet(p)
    BY <1>2, <2>6, <2>7, SilentSame DEF Quiet, S
  <2>9. QED
    BY <1>2, <2>4, <2>7, <2>8, QuietOther
<1>5. \/ UNCHANGED <<unseen, tasks>>
      \/ /\ unseen' = [unseen EXCEPT ![p] = {}]
         /\ \E t \in TaskIDs : tasks' = [tasks EXCEPT ![p][t] =
                [NoTask EXCEPT !.open = TRUE, !.asked = TRUE, !.wire = TRUE, !.current = TRUE]]
  BY Zenon DEF Schedule, TaskIDs
<1>6. QED
  BY <1>3, <1>4, <1>5

\* Nothing read is the latest once the anchor is increased.
LEMMA OutdatedFlags ==
    ASSUME TypeOK, NEW r \in Scanners, NEW t \in TaskIDs
    PROVE  ~Outdated(tasks)[r][t].current
<1>1. Outdated(tasks)[r][t] = [tasks[r][t] EXCEPT !.current = FALSE]
  BY OutdatedType
<1>2. tasks[r][t] \in TaskRecords
  BY Parts DEF TypeScan, Tables
<1>3. QED
  BY <1>1, <1>2 DEF TaskRecords

LEMMA PutOffQuiet ==
    ASSUME IInv, NEW p \in Scanners, NEW t \in TaskIDs, PutOff(p, t)
    PROVE  \A r \in Scanners : Quiet(r)
<1> DEFINE T == Outdated(tasks)
           k == [T[p][t] EXCEPT !.current = TRUE, !.cached = None, !.asked = TRUE]
<1>1. T \in [Scanners -> Tables] /\ T[p] \in Tables /\ T[p][t] \in TaskRecords
  BY OutdatedType DEF IInv, Tables
<1>2. \A r \in Scanners, u \in TaskIDs : ~T[r][u].current
  BY OutdatedFlags DEF IInv
<1>3. /\ tasks' = [T EXCEPT ![p][t] = k] /\ queue' = OutdatedReads(queue)
      /\ unseen' = [unseen EXCEPT ![p] = {}] /\ UNCHANGED <<query, reader, notices>>
  BY DEF PutOff
<1> HIDE DEF T
<1>4. k.cached = None
  BY <1>1 DEF TaskRecords
<1> HIDE DEF k
<1>5. /\ tasks'[p][t] = k /\ \A u \in TaskIDs \ {t} : tasks'[p][u] = T[p][u]
      /\ \A r \in Scanners \ {p} : tasks'[r] = T[r]
  BY <1>1, <1>3 DEF Tables
<1>6. \A r \in Scanners, u \in TaskIDs : ~(tasks'[r][u].current /\ tasks'[r][u].cached # None)
  BY <1>2, <1>4, <1>5
<1>7. \A r \in Scanners : unseen'[r] \subseteq unseen[r]
  BY <1>3, Parts DEF IInv, TypeQuery
<1>8. ASSUME NEW r \in Scanners PROVE Quiet(r)
  <2> DEFINE S == ReadItems(tasks[r], queue[r], reader[r])
  <2>1. Silent(queue[r], queue'[r]) /\ \A i \in DOMAIN queue'[r] :
          queue'[r][i].op = "cache" => ~queue'[r][i].current
    BY <1>3, SilentOutdated DEF IInv
  <2>2. reader[r] # None => reader[r].items \in S
    BY ReadMembers
  <2> HIDE DEF S
  <2>3. /\ \A u \in TaskIDs : tasks'[r][u].current /\ tasks'[r][u].cached # None => tasks'[r][u].cached \in S
        /\ \A i \in DOMAIN queue'[r] :
             queue'[r][i].op = "cache" /\ queue'[r][i].current => queue'[r][i].items \in S
        /\ reader'[r] # None => reader'[r].items \in S
    BY <1>3, <1>6, <2>1, <2>2
  <2>4. ReadItems(tasks'[r], queue'[r], reader'[r]) \subseteq S
    BY <2>3, ReadsWithin
  <2>5. QED
    BY <1>3, <1>7, <2>1, <2>4 DEF Quiet, S
<1>9. QED
  BY <1>8

LEMMA OutsideQuiet ==
    ASSUME UNCHANGED <<cores, notices>>
    PROVE  \A r \in Scanners : Quiet(r)
BY QuietOther DEF cores

-----------------------------------------------------------------------------
(* Steps that tell a query, and notifications.                             *)

\* A query's own block only shortens the queue.
LEMMA BlockReads ==
    ASSUME NEW p \in Scanners, NEW q, queue'[p] = q, UNCHANGED <<db, tasks, reader>>, KnowsOwn(p),
           \A i \in DOMAIN q : q[i].op = "cache" =>
               \E j \in DOMAIN queue[p] : queue[p][j] = q[i]
    PROVE  KnowsOwn(p)'
<1> DEFINE S == ReadItems(tasks[p], queue[p], reader[p])
<1>1. /\ \A i \in DOMAIN queue[p] : queue[p][i].op = "cache" /\ queue[p][i].current => queue[p][i].items \in S
      /\ \A u \in TaskIDs : tasks[p][u].current /\ tasks[p][u].cached # None => tasks[p][u].cached \in S
      /\ reader[p] # None => reader[p].items \in S
  BY ReadMembers
<1> HIDE DEF S
<1>2. \A i \in DOMAIN q : q[i].op = "cache" /\ q[i].current => q[i].items \in S
  BY <1>1
<1>3. ReadItems(tasks[p], q, reader[p]) \subseteq S
  BY <1>1, <1>2, ReadsWithin
<1>4. \A items : Known(p, items) => Known(p, items)'
  BY DEF Known, Mine
<1>5. QED
  BY <1>3, <1>4 DEF KnowsOwn, S

LEMMA UnchangedQuery ==
    ASSUME QueryInv, db' = db, NEW r \in Scanners, query'[r] = query[r], unseen'[r] = unseen[r],
           r \in notices => r \in notices',
           tasks'[r] = tasks[r], queue'[r] = queue[r], reader'[r] = reader[r]
    PROVE  Tracks(r)' /\ KnowsOwn(r)'
BY QuietOther, QuietKeeps

LEMMA UpdateQuery ==
    ASSUME IInv, QueryInv, NEW p \in Scanners, RunUpdate(p) \/ RunShow(p)
    PROVE  QueryInv'
<1> DEFINE q == queue[p]
           b == Head(q)
           look == query[p]
<1>1. /\ queue \in [Scanners -> Seq(Blocks)] /\ q \in Seq(Blocks) /\ q # <<>>
      /\ query \in [Scanners -> Queries] /\ look \in Queries
  BY Parts DEF IInv, TypeScan, TypeQuery, RunUpdate, RunShow, Begins
<1>2. /\ b \in Blocks /\ b.op \in {"update", "show"}
      /\ \A i \in DOMAIN Tail(q) : i + 1 \in DOMAIN q /\ Tail(q)[i] = q[i + 1]
      /\ \A j \in DOMAIN q : j # 1 => j - 1 \in DOMAIN Tail(q) /\ Tail(q)[j - 1] = q[j]
      /\ q[1] = b
  BY <1>1, TailIndices DEF RunUpdate, RunShow, Begins
<1>3. /\ queue' = [queue EXCEPT ![p] = Tail(q)]
      /\ UNCHANGED <<db, unseen, tasks, reader, notices>>
      /\ \A r \in Scanners \ {p} : query'[r] = query[r]
  BY <1>1 DEF RunUpdate, RunShow
<1>4. queue'[p] = Tail(q) /\ \A r \in Scanners \ {p} : queue'[r] = queue[r]
  BY <1>1, <1>3
<1>5. \A r \in Scanners \ {p} : Tracks(r)' /\ KnowsOwn(r)'
  BY <1>3, <1>4, UnchangedQuery
<1>6. KnowsOwn(p)'
  <2>1. \A i \in DOMAIN queue'[p] : queue'[p][i].op = "cache" =>
          \E j \in DOMAIN queue[p] : queue[p][j] = queue'[p][i]
    BY <1>2, <1>4
  <2>2. UNCHANGED <<db, tasks, reader>> /\ KnowsOwn(p)
    BY <1>3 DEF QueryInv
  <2>3. QED
    BY <2>1, <2>2, BlockReads
<1>7. Warned(p) => Warned(p)'
  <2> HIDE DEF b
  <2>1. HasCheck(q) => HasCheck(Tail(q))
    <3>1. ASSUME NEW j \in DOMAIN q, q[j].op = "check" PROVE HasCheck(Tail(q))
      <4>1. j # 1
        BY <1>2, <3>1
      <4>2. j - 1 \in DOMAIN Tail(q) /\ Tail(q)[j - 1].op = "check"
        BY <1>2, <3>1, <4>1
      <4>3. QED
        BY <4>2 DEF HasCheck
    <3>2. QED
      BY <3>1 DEF HasCheck
  <2>2. QED
    BY <1>3, <1>4, <2>1 DEF Warned
<1>8. ASSUME NEW f \in Files, NEW v, Settles(q, look, f, v)
      PROVE  Settles(Tail(q), query'[p], f, v)
  <2>1. CASE RunUpdate(p)
    <3> DEFINE told == [look EXCEPT !.shown = [g \in Files |->
                            IF b.delta[g] = None THEN look.shown[g] ELSE b.delta[g]]]
               given == [state |-> "idle", shown |-> b.results]
    <3>1. b.op = "update"
      BY <2>1 DEF RunUpdate, Begins
    <3>2. query'[p] = IF look.state = "idle" THEN told
                      ELSE IF b.results # None THEN given ELSE look
      <4>1. query' = [query EXCEPT ![p] = IF look.state = "idle" THEN told
                                          ELSE IF b.results # None THEN given ELSE look]
        BY <2>1 DEF RunUpdate
      <4> HIDE DEF told, given, look, b
      <4>2. QED
        BY <1>1, <4>1
    <3>3. told.state = look.state
          /\ told.shown[f] = IF b.delta[f] = None THEN look.shown[f] ELSE b.delta[f]
      BY <1>1 DEF Queries
    <3>4. given.state = "idle" /\ given.shown[f] = b.results[f]
      OBVIOUS
    <3> HIDE DEF told, given
    <3> DEFINE new == query'[p]
    <3>5. /\ look.state = "idle" =>
               new.shown[f] = IF b.delta[f] = None THEN look.shown[f] ELSE b.delta[f]
          /\ look.state # "idle" /\ new.state = "idle" =>
               b.results # None /\ new.shown[f] = b.results[f]
      BY <3>2, <3>3, <3>4
    <3> HIDE DEF new, q, look
    <3>6. Settles(Tail(q), new, f, v)
      BY <1>1, <1>8, <3>1, <3>5, SettlesTaken
    <3>7. QED
      BY <3>6 DEF new
  <2>2. CASE RunShow(p)
    <3> DEFINE given == [state |-> b.state, shown |-> b.items]
    <3>1. b.op = "show"
      BY <2>2 DEF RunShow, Begins
    <3>2. query'[p] = IF look.state = "idle" THEN look ELSE given
      BY <1>1, <2>2 DEF RunShow
    <3>3. given.state # "idle"
      BY <1>2, <3>1, BlockFields
    <3> HIDE DEF given, q, b
    <3>4. Settles(Tail(q), look, f, v)
      BY <1>1, <1>8, <3>1, SettlesTail DEF b
    <3>5. QED
      BY <3>2, <3>3, <3>4 DEF Settles
  <2>3. QED
    BY <2>1, <2>2
<1>9. Tracks(p)'
  <2>1. \A f \in Files : Concern(p, f)' => Concern(p, f)
    BY <1>3, <1>7 DEF Concern
  <2>2. \A f \in Files : Concern(p, f)' => Settles(queue'[p], query'[p], f, Now(db'.rows, f))
    BY <1>3, <1>4, <1>8, <2>1 DEF QueryInv, Tracks
  <2>3. QED
    BY <2>2 DEF Tracks
<1>10. QED
  BY <1>5, <1>6, <1>9 DEF QueryInv

LEMMA NotifyQuery ==
    ASSUME IInv, QueryInv, NEW p \in Scanners, Notify(p)
    PROVE  QueryInv'
<1> DEFINE b == [op |-> "check"]
           q == queue[p]
<1>1. queue \in [Scanners -> Seq(Blocks)] /\ q \in Seq(Blocks) /\ b \in Blocks /\ b.op = "check"
  BY Parts DEF IInv, TypeScan, Blocks
<1>2. /\ queue' = [queue EXCEPT ![p] = Append(q, b)] /\ notices' = notices \ {p}
      /\ UNCHANGED <<db, unseen, query, tasks, reader>>
  BY DEF Notify
<1> HIDE DEF b
<1>3. queue'[p] = Append(q, b) /\ \A r \in Scanners \ {p} : queue'[r] = queue[r]
  BY <1>1, <1>2
<1>4. \A r \in Scanners \ {p} : Tracks(r)' /\ KnowsOwn(r)'
  BY <1>2, <1>3, UnchangedQuery
<1>5. \A i \in DOMAIN Append(q, b) : (i \in DOMAIN q /\ Append(q, b)[i] = q[i]) \/ Append(q, b)[i] = b
  BY <1>1, AppendIndices
<1>6. KnowsOwn(p)'
  <2>1. \A i \in DOMAIN queue'[p] : queue'[p][i].op = "cache" => \E j \in DOMAIN queue[p] : queue[p][j] = queue'[p][i]
    BY <1>1, <1>3, <1>5
  <2>2. QED
    BY <1>2, <2>1, BlockReads DEF QueryInv
<1>7. Warned(p)'
  <2>1. Len(q) + 1 \in DOMAIN Append(q, b) /\ Append(q, b)[Len(q) + 1] = b
    BY <1>1, AppendIndices
  <2>2. QED
    BY <1>1, <1>3, <2>1 DEF Warned, HasCheck
<1>8. \A f \in Files : Concern(p, f)' => Concern(p, f)
  BY <1>2, <1>7 DEF Concern
<1>9. \A f, v : Settles(q, query[p], f, v) => Settles(Append(q, b), query[p], f, v)
  BY <1>1, SettlesQuietly
<1>10. Tracks(p)'
  <2>1. \A f \in Files : Concern(p, f)' => Settles(queue'[p], query'[p], f, Now(db'.rows, f))
    BY <1>2, <1>3, <1>8, <1>9 DEF QueryInv, Tracks
  <2>2. QED
    BY <2>1 DEF Tracks
<1>11. QED
  BY <1>4, <1>6, <1>10 DEF QueryInv

\* What an update says of the rows of S.
LEMMA DeltaTells ==
    ASSUME NEW rows \in RowSets, NEW S, NEW f \in Files, NEW results
    PROVE  /\ Update(Delta(rows, S), results).op = "update"
           /\ Update(Delta(rows, S), results).results = results
           /\ f \in S => /\ Tells(Update(Delta(rows, S), results), f)
                         /\ Update(Delta(rows, S), results).delta[f] = Now(rows, f)
           /\ f \notin S => ~Tells(Update(Delta(rows, S), results), f)
<1>1. VersionsOf(Visible(rows)) \in Versions
  BY VisibleType, VersionsType
<1>2. Now(rows, f) \in Nat
  BY <1>1 DEF Now, Versions
<1>3. Now(rows, f) # None
  BY <1>2, ItemListAssumption
<1>4. Delta(rows, S)[f] = IF f \in S THEN Now(rows, f) ELSE None
  BY DEF Delta, Now
<1>5. QED
  BY <1>3, <1>4 DEF Update, Tells

LEMMA CheckQuery ==
    ASSUME IInv, QueryInv, NEW p \in Scanners, RunCheck(p)
    PROVE  QueryInv'
<1> DEFINE q == queue[p]
           u == Update(Delta(db.rows, unseen[p]), None)
<1>1. /\ queue \in [Scanners -> Seq(Blocks)] /\ q \in Seq(Blocks) /\ q # <<>> /\ Head(q).op = "check"
      /\ db.rows \in RowSets
  BY Parts DEF IInv, TypeScan, TypeShared, RunCheck, Begins
<1>2. /\ queue' = [queue EXCEPT ![p] = IF unseen[p] = {} THEN Tail(q) ELSE Append(Tail(q), u)]
      /\ UNCHANGED <<db, unseen, query, tasks, reader, notices>>
  BY DEF RunCheck
<1>3. /\ u \in Blocks /\ u.op = "update" /\ u.results = None
      /\ \A f \in Files : /\ f \in unseen[p] => Tells(u, f) /\ u.delta[f] = Now(db.rows, f)
                          /\ f \notin unseen[p] => ~Tells(u, f)
  <2>1. u \in Blocks
    BY <1>1, UpdateType
  <2>2. ASSUME NEW f \in Files
        PROVE  /\ f \in unseen[p] => Tells(u, f) /\ u.delta[f] = Now(db.rows, f)
               /\ f \notin unseen[p] => ~Tells(u, f)
    <3> DEFINE S == unseen[p]
               rows == db.rows
    <3> HIDE DEF S, rows
    <3>1. /\ f \in S => /\ Tells(Update(Delta(rows, S), None), f)
                        /\ Update(Delta(rows, S), None).delta[f] = Now(rows, f)
          /\ f \notin S => ~Tells(Update(Delta(rows, S), None), f)
      BY <1>1, DeltaTells DEF rows
    <3>2. QED
      BY <3>1 DEF S, rows
  <2>3. u.op = "update" /\ u.results = None
    BY DEF Update
  <2>4. QED
    BY <2>1, <2>2, <2>3
<1> HIDE DEF u
<1>4. queue'[p] \in {Tail(q), Append(Tail(q), u)} /\ \A r \in Scanners \ {p} : queue'[r] = queue[r]
  BY <1>1, <1>2
<1>5. \A r \in Scanners \ {p} : Tracks(r)' /\ KnowsOwn(r)'
  BY <1>2, <1>4, UnchangedQuery
<1>6. /\ Tail(q) \in Seq(Blocks)
      /\ \A i \in DOMAIN Tail(q) : i + 1 \in DOMAIN q /\ Tail(q)[i] = q[i + 1]
  BY <1>1, TailIndices
<1>7. \A i \in DOMAIN Append(Tail(q), u) :
        (i \in DOMAIN Tail(q) /\ Append(Tail(q), u)[i] = Tail(q)[i]) \/ Append(Tail(q), u)[i] = u
  BY <1>3, <1>6, AppendIndices
<1>8. KnowsOwn(p)'
  <2>1. \A i \in DOMAIN queue'[p] : queue'[p][i].op = "cache" =>
          \E j \in DOMAIN queue[p] : queue[p][j] = queue'[p][i]
    BY <1>3, <1>4, <1>6, <1>7
  <2>2. QED
    BY <1>2, <2>1, BlockReads DEF QueryInv
<1>9. ASSUME NEW f \in Files, Concern(p, f)'
      PROVE  Settles(queue'[p], query[p], f, Now(db.rows, f))
  <2>1. f \in unseen[p] \/ Mine(p, f)
    BY <1>2, <1>9 DEF Concern, Mine
  <2> DEFINE v == Now(db.rows, f)
             look == query[p]
  <2> HIDE DEF v, look
  <2>2. Mine(p, f) => Settles(Tail(q), look, f, v)
    <3>1. Mine(p, f) => Settles(q, look, f, v)
      BY DEF QueryInv, Tracks, Concern, Mine, v, look
    <3>2. QED
      BY <1>1, <3>1, SettlesTail
  <2>3. CASE unseen[p] = {}
    BY <1>1, <1>2, <2>1, <2>2, <2>3 DEF v, look
  <2>4. CASE unseen[p] # {}
    <3>1. /\ Tells(u, f) => u.delta[f] = v
          /\ u.op = "update" /\ u.results # None => u.results[f] = v
          /\ Tells(u, f) \/ Settles(Tail(q), look, f, v)
      BY <1>3, <2>1, <2>2 DEF v
    <3>2. Settles(Append(Tail(q), u), look, f, v)
      BY <1>3, <1>6, <3>1, SettlesAppend
    <3>3. queue'[p] = Append(Tail(q), u)
      BY <1>1, <1>2, <2>4
    <3>4. QED
      BY <3>2, <3>3 DEF v, look
  <2>5. QED
    BY <2>3, <2>4
<1>10. Tracks(p)'
  <2>1. \A f \in Files : Concern(p, f)' => Settles(queue'[p], query'[p], f, Now(db'.rows, f))
    BY <1>2, <1>9
  <2>2. QED
    BY <2>1 DEF Tracks
<1>11. QED
  BY <1>5, <1>8, <1>10 DEF QueryInv

-----------------------------------------------------------------------------
(* Transactions.                                                           *)

LEMMA NowOfRow ==
    ASSUME NEW rows \in RowSets, NEW f \in Files
    PROVE  /\ Visible(rows)[f] = Seen(rows[f])
           /\ Now(rows, f) = IF rows[f] # None /\ ~rows[f].removed THEN rows[f].ver ELSE 0
<1>1. Visible(rows)[f] = Seen(rows[f])
  BY DEF Visible, Seen
<1>2. Now(rows, f) = IF Visible(rows)[f] = None THEN 0 ELSE Visible(rows)[f].ver
  BY DEF Now, VersionsOf
<1>3. QED
  BY <1>1, <1>2 DEF Seen

\* A process changes its own rows' versions or takes others' over.
LEMMA TransactQuery ==
    ASSUME IInv, QueryInv, NEW p \in Processes, NEW rows \in RowSets, NEW tag \in Nat,
           NEW results \in Versions \cup {None}, Transact(p, rows, tag, results),
           query' = query, reader' = reader,
           \A f \in Files : rows[f] = db.rows[f] \/ (rows[f] # None /\ rows[f].writer = p),
           results # None => \A f \in Files :
               rows[f] # None /\ rows[f].writer = p => results[f] = Now(rows, f),
           \A r \in Scanners, t \in TaskIDs : ~tasks'[r][t].current
    PROVE  QueryInv'
<1> DEFINE b == Update(Delta(rows, Changed(rows)), results)
<1>1. b \in Blocks /\ b.op = "update" /\ b.results = results
  BY UpdateType DEF Update
<1>2. ASSUME NEW f \in Files
      PROVE  /\ f \in Changed(rows) => Tells(b, f) /\ b.delta[f] = Now(rows, f)
             /\ f \notin Changed(rows) => ~Tells(b, f)
  <2> DEFINE S == Changed(rows)
  <2> HIDE DEF S
  <2>1. /\ f \in S => /\ Tells(Update(Delta(rows, S), results), f)
                      /\ Update(Delta(rows, S), results).delta[f] = Now(rows, f)
        /\ f \notin S => ~Tells(Update(Delta(rows, S), results), f)
    BY DeltaTells
  <2>2. QED
    BY <2>1 DEF S
<1>3. /\ db' = [tag |-> tag, rows |-> rows] /\ IsFree(p)
      /\ unseen' = [q \in Scanners |-> IF q = p THEN {} ELSE unseen[q] \cup Changed(rows)]
      /\ queue' = [q \in Scanners |->
            IF q = p THEN Append(OutdatedReads(queue)[q], b) ELSE OutdatedReads(queue)[q]]
      /\ notices' = notices \cup (Scanners \ {p})
  BY DEF Transact
<1> HIDE DEF b
<1>4. db'.rows = rows /\ db.rows \in RowSets
  BY <1>3, Parts DEF IInv, TypeShared
<1>5. ASSUME NEW f \in Files, rows[f] = db.rows[f]
      PROVE  Now(rows, f) = Now(db.rows, f) /\ Visible(rows)[f] = Visible(db.rows)[f]
  BY <1>4, <1>5, NowOfRow
<1>6. ASSUME NEW r \in Scanners, NEW f \in Files, Mine(r, f)', rows[f] = db.rows[f]
      PROVE  Settles(OutdatedReads(queue)[r], query[r], f, Now(rows, f))
  <2>1. Concern(r, f)
    BY <1>4, <1>6 DEF Mine, Concern
  <2>2. Settles(queue[r], query[r], f, Now(db.rows, f))
    BY <2>1 DEF QueryInv, Tracks
  <2>3. Silent(queue[r], OutdatedReads(queue)[r])
    BY SilentOutdated DEF IInv
  <2>4. Settles(OutdatedReads(queue)[r], query[r], f, Now(db.rows, f))
    BY <2>2, <2>3 DEF Silent
  <2>5. QED
    BY <1>5, <1>6, <2>4
<1>7. ASSUME NEW r \in Scanners, r # p
      PROVE  Tracks(r)' /\ KnowsOwn(r)'
  <2>1. r \in notices' /\ queue'[r] = OutdatedReads(queue)[r]
    BY <1>3, <1>7
  <2>2. ASSUME NEW f \in Files, Mine(r, f)' PROVE rows[f] = db.rows[f]
    BY <1>4, <1>7, <2>2 DEF Mine
  <2>3. \A f \in Files : Concern(r, f)' => Mine(r, f)'
    BY <2>1 DEF Concern, Mine, Warned
  <2>4. \A f \in Files : Concern(r, f)' => Settles(queue'[r], query'[r], f, Now(db'.rows, f))
    BY <1>4, <1>6, <2>1, <2>2, <2>3
  <2>5. Tracks(r)'
    BY <2>4 DEF Tracks
  <2>6. \A i \in DOMAIN queue'[r] : queue'[r][i].op = "cache" => ~queue'[r][i].current
    BY <2>1, SilentOutdated DEF IInv
  <2> DEFINE S == ReadItems(tasks[r], queue[r], reader[r])
  <2>7. reader[r] # None => reader[r].items \in S
    BY ReadMembers
  <2> HIDE DEF S
  <2>8. /\ \A u \in TaskIDs : tasks'[r][u].current /\ tasks'[r][u].cached # None => tasks'[r][u].cached \in S
        /\ \A i \in DOMAIN queue'[r] :
             queue'[r][i].op = "cache" /\ queue'[r][i].current => queue'[r][i].items \in S
        /\ reader'[r] # None => reader'[r].items \in S
    BY <2>6, <2>7
  <2>9. ReadItems(tasks'[r], queue'[r], reader'[r]) \subseteq S
    BY <2>8, ReadsWithin
  <2>10. ASSUME NEW items, Known(r, items) PROVE Known(r, items)'
    <3>1. ASSUME NEW f \in Files, Mine(r, f)' PROVE items[f] = Visible(db'.rows)[f]
      <4>1. rows[f] = db.rows[f] /\ Mine(r, f)
        BY <1>4, <2>2, <3>1 DEF Mine
      <4>2. items[f] = Visible(db.rows)[f]
        BY <2>10, <4>1 DEF Known
      <4>3. QED
        BY <1>4, <1>5, <4>1, <4>2
    <3>2. QED
      BY <3>1 DEF Known
  <2>11. KnowsOwn(r)'
    BY <2>9, <2>10 DEF KnowsOwn, QueryInv, S
  <2>12. QED
    BY <2>5, <2>11
<1>8. ASSUME NEW r \in Scanners, r = p
      PROVE  Tracks(r)' /\ KnowsOwn(r)'
  <2> DEFINE s == OutdatedReads(queue)[r]
  <2>1. /\ s \in Seq(Blocks) /\ \A i \in DOMAIN s : s[i].op = "cache" => ~s[i].current
        /\ queue'[r] = Append(s, b) /\ unseen'[r] = {} /\ reader'[r] = None
    BY <1>3, <1>8, SilentOutdated DEF IInv, IsFree
  <2>2. \A f \in Files : Concern(r, f)' => Mine(r, f)'
    BY <2>1 DEF Concern, Mine
  <2>3. ASSUME NEW f \in Files, Mine(r, f)'
        PROVE  Settles(Append(s, b), query[r], f, Now(rows, f))
    <3> DEFINE v == Now(rows, f)
    <3>1. rows[f] # None /\ rows[f].writer = p
      BY <1>4, <1>8, <2>3 DEF Mine
    <3>2. /\ Tells(b, f) => b.delta[f] = v
          /\ b.op = "update" /\ b.results # None => b.results[f] = v
      BY <1>1, <1>2, <3>1
    <3>3. Tells(b, f) \/ Settles(s, query[r], f, v)
      <4>1. f \notin Changed(rows) => rows[f] = db.rows[f]
        BY DEF Changed
      <4>2. QED
        BY <1>2, <1>6, <2>3, <4>1
    <3> HIDE DEF s, v
    <3>4. Settles(Append(s, b), query[r], f, v)
      BY <1>1, <2>1, <3>2, <3>3, SettlesAppend
    <3>5. QED
      BY <3>4 DEF v
  <2>4. \A f \in Files : Concern(r, f)' => Settles(queue'[r], query'[r], f, Now(db'.rows, f))
    BY <1>4, <2>1, <2>2, <2>3
  <2>5. Tracks(r)'
    BY <2>4 DEF Tracks
  <2> HIDE DEF s
  <2>6. \A i \in DOMAIN Append(s, b) : (i \in DOMAIN s /\ Append(s, b)[i] = s[i]) \/ Append(s, b)[i] = b
    BY <1>1, <2>1, AppendIndices
  <2>7. \A i \in DOMAIN queue'[r] : ~(queue'[r][i].op = "cache" /\ queue'[r][i].current)
    BY <1>1, <2>1, <2>6
  <2>8. ReadItems(tasks'[r], queue'[r], reader'[r]) = {}
    BY <2>1, <2>7 DEF ReadItems
  <2>9. KnowsOwn(r)'
    BY <2>8 DEF KnowsOwn
  <2>10. QED
    BY <2>5, <2>9
<1>9. QED
  BY <1>7, <1>8 DEF QueryInv

LEMMA RowFields ==
    ASSUME NEW v, NEW a, NEW b, NEW p
    PROVE  /\ Row(v, a, b, p).ver = v /\ Row(v, a, b, p).pending = a
           /\ Row(v, a, b, p).removed = b /\ Row(v, a, b, p).writer = p
BY DEF Row

\* What the version of a row is that is not removed.
Version(r) == IF r # None /\ ~r.removed THEN r.ver ELSE 0

\* The merge tells a query the version it leaves, of rows it writes and of
\* those it read as they are.
LEMMA MergedResult ==
    ASSUME NEW p \in Processes, NEW c \in Rows \cup {None}, NEW l \in Nat, NEW r \in Rows \cup {None},
           NEW m, m = Merged(p, c, l, r)
    PROVE  /\ m = r \/ (m # None /\ m.writer = p)
           /\ m # None /\ (r # None /\ r.writer = p => c = Seen(r)) /\ m.writer = p =>
                Result(c, l, r) = Version(m)
<1>1. c # None => c.ver \in Nat
  BY DEF Rows
<1>2. ASSUME NEW v \in Nat, NEW a \in BOOLEAN, NEW b \in BOOLEAN, m = Row(v, a, b, p)
      PROVE  /\ m # None /\ m.writer = p /\ m.ver = v /\ m.removed = b
             /\ Version(m) = IF b THEN 0 ELSE v
  <2>1. m \in Rows
    BY <1>2, RowType
  <2>2. m # None
    BY <2>1, NoneAssumption
  <2>3. m.writer = p /\ m.ver = v /\ m.removed = b
    BY <1>2, RowFields
  <2>4. QED
    BY <2>2, <2>3 DEF Version
<1>3. CASE l # 0 /\ c # None /\ c.pending
  <2>1. m = Row(c.ver, TRUE, FALSE, p)
    BY Zenon, <1>3 DEF Merged
  <2>2. /\ m # None /\ m.writer = p
        /\ Version(m) = IF FALSE THEN 0 ELSE c.ver
    BY <1>1, <1>2, <1>3, <2>1
  <2>3. QED
    BY <1>3, <2>2 DEF Result
<1>4. CASE l # 0 /\ c # None /\ ~c.pending /\ l # c.ver
  <2>1. m = Row(l, FALSE, FALSE, p)
    BY Zenon, <1>4 DEF Merged
  <2>2. /\ m # None /\ m.writer = p
        /\ Version(m) = IF FALSE THEN 0 ELSE l
    BY <1>2, <2>1
  <2>3. QED
    BY <1>4, <2>2 DEF Result
<1>5. CASE l # 0 /\ c = None /\ r # None
  <2>1. m = Row(l, r.pending, r.pending /\ r.removed, p)
    BY Zenon, <1>5 DEF Merged
  <2>2. r.pending \in BOOLEAN /\ (r.pending /\ r.removed) \in BOOLEAN
    BY <1>5 DEF Rows
  <2>3. /\ m # None /\ m.writer = p
        /\ Version(m) = IF r.pending /\ r.removed THEN 0 ELSE l
    BY <1>2, <2>1, <2>2
  <2>4. QED
    BY <1>5, <2>3 DEF Result
<1>6. CASE l # 0 /\ c = None /\ r = None
  <2>1. m = Row(l, FALSE, FALSE, p)
    BY Zenon, <1>6 DEF Merged
  <2>2. /\ m # None /\ m.writer = p
        /\ Version(m) = IF FALSE THEN 0 ELSE l
    BY <1>2, <2>1
  <2>3. QED
    BY <1>6, <2>2 DEF Result
<1>7. CASE l = 0 /\ c # None /\ ~c.pending
  <2>1. m = Row(c.ver, FALSE, TRUE, p)
    BY Zenon, <1>7 DEF Merged
  <2>2. /\ m # None /\ m.writer = p
        /\ Version(m) = IF TRUE THEN 0 ELSE c.ver
    BY <1>1, <1>2, <1>7, <2>1
  <2>3. QED
    BY <1>7, <2>2 DEF Result
<1>8. CASE /\ ~(l # 0 /\ c # None /\ c.pending)
           /\ ~(l # 0 /\ c # None /\ ~c.pending /\ l # c.ver)
           /\ ~(l # 0 /\ c = None /\ r # None) /\ ~(l # 0 /\ c = None /\ r = None)
           /\ ~(l = 0 /\ c # None /\ ~c.pending)
  <2>1. m = r
    BY <1>8 DEF Merged
  <2>2. ASSUME r # None, c = Seen(r) PROVE Result(c, l, r) = Version(r)
    <3>1. CASE c = None
      BY <1>8, <2>2, <3>1 DEF Result, Version, Seen
    <3>2. CASE c # None
      <4>1. c = r /\ ~r.removed
        BY <2>2, <3>2 DEF Seen
      <4>2. c.pending \/ l = c.ver
        BY <1>8, <3>2
      <4>3. QED
        BY <2>2, <3>2, <4>1, <4>2 DEF Result, Version
    <3>3. QED
      BY <3>1, <3>2
  <2>3. QED
    BY <2>1, <2>2
<1>9. QED
  BY <1>3, <1>4, <1>5, <1>6, <1>7, <1>8

LEMMA MergeQuery ==
    ASSUME IInv, QueryInv, NEW p \in Scanners, running[p] # None, running[p].op = "merge",
           tasks[p][running[p].task].current, CompleteMerge(p, running[p].task)
    PROVE  QueryInv'
<1> DEFINE t == running[p].task
           k == tasks[p][t]
           T == Outdated(tasks)
           l == [k EXCEPT !.current = FALSE]
           rows == [f \in Files |-> Merged(p, k.cached[f], k.listing.items[f], db.rows[f])]
           results == [f \in Files |-> Result(k.cached[f], k.listing.items[f], db.rows[f])]
<1>1. /\ db \in [tag : Nat, rows : RowSets] /\ db.rows \in [Files -> Rows \cup {None}]
      /\ tasks[p] \in Tables /\ running \in [Scanners -> Runs] /\ p \in Processes
  BY ItemListAssumption, Parts DEF IInv, TypeShared, TypeScan, RowSets
<1>2. t \in TaskIDs
  BY <1>1 DEF Runs
<1>3. k \in TaskRecords /\ k.current /\ k.cached # None /\ k.listing # None
  BY <1>1, <1>2 DEF Tables, IInv, Order, Ordered, MergeReady
<1>4. /\ k.cached \in [Files -> Rows \cup {None}] /\ k.listing.items \in [Files -> Nat]
      /\ k.listing.tag \in Nat
  BY <1>3 DEF TaskRecords, RowSets, Lists, Versions
<1>5. rows \in RowSets /\ results \in Versions
  BY <1>1, <1>4, MergedType DEF RowSets, Versions
<1>6. /\ Transact(p, rows, k.listing.tag, results) /\ Leave(T, p, t, l)
      /\ query' = query /\ reader' = reader
  BY DEF CompleteMerge
<1>7. T \in [Scanners -> Tables] /\ \A r \in Scanners, u \in TaskIDs : ~T[r][u].current
  BY OutdatedType, OutdatedFlags DEF IInv
<1>8. l \in TaskRecords /\ ~l.current
  BY <1>3 DEF TaskRecords
<1>9. Known(p, k.cached)
  <2>1. k.cached \in ReadItems(tasks[p], queue[p], reader[p])
    BY <1>2, <1>3, ReadMembers
  <2>2. QED
    BY <2>1 DEF QueryInv, KnowsOwn
<1>10. \A f \in Files : /\ rows[f] = Merged(p, k.cached[f], k.listing.items[f], db.rows[f])
                        /\ results[f] = Result(k.cached[f], k.listing.items[f], db.rows[f])
  OBVIOUS
<1> HIDE DEF t, k, T, l, rows, results
<1>11. \A r \in Scanners, u \in TaskIDs : ~tasks'[r][u].current
  <2>1. /\ tasks'[p][t].current = l.current
        /\ \A u \in TaskIDs \ {t} : tasks'[p][u].current = T[p][u].current
        /\ \A r \in Scanners \ {p} : tasks'[r] = T[r]
    BY <1>2, <1>6, <1>7, <1>8, LeaveReads
  <2>2. QED
    BY <1>7, <1>8, <2>1
<1>12. ASSUME NEW f \in Files
       PROVE  /\ rows[f] = db.rows[f] \/ (rows[f] # None /\ rows[f].writer = p)
              /\ rows[f] # None /\ rows[f].writer = p => results[f] = Now(rows, f)
  <2> DEFINE c == k.cached[f]
             n == k.listing.items[f]
             r == db.rows[f]
             m == rows[f]
  <2>1. c \in Rows \cup {None} /\ n \in Nat /\ r \in Rows \cup {None}
    BY <1>1, <1>4
  <2>2. r # None /\ r.writer = p => c = Seen(r)
    <3>1. Visible(db.rows)[f] = Seen(r)
      BY DEF Visible, Seen
    <3>2. QED
      BY <1>9, <3>1 DEF Known, Mine
  <2>3. m = Merged(p, c, n, r) /\ results[f] = Result(c, n, r)
    BY <1>10
  <2>4. Now(rows, f) = Version(m)
    BY <1>5, NowOfRow DEF Version
  <2> HIDE DEF c, n, r, m
  <2>5. /\ m = r \/ (m # None /\ m.writer = p)
        /\ m # None /\ m.writer = p => Result(c, n, r) = Version(m)
    BY <1>1, <2>1, <2>2, <2>3, MergedResult
  <2>6. QED
    BY <2>3, <2>4, <2>5 DEF m, r
<1>13. QED
  BY <1>1, <1>4, <1>5, <1>6, <1>11, <1>12, TransactQuery

\* The transactions of actions.
LEMMA ActionQuery ==
    ASSUME IInv, QueryInv, NEW f \in Files, NEW p \in Processes, NEW new \in Rows, new.writer = p,
           Transact(p, [db.rows EXCEPT ![f] = new], db.tag, None), tasks' = Outdated(tasks),
           UNCHANGED <<query, reader>>
    PROVE  QueryInv'
<1> DEFINE rows == [db.rows EXCEPT ![f] = new]
<1>1. /\ db.rows \in [Files -> Rows \cup {None}] /\ db.tag \in Nat
  BY Parts DEF IInv, TypeShared, RowSets
<1>2. /\ rows \in RowSets /\ rows[f] = new /\ new # None
      /\ \A g \in Files \ {f} : rows[g] = db.rows[g]
  BY <1>1, NoneAssumption DEF RowSets
<1>3. \A r \in Scanners, t \in TaskIDs : ~tasks'[r][t].current
  BY OutdatedFlags DEF IInv
<1>4. Transact(p, rows, db.tag, None)
  OBVIOUS
<1> HIDE DEF rows
<1>5. \A g \in Files : rows[g] = db.rows[g] \/ (rows[g] # None /\ rows[g].writer = p)
  BY <1>2
<1>6. QED
  BY <1>1, <1>2, <1>3, <1>4, <1>5, TransactQuery

LEMMA SubmitQuery ==
    ASSUME IInv, QueryInv, NEW p \in Processes, NEW f \in Files, NEW kind \in {"delete", "edit"},
           Submit(p, f, kind)
    PROVE  QueryInv'
<1>1. \A v \in Items(p, f) : v \in Nat
  <2>1. VersionsOf(Visible(db.rows)) \in Versions
    BY VisibleType, VersionsType, Parts DEF IInv, TypeShared
  <2>2. p \in Scanners => query[p].shown \in Versions
    BY Parts DEF IInv, TypeQuery, Queries
  <2>3. QED
    BY <2>1, <2>2 DEF Items, Versions
<1>2. PICK v \in Items(p, f) :
        /\ Transact(p, [db.rows EXCEPT ![f] = Row(v, TRUE, kind = "delete", p)], db.tag, None)
        /\ tasks' = Outdated(tasks)
  BY DEF Submit
<1> DEFINE new == Row(v, TRUE, kind = "delete", p)
<1>3. new \in Rows
  BY <1>1, RowType
<1>4. new.writer = p
  BY DEF Row
<1>5. /\ Transact(p, [db.rows EXCEPT ![f] = new], db.tag, None) /\ tasks' = Outdated(tasks)
      /\ UNCHANGED <<query, reader>>
  BY <1>2 DEF Submit
<1> HIDE DEF new
<1>6. QED
  BY <1>3, <1>4, <1>5, ActionQuery

LEMMA FinishQuery ==
    ASSUME IInv, QueryInv, NEW f \in Files, Finish(f)
    PROVE  QueryInv'
<1> DEFINE e == journal[f]
           p == e.by
           new == Restored(e)
<1>1. e \in Entries
  BY Parts DEF IInv, TypeShared, Finish
<1>2. p \in Processes /\ e.ver \in Nat /\ e.new \in Nat
  BY <1>1 DEF Entries
<1>3. new \in Rows
  BY <1>2, RowType DEF Restored
<1>4. new.writer = p
  BY DEF Restored, Row
<1>5. /\ Transact(p, [db.rows EXCEPT ![f] = new], db.tag, None) /\ tasks' = Outdated(tasks)
      /\ UNCHANGED <<query, reader>>
  BY DEF Finish
<1> HIDE DEF new, p
<1>6. QED
  BY <1>2, <1>3, <1>4, <1>5, ActionQuery

LEMMA QueryInvInit == Init => QueryInv
<1> SUFFICES ASSUME Init PROVE QueryInv
  OBVIOUS
<1>1. \A f \in Files : db.rows[f] = None
  BY DEF Init
<1>2. QED
  BY <1>1 DEF QueryInv, Tracks, Concern, KnowsOwn, Known, Mine

LEMMA QueryInvStep == IInv /\ QueryInv /\ [Next]_vars => QueryInv'
<1> SUFFICES ASSUME IInv, QueryInv, [Next]_vars PROVE QueryInv'
  OBVIOUS
<1>1. ASSUME db' = db, \A r \in Scanners : Quiet(r) PROVE QueryInv'
  BY <1>1, QuietKeeps DEF QueryInv
<1>2. ASSUME NEW p \in Scanners, Schedule(p) \/ ReadAnchor(p) \/ RunCache(p) \/ RunList(p)
      PROVE  QueryInv'
  <2>1. \A r \in Scanners : Quiet(r)
    BY <1>2, ScheduleQuiet, AnchorQuiet, CacheQuiet, ListQuiet
  <2>2. db' = db
    BY <1>2 DEF Schedule, ReadAnchor, RunCache, RunList
  <2>3. QED
    BY <1>1, <2>1, <2>2
<1>3. ASSUME NEW p \in Scanners, NEW t \in 1 .. Slots, Answer(p, t) \/ ReadRows(p, t)
      PROVE  QueryInv'
  <2>1. \A r \in Scanners : Quiet(r)
    BY <1>3, AnswerQuiet, RowsQuiet DEF TaskIDs
  <2>2. db' = db
    BY <1>3 DEF Answer, ReadRows
  <2>3. QED
    BY <1>1, <2>1, <2>2
<1>4. ASSUME NEW p \in Scanners, RunUpdate(p) \/ RunShow(p) \/ RunCheck(p) \/ Notify(p)
      PROVE  QueryInv'
  BY <1>4, UpdateQuery, CheckQuery, NotifyQuery
<1>5. ASSUME NEW p \in Scanners, Merge(p)
      PROVE  QueryInv'
  <2>1. running[p] # None /\ running[p].op = "merge"
    BY <1>5 DEF Merge
  <2>2. CASE tasks[p][running[p].task].current /\ CompleteMerge(p, running[p].task)
    BY <2>1, <2>2, MergeQuery
  <2>3. CASE PutOff(p, running[p].task)
    <3>1. running[p].task \in TaskIDs
      BY <2>1, Parts DEF IInv, TypeScan, Runs
    <3>2. \A r \in Scanners : Quiet(r)
      BY <2>3, <3>1, PutOffQuiet
    <3>3. db' = db
      BY <2>3 DEF PutOff
    <3>4. QED
      BY <1>1, <3>2, <3>3
  <2>4. QED
    BY <1>5, <2>2, <2>3 DEF Merge
<1>6. ASSUME NEW f \in Files, Finish(f)
      PROVE  QueryInv'
  BY <1>6, FinishQuery
<1>7. ASSUME NEW p \in Processes, NEW f \in Files, NEW kind \in {"delete", "edit"}, Submit(p, f, kind)
      PROVE  QueryInv'
  BY <1>7, SubmitQuery
<1>8. ASSUME NEW f \in Files, Perform(f) \/ Refuse(f) \/ ChangeOnServer(f)
      PROVE  QueryInv'
  <2>1. UNCHANGED <<db, cores, notices>>
    BY <1>8 DEF Perform, Refuse, ChangeOnServer
  <2>2. QED
    BY <1>1, <2>1, OutsideQuiet
<1>9. CASE UNCHANGED vars
  <2>1. UNCHANGED <<db, cores, notices>>
    BY <1>9 DEF vars
  <2>2. QED
    BY <1>1, <2>1, OutsideQuiet
<1>10. QED
  BY <1>2, <1>3, <1>4, <1>5, <1>6, <1>7, <1>8, <1>9 DEF Next, Progress

\* A query that has had its first list, with nothing left to do for its
\* process, shows each file the process changed last, or that changed after
\* the anchor it knows, as the cache has it: whatever order updates, checks and
\* notifications came in, even after a torn reading of the cache
\* (-performUpdatesForAddedItems:…, OCCore+ItemUpdates.m).
THEOREM QueriesShow == Spec => []QueryShowsCache
<1>1. QueryInv => QueryShowsCache
  <2> SUFFICES ASSUME QueryInv, NEW p \in Scanners, AtRest(p), NEW f \in Files, db.rows[f] # None,
                      db.rows[f].writer = p \/ f \in unseen[p]
               PROVE  Shows(p, f)
    BY DEF QueryShowsCache
  <2>1. queue[p] = <<>> /\ p \notin notices /\ query[p].state = "idle"
    BY DEF AtRest
  <2>2. ~Warned(p) /\ ~After(queue[p], 0, f)
    BY <2>1 DEF Warned, HasCheck, After
  <2>3. Concern(p, f)
    BY <2>2 DEF Concern
  <2>4. Settles(queue[p], query[p], f, Now(db.rows, f))
    BY <2>3 DEF QueryInv, Tracks
  <2>5. QED
    BY <2>1, <2>2, <2>4 DEF Settles, Shows, Now
<1>2. IInv /\ QueryInv /\ [Next]_vars => (IInv /\ QueryInv)'
  BY IInvStep, QueryInvStep
<1>3. Init => IInv /\ QueryInv
  BY IInvInit, QueryInvInit
<1>4. QED
  BY <1>1, <1>2, <1>3, PTL DEF Spec
=============================================================================
