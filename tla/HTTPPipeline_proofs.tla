-------------------------- MODULE HTTPPipeline_proofs --------------------------
(***************************************************************************)
(* Theorems about HTTPPipeline: its types for any number of processes; and *)
(* for one process, that a request is answered once, that the tasks of a   *)
(* group take turns, and that no group is passed over for long.            *)
(*                                                                         *)
(* A block works on a view, and most of what it does concerns one task, so *)
(* the invariant is stated of a view and a task (Sound, Coherent), and the *)
(* operations are shown to leave the views of the other tasks apart        *)
(* (Apart, Local).                                                         *)
(***************************************************************************)
EXTENDS HTTPPipeline, FiniteSetTheorems, SequenceTheorems, WellFoundedInduction, TLAPS

-----------------------------------------------------------------------------
(* Chains: what ForEach and InOrder compute, step by step.                 *)

LEMMA LeastNat ==
    ASSUME NEW I \in SUBSET Nat, I # {}
    PROVE  \E i \in I : \A j \in I : ~(j < i)
<1> DEFINE R == {p \in Nat \X Nat : p[1] < p[2]}
<1>1. \A x, y \in Nat : <<y, x>> \in R <=> y < x
  OBVIOUS
<1>2. IsWellFoundedOn(R, Nat)
  BY NatLessThanWellFounded DEF OpToRel
<1> HIDE DEF R
<1>3. PICK i \in I : \A j \in I : ~(<<j, i>> \in R)
  BY <1>2, WFMin
<1>4. QED
  BY <1>1, <1>3, Zenon

\* Induction over an interval.
LEMMA UpTo ==
    ASSUME NEW N \in Nat, NEW S, 0 \in S, \A n \in 1 .. N : n - 1 \in S => n \in S
    PROVE  0 .. N \subseteq S
<1> DEFINE T == {n \in 0 .. N : n \notin S}
<1>1. SUFFICES ASSUME T # {} PROVE FALSE
  OBVIOUS
<1>2. PICK n \in T : \A m \in T : ~(m < n)
  <2>1. T \in SUBSET Nat
    OBVIOUS
  <2> HIDE DEF T
  <2>2. QED
    BY <1>1, <2>1, LeastNat
<1>3. n \in 1 .. N /\ n - 1 \in S
  BY <1>2
<1>4. QED
  BY <1>3

\* f is what a recursive definition with step function h gives, from v on.
Chain(N, U, v, h, f) ==
    /\ f \in [0 .. N -> U]
    /\ f[0] = v
    /\ \A n \in 1 .. N : f[n] = h[n][f[n - 1]]

LEMMA ChainExists ==
    ASSUME NEW N \in Nat, NEW U, NEW v \in U, NEW h, \A n \in 1 .. N, w \in U : h[n][w] \in U
    PROVE  \E f : Chain(N, U, v, h, f)
<1> DEFINE S == {M \in 0 .. N : \E f : Chain(M, U, v, h, f)}
<1>1. 0 \in S
  <2>1. Chain(0, U, v, h, [n \in 0 .. 0 |-> v])
    BY DEF Chain
  <2>2. QED
    BY <2>1
<1>2. ASSUME NEW M \in 1 .. N, M - 1 \in S
      PROVE  M \in S
  <2>1. PICK f : Chain(M - 1, U, v, h, f)
    BY <1>2
  <2> DEFINE next == h[M][f[M - 1]]
             g == [n \in 0 .. M |-> IF n = M THEN next ELSE f[n]]
  <2>2. next \in U
    BY <2>1 DEF Chain
  <2>3. g \in [0 .. M -> U] /\ g[0] = v
    <3> HIDE DEF next
    <3>1. QED
      BY <2>1, <2>2 DEF Chain
  <2>4. ASSUME NEW n \in 1 .. M PROVE g[n] = h[n][g[n - 1]]
    BY <2>1 DEF Chain
  <2> HIDE DEF g
  <2>5. Chain(M, U, v, h, g)
    BY <2>3, <2>4 DEF Chain
  <2>6. QED
    BY <2>5
<1>3. N \in S
  <2> HIDE DEF S
  <2>1. 0 .. N \subseteq S
    BY <1>1, <1>2, UpTo
  <2>2. QED
    BY <2>1
<1>4. QED
  BY <1>3

LEMMA SameChain ==
    ASSUME NEW N \in Nat, NEW U, NEW v, NEW h, NEW f, Chain(N, U, v, h, f),
           NEW g \in [0 .. N -> U], g[0] = v, \A n \in 1 .. N : f[n] = g[n]
    PROVE  f = g
<1>1. f \in [0 .. N -> U] /\ f[0] = v
  BY DEF Chain
<1>2. \A n \in 0 .. N : f[n] = g[n]
  <2>1. \A n \in 0 .. N : n = 0 \/ n \in 1 .. N
    OBVIOUS
  <2>2. QED
    BY <1>1, <2>1
<1>3. QED
  BY <1>1, <1>2

LEMMA FinishAllChain ==
    ASSUME NEW U, NEW v \in U, NEW S, NEW r,
           \A w \in U, t \in Tasks : Finished(w, t, r) \in U
    PROVE  \E f : /\ f[0] = v
                  /\ \A t \in 1 .. NumTasks :
                        f[t] = IF t \in S THEN Finished(f[t - 1], t, r) ELSE f[t - 1]
                  /\ FinishAll(v, S, r) = f[NumTasks]
<1> DEFINE IsChain(f) ==
             f = [t \in 0 .. NumTasks |->
                    IF t = 0 THEN v ELSE IF t \in S THEN Finished(f[t - 1], t, r) ELSE f[t - 1]]
           h == [t \in 1 .. NumTasks |-> [w \in U |-> IF t \in S THEN Finished(w, t, r) ELSE w]]
           c == CHOOSE f : IsChain(f)
<1>0. NumTasks \in Nat /\ Tasks = 1 .. NumTasks
  BY PipelineAssumption DEF Tasks
<1>1. \A t \in 1 .. NumTasks, w \in U : h[t][w] = (IF t \in S THEN Finished(w, t, r) ELSE w) /\ h[t][w] \in U
  BY <1>0
<1>2. PICK f : Chain(NumTasks, U, v, h, f)
  <2> HIDE DEF h
  <2>1. QED
    BY <1>0, <1>1, ChainExists
<1>3. \A t \in 1 .. NumTasks : f[t] = IF t \in S THEN Finished(f[t - 1], t, r) ELSE f[t - 1]
  <2> HIDE DEF h
  <2>1. \A t \in 1 .. NumTasks : f[t] = h[t][f[t - 1]] /\ f[t - 1] \in U
    BY <1>0, <1>2 DEF Chain
  <2>2. QED
    BY <1>1, <2>1
<1>4. IsChain(f)
  <2> DEFINE g == [t \in 0 .. NumTasks |->
                    IF t = 0 THEN v ELSE IF t \in S THEN Finished(f[t - 1], t, r) ELSE f[t - 1]]
  <2>1. /\ g[0] = v
        /\ \A t \in 1 .. NumTasks : f[t] = g[t]
    BY <1>0, <1>3
  <2>2. f \in [0 .. NumTasks -> U]
    BY <1>2 DEF Chain
  <2>3. g \in [0 .. NumTasks -> U]
    BY <1>0, <1>3, <2>2
  <2>4. f = g
    <3> HIDE DEF g, h
    <3>1. QED
      BY <1>0, <1>2, <2>1, <2>3, SameChain
  <2>5. QED
    BY <2>4
<1>5. IsChain(c)
  <2> HIDE DEF IsChain
  <2>1. QED
    BY <1>4
<1>6. FinishAll(v, S, r) = c[NumTasks]
  BY DEF FinishAll, ForEach
<1>7. c[0] = v /\ \A t \in 1 .. NumTasks : c[t] = IF t \in S THEN Finished(c[t - 1], t, r) ELSE c[t - 1]
  <2> HIDE DEF c
  <2>1. QED
    BY <1>0, <1>5
<1> HIDE DEF c
<1>8. QED
  BY <1>6, <1>7

LEMMA DeliverAllChain ==
    ASSUME NEW U, NEW v \in U, NEW S,
           \A w \in U, t \in Tasks : Deliver(w, t, Loaded(w, t)) \in U
    PROVE  \E f : /\ f[0] = v
                  /\ \A t \in 1 .. NumTasks :
                        f[t] = IF t \in S THEN Deliver(f[t - 1], t, Loaded(f[t - 1], t)) ELSE f[t - 1]
                  /\ DeliverAll(v, S) = f[NumTasks]
<1> DEFINE IsChain(f) ==
             f = [t \in 0 .. NumTasks |->
                    IF t = 0 THEN v ELSE IF t \in S THEN Deliver(f[t - 1], t, Loaded(f[t - 1], t)) ELSE f[t - 1]]
           h == [t \in 1 .. NumTasks |-> [w \in U |-> IF t \in S THEN Deliver(w, t, Loaded(w, t)) ELSE w]]
           c == CHOOSE f : IsChain(f)
<1>0. NumTasks \in Nat /\ Tasks = 1 .. NumTasks
  BY PipelineAssumption DEF Tasks
<1>1. \A t \in 1 .. NumTasks, w \in U : h[t][w] = (IF t \in S THEN Deliver(w, t, Loaded(w, t)) ELSE w) /\ h[t][w] \in U
  BY <1>0
<1>2. PICK f : Chain(NumTasks, U, v, h, f)
  <2> HIDE DEF h
  <2>1. QED
    BY <1>0, <1>1, ChainExists
<1>3. \A t \in 1 .. NumTasks : f[t] = IF t \in S THEN Deliver(f[t - 1], t, Loaded(f[t - 1], t)) ELSE f[t - 1]
  <2> HIDE DEF h
  <2>1. \A t \in 1 .. NumTasks : f[t] = h[t][f[t - 1]] /\ f[t - 1] \in U
    BY <1>0, <1>2 DEF Chain
  <2>2. QED
    BY <1>1, <2>1
<1>4. IsChain(f)
  <2> DEFINE g == [t \in 0 .. NumTasks |->
                    IF t = 0 THEN v ELSE IF t \in S THEN Deliver(f[t - 1], t, Loaded(f[t - 1], t)) ELSE f[t - 1]]
  <2>1. /\ g[0] = v
        /\ \A t \in 1 .. NumTasks : f[t] = g[t]
    BY <1>0, <1>3
  <2>2. f \in [0 .. NumTasks -> U]
    BY <1>2 DEF Chain
  <2>3. g \in [0 .. NumTasks -> U]
    BY <1>0, <1>3, <2>2
  <2>4. f = g
    <3> HIDE DEF g, h
    <3>1. QED
      BY <1>0, <1>2, <2>1, <2>3, SameChain
  <2>5. QED
    BY <2>4
<1>5. IsChain(c)
  <2> HIDE DEF IsChain
  <2>1. QED
    BY <1>4
<1>6. DeliverAll(v, S) = c[NumTasks]
  BY DEF DeliverAll, ForEach
<1>7. c[0] = v /\ \A t \in 1 .. NumTasks : c[t] = IF t \in S THEN Deliver(c[t - 1], t, Loaded(c[t - 1], t)) ELSE c[t - 1]
  <2> HIDE DEF c
  <2>1. QED
    BY <1>0, <1>5
<1> HIDE DEF c
<1>8. QED
  BY <1>6, <1>7

LEMMA CancelAllChain ==
    ASSUME NEW U, NEW v \in U, NEW S,
           \A w \in U, t \in Tasks : CancelTask(w, t) \in U
    PROVE  \E f : /\ f[0] = v
                  /\ \A t \in 1 .. NumTasks :
                        f[t] = IF t \in S THEN CancelTask(f[t - 1], t) ELSE f[t - 1]
                  /\ CancelAll(v, S) = f[NumTasks]
<1> DEFINE IsChain(f) ==
             f = [t \in 0 .. NumTasks |->
                    IF t = 0 THEN v ELSE IF t \in S THEN CancelTask(f[t - 1], t) ELSE f[t - 1]]
           h == [t \in 1 .. NumTasks |-> [w \in U |-> IF t \in S THEN CancelTask(w, t) ELSE w]]
           c == CHOOSE f : IsChain(f)
<1>0. NumTasks \in Nat /\ Tasks = 1 .. NumTasks
  BY PipelineAssumption DEF Tasks
<1>1. \A t \in 1 .. NumTasks, w \in U : h[t][w] = (IF t \in S THEN CancelTask(w, t) ELSE w) /\ h[t][w] \in U
  BY <1>0
<1>2. PICK f : Chain(NumTasks, U, v, h, f)
  <2> HIDE DEF h
  <2>1. QED
    BY <1>0, <1>1, ChainExists
<1>3. \A t \in 1 .. NumTasks : f[t] = IF t \in S THEN CancelTask(f[t - 1], t) ELSE f[t - 1]
  <2> HIDE DEF h
  <2>1. \A t \in 1 .. NumTasks : f[t] = h[t][f[t - 1]] /\ f[t - 1] \in U
    BY <1>0, <1>2 DEF Chain
  <2>2. QED
    BY <1>1, <2>1
<1>4. IsChain(f)
  <2> DEFINE g == [t \in 0 .. NumTasks |->
                    IF t = 0 THEN v ELSE IF t \in S THEN CancelTask(f[t - 1], t) ELSE f[t - 1]]
  <2>1. /\ g[0] = v
        /\ \A t \in 1 .. NumTasks : f[t] = g[t]
    BY <1>0, <1>3
  <2>2. f \in [0 .. NumTasks -> U]
    BY <1>2 DEF Chain
  <2>3. g \in [0 .. NumTasks -> U]
    BY <1>0, <1>3, <2>2
  <2>4. f = g
    <3> HIDE DEF g, h
    <3>1. QED
      BY <1>0, <1>2, <2>1, <2>3, SameChain
  <2>5. QED
    BY <2>4
<1>5. IsChain(c)
  <2> HIDE DEF IsChain
  <2>1. QED
    BY <1>4
<1>6. CancelAll(v, S) = c[NumTasks]
  BY DEF CancelAll, ForEach
<1>7. c[0] = v /\ \A t \in 1 .. NumTasks : c[t] = IF t \in S THEN CancelTask(c[t - 1], t) ELSE c[t - 1]
  <2> HIDE DEF c
  <2>1. QED
    BY <1>0, <1>5
<1> HIDE DEF c
<1>8. QED
  BY <1>6, <1>7

LEMMA QueueFinishAllChain ==
    ASSUME NEW U, NEW v \in U, NEW S,
           \A w \in U, t \in Tasks : Queued(w, Block("finish", t, "result")) \in U
    PROVE  \E f : /\ f[0] = v
                  /\ \A t \in 1 .. NumTasks :
                        f[t] = IF t \in S THEN Queued(f[t - 1], Block("finish", t, "result")) ELSE f[t - 1]
                  /\ QueueFinishAll(v, S) = f[NumTasks]
<1> DEFINE IsChain(f) ==
             f = [t \in 0 .. NumTasks |->
                    IF t = 0 THEN v ELSE IF t \in S THEN Queued(f[t - 1], Block("finish", t, "result")) ELSE f[t - 1]]
           h == [t \in 1 .. NumTasks |-> [w \in U |-> IF t \in S THEN Queued(w, Block("finish", t, "result")) ELSE w]]
           c == CHOOSE f : IsChain(f)
<1>0. NumTasks \in Nat /\ Tasks = 1 .. NumTasks
  BY PipelineAssumption DEF Tasks
<1>1. \A t \in 1 .. NumTasks, w \in U : h[t][w] = (IF t \in S THEN Queued(w, Block("finish", t, "result")) ELSE w) /\ h[t][w] \in U
  BY <1>0
<1>2. PICK f : Chain(NumTasks, U, v, h, f)
  <2> HIDE DEF h
  <2>1. QED
    BY <1>0, <1>1, ChainExists
<1>3. \A t \in 1 .. NumTasks : f[t] = IF t \in S THEN Queued(f[t - 1], Block("finish", t, "result")) ELSE f[t - 1]
  <2> HIDE DEF h
  <2>1. \A t \in 1 .. NumTasks : f[t] = h[t][f[t - 1]] /\ f[t - 1] \in U
    BY <1>0, <1>2 DEF Chain
  <2>2. QED
    BY <1>1, <2>1
<1>4. IsChain(f)
  <2> DEFINE g == [t \in 0 .. NumTasks |->
                    IF t = 0 THEN v ELSE IF t \in S THEN Queued(f[t - 1], Block("finish", t, "result")) ELSE f[t - 1]]
  <2>1. /\ g[0] = v
        /\ \A t \in 1 .. NumTasks : f[t] = g[t]
    BY <1>0, <1>3
  <2>2. f \in [0 .. NumTasks -> U]
    BY <1>2 DEF Chain
  <2>3. g \in [0 .. NumTasks -> U]
    BY <1>0, <1>3, <2>2
  <2>4. f = g
    <3> HIDE DEF g, h
    <3>1. QED
      BY <1>0, <1>2, <2>1, <2>3, SameChain
  <2>5. QED
    BY <2>4
<1>5. IsChain(c)
  <2> HIDE DEF IsChain
  <2>1. QED
    BY <1>4
<1>6. QueueFinishAll(v, S) = c[NumTasks]
  BY DEF QueueFinishAll, ForEach
<1>7. c[0] = v /\ \A t \in 1 .. NumTasks : c[t] = IF t \in S THEN Queued(c[t - 1], Block("finish", t, "result")) ELSE c[t - 1]
  <2> HIDE DEF c
  <2>1. QED
    BY <1>0, <1>5
<1> HIDE DEF c
<1>8. QED
  BY <1>6, <1>7

LEMMA ScheduleAllChain ==
    ASSUME NEW U, NEW v \in U, NEW s \in Seq(Tasks),
           \A w \in U, t \in Tasks : ScheduleTask(w, t) \in U
    PROVE  \E f : /\ f[0] = v
                  /\ \A n \in 1 .. Len(s) :
                        f[n] = ScheduleTask(f[n - 1], s[n])
                  /\ ScheduleAll(v, s) = f[Len(s)]
<1> DEFINE IsChain(f) ==
             f = [n \in 0 .. Len(s) |->
                    IF n = 0 THEN v ELSE ScheduleTask(f[n - 1], s[n])]
           h == [n \in 1 .. Len(s) |-> [w \in U |-> ScheduleTask(w, s[n])]]
           c == CHOOSE f : IsChain(f)
<1>0. Len(s) \in Nat /\ \A n \in 1 .. Len(s) : s[n] \in Tasks
  OBVIOUS
<1>1. \A n \in 1 .. Len(s), w \in U : h[n][w] = (ScheduleTask(w, s[n])) /\ h[n][w] \in U
  BY <1>0
<1>2. PICK f : Chain(Len(s), U, v, h, f)
  <2> HIDE DEF h
  <2>1. QED
    BY <1>0, <1>1, ChainExists
<1>3. \A n \in 1 .. Len(s) : f[n] = ScheduleTask(f[n - 1], s[n])
  <2> HIDE DEF h
  <2>1. \A n \in 1 .. Len(s) : f[n] = h[n][f[n - 1]] /\ f[n - 1] \in U
    BY <1>0, <1>2 DEF Chain
  <2>2. QED
    BY <1>1, <2>1
<1>4. IsChain(f)
  <2> DEFINE g == [n \in 0 .. Len(s) |->
                    IF n = 0 THEN v ELSE ScheduleTask(f[n - 1], s[n])]
  <2>1. /\ g[0] = v
        /\ \A n \in 1 .. Len(s) : f[n] = g[n]
    BY <1>0, <1>3
  <2>2. f \in [0 .. Len(s) -> U]
    BY <1>2 DEF Chain
  <2>3. g \in [0 .. Len(s) -> U]
    BY <1>0, <1>3, <2>2
  <2>4. f = g
    <3> HIDE DEF g, h
    <3>1. QED
      BY <1>0, <1>2, <2>1, <2>3, SameChain
  <2>5. QED
    BY <2>4
<1>5. IsChain(c)
  <2> HIDE DEF IsChain
  <2>1. QED
    BY <1>4
<1>6. ScheduleAll(v, s) = c[Len(s)]
  BY DEF ScheduleAll, InOrder
<1>7. c[0] = v /\ \A n \in 1 .. Len(s) : c[n] = ScheduleTask(c[n - 1], s[n])
  <2> HIDE DEF c
  <2>1. QED
    BY <1>0, <1>5
<1> HIDE DEF c
<1>8. QED
  BY <1>6, <1>7

LEMMA RotateAllChain ==
    ASSUME NEW U, NEW r \in U, NEW s \in Seq(Tasks),
           \A w \in U, t \in Tasks : Rotated(w, t) \in U
    PROVE  \E f : /\ f[0] = r
                  /\ \A n \in 1 .. Len(s) :
                        f[n] = Rotated(f[n - 1], s[n])
                  /\ RotateAll(r, s) = f[Len(s)]
<1> DEFINE IsChain(f) ==
             f = [n \in 0 .. Len(s) |->
                    IF n = 0 THEN r ELSE Rotated(f[n - 1], s[n])]
           h == [n \in 1 .. Len(s) |-> [w \in U |-> Rotated(w, s[n])]]
           c == CHOOSE f : IsChain(f)
<1>0. Len(s) \in Nat /\ \A n \in 1 .. Len(s) : s[n] \in Tasks
  OBVIOUS
<1>1. \A n \in 1 .. Len(s), w \in U : h[n][w] = (Rotated(w, s[n])) /\ h[n][w] \in U
  BY <1>0
<1>2. PICK f : Chain(Len(s), U, r, h, f)
  <2> HIDE DEF h
  <2>1. QED
    BY <1>0, <1>1, ChainExists
<1>3. \A n \in 1 .. Len(s) : f[n] = Rotated(f[n - 1], s[n])
  <2> HIDE DEF h
  <2>1. \A n \in 1 .. Len(s) : f[n] = h[n][f[n - 1]] /\ f[n - 1] \in U
    BY <1>0, <1>2 DEF Chain
  <2>2. QED
    BY <1>1, <2>1
<1>4. IsChain(f)
  <2> DEFINE g == [n \in 0 .. Len(s) |->
                    IF n = 0 THEN r ELSE Rotated(f[n - 1], s[n])]
  <2>1. /\ g[0] = r
        /\ \A n \in 1 .. Len(s) : f[n] = g[n]
    BY <1>0, <1>3
  <2>2. f \in [0 .. Len(s) -> U]
    BY <1>2 DEF Chain
  <2>3. g \in [0 .. Len(s) -> U]
    BY <1>0, <1>3, <2>2
  <2>4. f = g
    <3> HIDE DEF g, h
    <3>1. QED
      BY <1>0, <1>2, <2>1, <2>3, SameChain
  <2>5. QED
    BY <2>4
<1>5. IsChain(c)
  <2> HIDE DEF IsChain
  <2>1. QED
    BY <1>4
<1>6. RotateAll(r, s) = c[Len(s)]
  BY DEF RotateAll, InOrder
<1>7. c[0] = r /\ \A n \in 1 .. Len(s) : c[n] = Rotated(c[n - 1], s[n])
  <2> HIDE DEF c
  <2>1. QED
    BY <1>0, <1>5
<1> HIDE DEF c
<1>8. QED
  BY <1>6, <1>7

-----------------------------------------------------------------------------
(* Types.                                                                  *)

\* The blocks that are about a task name one.
TaskOps == {"add", "fail", "complete", "finish", "retry", "cancel"}
TaskBlocks == {b \in Blocks : b.op \in TaskOps => b.task \in Tasks}

TypeInv ==
    /\ TypeOK
    /\ \A p \in Processes : queue[p] \in Seq(TaskBlocks)
    /\ enqueued + budget["tasks"] <= NumTasks

Views ==
    [rows : [Tasks -> TaskRecords], wire : SUBSET SessionTasks, objects : [Tasks -> TaskRecords],
     queue : Seq(TaskBlocks), needs : BOOLEAN, busy : SUBSET Tasks, delivered : [Tasks -> Nat],
     torn : [Tasks -> Nat], process : Processes, attached : BOOLEAN]

LEMMA FreshIn == ASSUME NEW p \in Processes PROVE Fresh(p) \in TaskRecords /\ Fresh(p).state = "absent"
  BY DEF Fresh, TaskRecords, States

LEMMA BlockIn ==
    ASSUME NEW op \in Operations, NEW t \in Tasks \cup {0}, NEW r \in Responses \cup {None},
           op \in TaskOps => t \in Tasks
    PROVE  /\ Block(op, t, r) \in TaskBlocks
           /\ Block(op, t, r).op = op /\ Block(op, t, r).task = t /\ Block(op, t, r).attempt = 0
           /\ Block(op, t, r).response = r
  BY DEF Block, TaskBlocks, Blocks

LEMMA LoadedIn ==
    ASSUME NEW w \in Views, NEW t \in Tasks
    PROVE  Loaded(w, t) \in TaskRecords
  BY DEF Loaded, Views

LEMMA LoadIn ==
    ASSUME NEW w \in Views, NEW S
    PROVE  Load(w, S) \in Views
  BY LoadedIn DEF Load, Views

LEMMA StoredIn ==
    ASSUME NEW w \in Views, NEW t \in Tasks, NEW o \in TaskRecords
    PROVE  Stored(w, t, o) \in Views
<1>1. [o EXCEPT !.live = FALSE] \in TaskRecords
  BY DEF TaskRecords
<1>2. QED
  BY <1>1 DEF Stored, Views

LEMMA RemovedIn ==
    ASSUME NEW w \in Views, NEW t \in Tasks, NEW o
    PROVE  Removed(w, t, o) \in Views
<1>1. Fresh(IssuerOf[t]) \in TaskRecords
  BY FreshIn, PipelineAssumption
<1>2. QED
  BY <1>1 DEF Removed, Views

LEMMA QueuedIn ==
    ASSUME NEW w \in Views, NEW b \in TaskBlocks
    PROVE  Queued(w, b) \in Views
<1>1. w.queue \in Seq(TaskBlocks)
  BY DEF Views
<1>2. Append(w.queue, b) \in Seq(TaskBlocks)
  BY <1>1
<1>3. QED
  BY <1>2 DEF Queued, Views

LEMMA SetNeedsSchedulingIn ==
    ASSUME NEW w \in Views
    PROVE  SetNeedsScheduling(w) \in Views
<1>1. Block("schedule", 0, None) \in TaskBlocks
  BY BlockIn DEF Operations, TaskOps
<1>2. [w EXCEPT !.needs = TRUE] \in Views
  BY DEF Views
<1>3. QED
  BY <1>1, <1>2, QueuedIn DEF SetNeedsScheduling

LEMMA DeliverIn ==
    ASSUME NEW w \in Views, NEW t \in Tasks, NEW o \in TaskRecords
    PROVE  Deliver(w, t, o) \in Views
<1>1. [o EXCEPT !.bundle = AnyBundle] \in TaskRecords
  BY DEF TaskRecords
<1>2. [o EXCEPT !.state = "pending", !.attempt = @ + 1, !.response = None, !.session = None]
         \in TaskRecords
  <2>1. o.attempt + 1 \in Nat
    BY DEF TaskRecords
  <2>2. QED
    BY <2>1 DEF TaskRecords, States
<1>3. [w EXCEPT !.busy = @ \cup {t}] \in Views
  BY DEF Views
<1>4. [w EXCEPT !.delivered[t] = @ + 1] \in Views
  <2>1. w.delivered[t] + 1 \in Nat
    BY DEF Views
  <2>2. [w.delivered EXCEPT ![t] = @ + 1] \in [Tasks -> Nat]
    BY <2>1 DEF Views
  <2>3. QED
    BY <2>2 DEF Views
<1>5. QED
  BY <1>1, <1>2, <1>3, <1>4, StoredIn, RemovedIn, SetNeedsSchedulingIn DEF Deliver

LEMMA CompletedIn ==
    ASSUME NEW w \in Views, NEW t \in Tasks, NEW r \in Responses \cup {None}
    PROVE  /\ Completed(w, t, r) \in TaskRecords
           /\ Completed(w, t, r).state = "completed"
           /\ Completed(w, t, r).attempt = Loaded(w, t).attempt
  BY LoadedIn DEF TaskRecords, States, Completed

LEMMA FinishedIn ==
    ASSUME NEW w \in Views, NEW t \in Tasks, NEW r \in Responses \cup {None}
    PROVE  Finished(w, t, r) \in Views
  BY CompletedIn, StoredIn, DeliverIn DEF Finished

LEMMA HalfwayIn ==
    ASSUME NEW w \in Views, NEW t \in Tasks, NEW o, NEW half \in Halfway(w, t, o)
    PROVE  half \in Views
<1>1. w.delivered[t] + 1 \in Nat /\ w.torn[t] + 1 \in Nat
  BY DEF Views
<1>2. [w EXCEPT !.delivered[t] = @ + 1, !.torn[t] = @ + 1] \in Views
  BY <1>1 DEF Views
<1>3. QED
  BY <1>2 DEF Halfway, Called

LEMMA FinishBlockIn ==
    ASSUME NEW t \in Tasks
    PROVE  Block("finish", t, "result") \in TaskBlocks
  BY BlockIn DEF Operations, Responses

LEMMA CancelTaskIn ==
    ASSUME NEW w \in Views, NEW t \in Tasks
    PROVE  CancelTask(w, t) \in Views
<1> DEFINE marked == [Loaded(w, t) EXCEPT !.cancelled = TRUE]
<1>1. marked \in TaskRecords
  BY LoadedIn DEF TaskRecords
<1> HIDE DEF marked
<1>2. [w EXCEPT !.objects[t] = marked] \in Views
  BY <1>1 DEF Views
<1>3. QED
  BY <1>1, <1>2, StoredIn, QueuedIn, FinishBlockIn DEF CancelTask, marked

LEMMA ScheduleTaskIn ==
    ASSUME NEW w \in Views, NEW t \in Tasks
    PROVE  ScheduleTask(w, t) \in Views
<1>1. Loaded(w, t) \in TaskRecords
  BY LoadedIn
<1> DEFINE s == [task |-> t, attempt |-> Loaded(w, t).attempt, process |-> w.process, noted |-> TRUE]
           o == [Loaded(w, t) EXCEPT !.state = "running", !.session = SessionOf(w.process), !.live = TRUE]
<1>2. s \in SessionTasks
  BY <1>1 DEF SessionTasks, TaskRecords, Views
<1>3. o \in TaskRecords
  BY <1>1 DEF TaskRecords, States, SessionOf, Views
<1>4. Block("fail", t, "result") \in TaskBlocks
  BY BlockIn DEF Operations, Responses
<1> HIDE DEF s, o
<1>5. [w EXCEPT !.wire = @ \cup {s}] \in Views
  BY <1>2 DEF Views
<1>6. QED
  BY <1>3, <1>4, <1>5, StoredIn, QueuedIn DEF ScheduleTask, s, o

LEMMA ReattachedIn ==
    ASSUME NEW w \in Views, NEW p
    PROVE  Reattached(p, w) \in Views
<1>1. \A t \in Tasks : w.objects[t] \in TaskRecords /\ [w.objects[t] EXCEPT !.live = TRUE] \in TaskRecords
  BY DEF Views, TaskRecords
<1>2. QED
  BY <1>1 DEF Reattached, Views

LEMMA RotatedIn ==
    ASSUME NEW r \in Seq(Groups), NEW t \in Tasks
    PROVE  Rotated(r, t) \in Seq(Groups)
<1> DEFINE i == CHOOSE i \in DOMAIN r : r[i] = GroupOf[t]
<1>1. CASE GroupOf[t] \in ToSet(r)
  <2>1. i \in 1 .. Len(r)
    BY <1>1 DEF ToSet
  <2> HIDE DEF i
  <2>2. SubSeq(r, 1, i - 1) \in Seq(Groups) /\ SubSeq(r, i + 1, Len(r)) \in Seq(Groups)
    BY <2>1
  <2>3. RemoveAt(r, i) \in Seq(Groups)
    BY <2>2 DEF RemoveAt
  <2>4. QED
    BY <1>1, <2>3 DEF Rotated, Without, Groups, i
<1>2. CASE GroupOf[t] \notin ToSet(r)
  BY <1>2 DEF Rotated, Without, Groups
<1>3. QED
  BY <1>1, <1>2

\* A fold of operations that stay in the views stays there.
LEMMA ChainStays ==
    ASSUME NEW N \in Nat, NEW U, NEW f, f[0] \in U, \A n \in 1 .. N : f[n - 1] \in U => f[n] \in U
    PROVE  f[N] \in U
<1> DEFINE S == {n \in 0 .. N : f[n] \in U}
<1>1. 0 \in S /\ \A n \in 1 .. N : n - 1 \in S => n \in S
  OBVIOUS
<1> HIDE DEF S
<1>2. 0 .. N \subseteq S
  BY <1>1, UpTo
<1>3. QED
  BY <1>2 DEF S

LEMMA FinishAllIn ==
    ASSUME NEW w \in Views, NEW S, NEW r \in Responses \cup {None}
    PROVE  FinishAll(w, S, r) \in Views
<1>1. \A x \in Views, t \in Tasks : Finished(x, t, r) \in Views
  BY FinishedIn
<1>2. PICK f : /\ f[0] = w
               /\ \A t \in 1 .. NumTasks :
                     f[t] = IF t \in S THEN Finished(f[t - 1], t, r) ELSE f[t - 1]
               /\ FinishAll(w, S, r) = f[NumTasks]
  BY <1>1, FinishAllChain
<1>3. \A t \in 1 .. NumTasks : f[t - 1] \in Views => f[t] \in Views
  BY <1>1, <1>2 DEF Tasks
<1>4. QED
  BY <1>2, <1>3, ChainStays, PipelineAssumption

LEMMA DeliverAllIn ==
    ASSUME NEW w \in Views, NEW S
    PROVE  DeliverAll(w, S) \in Views
<1>1. \A x \in Views, t \in Tasks : Deliver(x, t, Loaded(x, t)) \in Views
  BY DeliverIn, LoadedIn
<1>2. PICK f : /\ f[0] = w
               /\ \A t \in 1 .. NumTasks :
                     f[t] = IF t \in S THEN Deliver(f[t - 1], t, Loaded(f[t - 1], t)) ELSE f[t - 1]
               /\ DeliverAll(w, S) = f[NumTasks]
  BY <1>1, DeliverAllChain
<1>3. \A t \in 1 .. NumTasks : f[t - 1] \in Views => f[t] \in Views
  BY <1>1, <1>2 DEF Tasks
<1>4. QED
  BY <1>2, <1>3, ChainStays, PipelineAssumption

LEMMA CancelAllIn ==
    ASSUME NEW w \in Views, NEW S
    PROVE  CancelAll(w, S) \in Views
<1>1. \A x \in Views, t \in Tasks : CancelTask(x, t) \in Views
  BY CancelTaskIn
<1>2. PICK f : /\ f[0] = w
               /\ \A t \in 1 .. NumTasks : f[t] = IF t \in S THEN CancelTask(f[t - 1], t) ELSE f[t - 1]
               /\ CancelAll(w, S) = f[NumTasks]
  BY <1>1, CancelAllChain
<1>3. \A t \in 1 .. NumTasks : f[t - 1] \in Views => f[t] \in Views
  BY <1>1, <1>2 DEF Tasks
<1>4. QED
  BY <1>2, <1>3, ChainStays, PipelineAssumption

LEMMA QueueFinishAllIn ==
    ASSUME NEW w \in Views, NEW S
    PROVE  QueueFinishAll(w, S) \in Views
<1>1. \A x \in Views, t \in Tasks : Queued(x, Block("finish", t, "result")) \in Views
  BY QueuedIn, FinishBlockIn
<1>2. PICK f : /\ f[0] = w
               /\ \A t \in 1 .. NumTasks :
                     f[t] = IF t \in S THEN Queued(f[t - 1], Block("finish", t, "result")) ELSE f[t - 1]
               /\ QueueFinishAll(w, S) = f[NumTasks]
  BY <1>1, QueueFinishAllChain
<1>3. \A t \in 1 .. NumTasks : f[t - 1] \in Views => f[t] \in Views
  BY <1>1, <1>2 DEF Tasks
<1>4. QED
  BY <1>2, <1>3, ChainStays, PipelineAssumption

LEMMA ScheduleAllIn ==
    ASSUME NEW w \in Views, NEW s \in Seq(Tasks)
    PROVE  ScheduleAll(w, s) \in Views
<1>1. \A x \in Views, t \in Tasks : ScheduleTask(x, t) \in Views
  BY ScheduleTaskIn
<1>2. PICK f : /\ f[0] = w
               /\ \A n \in 1 .. Len(s) : f[n] = ScheduleTask(f[n - 1], s[n])
               /\ ScheduleAll(w, s) = f[Len(s)]
  BY <1>1, ScheduleAllChain
<1>3. \A n \in 1 .. Len(s) : f[n - 1] \in Views => f[n] \in Views
  BY <1>1, <1>2
<1>4. QED
  BY <1>2, <1>3, ChainStays

LEMMA RotateAllIn ==
    ASSUME NEW r \in Seq(Groups), NEW s \in Seq(Tasks)
    PROVE  RotateAll(r, s) \in Seq(Groups)
<1> DEFINE U == Seq(Groups)
<1>1. \A x \in U, t \in Tasks : Rotated(x, t) \in U
  BY RotatedIn
<1> HIDE DEF U
<1>2. r \in U
  BY DEF U
<1>3. PICK f : /\ f[0] = r
               /\ \A n \in 1 .. Len(s) : f[n] = Rotated(f[n - 1], s[n])
               /\ RotateAll(r, s) = f[Len(s)]
  BY <1>1, <1>2, RotateAllChain
<1>4. \A n \in 1 .. Len(s) : f[n - 1] \in U => f[n] \in U
  BY <1>1, <1>3
<1>5. RotateAll(r, s) \in U
  BY <1>2, <1>3, <1>4, ChainStays
<1>6. QED
  BY <1>5 DEF U

\* The variables a block works on, and the others.
ViewTyped ==
    /\ rows \in [Tasks -> TaskRecords]
    /\ wire \in SUBSET SessionTasks
    /\ objects \in [Processes -> [Tasks -> TaskRecords]]
    /\ queue \in [Processes -> Seq(Blocks)]
    /\ \A p \in Processes : queue[p] \in Seq(TaskBlocks)
    /\ needs \in [Processes -> BOOLEAN]
    /\ busy \in [Processes -> SUBSET Tasks]
    /\ delivered \in [Tasks -> Nat] /\ torn \in [Tasks -> Nat]

OuterTyped ==
    /\ attached \in SUBSET Processes
    /\ recent \in [Processes -> Seq(Groups)]
    /\ up \in SUBSET Processes
    /\ signal \in [Processes -> {"met", "wait", "fail"}]
    /\ enqueued \in 0 .. NumTasks
    /\ early \in SUBSET Tasks /\ lost \in SUBSET Tasks
    /\ passed \in [Groups -> Nat]
    /\ limit \in Nat
    /\ budget \in [Bounded -> Nat]
    /\ enqueued + budget["tasks"] <= NumTasks

LEMMA TypeParts == TypeInv <=> ViewTyped /\ OuterTyped
  BY DEF TypeInv, TypeOK, ViewTyped, OuterTyped

LEMMA ViewIn ==
    ASSUME ViewTyped, NEW p \in Processes, NEW op, Runs(p, op)
    PROVE  /\ View(p) \in Views
           /\ Head(queue[p]) \in TaskBlocks /\ Head(queue[p]).op = op
           /\ queue[p] \in Seq(TaskBlocks) /\ Tail(queue[p]) \in Seq(TaskBlocks)
<1>1. queue[p] \in Seq(TaskBlocks) /\ queue[p] # <<>> /\ Head(queue[p]).op = op
  BY DEF ViewTyped, Runs
<1>2. Head(queue[p]) \in TaskBlocks /\ Tail(queue[p]) \in Seq(TaskBlocks)
  BY <1>1
<1>3. QED
  BY <1>1, <1>2 DEF View, Views, ViewTyped

LEMMA CommitTyped ==
    ASSUME ViewTyped, NEW p \in Processes, NEW v \in Views, Commit(p, v)
    PROVE  ViewTyped'
<1>1. /\ rows' = v.rows /\ wire' = v.wire /\ objects' = [objects EXCEPT ![p] = v.objects]
      /\ queue' = [queue EXCEPT ![p] = v.queue] /\ needs' = [needs EXCEPT ![p] = v.needs]
      /\ busy' = [busy EXCEPT ![p] = v.busy] /\ delivered' = v.delivered /\ torn' = v.torn
  BY DEF Commit
<1>2. v.queue \in Seq(TaskBlocks) /\ v.queue \in Seq(Blocks)
  BY DEF Views, TaskBlocks
<1>3. QED
  BY <1>1, <1>2 DEF ViewTyped, Views

LEMMA PostTyped ==
    ASSUME ViewTyped, NEW p \in Processes, NEW b \in TaskBlocks, Post(p, b)
    PROVE  /\ queue' \in [Processes -> Seq(Blocks)]
           /\ \A q \in Processes : queue'[q] \in Seq(TaskBlocks)
<1>1. Append(queue[p], b) \in Seq(TaskBlocks) /\ Append(queue[p], b) \in Seq(Blocks)
  BY DEF ViewTyped, TaskBlocks
<1>2. QED
  BY <1>1 DEF ViewTyped, Post

LEMMA TypeInit == Init => TypeInv
<1> SUFFICES ASSUME Init PROVE TypeInv
  OBVIOUS
<1>1. PICK s \in Scenarios : limit = s.limit /\ budget = s.budget
  BY DEF Init
<1>2. limit \in Nat /\ budget \in [Bounded -> Nat] /\ budget["tasks"] <= NumTasks
  BY <1>1, PipelineAssumption
<1>3. [t \in Tasks |-> Fresh(IssuerOf[t])] \in [Tasks -> TaskRecords]
  BY FreshIn, PipelineAssumption
<1>4. ViewTyped
  BY <1>3 DEF Init, ViewTyped, NoObjects
<1>5. enqueued = 0 /\ NumTasks \in Nat
  BY PipelineAssumption DEF Init
<1>6. OuterTyped
  BY <1>2, <1>5 DEF Init, OuterTyped, Bounded
<1>7. QED
  BY <1>4, <1>6, TypeParts

\* The typing of one step of the backend's thread.
LEMMA ScheduleTyped == ASSUME TypeInv, NEW p \in Processes, RunSchedule(p) PROVE TypeInv'
<1>1. ViewTyped /\ OuterTyped
  BY TypeParts
<1> DEFINE v == [View(p) EXCEPT !.needs = FALSE]
           all == Load(v, Tasks)
<1>2. v \in Views /\ all \in Views
  <2>1. View(p) \in Views
    BY <1>1, ViewIn DEF RunSchedule
  <2>2. v \in Views
    BY <2>1 DEF Views
  <2> HIDE DEF v
  <2>3. QED
    BY <2>2, LoadIn
<1>3. UNCHANGED <<attached, up, signal, enqueued, lost, limit, budget>>
  BY DEF RunSchedule
<1>4. ASSUME NEW w \in Views, Commit(p, w), UNCHANGED <<recent, early, passed>>
      PROVE  TypeInv'
  <2> HIDE DEF v, all
  <2>1. ViewTyped'
    BY <1>1, <1>4, CommitTyped
  <2>2. OuterTyped'
    BY <1>1, <1>3, <1>4 DEF OuterTyped
  <2>3. QED
    BY <2>1, <2>2, TypeParts DEF TypeInv, TypeOK, ViewTyped, OuterTyped
<1>5. FinishAll(all, Unblocked(all), "result") \in Views
  <2> HIDE DEF v, all
  <2>1. Unblocked(all) \in SUBSET Tasks
    BY DEF Unblocked, InState, Relevant
  <2>2. QED
    BY <1>2, <2>1, FinishAllIn DEF Responses
<1>6. ASSUME NEW S \in SUBSET Tasks, StartTasks(p, all, S)
      PROVE  TypeInv'
  <2> HIDE DEF v, all
  <2>1. PICK s \in Ordered(p, S) :
          LET chosen == SubSeq(s, 1, IF Len(s) < Slots THEN Len(s) ELSE Slots)
              started == ToSet(chosen)
          IN /\ Commit(p, ScheduleAll(all, chosen))
             /\ recent' = [recent EXCEPT ![p] = RotateAll(@, chosen)]
             /\ early' = early \cup Unstartable(all, started)
             /\ passed' = [g \in Groups |->
                IF \E t \in started : GroupOf[t] = g THEN 0
                ELSE IF \E t \in S : GroupOf[t] = g THEN passed[g] + Len(chosen)
                ELSE passed[g]]
    BY <1>6 DEF StartTasks
  <2>2. s \in Seq(Tasks) /\ Slots \in Nat
    <3>1. s \in [1 .. Cardinality(S) -> S] /\ Cardinality(S) \in Nat
      <4>1. IsFiniteSet(Tasks)
        BY FS_Interval, PipelineAssumption DEF Tasks
      <4>2. IsFiniteSet(S)
        BY <4>1, FS_Subset
      <4>3. s \in SetToSeqs(S)
        BY <2>1 DEF Ordered
      <4>4. Cardinality(S) \in Nat
        BY <4>2, FS_CardinalityType
      <4>5. QED
        BY <4>3, <4>4 DEF SetToSeqs
    <3>2. Slots \in Nat
      <4>1. IsFiniteSet(RunningRows)
        <5>1. IsFiniteSet(Tasks)
          BY FS_Interval, PipelineAssumption DEF Tasks
        <5>2. RunningRows \in SUBSET Tasks
          BY DEF RunningRows
        <5>3. QED
          BY <5>1, <5>2, FS_Subset
      <4>2. QED
        BY <1>1, <4>1, FS_CardinalityType, PipelineAssumption DEF Slots, OuterTyped
    <3>3. QED
      BY <3>1, <3>2
  <2> DEFINE chosen == SubSeq(s, 1, IF Len(s) < Slots THEN Len(s) ELSE Slots)
  <2>3. chosen \in Seq(Tasks) /\ Len(chosen) \in Nat /\ ToSet(chosen) \in SUBSET Tasks
    BY <2>2 DEF ToSet
  <2>4. /\ Commit(p, ScheduleAll(all, chosen))
        /\ recent' = [recent EXCEPT ![p] = RotateAll(@, chosen)]
        /\ early' \subseteq early \cup ToSet(chosen)
        /\ passed' = [g \in Groups |->
                IF \E t \in ToSet(chosen) : GroupOf[t] = g THEN 0
                ELSE IF \E t \in S : GroupOf[t] = g THEN passed[g] + Len(chosen)
                ELSE passed[g]]
    BY <2>1 DEF Unstartable
  <2> HIDE DEF chosen
  <2>5. ScheduleAll(all, chosen) \in Views
    BY <1>2, <2>3, ScheduleAllIn
  <2>6. ViewTyped'
    BY <1>1, <2>4, <2>5, CommitTyped
  <2>7. RotateAll(recent[p], chosen) \in Seq(Groups)
    BY <1>1, <2>3, RotateAllIn DEF OuterTyped
  <2>8. passed' \in [Groups -> Nat]
    BY <1>1, <2>3, <2>4 DEF OuterTyped
  <2>9. OuterTyped'
    BY <1>1, <1>3, <2>3, <2>4, <2>7, <2>8 DEF OuterTyped
  <2>10. QED
    BY <2>6, <2>9 DEF TypeInv, TypeOK, ViewTyped, OuterTyped
<1>7. Schedulable(all) \in SUBSET Tasks
  BY DEF Schedulable, InState, Relevant
<1>8. QED
  <2> HIDE DEF TypeInv
  <2>1. \/ Commit(p, v) /\ UNCHANGED <<recent, early, passed>>
        \/ Commit(p, all) /\ UNCHANGED <<recent, early, passed>>
        \/ Commit(p, FinishAll(all, Unblocked(all), "result")) /\ UNCHANGED <<recent, early, passed>>
        \/ StartTasks(p, all, Schedulable(all))
    BY DEF RunSchedule
  <2> HIDE DEF v, all
  <2>2. QED
    BY <1>2, <1>4, <1>5, <1>6, <1>7, <2>1

LEMMA BlockTyped ==
    ASSUME TypeInv, NEW p \in Processes, NEW op, Runs(p, op), NEW v \in Views, Commit(p, v),
           UNCHANGED <<recent, up, signal, enqueued, passed, limit, budget>>,
           attached' \in SUBSET Processes, early' \in SUBSET Tasks, lost' \in SUBSET Tasks
    PROVE  TypeInv'
<1>1. ViewTyped'
  BY CommitTyped, TypeParts
<1>2. OuterTyped'
  BY TypeParts DEF OuterTyped
<1>3. QED
  BY <1>1, <1>2 DEF TypeInv, TypeOK, ViewTyped, OuterTyped

LEMMA HeadTask ==
    ASSUME TypeInv, NEW p \in Processes, NEW op \in TaskOps, Runs(p, op)
    PROVE  Task(p) \in Tasks /\ Response(p) \in Responses \cup {None} /\ Head(queue[p]).attempt \in Nat
  BY ViewIn, TypeParts DEF Task, Response, TaskBlocks, Blocks

LEMMA RunBlockTyped == ASSUME TypeInv, NEW p \in Processes, RunBlock(p) PROVE TypeInv'
<1> USE DEF Operations, TaskOps
<1>0. ViewTyped /\ early \in SUBSET Tasks /\ lost \in SUBSET Tasks /\ attached \in SUBSET Processes
  BY TypeParts DEF OuterTyped
<1>1. CASE RunSchedule(p)
  BY <1>1, ScheduleTyped
<1>2. CASE RunAdd(p)
  <2> DEFINE new == [Fresh(p) EXCEPT !.state = "pending"]
             v == [View(p) EXCEPT !.rows[Task(p)] = new, !.objects[Task(p)] = new]
  <2>1. View(p) \in Views /\ Task(p) \in Tasks
    BY <1>0, <1>2, ViewIn, HeadTask DEF RunAdd
  <2>2. new \in TaskRecords
    BY FreshIn DEF TaskRecords, States
  <2> HIDE DEF new
  <2>3. v \in Views
    BY <2>1, <2>2 DEF Views
  <2>4. Commit(p, SetNeedsScheduling(v))
    BY <1>2 DEF RunAdd, new
  <2> HIDE DEF v
  <2>5. QED
    BY <1>0, <1>2, <2>3, <2>4, SetNeedsSchedulingIn, BlockTyped DEF RunAdd
<1>3. CASE RunFail(p)
  <2>1. View(p) \in Views /\ Block("finish", Task(p), Response(p)) \in TaskBlocks
    BY <1>0, <1>3, ViewIn, HeadTask, BlockIn DEF RunFail
  <2>2. QED
    BY <1>0, <1>3, <2>1, QueuedIn, BlockTyped DEF RunFail
<1>4. CASE RunComplete(p)
  <2> DEFINE t == Task(p)
             w == Load(View(p), {t})
             r == IF Loaded(w, t).cancelled THEN "result" ELSE Response(p)
  <2>1. View(p) \in Views /\ t \in Tasks /\ Response(p) \in Responses \cup {None}
    BY <1>0, <1>4, ViewIn, HeadTask DEF RunComplete
  <2>2. w \in Views
    BY <2>1, LoadIn
  <2>3. Block("finish", t, r) \in TaskBlocks
    BY <2>1, BlockIn DEF Responses
  <2>4. Commit(p, View(p)) \/ Commit(p, Queued(w, Block("finish", t, r)))
    BY <1>4 DEF RunComplete
  <2> HIDE DEF t, w, r
  <2>5. QED
    BY <1>0, <1>4, <2>1, <2>2, <2>3, <2>4, QueuedIn, BlockTyped DEF RunComplete
<1>5. CASE RunFinish(p)
  <2> DEFINE w == Finished(View(p), Task(p), Response(p))
  <2>1. w \in Views
    BY <1>0, <1>5, ViewIn, HeadTask, FinishedIn DEF RunFinish
  <2>2. Commit(p, SetNeedsScheduling(w))
    BY <1>5 DEF RunFinish
  <2> HIDE DEF w
  <2>3. QED
    BY <1>0, <1>5, <2>1, <2>2, SetNeedsSchedulingIn, BlockTyped DEF RunFinish
<1>6. CASE RunAttach(p)
  <2>1. View(p) \in Views /\ Block("deliver", 0, None) \in TaskBlocks
    BY <1>0, <1>6, ViewIn, BlockIn DEF RunAttach
  <2>2. QED
    BY <1>0, <1>6, <2>1, QueuedIn, SetNeedsSchedulingIn, BlockTyped DEF RunAttach
<1>7. CASE RunDetach(p)
  BY <1>0, <1>7, ViewIn, BlockTyped DEF RunDetach
<1>8. CASE RunDeliver(p)
  <2> DEFINE completed == {t \in Tasks : rows[t].state = "completed"}
  <2>1. View(p) \in Views /\ Commit(p, DeliverAll(Load(View(p), completed), completed))
    BY <1>0, <1>8, ViewIn DEF RunDeliver
  <2> HIDE DEF completed
  <2>2. QED
    BY <1>0, <1>8, <2>1, LoadIn, DeliverAllIn, BlockTyped DEF RunDeliver
<1>9. CASE RunRetry(p)
  <2> DEFINE t == Task(p)
             v == [View(p) EXCEPT !.busy = @ \ {t}]
             o == [Loaded(v, t) EXCEPT !.response = IF @ = "unverified" THEN Response(p) ELSE @]
  <2>1. View(p) \in Views /\ t \in Tasks /\ Response(p) \in Responses \cup {None}
    BY <1>0, <1>9, ViewIn, HeadTask DEF RunRetry
  <2>2. v \in Views
    BY <2>1 DEF Views
  <2>3. o \in TaskRecords
    BY <2>1, <2>2, LoadedIn DEF TaskRecords
  <2>4. Commit(p, Deliver(Stored(v, t, o), t, o))
    BY <1>9 DEF RunRetry
  <2> HIDE DEF t, v, o
  <2>5. QED
    BY <1>0, <1>9, <2>1, <2>2, <2>3, <2>4, StoredIn, DeliverIn, BlockTyped DEF RunRetry
<1>10. ASSUME NEW S \in SUBSET Tasks, NEW op, Runs(p, op), CancelTasks(p, S)
       PROVE  TypeInv'
  <2>1. Commit(p, CancelAll(Load(View(p), S), S)) /\ View(p) \in Views
    BY <1>0, <1>10, ViewIn DEF CancelTasks
  <2>2. QED
    BY <1>0, <1>10, <2>1, LoadIn, CancelAllIn, BlockTyped DEF CancelTasks
<1>11. CASE RunCancel(p)
  BY <1>10, <1>11 DEF RunCancel
<1>12. CASE RunCancelNonCritical(p)
  BY <1>10, <1>12, PipelineAssumption DEF RunCancelNonCritical
<1>13. CASE RunFinishPending(p)
  <2> DEFINE S == {t \in Tasks : rows[t].state # "absent"}
  <2>1. /\ Commit(p, QueueFinishAll(Load(View(p), S), S)) /\ View(p) \in Views
        /\ S \in SUBSET Tasks /\ early' = early \cup S
    BY <1>0, <1>13, ViewIn DEF RunFinishPending
  <2> HIDE DEF S
  <2>2. QED
    BY <1>0, <1>13, <2>1, LoadIn, QueueFinishAllIn, BlockTyped DEF RunFinishPending
<1>14. CASE RunRecover(p)
  <2> DEFINE v == Reattached(p, Load(View(p), Tasks))
  <2>1. v \in Views
    BY <1>0, <1>14, ViewIn, LoadIn, ReattachedIn DEF RunRecover
  <2>2. Dropped(v) \in SUBSET Tasks
    BY DEF Dropped
  <2>3. Commit(p, FinishAll(v, Dropped(v), "dropped")) /\ lost' \subseteq lost \cup Dropped(v)
    BY <1>14 DEF RunRecover
  <2> HIDE DEF v
  <2>4. FinishAll(v, Dropped(v), "dropped") \in Views
    BY <2>1, FinishAllIn DEF Responses
  <2>5. QED
    BY <1>0, <1>14, <2>2, <2>3, <2>4, BlockTyped DEF RunRecover
<1>15. QED
  BY <1>1, <1>2, <1>3, <1>4, <1>5, <1>6, <1>7, <1>8, <1>9, <1>11, <1>12, <1>13, <1>14 DEF RunBlock

\* What a process that dies leaves behind.
LEMMA DiesTyped ==
    ASSUME TypeInv, NEW p \in Processes, NEW rows_ \in [Tasks -> TaskRecords],
           NEW wire_ \in SUBSET SessionTasks, Dies(p, rows_, wire_),
           delivered' \in [Tasks -> Nat], torn' \in [Tasks -> Nat],
           early' \in SUBSET Tasks, lost' \in SUBSET Tasks
    PROVE  TypeInv'
<1>1. ViewTyped /\ OuterTyped
  BY TypeParts
<1>2. /\ Spend("crashes") /\ up' = up \ {p} /\ attached' = attached \ {p}
      /\ recent' = [recent EXCEPT ![p] = <<>>]
      /\ passed' = [g \in Groups |-> 0]
      /\ UNCHANGED <<signal, enqueued>>
  BY DEF Dies
<1>3. limit' \in Nat /\ budget' \in [Bounded -> Nat] /\ budget'["tasks"] = budget["tasks"]
  BY <1>1, <1>2 DEF Spend, OuterTyped, Bounded
<1>4. OuterTyped'
  BY <1>1, <1>2, <1>3 DEF OuterTyped
<1>5. NoObjects \in [Tasks -> TaskRecords]
  BY FreshIn, PipelineAssumption DEF NoObjects
<1>6. ViewTyped'
  BY <1>1, <1>5 DEF Dies, ViewTyped
<1>7. QED
  BY <1>4, <1>6 DEF TypeInv, TypeOK, ViewTyped, OuterTyped

\* The view of a process that dies in a block, and the tasks that are lost then.
Left(p) == {v \in Views : DiesAs(p, v)}

LEMMA DiesFinishingTyped ==
    ASSUME NEW p \in Processes, NEW v \in Views, NEW S \in SUBSET Tasks, NEW t \in Tasks,
           NEW r \in Responses \cup {None}, DiesFinishing(p, v, S, t, r)
    PROVE  Left(p) # {}
<1> DEFINE w == FinishAll(v, DownTo(S, t - 1), r)
           o == Completed(w, t, r)
<1>1. DownTo(S, t - 1) \in SUBSET Tasks
  BY DEF DownTo
<1>2. w \in Views
  BY <1>1, FinishAllIn
<1>3. PICK half \in {w} \cup Halfway(Stored(w, t, o), t, o) : DiesAs(p, half)
  BY DEF DiesFinishing
<1> HIDE DEF w
<1>4. half \in Views
  BY <1>2, <1>3, CompletedIn, StoredIn, HalfwayIn
<1>5. QED
  BY <1>3, <1>4 DEF Left

LEMMA OrderedIn ==
    ASSUME NEW p, NEW S \in SUBSET Tasks, NEW s \in Ordered(p, S)
    PROVE  s \in Seq(S)
<1>1. IsFiniteSet(Tasks)
  BY FS_Interval, PipelineAssumption DEF Tasks
<1>2. Cardinality(S) \in Nat
  BY <1>1, FS_Subset, FS_CardinalityType
<1>3. s \in [1 .. Cardinality(S) -> S]
  BY DEF Ordered, SetToSeqs
<1>4. QED
  BY <1>2, <1>3

LEMMA DiesStartingTyped ==
    ASSUME NEW p \in Processes, NEW v \in Views, NEW t \in Tasks, DiesStarting(p, v, t),
           lost \in SUBSET Tasks
    PROVE  Left(p) # {} /\ lost' \in SUBSET Tasks
<1> DEFINE o == [Loaded(v, t) EXCEPT !.session = SessionOf(p)]
           w == [task |-> t, attempt |-> o.attempt, process |-> p, noted |-> FALSE]
<1>1. PICK begun \in {{}, {w}} :
         /\ DiesAs(p, Stored([v EXCEPT !.wire = @ \cup begun], t, o))
         /\ lost' = lost \cup {x.task : x \in begun}
  BY DEF DiesStarting
<1>2. o \in TaskRecords
  BY LoadedIn DEF TaskRecords, SessionOf
<1>3. w \in SessionTasks /\ w.task = t
  BY <1>2 DEF SessionTasks, TaskRecords
<1> HIDE DEF o, w
<1>4. [v EXCEPT !.wire = @ \cup begun] \in Views
  BY <1>1, <1>3 DEF Views
<1>5. QED
  BY <1>1, <1>2, <1>3, <1>4, StoredIn DEF Left

LEMMA DieInBlockTyped ==
    ASSUME TypeInv, NEW p \in Processes, DieInBlock(p)
    PROVE  TypeInv'
<1> USE DEF Operations, TaskOps, Responses
<1>0. ViewTyped /\ OuterTyped
  BY TypeParts
<1>1. ASSUME Left(p) # {}, early' \in SUBSET Tasks, lost' \in SUBSET Tasks
      PROVE  TypeInv'
  <2>1. PICK v \in Views : DiesAs(p, v)
    BY <1>1 DEF Left
  <2>2. QED
    BY <1>0, <1>1, <2>1, DiesTyped DEF DiesAs, Views, OuterTyped
<1>2. CASE DieInFinish(p)
  <2>1. View(p) \in Views /\ Task(p) \in Tasks /\ Response(p) \in Responses \cup {None}
    BY <1>0, <1>2, ViewIn, HeadTask DEF DieInFinish
  <2>2. DiesFinishing(p, View(p), {Task(p)}, Task(p), Response(p)) /\ UNCHANGED <<early, lost>>
    BY <1>2 DEF DieInFinish
  <2>3. QED
    BY <1>0, <1>1, <2>1, <2>2, DiesFinishingTyped DEF OuterTyped
<1>3. CASE DieInDeliver(p)
  <2> DEFINE completed == {t \in Tasks : rows[t].state = "completed"}
  <2>1. View(p) \in Views
    BY <1>0, <1>3, ViewIn DEF DieInDeliver
  <2>2. PICK t \in completed :
          \E v \in {DeliverAll(Load(View(p), completed), DownTo(completed, t - 1))} :
          \E half \in Halfway(v, t, Loaded(v, t)) : DiesAs(p, half)
    BY <1>3 DEF DieInDeliver
  <2>3. DownTo(completed, t - 1) \in SUBSET Tasks /\ t \in Tasks
    BY DEF DownTo
  <2> HIDE DEF completed
  <2>4. DeliverAll(Load(View(p), completed), DownTo(completed, t - 1)) \in Views
    BY <2>1, <2>3, LoadIn, DeliverAllIn
  <2>5. Left(p) # {}
    BY <2>2, <2>3, <2>4, HalfwayIn DEF Left
  <2>6. QED
    BY <1>0, <1>1, <1>3, <2>5 DEF DieInDeliver, OuterTyped
<1>4. CASE DieInRetry(p)
  <2> DEFINE t == Task(p)
             v == [View(p) EXCEPT !.busy = @ \ {t}]
             o == [Loaded(v, t) EXCEPT !.response = IF @ = "unverified" THEN Response(p) ELSE @]
  <2>1. View(p) \in Views /\ t \in Tasks /\ Response(p) \in Responses \cup {None}
    BY <1>0, <1>4, ViewIn, HeadTask DEF DieInRetry
  <2>2. v \in Views
    BY <2>1 DEF Views
  <2>3. o \in TaskRecords
    BY <2>1, <2>2, LoadedIn DEF TaskRecords
  <2>4. \E half \in Halfway(Stored(v, t, o), t, o) : DiesAs(p, half)
    BY <1>4 DEF DieInRetry
  <2> HIDE DEF t, v, o
  <2>5. Left(p) # {}
    BY <2>1, <2>2, <2>3, <2>4, StoredIn, HalfwayIn DEF Left
  <2>6. QED
    BY <1>0, <1>1, <1>4, <2>5 DEF DieInRetry, OuterTyped
<1>5. CASE DieInRecover(p)
  <2> DEFINE v == Reattached(p, Load(View(p), Tasks))
  <2>1. v \in Views
    BY <1>0, <1>5, ViewIn, LoadIn, ReattachedIn DEF DieInRecover
  <2>2. Dropped(v) \in SUBSET Tasks
    BY DEF Dropped
  <2>3. PICK t \in Dropped(v) :
          /\ DiesFinishing(p, v, Dropped(v), t, "dropped")
          /\ lost' = lost \cup {u \in DownTo(Dropped(v), t) : \E q \in Processes : Unanswered(q, u)}
    BY <1>5 DEF DieInRecover
  <2> HIDE DEF v
  <2>4. lost' \in SUBSET Tasks /\ early' = early
    BY <1>0, <1>5, <2>2, <2>3 DEF DieInRecover, DownTo, OuterTyped
  <2>5. QED
    BY <1>0, <1>1, <2>1, <2>2, <2>3, <2>4, DiesFinishingTyped DEF OuterTyped
<1>6. CASE DieInFailing(p)
  <2> DEFINE v == Load([View(p) EXCEPT !.needs = FALSE], Tasks)
  <2>1. View(p) \in Views
    BY <1>0, <1>6, ViewIn DEF DieInFailing
  <2>2. [View(p) EXCEPT !.needs = FALSE] \in Views
    BY <2>1 DEF Views
  <2>3. v \in Views
    BY <2>2, LoadIn
  <2>4. Unblocked(v) \in SUBSET Tasks
    BY DEF Unblocked, InState, Relevant
  <2>5. PICK t \in Unblocked(v) : DiesFinishing(p, v, Unblocked(v), t, "result")
    BY <1>6 DEF DieInFailing
  <2> HIDE DEF v
  <2>6. QED
    BY <1>0, <1>1, <1>6, <2>3, <2>4, <2>5, DiesFinishingTyped DEF DieInFailing, OuterTyped
<1>7. CASE DieInSchedule(p)
  <2> DEFINE all == Load([View(p) EXCEPT !.needs = FALSE], Tasks)
  <2>1. View(p) \in Views
    BY <1>0, <1>7, ViewIn DEF DieInSchedule
  <2>2. [View(p) EXCEPT !.needs = FALSE] \in Views
    BY <2>1 DEF Views
  <2>3. all \in Views
    BY <2>2, LoadIn
  <2>4. Schedulable(all) \in SUBSET Tasks
    BY DEF Schedulable, InState, Relevant
  <2>5. PICK s \in Ordered(p, Schedulable(all)) : \E n \in 1 .. Len(s) :
          /\ DiesStarting(p, ScheduleAll(all, SubSeq(s, 1, n - 1)), s[n])
          /\ early' = early \cup Unstartable(all, ToSet(SubSeq(s, 1, n - 1)))
    BY <1>7 DEF DieInSchedule
  <2>6. PICK n \in 1 .. Len(s) :
          /\ DiesStarting(p, ScheduleAll(all, SubSeq(s, 1, n - 1)), s[n])
          /\ early' = early \cup Unstartable(all, ToSet(SubSeq(s, 1, n - 1)))
    BY <2>5
  <2> HIDE DEF all
  <2>7. s \in Seq(Tasks) /\ s[n] \in Tasks /\ SubSeq(s, 1, n - 1) \in Seq(Tasks)
    <3>1. s \in Seq(Schedulable(all))
      BY <2>4, <2>5, OrderedIn
    <3>2. s \in Seq(Tasks)
      BY <2>4, <3>1
    <3>3. QED
      BY <2>6, <3>2
  <2>8. ScheduleAll(all, SubSeq(s, 1, n - 1)) \in Views
    BY <2>3, <2>7, ScheduleAllIn
  <2>9. early' \in SUBSET Tasks
    <3>1. ToSet(SubSeq(s, 1, n - 1)) \in SUBSET Tasks
      BY <2>7 DEF ToSet
    <3>2. QED
      BY <1>0, <2>6, <3>1 DEF Unstartable, OuterTyped
  <2>10. QED
    BY <1>0, <1>1, <2>6, <2>7, <2>8, <2>9, DiesStartingTyped DEF OuterTyped
<1>8. QED
  BY <1>2, <1>3, <1>4, <1>5, <1>6, <1>7 DEF DieInBlock

LEMMA AroundTyped ==
    ASSUME TypeInv, NEW p \in Processes,
           \/ Start(p) \/ Attach(p) \/ Release(p) \/ Enqueue(p) \/ Detach(p)
           \/ FailAuthentication(p) \/ Crash(p)
           \/ \E s \in {"wait", "fail"} : Hold(p, s)
           \/ \E t \in Tasks : Cancel(p, t) \/ Evaluate(p, t)
    PROVE  TypeInv'
<1> USE DEF Operations, TaskOps, Responses
<1>0. ViewTyped /\ OuterTyped
  BY TypeParts
<1>1. CASE Start(p)
  <2>1. Post(p, Block("recover", 0, None)) /\ Block("recover", 0, None) \in TaskBlocks
    BY <1>1, BlockIn DEF Start
  <2>2. ViewTyped'
    BY <1>0, <1>1, <2>1, PostTyped DEF Start, ViewTyped, history
  <2>3. OuterTyped'
    BY <1>0, <1>1 DEF Start, OuterTyped, history
  <2>4. QED
    BY <2>2, <2>3 DEF TypeInv, TypeOK, ViewTyped, OuterTyped
<1>2. CASE Attach(p)
  <2>1. Post(p, Block("attach", 0, None)) /\ Block("attach", 0, None) \in TaskBlocks
    BY <1>2, BlockIn DEF Attach
  <2>2. ViewTyped'
    BY <1>0, <1>2, <2>1, PostTyped DEF Attach, ViewTyped, OnlyQueue
  <2>3. OuterTyped'
    BY <1>0, <1>2 DEF Attach, OuterTyped, OnlyQueue
  <2>4. QED
    BY <2>2, <2>3 DEF TypeInv, TypeOK, ViewTyped, OuterTyped
<1>3. CASE Release(p)
  <2>1. Block("schedule", 0, None) \in TaskBlocks
    BY BlockIn
  <2>2. ViewTyped'
    BY <1>0, <1>3, <2>1, PostTyped DEF Release, ViewTyped, history
  <2>3. OuterTyped'
    BY <1>0, <1>3 DEF Release, OuterTyped, history
  <2>4. QED
    BY <2>2, <2>3 DEF TypeInv, TypeOK, ViewTyped, OuterTyped
<1>4. CASE Enqueue(p)
  <2>1. /\ budget["tasks"] > 0 /\ budget' = [budget EXCEPT !["tasks"] = @ - 1] /\ limit' = limit
        /\ enqueued' = enqueued + 1
        /\ Post(p, Block("add", enqueued + 1, None))
        /\ OnlyQueue /\ early' = early
    BY <1>4 DEF Enqueue, Spend
  <2>2. enqueued + 1 \in Tasks /\ budget["tasks"] \in Nat /\ enqueued \in Nat
    BY <1>0, <2>1, PipelineAssumption DEF OuterTyped, Bounded, Tasks
  <2>3. Block("add", enqueued + 1, None) \in TaskBlocks
    BY <2>2, BlockIn
  <2>4. ViewTyped'
    BY <1>0, <2>1, <2>3, PostTyped DEF ViewTyped, OnlyQueue
  <2>5. enqueued' \in 0 .. NumTasks /\ budget' \in [Bounded -> Nat] /\ enqueued' + budget'["tasks"] <= NumTasks
    BY <1>0, <2>1, <2>2 DEF OuterTyped, Bounded, Tasks
  <2>6. OuterTyped'
    BY <1>0, <2>1, <2>5 DEF OuterTyped, OnlyQueue
  <2>7. QED
    BY <2>4, <2>6 DEF TypeInv, TypeOK, ViewTyped, OuterTyped
<1>5. ASSUME NEW f \in Bounded \ {"tasks"}, Spend(f)
      PROVE  /\ limit' \in Nat /\ budget' \in [Bounded -> Nat]
             /\ budget'["tasks"] = budget["tasks"]
  BY <1>0, <1>5 DEF Spend, OuterTyped, Bounded
<1>6. CASE Detach(p)
  <2>1. Block("cancelNonCritical", 0, None) \in TaskBlocks /\ Block("detach", 0, None) \in TaskBlocks
    BY BlockIn
  <2> DEFINE s == <<Block("cancelNonCritical", 0, None), Block("detach", 0, None)>>
  <2>2. s \in Seq(TaskBlocks)
    BY <2>1
  <2>3. queue' = [queue EXCEPT ![p] = @ \o s] /\ OnlyQueue /\ Spend("detaches")
        /\ UNCHANGED <<enqueued, early>>
    BY <1>6 DEF Detach
  <2> HIDE DEF s
  <2>4. queue[p] \o s \in Seq(TaskBlocks) /\ queue[p] \o s \in Seq(Blocks)
    BY <1>0, <2>2 DEF ViewTyped, TaskBlocks
  <2>5. ViewTyped'
    BY <1>0, <2>3, <2>4 DEF ViewTyped, OnlyQueue
  <2>6. OuterTyped'
    BY <1>0, <1>5, <2>3 DEF OuterTyped, OnlyQueue, Bounded
  <2>7. QED
    BY <2>5, <2>6 DEF TypeInv, TypeOK, ViewTyped, OuterTyped
<1>7. CASE FailAuthentication(p)
  <2>1. Post(p, Block("finishPending", 0, None)) /\ Block("finishPending", 0, None) \in TaskBlocks
    BY <1>7, BlockIn DEF FailAuthentication
  <2>2. OnlyQueue /\ Spend("early") /\ UNCHANGED <<enqueued, early>>
    BY <1>7 DEF FailAuthentication
  <2>3. ViewTyped'
    BY <1>0, <2>1, <2>2, PostTyped DEF ViewTyped, OnlyQueue
  <2>4. OuterTyped'
    BY <1>0, <1>5, <2>2 DEF OuterTyped, OnlyQueue, Bounded
  <2>5. QED
    BY <2>3, <2>4 DEF TypeInv, TypeOK, ViewTyped, OuterTyped
<1>8. CASE Crash(p)
  <2>1. Dies(p, rows, wire) /\ UNCHANGED <<delivered, torn, early, lost>>
    BY <1>8 DEF Crash
  <2>2. QED
    BY <1>0, <2>1, DiesTyped DEF ViewTyped, OuterTyped
<1>9. ASSUME NEW s \in {"wait", "fail"}, Hold(p, s)
      PROVE  TypeInv'
  <2>1. ViewTyped'
    BY <1>0, <1>9 DEF Hold, ViewTyped, memVars, history
  <2>2. OuterTyped'
    BY <1>0, <1>5, <1>9 DEF Hold, OuterTyped, memVars, history, Bounded
  <2>3. QED
    BY <2>1, <2>2 DEF TypeInv, TypeOK, ViewTyped, OuterTyped
<1>10. ASSUME NEW t \in Tasks, Cancel(p, t)
       PROVE  TypeInv'
  <2>1. Post(p, Block("cancel", t, None)) /\ Block("cancel", t, None) \in TaskBlocks
    BY <1>10, BlockIn DEF Cancel
  <2>2. OnlyQueue /\ Spend("early") /\ UNCHANGED <<enqueued, early>>
    BY <1>10 DEF Cancel
  <2>3. ViewTyped'
    BY <1>0, <2>1, <2>2, PostTyped DEF ViewTyped, OnlyQueue
  <2>4. OuterTyped'
    BY <1>0, <1>5, <2>2 DEF OuterTyped, OnlyQueue, Bounded
  <2>5. QED
    BY <2>3, <2>4 DEF TypeInv, TypeOK, ViewTyped, OuterTyped
<1>11. ASSUME NEW t \in Tasks, Evaluate(p, t)
       PROVE  TypeInv'
  <2>1. Post(p, Block("retry", t, "result")) /\ Block("retry", t, "result") \in TaskBlocks
    BY <1>11, BlockIn DEF Evaluate
  <2>2. OnlyQueue /\ UNCHANGED <<enqueued, early, limit, budget>>
    BY <1>11 DEF Evaluate
  <2>3. ViewTyped'
    BY <1>0, <2>1, <2>2, PostTyped DEF ViewTyped, OnlyQueue
  <2>4. OuterTyped'
    BY <1>0, <2>2 DEF OuterTyped, OnlyQueue
  <2>5. QED
    BY <2>3, <2>4 DEF TypeInv, TypeOK, ViewTyped, OuterTyped
<1>12. QED
  BY <1>1, <1>2, <1>3, <1>4, <1>6, <1>7, <1>8, <1>9, <1>10, <1>11

LEMMA SessionCompletesTyped ==
    ASSUME TypeInv, NEW w \in wire, NEW r \in {"result", "unverified", "offline"}, SessionCompletes(w, r)
    PROVE  TypeInv'
<1>0. ViewTyped /\ OuterTyped /\ w \in SessionTasks
  BY TypeParts DEF ViewTyped
<1> DEFINE b == [op |-> "complete", task |-> w.task, attempt |-> w.attempt, response |-> r]
<1>1. b \in TaskBlocks /\ w.process \in Processes
  BY <1>0 DEF SessionTasks, TaskBlocks, Blocks, TaskOps, Operations, Responses
<1>2. Post(w.process, b)
  BY DEF SessionCompletes
<1> HIDE DEF b
<1>3. ViewTyped'
  BY <1>0, <1>1, <1>2, PostTyped DEF SessionCompletes, ViewTyped, history
<1>4. limit' \in Nat /\ budget' \in [Bounded -> Nat] /\ budget'["tasks"] = budget["tasks"]
  BY <1>0 DEF SessionCompletes, Spend, OuterTyped, Bounded
<1>5. OuterTyped'
  BY <1>0, <1>4 DEF SessionCompletes, OuterTyped, history
<1>6. QED
  BY <1>3, <1>5 DEF TypeInv, TypeOK, ViewTyped, OuterTyped

\* The steps that are not blocks of the backend's thread.
Around(p) ==
    \/ Start(p) \/ Attach(p) \/ Release(p) \/ Enqueue(p) \/ Detach(p)
    \/ FailAuthentication(p) \/ Crash(p)
    \/ \E s \in {"wait", "fail"} : Hold(p, s)
    \/ \E t \in Tasks : Cancel(p, t) \/ Evaluate(p, t)

LEMMA Steps ==
    ASSUME Next
    PROVE  \/ \E p \in Processes : RunBlock(p) \/ DieInBlock(p) \/ Around(p)
           \/ \E w \in wire, r \in {"result", "unverified", "offline"} : SessionCompletes(w, r)
  BY DEF Next, Progress, Around

LEMMA TypeStep == TypeInv /\ [Next]_vars => TypeInv'
<1> SUFFICES ASSUME TypeInv, [Next]_vars PROVE TypeInv'
  OBVIOUS
<1>1. CASE UNCHANGED vars
  <2>1. ViewTyped' /\ OuterTyped'
    BY <1>1, TypeParts DEF ViewTyped, OuterTyped, vars, memVars, history
  <2>2. QED
    BY <2>1 DEF TypeInv, TypeOK, ViewTyped, OuterTyped
<1>2. CASE Next
  BY <1>2, Steps, RunBlockTyped, DieInBlockTyped, AroundTyped, SessionCompletesTyped DEF Around
<1>3. QED
  BY <1>1, <1>2

\* Whatever sessions, crashes, other processes and cancellations do, the
\* database, the caches and the blocks on the queues keep their types; in
\* particular no block is about a task that does not exist.
THEOREM TypeCorrect == Spec => []TypeOK
<1>1. TypeInv => TypeOK
  BY DEF TypeInv
<1>2. QED
  BY <1>1, TypeInit, TypeStep, PTL DEF Spec

-----------------------------------------------------------------------------
(* One process: what is under way for each task.                           *)

\* Where a queue has a block of this kind about a task.
At(q, op, t) == {i \in DOMAIN q : q[i].op = op /\ q[i].task = t}
Ends(q, t, a) == {i \in At(q, "complete", t) : q[i].attempt = a}
AtMostOne(S) == \A i, j \in S : i = j

\* The session's answer to the current attempt is still to come.
Sent(w, t, a) == [task |-> t, attempt |-> a, process |-> w.process, noted |-> TRUE] \in w.wire
Unsettled(w, t) ==
    Sent(w, t, w.rows[t].attempt) \/ Ends(w.queue, t, w.rows[t].attempt) # {}

\* Not added to the database yet, if n tasks were enqueued so far.
New(w, n, t) == t > n \/ At(w.queue, "add", t) # {}

\* The object and the row of a task agree as far as it matters.
Coherent(w, t) ==
    IsStored(w, t) /\ IsCached(w, t) =>
        w.objects[t].state = w.rows[t].state /\ w.objects[t].attempt = w.rows[t].attempt

\* Blocks and session tasks of earlier attempts may be left; of the current
\* attempt there is one at most, and its answer comes once.
Attempts(w, t) ==
    /\ \A s \in w.wire : s.task = t => s.attempt <= w.rows[t].attempt
    /\ \A i \in At(w.queue, "complete", t) : w.queue[i].attempt <= w.rows[t].attempt
    /\ Unsettled(w, t) => w.rows[t].state = "running"
    /\ Sent(w, t, w.rows[t].attempt) => Ends(w.queue, t, w.rows[t].attempt) = {}
    /\ AtMostOne(Ends(w.queue, t, w.rows[t].attempt))

Unborn(w, t) ==
    /\ ~IsStored(w, t) /\ w.delivered[t] = w.torn[t]
    /\ \A s \in w.wire : s.task # t
    /\ At(w.queue, "complete", t) = {} /\ At(w.queue, "finish", t) = {}

\* A task that nothing but its session finishes is delivered once at most, the
\* times apart its process died before the row was removed.
Sound(w, n, t) ==
    /\ New(w, n, t) => Unborn(w, t)
    /\ At(w.queue, "add", t) # {} => t <= n
    /\ AtMostOne(At(w.queue, "add", t))
    /\ w.delivered[t] # w.torn[t] => w.delivered[t] = w.torn[t] + 1 /\ ~IsStored(w, t)
    /\ \A s \in w.wire : s.task = t => s.noted
    /\ IsStored(w, t) => Attempts(w, t)
    /\ At(w.queue, "finish", t) # {} => w.rows[t].state = "running" /\ ~Unsettled(w, t)
    /\ AtMostOne(At(w.queue, "finish", t))
    /\ t \in w.busy => w.rows[t].state = "completed"
    /\ At(w.queue, "retry", t) # {} => t \in w.busy
    /\ AtMostOne(At(w.queue, "retry", t))
    /\ At(w.queue, "fail", t) = {}

NoRecover(q) == \A i \in DOMAIN q : q[i].op # "recover"

\* What holds of a view, tasks of E excepted.
ViewInv(w, n, E) ==
    /\ \A t \in Tasks : Coherent(w, t)
    /\ \A t \in Tasks \ E : Sound(w, n, t)
    /\ NoRecover(w.queue)

Concerns == {"add", "complete", "finish", "retry", "fail"}

\* r is q with blocks appended that do not concern t.
Longer(q, r, t) ==
    /\ DOMAIN q \subseteq DOMAIN r
    /\ \A i \in DOMAIN q : r[i] = q[i]
    /\ \A i \in DOMAIN r \ DOMAIN q : r[i].op \notin Concerns \/ r[i].task # t

\* v is w but for what does not concern t.
Apart(w, v, t) ==
    /\ v.rows[t] = w.rows[t] /\ v.delivered[t] = w.delivered[t] /\ v.torn[t] = w.torn[t]
    /\ t \in v.busy <=> t \in w.busy
    /\ v.process = w.process
    /\ \A s : s \in v.wire /\ s.task = t <=> s \in w.wire /\ s.task = t
    /\ Longer(w.queue, v.queue, t)

LEMMA LongerAt ==
    ASSUME NEW q, NEW r, NEW t, Longer(q, r, t), NEW op \in Concerns
    PROVE  /\ At(r, op, t) = At(q, op, t)
           /\ \A a : Ends(r, t, a) = Ends(q, t, a)
           /\ \A i \in At(q, op, t) : r[i] = q[i]
<1>1. ASSUME NEW o \in Concerns PROVE At(r, o, t) = At(q, o, t)
  BY DEF Longer, At
<1>2. At(r, "complete", t) = At(q, "complete", t)
  BY <1>1 DEF Concerns
<1>3. \A i \in At(q, "complete", t) : r[i] = q[i]
  BY DEF Longer, At
<1>4. \A a : Ends(r, t, a) = Ends(q, t, a)
  BY <1>2, <1>3 DEF Ends
<1>5. \A i \in At(q, op, t) : r[i] = q[i]
  BY DEF Longer, At
<1>6. QED
  BY <1>1, <1>4, <1>5

LEMMA ApartSound ==
    ASSUME NEW w, NEW v, NEW t, NEW n, Apart(w, v, t), Sound(w, n, t)
    PROVE  Sound(v, n, t)
<1>1. /\ At(v.queue, "add", t) = At(w.queue, "add", t)
      /\ At(v.queue, "finish", t) = At(w.queue, "finish", t)
      /\ At(v.queue, "retry", t) = At(w.queue, "retry", t)
      /\ At(v.queue, "fail", t) = At(w.queue, "fail", t)
      /\ At(v.queue, "complete", t) = At(w.queue, "complete", t)
      /\ \A i \in At(w.queue, "complete", t) : v.queue[i] = w.queue[i]
      /\ \A a : Ends(v.queue, t, a) = Ends(w.queue, t, a)
  BY LongerAt DEF Apart, Concerns
<1>2. /\ v.rows[t] = w.rows[t] /\ v.delivered[t] = w.delivered[t] /\ v.torn[t] = w.torn[t]
      /\ t \in v.busy <=> t \in w.busy
      /\ v.process = w.process
      /\ \A s : s \in v.wire /\ s.task = t <=> s \in w.wire /\ s.task = t
  BY DEF Apart
<1>3. \A a : Sent(v, t, a) <=> Sent(w, t, a)
  <2>1. ASSUME NEW a PROVE Sent(v, t, a) <=> Sent(w, t, a)
    <3> DEFINE s == [task |-> t, attempt |-> a, process |-> w.process, noted |-> TRUE]
    <3>1. s.task = t
      OBVIOUS
    <3> HIDE DEF s
    <3>2. s \in v.wire <=> s \in w.wire
      BY <1>2, <3>1
    <3>3. QED
      BY <1>2, <3>2 DEF Sent, s
  <2>2. QED
    BY <2>1
<1>4. (Unsettled(v, t) <=> Unsettled(w, t)) /\ (IsStored(v, t) <=> IsStored(w, t))
  BY <1>1, <1>2, <1>3 DEF Unsettled, IsStored
<1>5. New(v, n, t) <=> New(w, n, t)
  BY <1>1 DEF New
<1>6. Unborn(w, t) => Unborn(v, t)
  BY <1>1, <1>2, <1>4 DEF Unborn
<1>7. Attempts(w, t) => Attempts(v, t)
  BY <1>1, <1>2, <1>3, <1>4 DEF Attempts
<1>8. QED
  BY <1>1, <1>2, <1>4, <1>5, <1>6, <1>7 DEF Sound

LEMMA ApartTrans ==
    ASSUME NEW w, NEW v, NEW x, NEW t, Apart(w, v, t), Apart(v, x, t)
    PROVE  Apart(w, x, t)
<1>1. Longer(w.queue, x.queue, t)
  BY DEF Apart, Longer
<1>2. QED
  BY <1>1 DEF Apart

\* v is w but for what concerns t.
Local(w, v, t) ==
    /\ \A u \in Tasks \ {t} : Apart(w, v, u) /\ v.objects[u] = w.objects[u]
    /\ v.process = w.process
    /\ NoRecover(w.queue) => NoRecover(v.queue)

LEMMA LocalTrans ==
    ASSUME NEW w, NEW v, NEW x, NEW t, Local(w, v, t), Local(v, x, t)
    PROVE  Local(w, x, t)
  BY ApartTrans DEF Local

LEMMA LocalSame == ASSUME NEW w, NEW t PROVE Local(w, w, t)
  BY DEF Local, Apart, Longer

\* What an operation on one task keeps of the others.
LEMMA LocalInv ==
    ASSUME NEW w, NEW v, NEW t \in Tasks, NEW n, NEW E, Local(w, v, t), ViewInv(w, n, E),
           Coherent(v, t), t \notin E => Sound(v, n, t)
    PROVE  ViewInv(v, n, E)
<1>1. \A u \in Tasks : Coherent(v, u)
  BY DEF Local, Apart, ViewInv, Coherent, IsStored, IsCached
<1>2. \A u \in Tasks \ E : Sound(v, n, u)
  BY ApartSound DEF Local, ViewInv
<1>3. QED
  BY <1>1, <1>2 DEF ViewInv, Local

-----------------------------------------------------------------------------
(* What the operations on one task do.                                     *)

\* r is q with a block appended.
OneMore(q, r, b) ==
    /\ DOMAIN r = DOMAIN q \cup {Len(q) + 1} /\ Len(q) + 1 \notin DOMAIN q
    /\ \A i \in DOMAIN q : r[i] = q[i]
    /\ r[Len(q) + 1] = b

LEMMA AppendAt ==
    ASSUME NEW q \in Seq(TaskBlocks), NEW b \in TaskBlocks
    PROVE  Append(q, b) \in Seq(TaskBlocks) /\ OneMore(q, Append(q, b), b)
  BY DEF OneMore

LEMMA OneMoreAt ==
    ASSUME NEW q, NEW r, NEW b, OneMore(q, r, b), NEW op, NEW t
    PROVE  /\ At(r, op, t) =
                At(q, op, t) \cup (IF b.op = op /\ b.task = t THEN {Len(q) + 1} ELSE {})
           /\ \A a : Ends(r, t, a) =
                Ends(q, t, a) \cup
                    (IF b.op = "complete" /\ b.task = t /\ b.attempt = a THEN {Len(q) + 1} ELSE {})
           /\ \A i \in At(q, op, t) : r[i] = q[i]
<1>1. /\ DOMAIN r = DOMAIN q \cup {Len(q) + 1} /\ Len(q) + 1 \notin DOMAIN q
      /\ \A i \in DOMAIN q : r[i] = q[i]
      /\ r[Len(q) + 1] = b
  BY DEF OneMore
<1>2. At(r, op, t) = At(q, op, t) \cup (IF b.op = op /\ b.task = t THEN {Len(q) + 1} ELSE {})
  BY <1>1 DEF At
<1>3. At(r, "complete", t) =
        At(q, "complete", t) \cup (IF b.op = "complete" /\ b.task = t THEN {Len(q) + 1} ELSE {})
  BY <1>1 DEF At
<1>4. \A i \in At(q, op, t) : r[i] = q[i]
  BY <1>1 DEF At
<1>5. \A i \in At(q, "complete", t) : r[i] = q[i]
  BY <1>1 DEF At
<1>6. ASSUME NEW a
      PROVE  Ends(r, t, a) = Ends(q, t, a) \cup
                (IF b.op = "complete" /\ b.task = t /\ b.attempt = a THEN {Len(q) + 1} ELSE {})
  BY <1>1, <1>3, <1>5 DEF Ends
<1>7. QED
  BY <1>1, <1>2, <1>4, <1>6

LEMMA OneMoreElse ==
    ASSUME NEW q, NEW r, NEW b, OneMore(q, r, b), NEW op, NEW t
    PROVE  /\ b.op # op \/ b.task # t => At(r, op, t) = At(q, op, t)
           /\ b.op = op /\ b.task = t => At(r, op, t) = At(q, op, t) \cup {Len(q) + 1}
           /\ \A a : b.op # "complete" \/ b.task # t \/ b.attempt # a => Ends(r, t, a) = Ends(q, t, a)
           /\ \A i \in At(q, op, t) : r[i] = q[i]
<1>1. At(r, op, t) = At(q, op, t) \cup (IF b.op = op /\ b.task = t THEN {Len(q) + 1} ELSE {})
  BY OneMoreAt
<1>2. \A i \in At(q, op, t) : r[i] = q[i]
  BY OneMoreAt
<1>3. ASSUME NEW a
      PROVE  Ends(r, t, a) = Ends(q, t, a) \cup
                (IF b.op = "complete" /\ b.task = t /\ b.attempt = a THEN {Len(q) + 1} ELSE {})
  BY OneMoreAt
<1>4. QED
  BY <1>1, <1>2, <1>3

LEMMA QueuedLocal ==
    ASSUME NEW w \in Views, NEW b \in TaskBlocks, NEW t, b.op \notin Concerns \/ b.task = t, b.op # "recover"
    PROVE  Local(w, Queued(w, b), t)
<1> DEFINE r == Append(w.queue, b)
<1>1. /\ DOMAIN r = DOMAIN w.queue \cup {Len(w.queue) + 1}
      /\ \A i \in DOMAIN w.queue : r[i] = w.queue[i]
      /\ r[Len(w.queue) + 1] = b
  BY AppendAt DEF Views, OneMore
<1> DEFINE v == Queued(w, b)
<1>2. /\ v.rows = w.rows /\ v.wire = w.wire /\ v.objects = w.objects /\ v.queue = r
      /\ v.busy = w.busy /\ v.delivered = w.delivered /\ v.torn = w.torn /\ v.process = w.process
  BY DEF Queued, Views
<1> HIDE DEF v, r
<1>3. ASSUME NEW u \in Tasks \ {t} PROVE Longer(w.queue, v.queue, u)
  BY <1>1, <1>2 DEF Longer
<1>4. NoRecover(w.queue) => NoRecover(v.queue)
  BY <1>1, <1>2 DEF NoRecover
<1>5. Local(w, v, t)
  BY <1>2, <1>3, <1>4 DEF Local, Apart
<1>6. QED
  BY <1>5 DEF v

\* v is w but for what concerns no task.
Quiet(w, v) ==
    /\ \A u \in Tasks : Apart(w, v, u) /\ v.objects[u] = w.objects[u]
    /\ v.process = w.process
    /\ NoRecover(w.queue) => NoRecover(v.queue)

LEMMA QuietTrans ==
    ASSUME NEW w, NEW v, NEW x, Quiet(w, v), Quiet(v, x)
    PROVE  Quiet(w, x)
  BY ApartTrans DEF Quiet

LEMMA QuietLocal ==
    ASSUME NEW w, NEW v, NEW t, Quiet(w, v)
    PROVE  Local(w, v, t)
  BY DEF Quiet, Local

LEMMA QuietInv ==
    ASSUME NEW w, NEW v, NEW n, NEW E, Quiet(w, v), ViewInv(w, n, E)
    PROVE  ViewInv(v, n, E)
<1>1. \A u \in Tasks : Coherent(v, u)
  BY DEF Quiet, Apart, ViewInv, Coherent, IsStored, IsCached
<1>2. \A u \in Tasks \ E : Sound(v, n, u)
  BY ApartSound DEF Quiet, ViewInv
<1>3. QED
  BY <1>1, <1>2 DEF ViewInv, Quiet

LEMMA QueuedQuiet ==
    ASSUME NEW w \in Views, NEW b \in TaskBlocks, b.op \notin Concerns, b.op # "recover"
    PROVE  Quiet(w, Queued(w, b))
<1>1. \A t : Local(w, Queued(w, b), t)
  BY QueuedLocal
<1>2. Queued(w, b).objects = w.objects
  BY DEF Queued, Views
<1>3. ASSUME NEW u \in Tasks PROVE Apart(w, Queued(w, b), u)
  <2>1. PICK t : t # u
    <3>1. TRUE # u \/ FALSE # u
      OBVIOUS
    <3>2. QED
      BY <3>1
  <2>2. QED
    BY <1>1, <2>1 DEF Local
<1>4. QED
  BY <1>1, <1>2, <1>3 DEF Quiet, Local

LEMMA SetNeedsSchedulingQuiet ==
    ASSUME NEW w \in Views
    PROVE  Quiet(w, SetNeedsScheduling(w))
<1> DEFINE x == [w EXCEPT !.needs = TRUE]
           b == Block("schedule", 0, None)
<1>1. Quiet(w, w)
  BY DEF Quiet, Apart, Longer
<1>2. x \in Views /\ b \in TaskBlocks /\ b.op = "schedule"
  <2>1. x \in Views
    BY DEF Views
  <2>2. b \in TaskBlocks /\ b.op = "schedule"
    BY BlockIn DEF Operations, TaskOps
  <2>3. QED
    BY <2>1, <2>2
<1>3. Quiet(w, x)
  <2>1. /\ x.rows = w.rows /\ x.wire = w.wire /\ x.objects = w.objects /\ x.queue = w.queue
        /\ x.busy = w.busy /\ x.delivered = w.delivered /\ x.torn = w.torn /\ x.process = w.process
    BY DEF Views
  <2> HIDE DEF x
  <2>2. QED
    BY <2>1 DEF Quiet, Apart, Longer
<1> HIDE DEF x, b
<1>4. Quiet(x, Queued(x, b))
  BY <1>2, QueuedQuiet DEF Concerns
<1>5. Quiet(w, Queued(x, b))
  BY <1>3, <1>4, QuietTrans
<1>6. SetNeedsScheduling(w) = w \/ SetNeedsScheduling(w) = Queued(x, b)
  BY DEF SetNeedsScheduling, x, b
<1>7. QED
  BY <1>1, <1>5, <1>6

LEMMA StoredAt ==
    ASSUME NEW w \in Views, NEW t \in Tasks, NEW o \in TaskRecords, NEW v, v = Stored(w, t, o)
    PROVE  /\ \A u \in Tasks \ {t} : v.rows[u] = w.rows[u] /\ v.objects[u] = w.objects[u]
           /\ v.wire = w.wire /\ v.queue = w.queue /\ v.busy = w.busy /\ v.delivered = w.delivered /\ v.torn = w.torn
           /\ v.process = w.process /\ v.needs = w.needs /\ v.attached = w.attached
           /\ IsStored(w, t) => v.rows[t].state = o.state /\ v.rows[t].attempt = o.attempt
           /\ ~IsStored(w, t) => v.rows[t] = w.rows[t]
           /\ v.objects[t] = o \/ (v.objects[t] = w.objects[t] /\ ~IsCached(w, t))
<1> DEFINE r == [o EXCEPT !.live = FALSE]
<1>1. r.state = o.state /\ r.attempt = o.attempt
  BY DEF TaskRecords
<1> HIDE DEF r
<1>2. /\ v.rows = [w.rows EXCEPT ![t] = IF IsStored(w, t) THEN r ELSE @]
      /\ v.objects = [w.objects EXCEPT ![t] = IF o.bundle = w.process \/ IsCached(w, t) THEN o ELSE @]
      /\ v.wire = w.wire /\ v.queue = w.queue /\ v.busy = w.busy /\ v.delivered = w.delivered /\ v.torn = w.torn
      /\ v.process = w.process /\ v.needs = w.needs /\ v.attached = w.attached
  BY DEF Stored, Views, r
<1>3. w.rows \in [Tasks -> TaskRecords] /\ w.objects \in [Tasks -> TaskRecords]
  BY DEF Views
<1>4. QED
  BY <1>1, <1>2, <1>3

LEMMA StoredLocal ==
    ASSUME NEW w \in Views, NEW t \in Tasks, NEW o \in TaskRecords
    PROVE  Local(w, Stored(w, t, o), t)
<1> DEFINE v == Stored(w, t, o)
<1>1. /\ \A u \in Tasks \ {t} : v.rows[u] = w.rows[u] /\ v.objects[u] = w.objects[u]
      /\ v.wire = w.wire /\ v.queue = w.queue /\ v.busy = w.busy /\ v.delivered = w.delivered /\ v.torn = w.torn
      /\ v.process = w.process
  BY StoredAt
<1> HIDE DEF v
<1>2. Local(w, v, t)
  BY <1>1 DEF Local, Apart, Longer
<1>3. QED
  BY <1>2 DEF v

\* o tells what the row of t tells, if there is one.
Fits(w, t, o) == IsStored(w, t) => o.state = w.rows[t].state /\ o.attempt = w.rows[t].attempt

LEMMA LoadedFits ==
    ASSUME NEW w, NEW t, Coherent(w, t)
    PROVE  Fits(w, t, Loaded(w, t))
  BY DEF Fits, Coherent, Loaded

\* Nothing but t is touched, its object still fits its row, and it does not
\* begin to run.
Keeps(w, v, t) ==
    /\ Local(w, v, t)
    /\ Coherent(v, t)
    /\ v.rows[t].state = "running" => w.rows[t].state = "running"

LEMMA KeepsTrans ==
    ASSUME NEW w, NEW v, NEW x, NEW t, Keeps(w, v, t), Keeps(v, x, t)
    PROVE  Keeps(w, x, t)
  BY LocalTrans DEF Keeps

LEMMA KeepsQuiet ==
    ASSUME NEW w, NEW v, NEW x, NEW t \in Tasks, Keeps(w, v, t), Quiet(v, x)
    PROVE  Keeps(w, x, t)
<1>1. Local(w, x, t)
  BY QuietLocal, LocalTrans DEF Keeps
<1>2. x.rows[t] = v.rows[t] /\ x.objects[t] = v.objects[t]
  BY DEF Quiet, Apart
<1>3. QED
  BY <1>1, <1>2 DEF Keeps, Coherent, IsStored, IsCached

LEMMA StoredKeeps ==
    ASSUME NEW w \in Views, NEW t \in Tasks, NEW o \in TaskRecords,
           IsStored(w, t) /\ o.state = "running" => w.rows[t].state = "running"
    PROVE  Keeps(w, Stored(w, t, o), t)
<1> DEFINE v == Stored(w, t, o)
<1>1. Local(w, v, t)
  BY StoredLocal
<1>2. /\ IsStored(w, t) => v.rows[t].state = o.state /\ v.rows[t].attempt = o.attempt
      /\ ~IsStored(w, t) => v.rows[t] = w.rows[t]
      /\ v.objects[t] = o \/ (v.objects[t] = w.objects[t] /\ ~IsCached(w, t))
  BY StoredAt
<1> HIDE DEF v
<1>3. Coherent(v, t)
  BY <1>2 DEF Coherent, IsStored, IsCached
<1>4. v.rows[t].state = "running" => w.rows[t].state = "running"
  BY <1>2
<1>5. Keeps(w, v, t)
  BY <1>1, <1>3, <1>4 DEF Keeps
<1>6. QED
  BY <1>5 DEF v

\* Removed, after the result handler was called.
Delivered(w, t, o) == Removed([w EXCEPT !.delivered[t] = @ + 1], t, o)

LEMMA DeliveredAt ==
    ASSUME NEW w \in Views, NEW t \in Tasks, NEW o, NEW v, v = Delivered(w, t, o)
    PROVE  /\ \A u \in Tasks \ {t} : /\ v.rows[u] = w.rows[u] /\ v.objects[u] = w.objects[u]
                                     /\ v.delivered[u] = w.delivered[u] /\ v.torn[u] = w.torn[u]
           /\ v.wire = w.wire /\ v.queue = w.queue /\ v.busy = w.busy /\ v.process = w.process
           /\ v.rows[t].state = "absent" /\ v.delivered[t] = w.delivered[t] + 1 /\ v.torn[t] = w.torn[t]
<1> DEFINE x == [w EXCEPT !.delivered[t] = @ + 1]
           r == Fresh(IssuerOf[t])
<1>1. r.state = "absent"
  BY FreshIn, PipelineAssumption
<1>2. w.rows \in [Tasks -> TaskRecords] /\ w.objects \in [Tasks -> TaskRecords] /\ w.delivered \in [Tasks -> Nat]
  BY DEF Views
<1>3. /\ x.rows = w.rows /\ x.objects = w.objects /\ x.wire = w.wire /\ x.queue = w.queue
      /\ x.busy = w.busy /\ x.process = w.process
      /\ x.delivered = [w.delivered EXCEPT ![t] = @ + 1] /\ x.torn = w.torn
      /\ DOMAIN x = DOMAIN w
  BY DEF Views
<1>4. v = [x EXCEPT !.rows[t] = r, !.objects[t] = IF o.bundle = x.process THEN r ELSE @]
  BY DEF Delivered, Removed
<1> HIDE DEF r
<1>5. x \in Views
  <2>1. w.delivered[t] + 1 \in Nat
    BY <1>2
  <2>2. [w.delivered EXCEPT ![t] = @ + 1] \in [Tasks -> Nat]
    BY <1>2, <2>1
  <2>3. QED
    BY <2>2 DEF Views
<1> HIDE DEF x
<1>6. /\ v.rows = [x.rows EXCEPT ![t] = r]
      /\ v.objects = [x.objects EXCEPT ![t] = IF o.bundle = x.process THEN r ELSE @]
      /\ v.wire = x.wire /\ v.queue = x.queue /\ v.busy = x.busy /\ v.process = x.process
      /\ v.delivered = x.delivered /\ v.torn = x.torn
  BY <1>4, <1>5 DEF Views
<1>7. QED
  BY <1>1, <1>2, <1>3, <1>6

LEMMA DeliveredKeeps ==
    ASSUME NEW w \in Views, NEW t \in Tasks, NEW o
    PROVE  Keeps(w, Delivered(w, t, o), t)
<1> DEFINE v == Delivered(w, t, o)
<1>1. /\ \A u \in Tasks \ {t} : /\ v.rows[u] = w.rows[u] /\ v.objects[u] = w.objects[u]
                                     /\ v.delivered[u] = w.delivered[u] /\ v.torn[u] = w.torn[u]
      /\ v.wire = w.wire /\ v.queue = w.queue /\ v.busy = w.busy /\ v.process = w.process
      /\ v.rows[t].state = "absent"
  BY DeliveredAt
<1> HIDE DEF v
<1>2. Local(w, v, t)
  BY <1>1 DEF Local, Apart, Longer
<1>3. Keeps(w, v, t)
  BY <1>1, <1>2 DEF Keeps, Coherent, IsStored
<1>4. QED
  BY <1>3 DEF v

\* The result was delivered: the one time.
LEMMA DeliveredSound ==
    ASSUME NEW w \in Views, NEW t \in Tasks, NEW o, NEW n, Sound(w, n, t), w.rows[t].state = "completed",
           t \notin w.busy
    PROVE  Sound(Delivered(w, t, o), n, t)
<1> DEFINE v == Delivered(w, t, o)
<1>1. /\ v.wire = w.wire /\ v.queue = w.queue /\ v.busy = w.busy /\ v.process = w.process
      /\ v.rows[t].state = "absent" /\ v.delivered[t] = w.delivered[t] + 1 /\ v.torn[t] = w.torn[t]
  BY DeliveredAt
<1> HIDE DEF v
<1>2. IsStored(w, t) /\ ~IsStored(v, t)
  BY <1>1 DEF IsStored
<1>3. w.delivered[t] = w.torn[t] /\ ~New(w, n, t)
  BY <1>2 DEF Sound, Unborn
<1>4. ~New(v, n, t) /\ v.delivered[t] = v.torn[t] + 1
  BY <1>1, <1>3 DEF New
<1>5. At(v.queue, "finish", t) = {}
  BY <1>1 DEF Sound
<1>6. Sound(v, n, t)
  BY <1>1, <1>2, <1>4, <1>5 DEF Sound, AtMostOne
<1>7. QED
  BY <1>6 DEF v

\* The result handler was called, and no more.
LEMMA CalledAt ==
    ASSUME NEW w \in Views, NEW t \in Tasks, NEW v, v = Called(w, t)
    PROVE  /\ v.rows = w.rows /\ v.objects = w.objects /\ v.wire = w.wire /\ v.queue = w.queue
           /\ v.busy = w.busy /\ v.process = w.process
           /\ \A u \in Tasks \ {t} : v.delivered[u] = w.delivered[u] /\ v.torn[u] = w.torn[u]
           /\ v.delivered[t] = w.delivered[t] + 1 /\ v.torn[t] = w.torn[t] + 1
  BY DEF Called, Views

LEMMA CalledKeeps ==
    ASSUME NEW w \in Views, NEW t \in Tasks, Coherent(w, t)
    PROVE  Keeps(w, Called(w, t), t)
<1> DEFINE v == Called(w, t)
<1>1. /\ v.rows = w.rows /\ v.objects = w.objects /\ v.wire = w.wire /\ v.queue = w.queue
      /\ v.busy = w.busy /\ v.process = w.process
      /\ \A u \in Tasks \ {t} : v.delivered[u] = w.delivered[u] /\ v.torn[u] = w.torn[u]
  BY CalledAt
<1> HIDE DEF v
<1>2. Local(w, v, t)
  BY <1>1 DEF Local, Apart, Longer
<1>3. Keeps(w, v, t)
  BY <1>1, <1>2 DEF Keeps, Coherent, IsStored, IsCached
<1>4. QED
  BY <1>3 DEF v

LEMMA CalledSound ==
    ASSUME NEW w \in Views, NEW t \in Tasks, NEW n, Sound(w, n, t)
    PROVE  Sound(Called(w, t), n, t)
<1> DEFINE v == Called(w, t)
<1>1. /\ v.rows = w.rows /\ v.wire = w.wire /\ v.queue = w.queue
      /\ v.busy = w.busy /\ v.process = w.process
      /\ v.delivered[t] = w.delivered[t] + 1 /\ v.torn[t] = w.torn[t] + 1
  BY CalledAt
<1> HIDE DEF v
<1>2. w.delivered[t] \in Nat /\ w.torn[t] \in Nat
  BY DEF Views
<1>3. /\ v.delivered[t] = v.torn[t] <=> w.delivered[t] = w.torn[t]
      /\ v.delivered[t] = v.torn[t] + 1 <=> w.delivered[t] = w.torn[t] + 1
  BY <1>1, <1>2
<1>4. /\ New(v, n, t) <=> New(w, n, t)
      /\ IsStored(v, t) <=> IsStored(w, t)
      /\ Unborn(w, t) => Unborn(v, t)
      /\ Attempts(w, t) => Attempts(v, t)
      /\ Unsettled(v, t) <=> Unsettled(w, t)
  BY <1>1, <1>3 DEF New, IsStored, Attempts, Unsettled, Sent, Unborn
<1>5. Sound(v, n, t)
  BY <1>1, <1>3, <1>4 DEF Sound
<1>6. QED
  BY <1>5 DEF v

\* Reset, and to be scheduled again.
Again(o) == [o EXCEPT !.state = "pending", !.attempt = @ + 1, !.response = None, !.session = None]

LEMMA AgainIn ==
    ASSUME NEW o \in TaskRecords
    PROVE  Again(o) \in TaskRecords /\ Again(o).state = "pending" /\ Again(o).attempt = o.attempt + 1
<1>1. o.attempt + 1 \in Nat
  BY DEF TaskRecords
<1>2. QED
  BY <1>1 DEF TaskRecords, States, Again

LEMMA AgainSound ==
    ASSUME NEW w \in Views, NEW t \in Tasks, NEW o \in TaskRecords, NEW n, Sound(w, n, t),
           w.rows[t].state = "completed", Fits(w, t, o), t \notin w.busy
    PROVE  Sound(Stored(w, t, Again(o)), n, t)
<1> DEFINE v == Stored(w, t, Again(o))
<1>1. IsStored(w, t)
  BY DEF IsStored
<1>2. /\ v.wire = w.wire /\ v.queue = w.queue /\ v.busy = w.busy /\ v.delivered = w.delivered /\ v.torn = w.torn
      /\ v.process = w.process
      /\ v.rows[t].state = "pending" /\ v.rows[t].attempt = w.rows[t].attempt + 1
  BY <1>1, AgainIn, StoredAt DEF Fits
<1> HIDE DEF v
<1>3. w.rows[t].attempt \in Nat
  BY DEF Views, TaskRecords
<1>4. IsStored(v, t) /\ ~New(w, n, t) /\ ~New(v, n, t)
  BY <1>1, <1>2 DEF Sound, Unborn, New, IsStored
<1>5. /\ \A s \in w.wire : s.task = t => s.attempt <= w.rows[t].attempt
      /\ \A i \in At(w.queue, "complete", t) : w.queue[i].attempt <= w.rows[t].attempt
  BY <1>1 DEF Sound, Attempts
<1>6. \A s \in w.wire : s.attempt \in Nat
  BY DEF Views, SessionTasks
<1>7. \A i \in At(w.queue, "complete", t) : w.queue[i].attempt \in Nat
  BY DEF Views, TaskBlocks, Blocks, At
<1>8. ~Sent(v, t, v.rows[t].attempt)
  <2>1. \A s \in v.wire : s.task = t => s.attempt # v.rows[t].attempt
    BY <1>2, <1>3, <1>5, <1>6
  <2>2. QED
    BY <2>1 DEF Sent
<1>9. Ends(v.queue, t, v.rows[t].attempt) = {}
  BY <1>2, <1>3, <1>5, <1>7 DEF Ends
<1>10. Attempts(v, t)
  <2>1. \A s \in v.wire : s.task = t => s.attempt <= v.rows[t].attempt
    BY <1>2, <1>3, <1>5, <1>6
  <2>2. \A i \in At(v.queue, "complete", t) : v.queue[i].attempt <= v.rows[t].attempt
    BY <1>2, <1>3, <1>5, <1>7
  <2>3. QED
    BY <1>8, <1>9, <2>1, <2>2 DEF Attempts, Unsettled, AtMostOne
<1>11. At(v.queue, "finish", t) = {} /\ At(v.queue, "retry", t) = {} /\ t \notin v.busy
  BY <1>2 DEF Sound
<1>12. v.delivered[t] = v.torn[t] /\ \A s \in v.wire : s.task = t => s.noted
  BY <1>1, <1>2 DEF Sound
<1>13. /\ At(v.queue, "add", t) # {} => t <= n
       /\ AtMostOne(At(v.queue, "add", t))
       /\ At(v.queue, "fail", t) = {}
  BY <1>2 DEF Sound
<1>14. AtMostOne({})
  BY DEF AtMostOne
<1>15. Sound(v, n, t)
  BY <1>4, <1>10, <1>11, <1>12, <1>13, <1>14 DEF Sound
<1>16. QED
  BY <1>15 DEF v

LEMMA DeliverCases ==
    ASSUME NEW w, NEW t, NEW o
    PROVE  \/ Deliver(w, t, o) = w
           \/ Deliver(w, t, o) = Stored(w, t, [o EXCEPT !.bundle = AnyBundle])
           \/ Deliver(w, t, o) = [w EXCEPT !.busy = @ \cup {t}]
           \/ t \notin w.busy /\ Deliver(w, t, o) = SetNeedsScheduling(Stored(w, t, Again(o)))
           \/ t \notin w.busy /\ Deliver(w, t, o) = Delivered(w, t, o)
  BY DEF Deliver, Again, Delivered

LEMMA ReleasedIn ==
    ASSUME NEW o \in TaskRecords
    PROVE  /\ [o EXCEPT !.bundle = AnyBundle] \in TaskRecords
           /\ [o EXCEPT !.bundle = AnyBundle].state = o.state
           /\ [o EXCEPT !.bundle = AnyBundle].attempt = o.attempt
  BY DEF TaskRecords

LEMMA DeliverKeeps ==
    ASSUME NEW w \in Views, NEW t \in Tasks, NEW o \in TaskRecords, Coherent(w, t),
           IsStored(w, t) /\ o.state = "running" => w.rows[t].state = "running"
    PROVE  Keeps(w, Deliver(w, t, o), t)
<1>1. Keeps(w, w, t)
  BY LocalSame DEF Keeps
<1>2. Keeps(w, Stored(w, t, [o EXCEPT !.bundle = AnyBundle]), t)
  BY ReleasedIn, StoredKeeps
<1>3. Keeps(w, [w EXCEPT !.busy = @ \cup {t}], t)
  <2> DEFINE v == [w EXCEPT !.busy = @ \cup {t}]
  <2>1. /\ v.rows = w.rows /\ v.wire = w.wire /\ v.objects = w.objects /\ v.queue = w.queue
        /\ v.busy = w.busy \cup {t} /\ v.delivered = w.delivered /\ v.torn = w.torn /\ v.process = w.process
    BY DEF Views
  <2> HIDE DEF v
  <2>2. Keeps(w, v, t)
    BY <2>1 DEF Keeps, Local, Apart, Longer, Coherent, IsStored, IsCached
  <2>3. QED
    BY <2>2 DEF v
<1>4. Keeps(w, SetNeedsScheduling(Stored(w, t, Again(o))), t)
  <2>1. Keeps(w, Stored(w, t, Again(o)), t)
    BY AgainIn, StoredKeeps
  <2>2. Quiet(Stored(w, t, Again(o)), SetNeedsScheduling(Stored(w, t, Again(o))))
    BY AgainIn, StoredIn, SetNeedsSchedulingQuiet
  <2>3. QED
    BY <2>1, <2>2, KeepsQuiet
<1>5. Keeps(w, Delivered(w, t, o), t)
  BY DeliveredKeeps
<1>6. QED
  BY <1>1, <1>2, <1>3, <1>4, <1>5, DeliverCases

LEMMA StoredSound ==
    ASSUME NEW w \in Views, NEW t \in Tasks, NEW o \in TaskRecords, NEW n, Sound(w, n, t),
           IsStored(w, t), Fits(w, t, o)
    PROVE  Sound(Stored(w, t, o), n, t)
<1> DEFINE v == Stored(w, t, o)
<1>1. /\ v.wire = w.wire /\ v.queue = w.queue /\ v.busy = w.busy /\ v.delivered = w.delivered /\ v.torn = w.torn
      /\ v.process = w.process
      /\ v.rows[t].state = w.rows[t].state /\ v.rows[t].attempt = w.rows[t].attempt
  BY StoredAt DEF Fits
<1> HIDE DEF v
<1>2. /\ New(v, n, t) <=> New(w, n, t)
      /\ IsStored(v, t)
      /\ \A a : Sent(v, t, a) <=> Sent(w, t, a)
  BY <1>1 DEF New, IsStored, Sent
<1>3. ~New(v, n, t)
  BY <1>2 DEF Sound, Unborn
<1>4. (Unsettled(v, t) <=> Unsettled(w, t)) /\ (Attempts(w, t) => Attempts(v, t))
  BY <1>1, <1>2 DEF Attempts, Unsettled
<1>5. Sound(v, n, t)
  BY <1>1, <1>2, <1>3, <1>4 DEF Sound
<1>6. QED
  BY <1>5 DEF v

LEMMA DeliverSound ==
    ASSUME NEW w \in Views, NEW t \in Tasks, NEW o \in TaskRecords, NEW n, Sound(w, n, t),
           w.rows[t].state = "completed", Fits(w, t, o)
    PROVE  Sound(Deliver(w, t, o), n, t)
<1>0. IsStored(w, t)
  BY DEF IsStored
<1>1. Sound(Stored(w, t, [o EXCEPT !.bundle = AnyBundle]), n, t)
  BY <1>0, ReleasedIn, StoredSound DEF Fits
<1>2. Sound([w EXCEPT !.busy = @ \cup {t}], n, t)
  <2> DEFINE v == [w EXCEPT !.busy = @ \cup {t}]
  <2>1. /\ v.rows = w.rows /\ v.wire = w.wire /\ v.queue = w.queue
        /\ v.busy = w.busy \cup {t} /\ v.delivered = w.delivered /\ v.torn = w.torn /\ v.process = w.process
    BY DEF Views
  <2> HIDE DEF v
  <2>2. /\ New(v, n, t) <=> New(w, n, t)
        /\ IsStored(v, t) <=> IsStored(w, t)
        /\ Unborn(w, t) => Unborn(v, t)
        /\ Attempts(w, t) => Attempts(v, t)
        /\ Unsettled(v, t) <=> Unsettled(w, t)
    BY <2>1 DEF New, IsStored, Attempts, Unsettled, Sent, Unborn
  <2>3. Sound(v, n, t)
    BY <2>1, <2>2 DEF Sound
  <2>4. QED
    BY <2>3 DEF v
<1>3. ASSUME t \notin w.busy PROVE Sound(SetNeedsScheduling(Stored(w, t, Again(o))), n, t)
  <2>1. Sound(Stored(w, t, Again(o)), n, t)
    BY <1>3, AgainSound
  <2>2. Quiet(Stored(w, t, Again(o)), SetNeedsScheduling(Stored(w, t, Again(o))))
    BY AgainIn, StoredIn, SetNeedsSchedulingQuiet
  <2>3. QED
    BY <2>1, <2>2, ApartSound DEF Quiet
<1>4. ASSUME t \notin w.busy PROVE Sound(Delivered(w, t, o), n, t)
  BY <1>4, DeliveredSound
<1>5. QED
  BY <1>1, <1>2, <1>3, <1>4, DeliverCases

\* The row runs, or is to, and nothing that will end it is under way.
Free(w, t) ==
    w.rows[t].state \in {"running", "pending"} /\ ~Unsettled(w, t) /\ At(w.queue, "finish", t) = {}

LEMMA FinishedKeeps ==
    ASSUME NEW w \in Views, NEW t \in Tasks, NEW r \in Responses \cup {None}, Coherent(w, t)
    PROVE  Keeps(w, Finished(w, t, r), t)
<1> DEFINE o == Completed(w, t, r)
           x == Stored(w, t, o)
<1>1. o \in TaskRecords /\ o.state = "completed"
  BY CompletedIn
<1>2. Finished(w, t, r) = Deliver(x, t, o)
  BY DEF Finished
<1> HIDE DEF o
<1>3. Keeps(w, x, t) /\ x \in Views
  BY <1>1, StoredKeeps, StoredIn
<1> HIDE DEF x
<1>4. Keeps(x, Deliver(x, t, o), t)
  BY <1>1, <1>3, DeliverKeeps DEF Keeps
<1>5. QED
  BY <1>2, <1>3, <1>4, KeepsTrans

\* The response is stored.
LEMMA CompletedSound ==
    ASSUME NEW w \in Views, NEW t \in Tasks, NEW r \in Responses \cup {None}, NEW n,
           Coherent(w, t), Sound(w, n, t), Free(w, t)
    PROVE  /\ Sound(Stored(w, t, Completed(w, t, r)), n, t)
           /\ Stored(w, t, Completed(w, t, r)).rows[t].state = "completed"
           /\ Fits(Stored(w, t, Completed(w, t, r)), t, Completed(w, t, r))
<1> DEFINE o == Completed(w, t, r)
           x == Stored(w, t, o)
<1>0. IsStored(w, t)
  BY DEF Free, IsStored
<1>1. o \in TaskRecords /\ o.state = "completed" /\ o.attempt = w.rows[t].attempt
  BY <1>0, CompletedIn DEF Coherent, Loaded
<1> HIDE DEF o
<1>2. /\ x.wire = w.wire /\ x.queue = w.queue /\ x.busy = w.busy /\ x.delivered = w.delivered
      /\ x.torn = w.torn /\ x.process = w.process
      /\ x.rows[t].state = "completed" /\ x.rows[t].attempt = w.rows[t].attempt
  BY <1>0, <1>1, StoredAt
<1> HIDE DEF x
<1>3. (New(x, n, t) <=> New(w, n, t)) /\ IsStored(x, t)
  BY <1>2 DEF New, IsStored
<1>4. ~New(x, n, t)
  BY <1>0, <1>3 DEF Sound, Unborn
<1>5. \A a : Sent(x, t, a) <=> Sent(w, t, a)
  BY <1>2 DEF Sent
<1>6. Attempts(x, t)
  BY <1>0, <1>2, <1>5 DEF Attempts, Unsettled, Sound, Free
<1>7. Sound(x, n, t)
  BY <1>0, <1>2, <1>3, <1>4, <1>6 DEF Sound, Free
<1>8. QED
  BY <1>1, <1>2, <1>7 DEF Fits, x, o

LEMMA FinishedSound ==
    ASSUME NEW w \in Views, NEW t \in Tasks, NEW r \in Responses \cup {None}, NEW n,
           Coherent(w, t), Sound(w, n, t), Free(w, t)
    PROVE  Sound(Finished(w, t, r), n, t)
<1> DEFINE o == Completed(w, t, r)
           x == Stored(w, t, o)
<1>1. o \in TaskRecords
  BY CompletedIn
<1>2. Finished(w, t, r) = Deliver(x, t, o)
  BY DEF Finished
<1>3. Sound(x, n, t) /\ x.rows[t].state = "completed" /\ Fits(x, t, o)
  BY CompletedSound
<1> HIDE DEF o
<1>4. x \in Views
  BY <1>1, StoredIn
<1> HIDE DEF x
<1>5. QED
  BY <1>1, <1>2, <1>3, <1>4, DeliverSound

LEMMA QueuedKeeps ==
    ASSUME NEW w \in Views, NEW t \in Tasks, NEW b \in TaskBlocks, b.task = t, b.op # "recover",
           Coherent(w, t)
    PROVE  Keeps(w, Queued(w, b), t)
<1>1. Local(w, Queued(w, b), t)
  BY QueuedLocal
<1>2. Queued(w, b).rows = w.rows /\ Queued(w, b).objects = w.objects
  BY DEF Queued, Views
<1>3. QED
  BY <1>1, <1>2 DEF Keeps, Coherent, IsStored, IsCached

LEMMA QueuedSound ==
    ASSUME NEW w \in Views, NEW t \in Tasks, NEW b \in TaskBlocks, b.op = "finish", b.task = t, NEW n,
           Sound(w, n, t), Free(w, t), w.rows[t].state = "running"
    PROVE  Sound(Queued(w, b), n, t)
<1> DEFINE v == Queued(w, b)
           q == w.queue
<1>1. /\ v.rows = w.rows /\ v.wire = w.wire /\ v.queue = Append(q, b)
      /\ v.busy = w.busy /\ v.delivered = w.delivered /\ v.torn = w.torn /\ v.process = w.process
  BY DEF Queued, Views
<1> HIDE DEF v
<1>2. OneMore(q, v.queue, b)
  BY <1>1, AppendAt DEF Views
<1> HIDE DEF q
<1>3. /\ At(v.queue, "add", t) = At(q, "add", t)
      /\ At(v.queue, "complete", t) = At(q, "complete", t)
      /\ At(v.queue, "retry", t) = At(q, "retry", t)
      /\ At(v.queue, "fail", t) = At(q, "fail", t)
      /\ At(v.queue, "finish", t) = {Len(q) + 1}
      /\ \A i \in At(q, "complete", t) : v.queue[i] = q[i]
      /\ \A a : Ends(v.queue, t, a) = Ends(q, t, a)
  <2>1. At(q, "finish", t) = {}
    BY DEF Free, q
  <2>2. /\ At(v.queue, "add", t) = At(q, "add", t)
        /\ At(v.queue, "complete", t) = At(q, "complete", t)
        /\ At(v.queue, "retry", t) = At(q, "retry", t)
        /\ At(v.queue, "fail", t) = At(q, "fail", t)
    BY <1>2, OneMoreElse
  <2>3. At(v.queue, "finish", t) = At(q, "finish", t) \cup {Len(q) + 1}
    BY <1>2, OneMoreElse
  <2>4. \A i \in At(q, "complete", t) : v.queue[i] = q[i]
    BY <1>2, OneMoreElse
  <2>5. ASSUME NEW a PROVE Ends(v.queue, t, a) = Ends(q, t, a)
    BY <1>2, OneMoreElse
  <2>6. QED
    BY <2>1, <2>2, <2>3, <2>4, <2>5
<1>4. /\ New(v, n, t) <=> New(w, n, t)
      /\ IsStored(v, t) /\ IsStored(w, t)
      /\ \A a : Sent(v, t, a) <=> Sent(w, t, a)
  BY <1>1, <1>3 DEF New, IsStored, Sent, Free, q
<1>5. ~New(v, n, t)
  BY <1>4 DEF Sound, Unborn
<1>6. Unsettled(v, t) <=> Unsettled(w, t)
  BY <1>1, <1>3, <1>4 DEF Unsettled, q
<1>7. Attempts(v, t)
  <2>1. Attempts(w, t)
    BY <1>4 DEF Sound
  <2>2. QED
    BY <1>1, <1>3, <1>4, <1>6, <2>1 DEF Attempts, q
<1>8. AtMostOne({Len(q) + 1})
  BY DEF AtMostOne
<1>9. Sound(v, n, t)
  BY <1>1, <1>3, <1>4, <1>5, <1>6, <1>7, <1>8 DEF Sound, Free, q
<1>10. QED
  BY <1>9 DEF v

LEMMA CancelTaskKeeps ==
    ASSUME NEW w \in Views, NEW t \in Tasks, Coherent(w, t)
    PROVE  Keeps(w, CancelTask(w, t), t)
<1> DEFINE o == Loaded(w, t)
           marked == [o EXCEPT !.cancelled = TRUE]
           finish == Block("finish", t, "result")
           x == [w EXCEPT !.objects[t] = marked]
<1>0. Keeps(w, w, t)
  BY LocalSame DEF Keeps
<1>1. o \in TaskRecords
  BY LoadedIn
<1>2. marked \in TaskRecords /\ marked.state = o.state /\ marked.attempt = o.attempt
  <2> HIDE DEF o
  <2>1. QED
    BY <1>1 DEF TaskRecords
<1>3. finish \in TaskBlocks /\ finish.op = "finish" /\ finish.task = t
  BY FinishBlockIn DEF Block
<1>4. /\ IsStored(w, t) => marked.state = w.rows[t].state /\ marked.attempt = w.rows[t].attempt
      /\ IsCached(w, t) => marked.state = w.objects[t].state
  BY <1>2, LoadedFits DEF Fits, Loaded
<1>5. \/ CancelTask(w, t) = w
      \/ CancelTask(w, t) = Queued(w, finish)
      \/ /\ o.state = "running"
         /\ o.live
         /\ CancelTask(w, t) = Stored(w, t, marked)
      \/ IsCached(w, t) /\ CancelTask(w, t) = Queued(x, finish)
  BY DEF CancelTask
<1> HIDE DEF marked, finish
<1>6. Keeps(w, Queued(w, finish), t)
  BY <1>3, QueuedKeeps
<1>7. IsCached(w, t) => Keeps(w, Queued(x, finish), t)
  <2>1. SUFFICES ASSUME IsCached(w, t) PROVE Keeps(w, Queued(x, finish), t)
    OBVIOUS
  <2>2. x \in Views
    BY <1>2 DEF Views
  <2>3. /\ x.rows = w.rows /\ x.wire = w.wire /\ x.queue = w.queue
        /\ x.objects[t] = marked /\ \A u \in Tasks \ {t} : x.objects[u] = w.objects[u]
        /\ x.busy = w.busy /\ x.delivered = w.delivered /\ x.torn = w.torn /\ x.process = w.process
    BY DEF Views
  <2> HIDE DEF x
  <2>4. Local(w, x, t)
    BY <2>3 DEF Local, Apart, Longer
  <2>5. Coherent(x, t)
    BY <1>4, <2>3 DEF Coherent, IsStored
  <2>6. Keeps(w, x, t)
    BY <2>3, <2>4, <2>5 DEF Keeps
  <2>7. Keeps(x, Queued(x, finish), t)
    BY <1>3, <2>2, <2>5, QueuedKeeps
  <2>8. QED
    BY <2>6, <2>7, KeepsTrans
<1>8. Keeps(w, Stored(w, t, marked), t)
  <2>1. CASE IsStored(w, t)
    BY <1>2, <1>4, <2>1, StoredKeeps
  <2>2. CASE ~IsStored(w, t)
    <3>1. Local(w, Stored(w, t, marked), t)
      BY <1>2, StoredLocal
    <3>2. Stored(w, t, marked).rows[t] = w.rows[t]
      BY <1>2, <2>2, StoredAt
    <3>3. QED
      BY <2>2, <3>1, <3>2 DEF Keeps, Coherent, IsStored
  <2>3. QED
    BY <2>1, <2>2
<1>9. QED
  BY <1>0, <1>5, <1>6, <1>7, <1>8

LEMMA ScheduleTaskLocal ==
    ASSUME NEW w \in Views, NEW t \in Tasks, Coherent(w, t)
    PROVE  /\ Local(w, ScheduleTask(w, t), t)
           /\ Coherent(ScheduleTask(w, t), t)
<1> DEFINE o == Loaded(w, t)
           s == [task |-> t, attempt |-> o.attempt, process |-> w.process, noted |-> TRUE]
           r == [o EXCEPT !.state = "running", !.session = SessionOf(w.process), !.live = TRUE]
           b == Block("fail", t, "result")
           x == [w EXCEPT !.wire = @ \cup {s}]
<1>1. b \in TaskBlocks /\ b.task = t /\ b.op = "fail"
  BY BlockIn DEF Operations, Responses
<1>2. s \in SessionTasks /\ s.task = t /\ r \in TaskRecords
  <2>1. o \in TaskRecords
    BY LoadedIn
  <2> HIDE DEF o
  <2>2. QED
    BY <2>1 DEF TaskRecords, States, SessionOf, Views, SessionTasks
<1>3. ScheduleTask(w, t) = Queued(w, b) \/ ScheduleTask(w, t) = Stored(x, t, r)
  BY DEF ScheduleTask
<1> HIDE DEF b, r
<1>4. Keeps(w, Queued(w, b), t)
  BY <1>1, QueuedKeeps
<1>5. Local(w, Stored(x, t, r), t) /\ Coherent(Stored(x, t, r), t)
  <2>1. x.rows = w.rows /\ x.objects = w.objects /\ x.queue = w.queue /\ x.busy = w.busy
        /\ x.delivered = w.delivered /\ x.torn = w.torn /\ x.process = w.process /\ x.wire = w.wire \cup {s}
    BY DEF Views
  <2>2. x \in Views
    BY <1>2 DEF Views
  <2> HIDE DEF x, s
  <2>3. Local(w, x, t)
    BY <1>2, <2>1 DEF Local, Apart, Longer
  <2>4. Local(x, Stored(x, t, r), t)
    BY <1>2, <2>2, StoredLocal
  <2>5. Coherent(Stored(x, t, r), t)
    <3> DEFINE v == Stored(x, t, r)
    <3>1. /\ IsStored(x, t) => v.rows[t].state = r.state /\ v.rows[t].attempt = r.attempt
          /\ ~IsStored(x, t) => v.rows[t] = x.rows[t]
          /\ v.objects[t] = r \/ (v.objects[t] = x.objects[t] /\ ~IsCached(x, t))
      BY <1>2, <2>2, StoredAt
    <3> HIDE DEF v
    <3>2. Coherent(v, t)
      BY <3>1 DEF Coherent, IsStored, IsCached
    <3>3. QED
      BY <3>2 DEF v
  <2>6. QED
    BY <2>3, <2>4, <2>5, LocalTrans
<1>6. QED
  BY <1>3, <1>4, <1>5 DEF Keeps

LEMMA ScheduleTaskSound ==
    ASSUME NEW w \in Views, NEW t \in Tasks, NEW n, Coherent(w, t), Sound(w, n, t),
           w.rows[t].state = "pending", ~Loaded(w, t).cancelled, t \notin Broken
    PROVE  Sound(ScheduleTask(w, t), n, t)
<1> DEFINE o == Loaded(w, t)
           s == [task |-> t, attempt |-> o.attempt, process |-> w.process, noted |-> TRUE]
           r == [o EXCEPT !.state = "running", !.session = SessionOf(w.process), !.live = TRUE]
           x == [w EXCEPT !.wire = @ \cup {s}]
           v == Stored(x, t, r)
<1>1. IsStored(w, t)
  BY DEF IsStored
<1>2. o.attempt = w.rows[t].attempt
  BY <1>1, LoadedFits DEF Fits
<1>3. /\ s \in SessionTasks /\ s.task = t /\ s.attempt = o.attempt
      /\ r \in TaskRecords /\ r.state = "running" /\ r.attempt = o.attempt
  <2>1. o \in TaskRecords
    BY LoadedIn
  <2> HIDE DEF o
  <2>2. QED
    BY <2>1 DEF TaskRecords, States, SessionOf, Views, SessionTasks
<1>4. ScheduleTask(w, t) = v
  BY DEF ScheduleTask
<1>5. x.rows = w.rows /\ x.objects = w.objects /\ x.queue = w.queue /\ x.busy = w.busy
      /\ x.delivered = w.delivered /\ x.torn = w.torn /\ x.process = w.process /\ x.wire = w.wire \cup {s}
  BY DEF Views
<1>6. x \in Views
  BY <1>3 DEF Views
<1> HIDE DEF o, r, x
<1>7. /\ v.wire = w.wire \cup {s} /\ v.queue = w.queue /\ v.busy = w.busy /\ v.delivered = w.delivered /\ v.torn = w.torn
      /\ v.process = w.process
      /\ v.rows[t].state = "running" /\ v.rows[t].attempt = w.rows[t].attempt
  BY <1>1, <1>2, <1>3, <1>5, <1>6, StoredAt DEF IsStored
<1> HIDE DEF v
<1>8. IsStored(v, t) /\ ~New(w, n, t) /\ ~New(v, n, t)
  BY <1>1, <1>7 DEF Sound, Unborn, New, IsStored
<1>9. w.rows[t].attempt \in Nat
  BY DEF Views, TaskRecords
<1>10. ~Unsettled(w, t)
  BY <1>1 DEF Sound, Attempts
<1>11. Attempts(v, t)
  <2>1. Attempts(w, t)
    BY <1>1 DEF Sound
  <2>2. Ends(v.queue, t, v.rows[t].attempt) = {}
    BY <1>7, <1>10 DEF Unsettled
  <2>3. \A u \in v.wire : u.task = t => u.attempt <= v.rows[t].attempt
    BY <1>2, <1>3, <1>7, <1>9, <2>1 DEF Attempts
  <2>4. \A i \in At(v.queue, "complete", t) : v.queue[i].attempt <= v.rows[t].attempt
    BY <1>7, <2>1 DEF Attempts
  <2>5. QED
    BY <1>7, <2>2, <2>3, <2>4 DEF Attempts, AtMostOne
<1>12. At(v.queue, "finish", t) = {} /\ t \notin v.busy /\ At(v.queue, "retry", t) = {}
  BY <1>7 DEF Sound
<1>13. v.delivered[t] = v.torn[t] /\ \A u \in v.wire : u.task = t => u.noted
  <2>1. v.delivered[t] = v.torn[t]
    BY <1>1, <1>7 DEF Sound
  <2>2. \A u \in w.wire : u.task = t => u.noted
    BY DEF Sound
  <2>3. s.noted = TRUE
    OBVIOUS
  <2> HIDE DEF s
  <2>4. QED
    BY <1>7, <2>1, <2>2, <2>3
<1>14. /\ At(v.queue, "add", t) # {} => t <= n
       /\ AtMostOne(At(v.queue, "add", t))
       /\ At(v.queue, "fail", t) = {}
       /\ AtMostOne({})
  BY <1>7 DEF Sound, AtMostOne
<1>15. Sound(v, n, t)
  BY <1>8, <1>11, <1>12, <1>13, <1>14 DEF Sound
<1>16. QED
  BY <1>4, <1>15

\* Only caches differ, which stay in line with the rows.
Recached(w, x) ==
    /\ \A u \in Tasks : Apart(w, x, u) /\ (Coherent(w, u) => Coherent(x, u))
    /\ x.process = w.process
    /\ x.queue = w.queue

LEMMA RecachedInv ==
    ASSUME NEW w, NEW x, NEW n, NEW E, Recached(w, x), ViewInv(w, n, E)
    PROVE  ViewInv(x, n, E)
<1>1. \A u \in Tasks \ E : Sound(x, n, u)
  BY ApartSound DEF Recached, ViewInv
<1>2. QED
  BY <1>1 DEF Recached, ViewInv

LEMMA LoadAt ==
    ASSUME NEW w \in Views, NEW S, NEW x, x = Load(w, S)
    PROVE  /\ Recached(w, x)
           /\ x.rows = w.rows /\ x.wire = w.wire /\ x.delivered = w.delivered /\ x.torn = w.torn /\ x.attached = w.attached
           /\ \A u \in Tasks : Loaded(x, u) = Loaded(w, u)
<1>1. /\ x.rows = w.rows /\ x.wire = w.wire /\ x.queue = w.queue /\ x.busy = w.busy
      /\ x.delivered = w.delivered /\ x.torn = w.torn /\ x.process = w.process /\ x.attached = w.attached
      /\ x.objects = [u \in Tasks |->
            IF u \in S /\ IsStored(w, u) /\ w.rows[u].bundle = w.process
            THEN Loaded(w, u) ELSE w.objects[u]]
  BY DEF Load, Views
<1>2. \A u \in Tasks : \/ x.objects[u] = w.objects[u]
                       \/ IsStored(w, u) /\ x.objects[u] = Loaded(w, u)
  BY <1>1
<1>3. \A u \in Tasks : Apart(w, x, u)
  BY <1>1 DEF Apart, Longer
<1>4. \A u \in Tasks : Coherent(w, u) => Coherent(x, u)
  BY <1>1, <1>2 DEF Coherent, IsStored, IsCached, Loaded
<1>5. \A u \in Tasks : Loaded(x, u) = Loaded(w, u)
  BY <1>1, <1>2 DEF IsStored, IsCached, Loaded
<1>6. QED
  BY <1>1, <1>3, <1>4, <1>5 DEF Recached

LEMMA ReattachedAt ==
    ASSUME NEW w \in Views, NEW p, NEW x, x = Reattached(p, w)
    PROVE  /\ Recached(w, x)
           /\ x.rows = w.rows /\ x.wire = w.wire /\ x.delivered = w.delivered /\ x.torn = w.torn /\ x.attached = w.attached
           /\ \A u \in Tasks : Loaded(x, u).state = Loaded(w, u).state
<1>1. \A u \in Tasks : w.objects[u] \in TaskRecords
  BY DEF Views
<1>2. /\ x.rows = w.rows /\ x.wire = w.wire /\ x.queue = w.queue /\ x.busy = w.busy
      /\ x.delivered = w.delivered /\ x.torn = w.torn /\ x.process = w.process /\ x.attached = w.attached
      /\ \A u \in Tasks : \/ x.objects[u] = w.objects[u]
                          \/ x.objects[u] = [w.objects[u] EXCEPT !.live = TRUE]
  BY DEF Reattached, Views
<1>3. \A u \in Tasks : /\ x.objects[u].state = w.objects[u].state
                       /\ x.objects[u].attempt = w.objects[u].attempt
  BY <1>1, <1>2 DEF TaskRecords
<1>4. \A u \in Tasks : Apart(w, x, u)
  BY <1>2 DEF Apart, Longer
<1>5. \A u \in Tasks : Coherent(w, u) => Coherent(x, u)
  BY <1>2, <1>3 DEF Coherent, IsStored, IsCached
<1>6. \A u \in Tasks : Loaded(x, u).state = Loaded(w, u).state
  BY <1>2, <1>3 DEF IsCached, Loaded
<1>7. QED
  BY <1>2, <1>4, <1>5, <1>6 DEF Recached

-----------------------------------------------------------------------------
(* The operations on several tasks.                                        *)

LEMMA FreeApart ==
    ASSUME NEW w, NEW v, NEW t, Apart(w, v, t), Free(w, t)
    PROVE  Free(v, t)
<1>1. /\ At(v.queue, "finish", t) = At(w.queue, "finish", t)
      /\ \A a : Ends(v.queue, t, a) = Ends(w.queue, t, a)
  BY LongerAt DEF Apart, Concerns
<1>2. /\ v.rows[t] = w.rows[t] /\ v.process = w.process
      /\ \A s : s \in v.wire /\ s.task = t <=> s \in w.wire /\ s.task = t
  BY DEF Apart
<1> DEFINE s == [task |-> t, attempt |-> w.rows[t].attempt, process |-> w.process, noted |-> TRUE]
<1>3. s.task = t
  OBVIOUS
<1>4. Sent(v, t, v.rows[t].attempt) <=> s \in v.wire
  BY <1>2 DEF Sent
<1>5. Sent(w, t, w.rows[t].attempt) <=> s \in w.wire
  BY DEF Sent
<1> HIDE DEF s
<1>6. Sent(v, t, v.rows[t].attempt) <=> Sent(w, t, w.rows[t].attempt)
  BY <1>2, <1>3, <1>4, <1>5
<1>7. QED
  BY <1>1, <1>2, <1>6 DEF Free, Unsettled

\* x is w but for what concerns the tasks of S.
Within(w, x, S) == \A u \in Tasks \ S : Apart(w, x, u) /\ x.objects[u] = w.objects[u]

\* What is left alone of w when the tasks of S up to k have been treated.
Later(w, x, S, k) == Within(w, x, {u \in S : u <= k})

\* Step by step, f does to w what an operation on each task of S does, which
\* keeps what does not concern its task.
StepByStep(w, S, n, E, f) ==
    /\ f[0] = w
    /\ \A t \in 1 .. NumTasks : f[t - 1] \in Views => f[t] \in Views
    /\ \A t \in 1 .. NumTasks : t \notin S => f[t] = f[t - 1]
    /\ \A t \in 1 .. NumTasks :
          f[t - 1] \in Views /\ Coherent(f[t - 1], t) /\ Apart(w, f[t - 1], t) /\ t \in S =>
            /\ Keeps(f[t - 1], f[t], t)
            /\ t \notin E /\ Sound(f[t - 1], n, t) => Sound(f[t], n, t)

LEMMA EachKeeps ==
    ASSUME NEW w \in Views, NEW S, NEW n, NEW E, NEW f, ViewInv(w, n, E), StepByStep(w, S, n, E, f)
    PROVE  /\ f[NumTasks] \in Views
           /\ f[NumTasks].process = w.process
           /\ ViewInv(f[NumTasks], n, E)
           /\ Within(w, f[NumTasks], S)
           /\ \A u \in Tasks : f[NumTasks].rows[u].state = "running" => w.rows[u].state = "running"
<1> DEFINE Good(k) == /\ f[k] \in Views /\ f[k].process = w.process /\ ViewInv(f[k], n, E) /\ Later(w, f[k], S, k)
                      /\ \A u \in Tasks : f[k].rows[u].state = "running" => w.rows[u].state = "running"
           G == {k \in 0 .. NumTasks : Good(k)}
<1>0. NumTasks \in Nat /\ Tasks = 1 .. NumTasks /\ f[0] = w
  BY PipelineAssumption DEF Tasks, StepByStep
<1>1. 0 \in G
  <2>1. Later(w, w, S, 0)
    BY DEF Later, Within, Apart, Longer
  <2>2. Good(0)
    BY <1>0, <2>1
  <2>3. QED
    BY <1>0, <2>2
<1>2. ASSUME NEW t \in 1 .. NumTasks, t - 1 \in G PROVE t \in G
  <2>1. Good(t - 1)
    BY <1>2
  <2> DEFINE x == f[t - 1]
             y == f[t]
  <2>2. x \in Views /\ x.process = w.process /\ ViewInv(x, n, E) /\ Later(w, x, S, t - 1) /\ t \in Tasks
        /\ \A u \in Tasks : x.rows[u].state = "running" => w.rows[u].state = "running"
    BY <1>0, <2>1
  <2>3. y \in Views
    BY <2>2 DEF StepByStep
  <2>4. Later(w, x, S, t)
    BY <2>2 DEF Later, Within, Tasks
  <2>5. Apart(w, x, t) /\ Coherent(x, t)
    BY <2>2 DEF Later, Within, ViewInv, Tasks
  <2>6. t \notin S => Good(t)
    <3>1. ASSUME t \notin S PROVE y = x
      BY <3>1 DEF StepByStep
    <3> HIDE DEF x
    <3>2. QED
      BY <2>2, <2>4, <3>1
  <2>7. t \in S => Keeps(x, y, t)
    BY <2>2, <2>5 DEF StepByStep
  <2>8. t \in S \ E => Sound(y, n, t)
    <3>1. t \notin E => Sound(x, n, t)
      BY <2>2 DEF ViewInv
    <3>2. QED
      BY <2>2, <2>5, <3>1 DEF StepByStep
  <2> HIDE DEF x, y
  <2>9. ASSUME t \in S PROVE ViewInv(y, n, E)
    BY <2>2, <2>7, <2>8, <2>9, LocalInv DEF Keeps
  <2>10. ASSUME t \in S PROVE Later(w, y, S, t)
    <3>1. Local(x, y, t)
      BY <2>7, <2>10 DEF Keeps
    <3>2. ASSUME NEW u \in Tasks \ {v \in S : v <= t} PROVE Apart(w, y, u) /\ y.objects[u] = w.objects[u]
      <4>1. u # t
        BY <2>2, <2>10, <3>2 DEF Tasks
      <4>2. Apart(x, y, u) /\ y.objects[u] = x.objects[u]
        BY <3>1, <4>1 DEF Local
      <4>3. Apart(w, x, u) /\ x.objects[u] = w.objects[u]
        BY <2>4, <3>2 DEF Later, Within
      <4>4. QED
        BY <4>2, <4>3, ApartTrans
    <3>3. QED
      BY <3>2 DEF Later, Within
  <2>11. ASSUME t \in S, NEW u \in Tasks, y.rows[u].state = "running" PROVE w.rows[u].state = "running"
    BY <2>2, <2>7, <2>11 DEF Keeps, Local, Apart
  <2>12. t \in S => Good(t)
    <3>1. ASSUME t \in S PROVE y.process = w.process
      BY <2>2, <2>7, <3>1 DEF Keeps, Local
    <3>2. QED
      BY <2>3, <2>9, <2>10, <2>11, <3>1 DEF y
  <2>13. QED
    BY <1>0, <2>6, <2>12
<1> HIDE DEF G
<1>3. 0 .. NumTasks \subseteq G
  BY <1>0, <1>1, <1>2, UpTo
<1>4. Good(NumTasks)
  BY <1>0, <1>3 DEF G
<1>5. Within(w, f[NumTasks], S)
  BY <1>0, <1>4 DEF Later, Within
<1>6. QED
  BY <1>4, <1>5

LEMMA FinishAllKeeps ==
    ASSUME NEW w \in Views, NEW S, NEW r \in Responses \cup {None}, NEW n, NEW E, ViewInv(w, n, E),
           \A t \in Tasks : t \in S \ E => Free(w, t)
    PROVE  /\ FinishAll(w, S, r).process = w.process
           /\ ViewInv(FinishAll(w, S, r), n, E)
           /\ Within(w, FinishAll(w, S, r), S)
           /\ \A u \in Tasks : FinishAll(w, S, r).rows[u].state = "running" => w.rows[u].state = "running"
<1>1. \A x \in Views, t \in Tasks : Finished(x, t, r) \in Views
  BY FinishedIn
<1>2. PICK f : /\ f[0] = w
               /\ \A t \in 1 .. NumTasks :
                     f[t] = IF t \in S THEN Finished(f[t - 1], t, r) ELSE f[t - 1]
               /\ FinishAll(w, S, r) = f[NumTasks]
  BY <1>1, FinishAllChain
<1>3. \A t \in 1 .. NumTasks : f[t - 1] \in Views => f[t] \in Views
  BY <1>1, <1>2 DEF Tasks
<1>4. \A t \in 1 .. NumTasks : t \notin S => f[t] = f[t - 1]
  BY <1>2
<1>5. ASSUME NEW t \in 1 .. NumTasks, f[t - 1] \in Views, Coherent(f[t - 1], t), Apart(w, f[t - 1], t), t \in S
      PROVE  Keeps(f[t - 1], f[t], t)
  BY <1>2, <1>5, FinishedKeeps DEF Tasks
<1>6. ASSUME NEW t \in 1 .. NumTasks, f[t - 1] \in Views, Coherent(f[t - 1], t), Apart(w, f[t - 1], t),
             Sound(f[t - 1], n, t), t \in S \ E
      PROVE  Sound(f[t], n, t)
  <2>1. t \in Tasks /\ f[t] = Finished(f[t - 1], t, r)
    BY <1>2, <1>6 DEF Tasks
  <2>2. Free(f[t - 1], t)
    BY <1>6, <2>1, FreeApart
  <2>3. QED
    BY <1>6, <2>1, <2>2, FinishedSound
<1>7. StepByStep(w, S, n, E, f)
  BY <1>2, <1>3, <1>4, <1>5, <1>6 DEF StepByStep
<1>8. QED
  BY <1>2, <1>7, EachKeeps

LEMMA DeliverAllKeeps ==
    ASSUME NEW w \in Views, NEW S, NEW n, NEW E, ViewInv(w, n, E),
           \A t \in Tasks : t \in S => w.rows[t].state = "completed"
    PROVE  /\ DeliverAll(w, S).process = w.process
           /\ ViewInv(DeliverAll(w, S), n, E)
           /\ Within(w, DeliverAll(w, S), S)
           /\ \A u \in Tasks : DeliverAll(w, S).rows[u].state = "running" => w.rows[u].state = "running"
<1>1. \A x \in Views, t \in Tasks : Deliver(x, t, Loaded(x, t)) \in Views
  BY DeliverIn, LoadedIn
<1>2. PICK f : /\ f[0] = w
               /\ \A t \in 1 .. NumTasks :
                     f[t] = IF t \in S THEN Deliver(f[t - 1], t, Loaded(f[t - 1], t)) ELSE f[t - 1]
               /\ DeliverAll(w, S) = f[NumTasks]
  BY <1>1, DeliverAllChain
<1>3. \A t \in 1 .. NumTasks : f[t - 1] \in Views => f[t] \in Views
  BY <1>1, <1>2 DEF Tasks
<1>4. \A t \in 1 .. NumTasks : t \notin S => f[t] = f[t - 1]
  BY <1>2
<1>5. ASSUME NEW t \in 1 .. NumTasks, f[t - 1] \in Views, Coherent(f[t - 1], t), Apart(w, f[t - 1], t), t \in S
      PROVE  Keeps(f[t - 1], f[t], t)
  <2>1. t \in Tasks /\ f[t] = Deliver(f[t - 1], t, Loaded(f[t - 1], t))
    BY <1>2, <1>5 DEF Tasks
  <2>2. Loaded(f[t - 1], t) \in TaskRecords
    BY <1>5, <2>1, LoadedIn
  <2>3. Loaded(f[t - 1], t).state = "running" => f[t - 1].rows[t].state = "running"
    BY <1>5, <2>1 DEF Apart, Coherent, Loaded, IsStored
  <2>4. QED
    BY <1>5, <2>1, <2>2, <2>3, DeliverKeeps
<1>6. ASSUME NEW t \in 1 .. NumTasks, f[t - 1] \in Views, Coherent(f[t - 1], t), Apart(w, f[t - 1], t),
             Sound(f[t - 1], n, t), t \in S \ E
      PROVE  Sound(f[t], n, t)
  <2>1. t \in Tasks /\ f[t] = Deliver(f[t - 1], t, Loaded(f[t - 1], t))
    BY <1>2, <1>6 DEF Tasks
  <2>2. f[t - 1].rows[t].state = "completed"
    BY <1>6, <2>1 DEF Apart
  <2>3. Loaded(f[t - 1], t) \in TaskRecords /\ Fits(f[t - 1], t, Loaded(f[t - 1], t))
    BY <1>6, <2>1, LoadedIn, LoadedFits
  <2>4. QED
    BY <1>6, <2>1, <2>2, <2>3, DeliverSound
<1>7. StepByStep(w, S, n, E, f)
  BY <1>2, <1>3, <1>4, <1>5, <1>6 DEF StepByStep
<1>8. QED
  BY <1>2, <1>7, EachKeeps

LEMMA CancelAllKeeps ==
    ASSUME NEW w \in Views, NEW S, NEW n, NEW E, ViewInv(w, n, E), S \subseteq E
    PROVE  /\ CancelAll(w, S).process = w.process
           /\ ViewInv(CancelAll(w, S), n, E)
           /\ \A u \in Tasks : CancelAll(w, S).rows[u].state = "running" => w.rows[u].state = "running"
<1>1. \A x \in Views, t \in Tasks : CancelTask(x, t) \in Views
  BY CancelTaskIn
<1>2. PICK f : /\ f[0] = w
               /\ \A t \in 1 .. NumTasks : f[t] = IF t \in S THEN CancelTask(f[t - 1], t) ELSE f[t - 1]
               /\ CancelAll(w, S) = f[NumTasks]
  BY <1>1, CancelAllChain
<1>3. \A t \in 1 .. NumTasks : f[t - 1] \in Views => f[t] \in Views
  BY <1>1, <1>2 DEF Tasks
<1>4. \A t \in 1 .. NumTasks : t \notin S => f[t] = f[t - 1]
  BY <1>2
<1>5. ASSUME NEW t \in 1 .. NumTasks, f[t - 1] \in Views, Coherent(f[t - 1], t), Apart(w, f[t - 1], t), t \in S
      PROVE  Keeps(f[t - 1], f[t], t)
  BY <1>2, <1>5, CancelTaskKeeps DEF Tasks
<1>6. \A t \in 1 .. NumTasks : t \notin S \ E
  OBVIOUS
<1>7. StepByStep(w, S, n, E, f)
  BY <1>2, <1>3, <1>4, <1>5, <1>6 DEF StepByStep
<1>8. QED
  BY <1>2, <1>7, EachKeeps

LEMMA QueueFinishAllKeeps ==
    ASSUME NEW w \in Views, NEW S, NEW n, NEW E, ViewInv(w, n, E), S \subseteq E
    PROVE  /\ QueueFinishAll(w, S).process = w.process
           /\ ViewInv(QueueFinishAll(w, S), n, E)
           /\ \A u \in Tasks : QueueFinishAll(w, S).rows[u].state = "running" => w.rows[u].state = "running"
<1>1. \A x \in Views, t \in Tasks : Queued(x, Block("finish", t, "result")) \in Views
  BY QueuedIn, FinishBlockIn
<1>2. PICK f : /\ f[0] = w
               /\ \A t \in 1 .. NumTasks :
                     f[t] = IF t \in S THEN Queued(f[t - 1], Block("finish", t, "result")) ELSE f[t - 1]
               /\ QueueFinishAll(w, S) = f[NumTasks]
  BY <1>1, QueueFinishAllChain
<1>3. \A t \in 1 .. NumTasks : f[t - 1] \in Views => f[t] \in Views
  BY <1>1, <1>2 DEF Tasks
<1>4. \A t \in 1 .. NumTasks : t \notin S => f[t] = f[t - 1]
  BY <1>2
<1>5. ASSUME NEW t \in 1 .. NumTasks, f[t - 1] \in Views, Coherent(f[t - 1], t), Apart(w, f[t - 1], t), t \in S
      PROVE  Keeps(f[t - 1], f[t], t)
  <2> DEFINE b == Block("finish", t, "result")
  <2>1. b \in TaskBlocks /\ b.task = t /\ b.op # "recover"
    BY FinishBlockIn DEF Block, Tasks
  <2>2. t \in Tasks /\ f[t] = Queued(f[t - 1], b)
    BY <1>2, <1>5 DEF Tasks
  <2> HIDE DEF b
  <2>3. QED
    BY <1>5, <2>1, <2>2, QueuedKeeps
<1>6. \A t \in 1 .. NumTasks : t \notin S \ E
  OBVIOUS
<1>7. StepByStep(w, S, n, E, f)
  BY <1>2, <1>3, <1>4, <1>5, <1>6 DEF StepByStep
<1>8. QED
  BY <1>2, <1>7, EachKeeps

Distinct(s) == \A i, j \in 1 .. Len(s) : s[i] = s[j] => i = j

LEMMA ScheduleAllKeeps ==
    ASSUME NEW w \in Views, NEW s \in Seq(Tasks), NEW n, NEW E, ViewInv(w, n, E),
           Distinct(s),
           \A i \in 1 .. Len(s) : s[i] \notin E =>
                w.rows[s[i]].state = "pending" /\ ~Loaded(w, s[i]).cancelled /\ s[i] \notin Broken
    PROVE  /\ ScheduleAll(w, s).process = w.process
           /\ ViewInv(ScheduleAll(w, s), n, E)
           /\ Within(w, ScheduleAll(w, s), ToSet(s))
           /\ \A u \in Tasks : ScheduleAll(w, s).rows[u].state = "running" =>
                w.rows[u].state = "running" \/ \E i \in 1 .. Len(s) : s[i] = u
<1>0. Len(s) \in Nat /\ \A i \in 1 .. Len(s) : s[i] \in Tasks
  OBVIOUS
<1>1. \A x \in Views, t \in Tasks : ScheduleTask(x, t) \in Views
  BY ScheduleTaskIn
<1>2. PICK f : /\ f[0] = w
               /\ \A k \in 1 .. Len(s) : f[k] = ScheduleTask(f[k - 1], s[k])
               /\ ScheduleAll(w, s) = f[Len(s)]
  BY <1>1, ScheduleAllChain
<1> DEFINE Good(k) ==
             /\ f[k] \in Views /\ f[k].process = w.process /\ ViewInv(f[k], n, E)
             /\ \A u \in Tasks : (\A i \in 1 .. Len(s) : s[i] = u => i > k) =>
                    Apart(w, f[k], u) /\ f[k].objects[u] = w.objects[u]
             /\ \A u \in Tasks : f[k].rows[u].state = "running" =>
                    w.rows[u].state = "running" \/ \E i \in 1 .. Len(s) : s[i] = u
           G == {k \in 0 .. Len(s) : Good(k)}
<1>3. 0 \in G
  <2>1. \A u : Apart(w, w, u)
    BY DEF Apart, Longer
  <2>2. Good(0)
    BY <1>2, <2>1
  <2>3. QED
    BY <1>0, <2>2
<1>4. ASSUME NEW k \in 1 .. Len(s), k - 1 \in G PROVE k \in G
  <2>1. Good(k - 1)
    BY <1>4
  <2> DEFINE x == f[k - 1]
             y == f[k]
             t == s[k]
  <2>2. /\ x \in Views /\ x.process = w.process /\ ViewInv(x, n, E) /\ t \in Tasks
        /\ \A u \in Tasks : (\A i \in 1 .. Len(s) : s[i] = u => i > k - 1) =>
              Apart(w, x, u) /\ x.objects[u] = w.objects[u]
        /\ \A u \in Tasks : x.rows[u].state = "running" =>
              w.rows[u].state = "running" \/ \E i \in 1 .. Len(s) : s[i] = u
    BY <1>0, <2>1
  <2>3. y = ScheduleTask(x, t)
    BY <1>2
  <2>4. Apart(w, x, t) /\ x.objects[t] = w.objects[t]
    BY <1>0, <2>2 DEF Distinct
  <2>5. t \notin E => w.rows[t].state = "pending" /\ ~Loaded(w, t).cancelled /\ t \notin Broken
    BY <1>4
  <2>6. \A u \in Tasks : (\A i \in 1 .. Len(s) : s[i] = u => i > k) =>
           u # t /\ \A i \in 1 .. Len(s) : s[i] = u => i > k - 1
    BY <1>0
  <2>7. \E i \in 1 .. Len(s) : s[i] = t
    BY <1>4
  <2> HIDE DEF x, y, t
  <2>8. Coherent(x, t) /\ (t \notin E => Sound(x, n, t))
    BY <2>2 DEF ViewInv
  <2>9. Local(x, y, t) /\ Coherent(y, t) /\ y \in Views
    BY <1>1, <2>2, <2>3, <2>8, ScheduleTaskLocal
  <2>10. ASSUME t \notin E PROVE Sound(y, n, t)
    <3>1. x.rows[t] = w.rows[t] /\ Loaded(x, t) = Loaded(w, t)
      BY <2>4 DEF Apart, Loaded, IsCached
    <3>2. QED
      BY <2>2, <2>3, <2>5, <2>8, <2>10, <3>1, ScheduleTaskSound
  <2>11. ViewInv(y, n, E)
    BY <2>2, <2>9, <2>10, LocalInv
  <2>12. ASSUME NEW u \in Tasks, \A i \in 1 .. Len(s) : s[i] = u => i > k
         PROVE  Apart(w, y, u) /\ y.objects[u] = w.objects[u]
    <3>1. u # t /\ \A i \in 1 .. Len(s) : s[i] = u => i > k - 1
      BY <2>6, <2>12
    <3>2. Apart(x, y, u) /\ y.objects[u] = x.objects[u]
      BY <2>9, <3>1 DEF Local
    <3>3. Apart(w, x, u) /\ x.objects[u] = w.objects[u]
      BY <2>2, <3>1
    <3>4. QED
      BY <3>2, <3>3, ApartTrans
  <2>13. ASSUME NEW u \in Tasks, y.rows[u].state = "running"
         PROVE  w.rows[u].state = "running" \/ \E i \in 1 .. Len(s) : s[i] = u
    <3>1. CASE u = t
      BY <2>7, <3>1
    <3>2. CASE u # t
      <4>1. y.rows[u] = x.rows[u]
        BY <2>9, <3>2 DEF Local, Apart
      <4>2. QED
        BY <2>2, <2>13, <4>1
    <3>3. QED
      BY <3>1, <3>2
  <2>14. Good(k)
    <3>1. y.process = w.process
      BY <2>2, <2>9 DEF Local
    <3>2. QED
      BY <2>9, <2>11, <2>12, <2>13, <3>1 DEF y
  <2>15. QED
    BY <1>0, <2>14
<1> HIDE DEF G
<1>5. 0 .. Len(s) \subseteq G
  BY <1>0, <1>3, <1>4, UpTo
<1>6. Good(Len(s))
  BY <1>0, <1>5 DEF G
<1>7. Within(w, f[Len(s)], ToSet(s))
  BY <1>0, <1>6 DEF Within, ToSet
<1>8. QED
  BY <1>2, <1>6, <1>7

-----------------------------------------------------------------------------
(* Blocks that leave a queue.                                              *)

\* r has no block about t that q does not have.
Fewer(q, r, t) ==
    /\ \A op \in Concerns : /\ At(r, op, t) # {} => At(q, op, t) # {}
                            /\ AtMostOne(At(q, op, t)) => AtMostOne(At(r, op, t))
    /\ \A a : /\ Ends(r, t, a) # {} => Ends(q, t, a) # {}
              /\ AtMostOne(Ends(q, t, a)) => AtMostOne(Ends(r, t, a))
    /\ \A i \in At(r, "complete", t) : \E j \in At(q, "complete", t) : q[j].attempt = r[i].attempt

LEMMA FewerSound ==
    ASSUME NEW w, NEW v, NEW t, NEW n, Sound(w, n, t), Fewer(w.queue, v.queue, t),
           v.rows[t] = w.rows[t], v.delivered[t] = w.delivered[t], v.torn[t] = w.torn[t],
           v.process = w.process,
           v.wire \subseteq w.wire, t \in v.busy => t \in w.busy,
           At(v.queue, "retry", t) # {} => t \in v.busy
    PROVE  Sound(v, n, t)
<1>1. /\ At(v.queue, "add", t) # {} => At(w.queue, "add", t) # {}
      /\ At(v.queue, "complete", t) # {} => At(w.queue, "complete", t) # {}
      /\ At(v.queue, "finish", t) # {} => At(w.queue, "finish", t) # {}
      /\ At(v.queue, "fail", t) # {} => At(w.queue, "fail", t) # {}
      /\ AtMostOne(At(w.queue, "add", t)) => AtMostOne(At(v.queue, "add", t))
      /\ AtMostOne(At(w.queue, "finish", t)) => AtMostOne(At(v.queue, "finish", t))
      /\ AtMostOne(At(w.queue, "retry", t)) => AtMostOne(At(v.queue, "retry", t))
  BY DEF Fewer, Concerns
<1>2. \A a : /\ Ends(v.queue, t, a) # {} => Ends(w.queue, t, a) # {}
             /\ AtMostOne(Ends(w.queue, t, a)) => AtMostOne(Ends(v.queue, t, a))
  BY DEF Fewer
<1>3. \A a : Sent(v, t, a) => Sent(w, t, a)
  BY DEF Sent
<1>4. /\ New(v, n, t) => New(w, n, t)
      /\ IsStored(v, t) <=> IsStored(w, t)
      /\ Unsettled(v, t) => Unsettled(w, t)
  BY <1>1, <1>2, <1>3 DEF New, IsStored, Unsettled
<1>5. Unborn(w, t) => Unborn(v, t)
  BY <1>1, <1>4 DEF Unborn
<1>6. Attempts(w, t) => Attempts(v, t)
  <2>1. SUFFICES ASSUME Attempts(w, t) PROVE Attempts(v, t)
    OBVIOUS
  <2>2. \A i \in At(v.queue, "complete", t) : v.queue[i].attempt <= v.rows[t].attempt
    BY <2>1 DEF Attempts, Fewer
  <2>3. QED
    BY <1>2, <1>3, <1>4, <2>1, <2>2 DEF Attempts
<1>7. QED
  BY <1>1, <1>4, <1>5, <1>6 DEF Sound

\* r is q without its head.
OneLess(q, r) ==
    /\ 1 \in DOMAIN q
    /\ \A i \in DOMAIN r : i \in Nat /\ i > 0 /\ i + 1 \in DOMAIN q /\ r[i] = q[i + 1]

LEMMA TailLess ==
    ASSUME NEW q \in Seq(TaskBlocks), q # <<>>
    PROVE  OneLess(q, Tail(q)) /\ q[1] = Head(q)
<1>1. Len(q) \in Nat /\ Len(q) > 0 /\ DOMAIN q = 1 .. Len(q)
  OBVIOUS
<1>2. DOMAIN Tail(q) = 1 .. (Len(q) - 1) /\ \A i \in 1 .. (Len(q) - 1) : Tail(q)[i] = q[i + 1]
  BY <1>1
<1>3. QED
  BY <1>1, <1>2 DEF OneLess

LEMMA OneLessAt ==
    ASSUME NEW q, NEW r, OneLess(q, r), NEW t
    PROVE  /\ Fewer(q, r, t)
           /\ \A op : AtMostOne(At(q, op, t)) /\ q[1].op = op /\ q[1].task = t => At(r, op, t) = {}
           /\ \A a : AtMostOne(Ends(q, t, a)) /\ q[1].op = "complete" /\ q[1].task = t /\ q[1].attempt = a
                => Ends(r, t, a) = {}
<1>1. ASSUME NEW op, NEW i \in At(r, op, t)
      PROVE  i + 1 \in At(q, op, t) /\ i + 1 # 1 /\ q[i + 1] = r[i] /\ i \in Nat
  BY <1>1 DEF OneLess, At
<1>2. ASSUME NEW a, NEW i \in Ends(r, t, a)
      PROVE  i + 1 \in Ends(q, t, a) /\ i + 1 # 1 /\ i \in Nat
  BY <1>1, <1>2 DEF Ends
<1>3. ASSUME NEW op
      PROVE  /\ At(r, op, t) # {} => At(q, op, t) # {}
             /\ AtMostOne(At(q, op, t)) => AtMostOne(At(r, op, t))
  <2>1. At(r, op, t) # {} => At(q, op, t) # {}
    BY <1>1
  <2>2. ASSUME AtMostOne(At(q, op, t)), NEW i \in At(r, op, t), NEW j \in At(r, op, t)
        PROVE  i = j
    <3>1. i + 1 = j + 1 /\ i \in Nat /\ j \in Nat
      BY <1>1, <2>2 DEF AtMostOne
    <3>2. QED
      BY <3>1
  <2>3. QED
    BY <2>1, <2>2 DEF AtMostOne
<1>4. ASSUME NEW a
      PROVE  /\ Ends(r, t, a) # {} => Ends(q, t, a) # {}
             /\ AtMostOne(Ends(q, t, a)) => AtMostOne(Ends(r, t, a))
  <2>1. Ends(r, t, a) # {} => Ends(q, t, a) # {}
    BY <1>2
  <2>2. ASSUME AtMostOne(Ends(q, t, a)), NEW i \in Ends(r, t, a), NEW j \in Ends(r, t, a)
        PROVE  i = j
    <3>1. i + 1 = j + 1 /\ i \in Nat /\ j \in Nat
      BY <1>2, <2>2 DEF AtMostOne
    <3>2. QED
      BY <3>1
  <2>3. QED
    BY <2>1, <2>2 DEF AtMostOne
<1>5. \A i \in At(r, "complete", t) : \E j \in At(q, "complete", t) : q[j].attempt = r[i].attempt
  BY <1>1
<1>6. Fewer(q, r, t)
  BY <1>3, <1>4, <1>5 DEF Fewer
<1>7. ASSUME NEW op, AtMostOne(At(q, op, t)), q[1].op = op, q[1].task = t
      PROVE  At(r, op, t) = {}
  <2>1. 1 \in At(q, op, t)
    BY <1>7 DEF At, OneLess
  <2>2. QED
    BY <1>1, <1>7, <2>1 DEF AtMostOne
<1>8. ASSUME NEW a, AtMostOne(Ends(q, t, a)), q[1].op = "complete", q[1].task = t, q[1].attempt = a
      PROVE  Ends(r, t, a) = {}
  <2>1. 1 \in Ends(q, t, a)
    BY <1>8 DEF At, Ends, OneLess
  <2>2. QED
    BY <1>2, <1>8, <2>1 DEF AtMostOne
<1>9. QED
  BY <1>6, <1>7, <1>8

-----------------------------------------------------------------------------
(* The invariant, and what a block finds and leaves.                       *)

Whole(p) == [View(p) EXCEPT !.queue = queue[p]]

\* The recovery comes before anything the process finishes.
RecoverFirst(q) ==
    \A i \in DOMAIN q : q[i].op = "recover" => i = 1 /\ \A j \in DOMAIN q : q[j].op # "finish"

OnceInv(p) ==
    /\ \A t \in Tasks : Coherent(Whole(p), t)
    /\ \A t \in Tasks \ (early \cup lost) : Sound(Whole(p), enqueued, t)
    /\ RecoverFirst(queue[p])
    /\ p \notin up => queue[p] = <<>>
    /\ attached \subseteq up

LEMMA WholeIs ==
    ASSUME NEW p
    PROVE  /\ Whole(p).rows = rows /\ Whole(p).wire = wire /\ Whole(p).objects = objects[p]
           /\ Whole(p).queue = queue[p] /\ Whole(p).busy = busy[p] /\ Whole(p).delivered = delivered /\ Whole(p).torn = torn
           /\ Whole(p).process = p
           /\ View(p).rows = rows /\ View(p).wire = wire /\ View(p).objects = objects[p]
           /\ View(p).queue = Tail(queue[p]) /\ View(p).busy = busy[p] /\ View(p).delivered = delivered /\ View(p).torn = torn
           /\ View(p).process = p
  BY DEF Whole, View

LEMMA BlockBegins ==
    ASSUME TypeInv, NEW p \in Processes, OnceInv(p), NEW op, Runs(p, op)
    PROVE  /\ View(p) \in Views
           /\ ViewInv(View(p), enqueued, early \cup lost)
           /\ OneLess(queue[p], View(p).queue)
           /\ queue[p][1] = Head(queue[p]) /\ queue[p][1].op = op
           /\ 1 \in At(queue[p], op, Task(p))
<1>1. /\ View(p) \in Views /\ Head(queue[p]).op = op /\ queue[p] \in Seq(TaskBlocks)
      /\ queue[p] # <<>>
  BY ViewIn, TypeParts DEF Runs
<1>2. OneLess(queue[p], View(p).queue) /\ queue[p][1] = Head(queue[p])
  BY <1>1, WholeIs, TailLess
<1>3. 1 \in At(queue[p], op, Task(p))
  BY <1>1, <1>2 DEF At, Task, OneLess
<1>4. \A t \in Tasks : Coherent(View(p), t)
  BY WholeIs DEF OnceInv, Coherent, IsStored, IsCached
<1>5. ASSUME NEW t \in Tasks \ (early \cup lost) PROVE Sound(View(p), enqueued, t)
  <2>1. Sound(Whole(p), enqueued, t)
    BY <1>5 DEF OnceInv
  <2>2. Fewer(Whole(p).queue, View(p).queue, t)
    BY <1>2, WholeIs, OneLessAt
  <2>3. At(View(p).queue, "retry", t) # {} => t \in View(p).busy
    BY <2>1, <2>2, WholeIs DEF Sound, Fewer, Concerns
  <2>4. QED
    BY <2>1, <2>2, <2>3, WholeIs, FewerSound
<1>6. NoRecover(View(p).queue)
  <2>1. RecoverFirst(queue[p])
    BY DEF OnceInv
  <2>2. ASSUME NEW i \in DOMAIN View(p).queue PROVE View(p).queue[i].op # "recover"
    <3>1. i \in Nat /\ i > 0 /\ i + 1 \in DOMAIN queue[p] /\ View(p).queue[i] = queue[p][i + 1]
      BY <1>2, <2>2 DEF OneLess
    <3>2. i + 1 # 1
      BY <3>1
    <3>3. QED
      BY <2>1, <3>1, <3>2 DEF RecoverFirst
  <2>3. QED
    BY <2>2 DEF NoRecover
<1>7. QED
  BY <1>1, <1>2, <1>3, <1>4, <1>5, <1>6 DEF ViewInv

\* What the task of the head block is known to be.
LEMMA HeadIs ==
    ASSUME TypeInv, NEW p \in Processes, OnceInv(p), NEW op, Runs(p, op),
           NEW t \in Tasks \ (early \cup lost), t = Task(p)
    PROVE  /\ Sound(Whole(p), enqueued, t)
           /\ 1 \in At(queue[p], op, t) /\ 1 \in At(Whole(p).queue, op, t)
           /\ AtMostOne(At(Whole(p).queue, op, t)) => At(View(p).queue, op, t) = {}
           /\ Fewer(Whole(p).queue, View(p).queue, t)
<1>1. OneLess(queue[p], View(p).queue) /\ queue[p][1].op = op /\ 1 \in At(queue[p], op, t)
  BY BlockBegins
<1>2. queue[p][1].task = t
  BY <1>1 DEF At
<1>3. Fewer(queue[p], View(p).queue, t) /\ (AtMostOne(At(queue[p], op, t)) => At(View(p).queue, op, t) = {})
  BY <1>1, <1>2, OneLessAt
<1>4. Sound(Whole(p), enqueued, t)
  BY DEF OnceInv
<1>5. QED
  BY <1>1, <1>3, <1>4, WholeIs

LEMMA BlockEnds ==
    ASSUME TypeInv, NEW p \in Processes, OnceInv(p), NEW op, Runs(p, op),
           NEW w \in Views, Commit(p, w), w.process = p, ViewInv(w, enqueued, (early \cup lost)'),
           UNCHANGED <<up, enqueued>>, attached' \subseteq attached \cup {p}
    PROVE  OnceInv(p)' /\ rows' = w.rows
<1>1. /\ rows' = w.rows /\ wire' = w.wire /\ objects' = [objects EXCEPT ![p] = w.objects]
      /\ queue' = [queue EXCEPT ![p] = w.queue] /\ busy' = [busy EXCEPT ![p] = w.busy]
      /\ delivered' = w.delivered /\ torn' = w.torn
  BY DEF Commit
<1>2. objects'[p] = w.objects /\ queue'[p] = w.queue /\ busy'[p] = w.busy
  BY <1>1, TypeParts DEF ViewTyped
<1> DEFINE v == Whole(p)'
<1>3. /\ v.rows = w.rows /\ v.wire = w.wire /\ v.objects = w.objects /\ v.queue = w.queue
      /\ v.busy = w.busy /\ v.delivered = w.delivered /\ v.torn = w.torn /\ v.process = w.process
  BY <1>1, <1>2 DEF Whole, View
<1> HIDE DEF v
<1>4. Quiet(w, v)
  BY <1>3 DEF Quiet, Apart, Longer
<1>5. ViewInv(v, enqueued', (early \cup lost)')
  BY <1>4, QuietInv
<1>6. RecoverFirst(queue[p])'
  <2>1. NoRecover(queue'[p])
    BY <1>2 DEF ViewInv
  <2>2. QED
    BY <2>1 DEF NoRecover, RecoverFirst
<1>7. p \in up /\ attached \subseteq up
  BY DEF Runs, OnceInv
<1>8. (\A t \in Tasks : Coherent(Whole(p), t))'
  BY <1>5 DEF ViewInv, v
<1>9. (\A t \in Tasks \ (early \cup lost) : Sound(Whole(p), enqueued, t))'
  BY <1>5 DEF ViewInv, v
<1>10. QED
  BY <1>1, <1>6, <1>7, <1>8, <1>9 DEF OnceInv

LEMMA ViewInvMore ==
    ASSUME NEW w, NEW n, NEW E, NEW F, ViewInv(w, n, E), E \subseteq F
    PROVE  ViewInv(w, n, F)
  BY DEF ViewInv

\* No row begins to run.
NoneStarted == \A u \in Tasks : rows'[u].state = "running" => rows[u].state = "running"

\* A block that did to its task, and to nothing else, what keeps it sound.
LEMMA TaskBlockEnds ==
    ASSUME TypeInv, NEW p \in Processes, OnceInv(p), NEW op, Runs(p, op), NEW t \in Tasks,
           NEW w \in Views, Commit(p, w), Keeps(View(p), w, t),
           t \notin early \cup lost => Sound(w, enqueued, t),
           UNCHANGED <<up, enqueued, early, lost, attached>>
    PROVE  OnceInv(p)' /\ NoneStarted
<1>1. ViewInv(View(p), enqueued, early \cup lost) /\ View(p).process = p /\ View(p).rows = rows
  BY BlockBegins, WholeIs
<1>2. Local(View(p), w, t) /\ Coherent(w, t) /\ (w.rows[t].state = "running" => rows[t].state = "running")
  BY <1>1 DEF Keeps
<1>3. ViewInv(w, enqueued, early \cup lost) /\ w.process = p
  BY <1>1, <1>2, LocalInv DEF Local
<1>4. OnceInv(p)' /\ rows' = w.rows
  BY <1>3, BlockEnds
<1>5. \A u \in Tasks \ {t} : w.rows[u] = rows[u]
  BY <1>1, <1>2 DEF Local, Apart
<1>6. QED
  BY <1>2, <1>4, <1>5 DEF NoneStarted

LEMMA AddOnce ==
    ASSUME TypeInv, NEW p \in Processes, OnceInv(p), RunAdd(p)
    PROVE  OnceInv(p)' /\ NoneStarted
<1> DEFINE v == View(p)
           t == Task(p)
           new == [Fresh(p) EXCEPT !.state = "pending"]
           x == [v EXCEPT !.rows[t] = new, !.objects[t] = new]
           E == early \cup lost
<1>1. Runs(p, "add") /\ Commit(p, SetNeedsScheduling(x)) /\ UNCHANGED <<up, enqueued, early, lost, attached>>
  BY DEF RunAdd
<1>2. t \in Tasks /\ v \in Views
  BY <1>1, HeadTask, BlockBegins DEF TaskOps
<1>3. new \in TaskRecords /\ new.state = "pending"
  BY FreshIn DEF TaskRecords, States, Fresh
<1> HIDE DEF new
<1>4. x \in Views
  BY <1>2, <1>3 DEF Views
<1>5. /\ x.rows[t] = new /\ x.objects[t] = new
      /\ \A u \in Tasks \ {t} : x.rows[u] = v.rows[u] /\ x.objects[u] = v.objects[u]
      /\ x.wire = v.wire /\ x.queue = v.queue /\ x.busy = v.busy /\ x.delivered = v.delivered /\ x.torn = v.torn
      /\ x.process = v.process
  BY <1>2 DEF Views
<1> HIDE DEF x
<1>6. Keeps(v, x, t)
  <2>1. Local(v, x, t)
    BY <1>5 DEF Local, Apart, Longer
  <2>2. QED
    BY <1>3, <1>5, <2>1 DEF Keeps, Coherent
<1>7. ASSUME t \notin E PROVE Sound(x, enqueued, t)
  <2> DEFINE w == Whole(p)
  <2>1. /\ Sound(w, enqueued, t) /\ 1 \in At(w.queue, "add", t)
        /\ AtMostOne(At(w.queue, "add", t)) => At(v.queue, "add", t) = {}
        /\ Fewer(w.queue, v.queue, t)
    BY <1>1, <1>2, <1>7, HeadIs
  <2>2. v.rows = w.rows /\ v.wire = w.wire /\ v.busy = w.busy /\ v.delivered = w.delivered /\ v.torn = w.torn
    BY WholeIs
  <2> HIDE DEF w, v, t
  <2>3. New(w, enqueued, t)
    BY <2>1 DEF New
  <2>4. Unborn(w, t) /\ t <= enqueued /\ At(v.queue, "add", t) = {}
    BY <2>1, <2>3 DEF Sound
  <2>5. /\ At(v.queue, "complete", t) = {} /\ At(v.queue, "finish", t) = {}
        /\ At(v.queue, "fail", t) = {}
    BY <2>1, <2>4 DEF Fewer, Concerns, Unborn, Sound
  <2>6. t \notin w.busy
    BY <2>1, <2>4 DEF Sound, Unborn, IsStored
  <2>7. At(v.queue, "retry", t) = {}
    BY <2>1, <2>6 DEF Fewer, Concerns, Sound
  <2>8. ~New(x, enqueued, t)
    <3>1. enqueued \in Nat /\ t \in Nat
      BY <1>2, TypeParts, PipelineAssumption DEF OuterTyped, Tasks, t
    <3>2. QED
      BY <1>5, <2>4, <3>1 DEF New
  <2>9. Attempts(x, t)
    <3>1. \A s \in x.wire : s.task # t
      BY <1>5, <2>2, <2>4 DEF Unborn
    <3>2. \A a : ~Sent(x, t, a)
      BY <3>1 DEF Sent
    <3>3. At(x.queue, "complete", t) = {}
      BY <1>5, <2>5
    <3>4. \A a : Ends(x.queue, t, a) = {}
      BY <3>3 DEF Ends
    <3>5. QED
      BY <3>1, <3>2, <3>3, <3>4 DEF Attempts, Unsettled, AtMostOne
  <2>10. x.delivered[t] = x.torn[t] /\ t \notin x.busy /\ IsStored(x, t) /\ \A s \in x.wire : s.task = t => s.noted
    BY <1>3, <1>5, <2>2, <2>4, <2>6 DEF Unborn, IsStored
  <2>11. AtMostOne({})
    BY DEF AtMostOne
  <2>12. QED
    BY <1>5, <2>4, <2>5, <2>7, <2>8, <2>9, <2>10, <2>11 DEF Sound
<1> DEFINE y == SetNeedsScheduling(x)
<1>8. y \in Views /\ Quiet(x, y)
  BY <1>4, SetNeedsSchedulingIn, SetNeedsSchedulingQuiet
<1>9. Keeps(v, y, t) /\ (t \notin E => Sound(y, enqueued, t))
  BY <1>2, <1>6, <1>7, <1>8, KeepsQuiet, ApartSound DEF Quiet
<1> HIDE DEF v, t, y, E
<1>10. QED
  BY <1>1, <1>2, <1>8, <1>9, TaskBlockEnds DEF v, E, y

LEMMA FailOnce ==
    ASSUME TypeInv, NEW p \in Processes, OnceInv(p), RunFail(p)
    PROVE  OnceInv(p)' /\ NoneStarted
<1> DEFINE t == Task(p)
           b == Block("finish", t, Response(p))
           y == Queued(View(p), b)
<1>1. Runs(p, "fail") /\ Commit(p, y) /\ UNCHANGED <<up, enqueued, early, lost, attached>>
  BY DEF RunFail
<1>2. t \in Tasks /\ View(p) \in Views /\ Response(p) \in Responses \cup {None}
  BY <1>1, HeadTask, BlockBegins DEF TaskOps
<1>3. b \in TaskBlocks /\ b.task = t /\ b.op # "recover"
  BY <1>2, BlockIn DEF Operations
<1> HIDE DEF b
<1>4. Coherent(View(p), t)
  BY <1>1, <1>2, BlockBegins DEF ViewInv
<1>5. Keeps(View(p), y, t) /\ y \in Views
  BY <1>2, <1>3, <1>4, QueuedKeeps, QueuedIn
<1>6. t \in early \cup lost
  <2>1. SUFFICES ASSUME t \notin early \cup lost PROVE FALSE
    OBVIOUS
  <2>2. Sound(Whole(p), enqueued, t) /\ 1 \in At(Whole(p).queue, "fail", t)
    BY <1>1, <1>2, <2>1, HeadIs
  <2>3. QED
    BY <2>2 DEF Sound
<1> HIDE DEF t, y
<1>7. QED
  BY <1>1, <1>2, <1>5, <1>6, TaskBlockEnds

LEMMA CompleteOnce ==
    ASSUME TypeInv, NEW p \in Processes, OnceInv(p), RunComplete(p)
    PROVE  OnceInv(p)' /\ NoneStarted
<1> DEFINE v == View(p)
           t == Task(p)
           w == Load(v, {t})
           b == Block("finish", t, IF Loaded(w, t).cancelled THEN "result" ELSE Response(p))
           E == early \cup lost
<1>1. Runs(p, "complete") /\ UNCHANGED <<up, enqueued, early, lost, attached>>
  BY DEF RunComplete
<1>2. \/ Commit(p, v)
      \/ /\ IsStored(v, t) /\ v.rows[t].attempt = Head(queue[p]).attempt
         /\ Commit(p, Queued(w, b))
  BY DEF RunComplete
<1>3. /\ t \in Tasks /\ v \in Views /\ Response(p) \in Responses \cup {None}
      /\ ViewInv(v, enqueued, E)
  BY <1>1, HeadTask, BlockBegins DEF TaskOps
<1>4. b \in TaskBlocks /\ b.task = t /\ b.op = "finish"
  BY <1>3, BlockIn DEF Operations, Responses
<1> HIDE DEF b
<1>5. w \in Views /\ Recached(v, w) /\ w.rows = v.rows
  BY <1>3, LoadIn, LoadAt
<1>6. ViewInv(w, enqueued, E)
  BY <1>3, <1>5, RecachedInv
<1>7. CASE Commit(p, v)
  <2>1. OnceInv(p)' /\ rows' = v.rows
    BY <1>1, <1>3, <1>7, WholeIs, BlockEnds
  <2>2. QED
    BY <2>1, WholeIs DEF NoneStarted
<1>8. CASE IsStored(v, t) /\ v.rows[t].attempt = Head(queue[p]).attempt /\ Commit(p, Queued(w, b))
  <2> DEFINE y == Queued(w, b)
  <2>1. Keeps(w, y, t) /\ y \in Views
    BY <1>3, <1>4, <1>5, <1>6, QueuedKeeps, QueuedIn DEF ViewInv
  <2>2. ASSUME t \notin E PROVE Free(w, t) /\ w.rows[t].state = "running"
    <3> DEFINE u == Whole(p)
    <3>1. /\ Sound(u, enqueued, t) /\ 1 \in At(queue[p], "complete", t)
          /\ Fewer(u.queue, v.queue, t)
      BY <1>1, <1>3, <2>2, HeadIs
    <3>2. /\ v.rows = u.rows /\ v.wire = u.wire /\ v.process = u.process
          /\ u.queue = queue[p] /\ v.queue = Tail(queue[p])
      BY WholeIs
    <3>3. OneLess(queue[p], v.queue) /\ queue[p][1] = Head(queue[p])
      BY <1>1, BlockBegins
    <3> HIDE DEF u, v, t
    <3>4. 1 \in Ends(u.queue, t, u.rows[t].attempt) /\ queue[p][1].op = "complete" /\ queue[p][1].task = t
          /\ queue[p][1].attempt = u.rows[t].attempt
      BY <1>8, <3>1, <3>2, <3>3 DEF Ends, At
    <3>5. IsStored(u, t) /\ Unsettled(u, t)
      BY <1>8, <3>2, <3>4 DEF IsStored, Unsettled
    <3>6. Attempts(u, t)
      BY <3>1, <3>5 DEF Sound
    <3>7. u.rows[t].state = "running" /\ ~Sent(u, t, u.rows[t].attempt)
      BY <3>4, <3>5, <3>6 DEF Attempts
    <3>8. Ends(v.queue, t, v.rows[t].attempt) = {}
      <4>1. AtMostOne(Ends(queue[p], t, u.rows[t].attempt))
        BY <3>2, <3>6 DEF Attempts
      <4>2. QED
        BY <3>2, <3>3, <3>4, <4>1, OneLessAt
    <3>9. At(v.queue, "finish", t) = {}
      BY <3>1, <3>5 DEF Sound, Fewer, Concerns
    <3>10. Free(v, t) /\ v.rows[t].state = "running"
      BY <3>2, <3>7, <3>8, <3>9 DEF Free, Unsettled, Sent
    <3>11. QED
      BY <1>3, <1>5, <3>10, FreeApart DEF Recached, t
  <2>3. t \notin E => Sound(y, enqueued, t)
    BY <1>3, <1>4, <1>5, <1>6, <2>2, QueuedSound DEF ViewInv
  <2> HIDE DEF y, t, E, w
  <2>4. ViewInv(y, enqueued, E) /\ y.process = p
    <3>1. Local(w, y, t) /\ Coherent(y, t)
      BY <2>1 DEF Keeps
    <3>2. ViewInv(y, enqueued, E)
      BY <1>3, <1>6, <2>3, <3>1, LocalInv
    <3>3. QED
      BY <1>5, <3>1, <3>2, WholeIs DEF Local, Recached
  <2>5. OnceInv(p)' /\ rows' = y.rows
    BY <1>1, <1>8, <2>1, <2>4, BlockEnds DEF y, E
  <2>6. y.rows = w.rows
    BY <1>5 DEF y, Queued, Views
  <2>7. QED
    BY <1>5, <2>5, <2>6, WholeIs DEF NoneStarted
<1>9. QED
  BY <1>2, <1>7, <1>8

LEMMA FinishFree ==
    ASSUME TypeInv, NEW p \in Processes, OnceInv(p), Runs(p, "finish"), Task(p) \notin early \cup lost
    PROVE  Free(View(p), Task(p))
<1> DEFINE v == View(p)
           t == Task(p)
           u == Whole(p)
<1>1. t \in Tasks
  BY HeadTask DEF TaskOps
<1>2. /\ Sound(u, enqueued, t) /\ 1 \in At(u.queue, "finish", t)
      /\ AtMostOne(At(u.queue, "finish", t)) => At(v.queue, "finish", t) = {}
      /\ Fewer(u.queue, v.queue, t)
  BY <1>1, HeadIs
<1>3. v.rows = u.rows /\ v.wire = u.wire /\ v.process = u.process
  BY WholeIs
<1> HIDE DEF u, v, t
<1>4. u.rows[t].state = "running" /\ ~Unsettled(u, t) /\ At(v.queue, "finish", t) = {}
  BY <1>2 DEF Sound
<1>5. Ends(v.queue, t, v.rows[t].attempt) = {} /\ ~Sent(v, t, v.rows[t].attempt)
  BY <1>2, <1>3, <1>4 DEF Unsettled, Sent, Fewer
<1>6. Free(v, t)
  BY <1>3, <1>4, <1>5 DEF Free, Unsettled
<1>7. QED
  BY <1>6 DEF v, t

LEMMA FinishOnce ==
    ASSUME TypeInv, NEW p \in Processes, OnceInv(p), RunFinish(p)
    PROVE  OnceInv(p)' /\ NoneStarted
<1> DEFINE v == View(p)
           t == Task(p)
           x == Finished(v, t, Response(p))
           y == SetNeedsScheduling(x)
           E == early \cup lost
<1>1. Runs(p, "finish") /\ Commit(p, y) /\ UNCHANGED <<up, enqueued, early, lost, attached>>
  BY DEF RunFinish
<1>2. /\ t \in Tasks /\ v \in Views /\ Response(p) \in Responses \cup {None}
      /\ ViewInv(v, enqueued, E)
  BY <1>1, HeadTask, BlockBegins DEF TaskOps
<1>3. x \in Views /\ Keeps(v, x, t)
  BY <1>2, FinishedIn, FinishedKeeps DEF ViewInv
<1>4. t \notin E => Free(v, t)
  BY <1>1, FinishFree
<1>5. t \notin E => Sound(x, enqueued, t)
  BY <1>2, <1>4, FinishedSound DEF ViewInv
<1> HIDE DEF x
<1>6. y \in Views /\ Quiet(x, y)
  BY <1>3, SetNeedsSchedulingIn, SetNeedsSchedulingQuiet
<1>7. Keeps(v, y, t) /\ (t \notin E => Sound(y, enqueued, t))
  BY <1>2, <1>3, <1>5, <1>6, KeepsQuiet, ApartSound DEF Quiet
<1> HIDE DEF t, y
<1>8. QED
  BY <1>1, <1>2, <1>6, <1>7, TaskBlockEnds

\* The evaluation of a certificate has ended; its outcome is stored.
Evaluating(p) == [View(p) EXCEPT !.busy = @ \ {Task(p)}]
Evaluated(p) ==
    [Loaded(Evaluating(p), Task(p)) EXCEPT !.response = IF @ = "unverified" THEN Response(p) ELSE @]
Retrying(p) == Stored(Evaluating(p), Task(p), Evaluated(p))

LEMMA RetryStored ==
    ASSUME TypeInv, NEW p \in Processes, OnceInv(p), Runs(p, "retry")
    PROVE  /\ Task(p) \in Tasks /\ Evaluated(p) \in TaskRecords
           /\ Retrying(p) \in Views /\ Keeps(View(p), Retrying(p), Task(p))
           /\ IsStored(Retrying(p), Task(p)) /\ Evaluated(p).state = "running" =>
                Retrying(p).rows[Task(p)].state = "running"
           /\ Task(p) \notin early \cup lost =>
                /\ Sound(Retrying(p), enqueued, Task(p))
                /\ Retrying(p).rows[Task(p)].state = "completed"
                /\ Fits(Retrying(p), Task(p), Evaluated(p))
<1> DEFINE v == View(p)
           E == early \cup lost
           t == Task(p)
           x == Evaluating(p)
           o == Evaluated(p)
           s == Retrying(p)
<1>1. /\ x = [v EXCEPT !.busy = @ \ {t}]
      /\ o = [Loaded(x, t) EXCEPT !.response = IF @ = "unverified" THEN Response(p) ELSE @]
      /\ s = Stored(x, t, o)
  BY DEF Evaluating, Evaluated, Retrying
<1> HIDE DEF t, x, o, s
<1>2. /\ t \in Tasks /\ v \in Views /\ Response(p) \in Responses \cup {None}
      /\ ViewInv(v, enqueued, E)
  BY HeadTask, BlockBegins DEF TaskOps, t
<1>3. /\ x.rows = v.rows /\ x.wire = v.wire /\ x.objects = v.objects /\ x.queue = v.queue
      /\ x.busy = v.busy \ {t} /\ x.delivered = v.delivered /\ x.torn = v.torn /\ x.process = v.process
  BY <1>1, <1>2 DEF Views
<1>4. x \in Views
  BY <1>1, <1>2 DEF Views
<1>5. Keeps(v, x, t)
  <2>1. Local(v, x, t)
    BY <1>3 DEF Local, Apart, Longer
  <2>2. QED
    BY <1>2, <1>3, <2>1 DEF Keeps, ViewInv, Coherent, IsStored, IsCached
<1>6. o \in TaskRecords /\ o.state = Loaded(x, t).state /\ o.attempt = Loaded(x, t).attempt
  <2> DEFINE l == Loaded(x, t)
  <2>1. l \in TaskRecords
    BY <1>2, <1>4, LoadedIn
  <2>2. o = [l EXCEPT !.response = IF @ = "unverified" THEN Response(p) ELSE @]
    BY <1>1
  <2> HIDE DEF l
  <2>3. o \in TaskRecords /\ o.state = l.state /\ o.attempt = l.attempt
    BY <1>2, <2>1, <2>2 DEF TaskRecords
  <2>4. QED
    BY <2>3 DEF l
<1>7. Fits(x, t, o)
  BY <1>5, <1>6, LoadedFits DEF Fits, Keeps
<1>8. s \in Views /\ Keeps(x, s, t) /\ (IsStored(s, t) /\ o.state = "running" => s.rows[t].state = "running")
  <2>1. s \in Views /\ Local(x, s, t)
    BY <1>1, <1>2, <1>4, <1>6, StoredIn, StoredLocal
  <2>2. /\ IsStored(x, t) => s.rows[t].state = o.state /\ s.rows[t].attempt = o.attempt
        /\ ~IsStored(x, t) => s.rows[t] = x.rows[t]
        /\ s.objects[t] = o \/ (s.objects[t] = x.objects[t] /\ ~IsCached(x, t))
    <3>1. s = Stored(x, t, o) /\ o \in TaskRecords
      BY <1>1, <1>6
    <3>2. QED
      BY <1>2, <1>4, <3>1, StoredAt
  <2>3. Coherent(s, t)
    BY <2>2 DEF Coherent, IsStored, IsCached
  <2>4. s.rows[t].state = "running" => x.rows[t].state = "running"
    BY <1>7, <2>2 DEF Fits, IsStored
  <2>5. IsStored(s, t) /\ o.state = "running" => s.rows[t].state = "running"
    BY <2>2 DEF IsStored
  <2>6. QED
    BY <2>1, <2>3, <2>4, <2>5 DEF Keeps
<1>9. ASSUME t \notin E
      PROVE  Sound(s, enqueued, t) /\ s.rows[t].state = "completed" /\ Fits(s, t, o)
  <2> DEFINE u == Whole(p)
  <2>1. /\ Sound(u, enqueued, t) /\ 1 \in At(u.queue, "retry", t)
        /\ AtMostOne(At(u.queue, "retry", t)) => At(v.queue, "retry", t) = {}
        /\ Fewer(u.queue, v.queue, t)
    BY <1>2, <1>9, HeadIs DEF t, E
  <2>2. v.rows = u.rows /\ v.wire = u.wire /\ v.busy = u.busy /\ v.delivered = u.delivered
        /\ v.torn = u.torn /\ v.process = u.process
    BY WholeIs
  <2> HIDE DEF u, v
  <2>3. At(x.queue, "retry", t) = {} /\ u.rows[t].state = "completed"
    BY <1>3, <2>1 DEF Sound
  <2>4. Sound(x, enqueued, t)
    BY <1>3, <2>1, <2>2, <2>3, FewerSound
  <2>5. IsStored(x, t) /\ x.rows[t].state = "completed"
    BY <1>3, <2>2, <2>3 DEF IsStored
  <2>6. Sound(s, enqueued, t)
    <3>1. Sound(Stored(x, t, o), enqueued, t)
      BY <1>2, <1>4, <1>6, <1>7, <2>4, <2>5, StoredSound
    <3>2. QED
      BY <1>1, <3>1
  <2>7. s.rows[t].state = "completed" /\ Fits(s, t, o)
    <3>1. s = Stored(x, t, o) /\ o \in TaskRecords
      BY <1>1, <1>6
    <3>2. IsStored(x, t) => s.rows[t].state = o.state /\ s.rows[t].attempt = o.attempt
      BY <1>2, <1>4, <3>1, StoredAt
    <3>3. QED
      BY <1>7, <2>5, <3>2 DEF Fits
  <2>8. QED
    BY <2>6, <2>7
<1> HIDE DEF v
<1>10. Keeps(v, s, t)
  BY <1>5, <1>8, KeepsTrans
<1>11. QED
  BY <1>2, <1>6, <1>8, <1>9, <1>10 DEF v, E, t, o, s

LEMMA RetryOnce ==
    ASSUME TypeInv, NEW p \in Processes, OnceInv(p), RunRetry(p)
    PROVE  OnceInv(p)' /\ NoneStarted
<1> DEFINE t == Task(p)
           o == Evaluated(p)
           s == Retrying(p)
           y == Deliver(s, t, o)
<1>1. Runs(p, "retry") /\ Commit(p, y) /\ UNCHANGED <<up, enqueued, early, lost, attached>>
  BY DEF RunRetry, Evaluating, Evaluated, Retrying
<1>2. /\ t \in Tasks /\ o \in TaskRecords /\ s \in Views /\ Keeps(View(p), s, t)
      /\ IsStored(s, t) /\ o.state = "running" => s.rows[t].state = "running"
      /\ t \notin early \cup lost =>
           Sound(s, enqueued, t) /\ s.rows[t].state = "completed" /\ Fits(s, t, o)
  BY <1>1, RetryStored
<1> HIDE DEF t, o, s
<1>3. Keeps(s, y, t) /\ y \in Views
  BY <1>2, DeliverKeeps, DeliverIn DEF Keeps
<1>4. t \notin early \cup lost => Sound(y, enqueued, t)
  BY <1>2, DeliverSound
<1> HIDE DEF y
<1>5. Keeps(View(p), y, t)
  BY <1>2, <1>3, KeepsTrans
<1>6. QED
  BY <1>1, <1>2, <1>3, <1>4, <1>5, TaskBlockEnds

\* A block of which several tasks are the subject, or none.
LEMMA WideBlockEnds ==
    ASSUME TypeInv, NEW p \in Processes, OnceInv(p), NEW op, Runs(p, op),
           NEW w \in Views, Commit(p, w), w.process = p, ViewInv(w, enqueued, (early \cup lost)'),
           \A u \in Tasks : w.rows[u].state = "running" => rows[u].state = "running",
           UNCHANGED <<up, enqueued>>, attached' \subseteq attached \cup {p}
    PROVE  OnceInv(p)' /\ NoneStarted
<1>1. OnceInv(p)' /\ rows' = w.rows
  BY BlockEnds
<1>2. QED
  BY <1>1 DEF NoneStarted

LEMMA AttachOnce ==
    ASSUME TypeInv, NEW p \in Processes, OnceInv(p), RunAttach(p)
    PROVE  OnceInv(p)' /\ NoneStarted
<1> DEFINE v == View(p)
           b == Block("deliver", 0, None)
           x == Queued(v, b)
           y == SetNeedsScheduling(x)
<1>1. /\ Runs(p, "attach") /\ Commit(p, y) /\ UNCHANGED <<up, enqueued, early, lost>>
      /\ attached' \subseteq attached \cup {p}
  BY DEF RunAttach
<1>2. v \in Views /\ ViewInv(v, enqueued, early \cup lost)
  BY <1>1, BlockBegins
<1>3. b \in TaskBlocks /\ b.op = "deliver"
  BY BlockIn DEF Operations, TaskOps
<1> HIDE DEF b
<1>4. x \in Views /\ Quiet(v, x)
  BY <1>2, <1>3, QueuedIn, QueuedQuiet DEF Concerns
<1> HIDE DEF x
<1>5. y \in Views /\ Quiet(x, y)
  BY <1>4, SetNeedsSchedulingIn, SetNeedsSchedulingQuiet
<1>6. Quiet(v, y)
  BY <1>4, <1>5, QuietTrans
<1>7. ViewInv(y, enqueued, early \cup lost) /\ y.process = p /\ \A u \in Tasks : y.rows[u] = rows[u]
  BY <1>2, <1>6, QuietInv, WholeIs DEF Quiet, Apart
<1> HIDE DEF v, y
<1>8. QED
  BY <1>1, <1>5, <1>7, WideBlockEnds

LEMMA DetachOnce ==
    ASSUME TypeInv, NEW p \in Processes, OnceInv(p), RunDetach(p)
    PROVE  OnceInv(p)' /\ NoneStarted
<1>1. /\ Runs(p, "detach") /\ Commit(p, View(p)) /\ UNCHANGED <<up, enqueued, early, lost>>
      /\ attached' \subseteq attached \cup {p}
  BY DEF RunDetach
<1>2. View(p) \in Views /\ ViewInv(View(p), enqueued, early \cup lost)
  BY <1>1, BlockBegins
<1>3. View(p).process = p /\ View(p).rows = rows
  BY WholeIs
<1>4. QED
  BY <1>1, <1>2, <1>3, WideBlockEnds

LEMMA DeliverOnce ==
    ASSUME TypeInv, NEW p \in Processes, OnceInv(p), RunDeliver(p)
    PROVE  OnceInv(p)' /\ NoneStarted
<1> DEFINE v == View(p)
           S == {t \in Tasks : rows[t].state = "completed"}
           x == Load(v, S)
           y == DeliverAll(x, S)
<1>1. /\ Runs(p, "deliver") /\ Commit(p, y) /\ UNCHANGED <<up, enqueued, early, lost, attached>>
  BY DEF RunDeliver
<1>2. v \in Views /\ ViewInv(v, enqueued, early \cup lost) /\ v.rows = rows /\ v.process = p
  BY <1>1, BlockBegins, WholeIs
<1>3. \A t \in S : v.rows[t].state = "completed"
  BY <1>2
<1> HIDE DEF v, S
<1>4. x \in Views /\ Recached(v, x) /\ x.rows = v.rows
  BY <1>2, LoadIn, LoadAt
<1>5. ViewInv(x, enqueued, early \cup lost) /\ x.process = p
  BY <1>2, <1>4, RecachedInv DEF Recached
<1>6. \A t \in Tasks : t \in S => x.rows[t].state = "completed"
  BY <1>3, <1>4
<1> HIDE DEF x
<1>7. /\ y \in Views /\ y.process = p /\ ViewInv(y, enqueued, early \cup lost)
      /\ \A u \in Tasks : y.rows[u].state = "running" => x.rows[u].state = "running"
  BY <1>4, <1>5, <1>6, DeliverAllKeeps, DeliverAllIn
<1> HIDE DEF y
<1>8. QED
  BY <1>1, <1>2, <1>4, <1>7, WideBlockEnds

LEMMA CancelOnce ==
    ASSUME TypeInv, NEW p \in Processes, OnceInv(p), NEW op, Runs(p, op), NEW S, CancelTasks(p, S)
    PROVE  OnceInv(p)' /\ NoneStarted
<1> DEFINE v == View(p)
           x == Load(v, S)
           y == CancelAll(x, S)
           E == (early \cup lost)'
<1>1. /\ Commit(p, y) /\ UNCHANGED <<up, enqueued, lost, attached>> /\ early' = early \cup S
  BY DEF CancelTasks
<1>2. v \in Views /\ ViewInv(v, enqueued, early \cup lost) /\ v.rows = rows /\ v.process = p
  BY <1>1, BlockBegins, WholeIs
<1>3. S \subseteq E /\ early \cup lost \subseteq E
  BY <1>1
<1> HIDE DEF v, E
<1>4. x \in Views /\ Recached(v, x) /\ x.rows = v.rows
  BY <1>2, LoadIn, LoadAt
<1>5. ViewInv(x, enqueued, E) /\ x.process = p
  BY <1>2, <1>3, <1>4, RecachedInv, ViewInvMore DEF Recached
<1> HIDE DEF x
<1>6. /\ y \in Views /\ y.process = p /\ ViewInv(y, enqueued, E)
      /\ \A u \in Tasks : y.rows[u].state = "running" => x.rows[u].state = "running"
  BY <1>3, <1>4, <1>5, CancelAllKeeps, CancelAllIn
<1> HIDE DEF y
<1>7. QED
  BY <1>1, <1>2, <1>4, <1>6, WideBlockEnds DEF E

LEMMA FinishPendingOnce ==
    ASSUME TypeInv, NEW p \in Processes, OnceInv(p), RunFinishPending(p)
    PROVE  OnceInv(p)' /\ NoneStarted
<1> DEFINE v == View(p)
           S == {t \in Tasks : rows[t].state # "absent"}
           x == Load(v, S)
           y == QueueFinishAll(x, S)
           E == (early \cup lost)'
<1>1. /\ Runs(p, "finishPending") /\ Commit(p, y) /\ UNCHANGED <<up, enqueued, lost, attached>>
      /\ early' = early \cup S
  BY DEF RunFinishPending
<1>2. v \in Views /\ ViewInv(v, enqueued, early \cup lost) /\ v.rows = rows /\ v.process = p
  BY <1>1, BlockBegins, WholeIs
<1>3. S \subseteq E /\ early \cup lost \subseteq E
  BY <1>1
<1> HIDE DEF v, E, S
<1>4. x \in Views /\ Recached(v, x) /\ x.rows = v.rows
  BY <1>2, LoadIn, LoadAt
<1>5. ViewInv(x, enqueued, E) /\ x.process = p
  BY <1>2, <1>3, <1>4, RecachedInv, ViewInvMore DEF Recached
<1> HIDE DEF x
<1>6. /\ y \in Views /\ y.process = p /\ ViewInv(y, enqueued, E)
      /\ \A u \in Tasks : y.rows[u].state = "running" => x.rows[u].state = "running"
  BY <1>3, <1>4, <1>5, QueueFinishAllKeeps, QueueFinishAllIn
<1> HIDE DEF y
<1>7. QED
  BY <1>1, <1>2, <1>4, <1>6, WideBlockEnds DEF E

\* The tasks whose session task the recovery does not find, and no queue tells
\* the end of, can be finished.
LEMMA Recovering ==
    ASSUME TypeInv, NEW p \in Processes, OnceInv(p), Runs(p, "recover"),
           NEW z, z = Reattached(p, Load(View(p), Tasks))
    PROVE  /\ z \in Views /\ ViewInv(z, enqueued, early \cup lost) /\ z.rows = rows /\ z.process = p
           /\ \A t \in Dropped(z) : t \notin early \cup lost /\ ~Unanswered(p, t) => Free(z, t)
<1> DEFINE v == View(p)
           x == Load(v, Tasks)
           E == early \cup lost
<1>2. v \in Views /\ ViewInv(v, enqueued, E) /\ v.rows = rows /\ v.process = p
  BY BlockBegins, WholeIs
<1> HIDE DEF v
<1>4. x \in Views /\ Recached(v, x) /\ x.rows = v.rows
  BY <1>2, LoadIn, LoadAt
<1>5. ViewInv(x, enqueued, E) /\ x.process = p
  BY <1>2, <1>4, RecachedInv DEF Recached
<1>0. z = Reattached(p, x)
  BY DEF v
<1> HIDE DEF x
<1>6. z \in Views /\ Recached(x, z) /\ z.rows = x.rows /\ z.process = p
  BY <1>0, <1>4, <1>5, ReattachedIn, ReattachedAt DEF Recached
<1>7. ViewInv(z, enqueued, E)
  BY <1>5, <1>6, RecachedInv
<1>8. ASSUME NEW t \in Tasks, t \in Dropped(z), t \notin E, ~Unanswered(p, t) PROVE Free(z, t)
  <2>1. z.rows[t].state = "running"
    <3>1. IsStored(z, t) /\ Loaded(z, t).state = "running"
      BY <1>8 DEF Dropped
    <3>2. Coherent(z, t)
      BY <1>7 DEF ViewInv
    <3>3. QED
      BY <3>1, <3>2, LoadedFits DEF Fits
  <2>2. /\ \A w \in wire : ~(w.process = p /\ w.task = t /\ w.attempt = rows[t].attempt)
        /\ \A b \in ToSet(queue[p]) : ~(b.op = "complete" /\ b.task = t /\ b.attempt = rows[t].attempt)
    BY <1>8 DEF Unanswered
  <2>3. OneLess(queue[p], v.queue) /\ 1 \in DOMAIN queue[p] /\ queue[p][1].op = "recover"
        /\ v.wire = wire
    BY BlockBegins, WholeIs DEF v, OneLess
  <2>4. z.wire = wire /\ z.queue = v.queue
    BY <1>0, <1>2, <1>4, <1>5, <1>6, <2>3, LoadAt, ReattachedAt DEF x, Recached
  <2>5. ~Sent(z, t, z.rows[t].attempt)
    <3> DEFINE s == [task |-> t, attempt |-> rows[t].attempt, process |-> p, noted |-> TRUE]
    <3>1. s.process = p /\ s.task = t /\ s.attempt = rows[t].attempt
      OBVIOUS
    <3>2. Sent(z, t, z.rows[t].attempt) => s \in wire
      BY <1>2, <1>4, <1>6, <2>4 DEF Sent
    <3> HIDE DEF s
    <3>3. QED
      BY <2>2, <3>1, <3>2
  <2>6. Ends(z.queue, t, z.rows[t].attempt) = {}
    <3>1. SUFFICES ASSUME NEW i \in Ends(z.queue, t, z.rows[t].attempt) PROVE FALSE
      OBVIOUS
    <3>2. /\ i + 1 \in DOMAIN queue[p] /\ queue[p][i + 1].op = "complete" /\ queue[p][i + 1].task = t
          /\ queue[p][i + 1].attempt = rows[t].attempt
      BY <1>2, <1>4, <1>6, <2>3, <2>4 DEF Ends, At, OneLess
    <3>3. queue[p][i + 1] \in ToSet(queue[p])
      BY <3>2 DEF ToSet
    <3>4. QED
      BY <2>2, <3>2, <3>3
  <2>7. At(z.queue, "finish", t) = {}
    <3>1. RecoverFirst(queue[p])
      BY DEF OnceInv
    <3>2. \A j \in DOMAIN queue[p] : queue[p][j].op # "finish"
      BY <2>3, <3>1 DEF RecoverFirst
    <3>3. QED
      BY <2>3, <2>4, <3>2 DEF At, OneLess
  <2>8. QED
    BY <2>1, <2>5, <2>6, <2>7 DEF Free, Unsettled
<1>9. Dropped(z) \subseteq Tasks
  BY DEF Dropped
<1>10. QED
  BY <1>2, <1>4, <1>6, <1>7, <1>8, <1>9 DEF E

LEMMA RecoverOnce ==
    ASSUME TypeInv, NEW p \in Processes, OnceInv(p), RunRecover(p)
    PROVE  OnceInv(p)' /\ NoneStarted
<1> DEFINE z == Reattached(p, Load(View(p), Tasks))
           S == Dropped(z)
           y == FinishAll(z, S, "dropped")
           E == (early \cup lost)'
<1>1. /\ Runs(p, "recover") /\ Commit(p, y) /\ UNCHANGED <<up, enqueued, early, attached>>
      /\ lost' = lost \cup {t \in S : \E q \in Processes : Unanswered(q, t)}
  BY DEF RunRecover
<1>2. /\ z \in Views /\ ViewInv(z, enqueued, early \cup lost) /\ z.rows = rows /\ z.process = p
      /\ \A t \in S : t \notin early \cup lost /\ ~Unanswered(p, t) => Free(z, t)
  BY <1>1, Recovering
<1> HIDE DEF z, S
<1>3. early \cup lost \subseteq E
  BY <1>1
<1>4. \A t \in Tasks : t \in S \ E => Free(z, t)
  BY <1>1, <1>2
<1> HIDE DEF E
<1>5. ViewInv(z, enqueued, E)
  BY <1>2, <1>3, ViewInvMore
<1>6. S \in SUBSET Tasks
  BY DEF S, Dropped
<1>9. /\ y \in Views /\ y.process = p /\ ViewInv(y, enqueued, E)
      /\ \A u \in Tasks : y.rows[u].state = "running" => z.rows[u].state = "running"
  BY <1>2, <1>4, <1>5, <1>6, FinishAllKeeps, FinishAllIn DEF Responses
<1> HIDE DEF y
<1>10. QED
  BY <1>1, <1>2, <1>9, WideBlockEnds DEF E

\* The view that -_schedule works on.
Scheduling(p) == Load([View(p) EXCEPT !.needs = FALSE], Tasks)

LEMMA SchedulingIs ==
    ASSUME TypeInv, NEW p \in Processes, OnceInv(p), NEW op, Runs(p, op)
    PROVE  /\ [View(p) EXCEPT !.needs = FALSE] \in Views /\ Scheduling(p) \in Views
           /\ ViewInv([View(p) EXCEPT !.needs = FALSE], enqueued, early \cup lost)
           /\ ViewInv(Scheduling(p), enqueued, early \cup lost)
           /\ [View(p) EXCEPT !.needs = FALSE].rows = rows /\ [View(p) EXCEPT !.needs = FALSE].process = p
           /\ Scheduling(p).rows = rows /\ Scheduling(p).process = p
           /\ Scheduling(p).attached <=> p \in attached
<1> DEFINE v == View(p)
           x == [v EXCEPT !.needs = FALSE]
           y == Load(x, Tasks)
<1>1. v \in Views /\ ViewInv(v, enqueued, early \cup lost) /\ v.rows = rows /\ v.process = p
  BY BlockBegins, WholeIs
<1>2. v.attached <=> p \in attached
  BY DEF View
<1> HIDE DEF v
<1>3. x \in Views
  BY <1>1 DEF Views
<1>4. /\ x.rows = v.rows /\ x.wire = v.wire /\ x.objects = v.objects /\ x.queue = v.queue
      /\ x.busy = v.busy /\ x.delivered = v.delivered /\ x.torn = v.torn /\ x.process = v.process /\ x.attached = v.attached
  BY <1>1 DEF Views
<1> HIDE DEF x
<1>5. Quiet(v, x)
  BY <1>4 DEF Quiet, Apart, Longer
<1>6. ViewInv(x, enqueued, early \cup lost)
  BY <1>1, <1>5, QuietInv
<1>7. y \in Views /\ Recached(x, y) /\ y.rows = x.rows /\ y.attached = x.attached
  BY <1>3, LoadIn, LoadAt
<1>8. ViewInv(y, enqueued, early \cup lost) /\ y.process = x.process
  BY <1>6, <1>7, RecachedInv DEF Recached
<1>9. QED
  BY <1>1, <1>2, <1>3, <1>4, <1>6, <1>7, <1>8 DEF Scheduling, x, v

LEMMA PendingRow ==
    ASSUME NEW w, NEW t \in Tasks, NEW s, Coherent(w, t)
    PROVE  /\ t \in InState(w, s) => IsStored(w, t) /\ w.rows[t].state = s
           /\ t \in Relevant(w) /\ w.rows[t].state = s => t \in InState(w, s)
<1>1. IsStored(w, t) => Loaded(w, t).state = w.rows[t].state
  BY LoadedFits DEF Fits
<1>2. t \in Relevant(w) => IsStored(w, t)
  BY DEF Relevant
<1>3. QED
  BY <1>1, <1>2 DEF InState

\* Nothing is under way for a pending task.
LEMMA FailingFree ==
    ASSUME NEW w \in Views, NEW n, NEW E, ViewInv(w, n, E), NEW t \in Unblocked(w), t \notin E
    PROVE  Free(w, t)
<1>1. t \in Tasks /\ t \in InState(w, "pending")
  BY DEF Unblocked, InState, Relevant
<1>2. Coherent(w, t) /\ Sound(w, n, t)
  BY <1>1 DEF ViewInv
<1>3. IsStored(w, t) /\ w.rows[t].state = "pending"
  BY <1>1, <1>2, PendingRow
<1>4. QED
  BY <1>2, <1>3 DEF Sound, Attempts, Free

\* The tasks that are started: the first of the ordered ones.
Chosen(s) == SubSeq(s, 1, IF Len(s) < Slots THEN Len(s) ELSE Slots)

Begins(c, s) == \A i \in 1 .. Len(c) : c[i] = s[i]

LEMMA ChosenAre ==
    ASSUME NEW S \in SUBSET Tasks, NEW p, NEW s \in Ordered(p, S), limit \in Nat, NEW c, c = Chosen(s)
    PROVE  /\ s \in Seq(Tasks) /\ Len(s) = Cardinality(S) /\ ToSet(s) = S
           /\ c \in Seq(Tasks) /\ Len(c) \in Nat /\ Len(c) <= Len(s)
           /\ \A i \in 1 .. Len(c) : c[i] \in S
           /\ Distinct(c) /\ Distinct(s) /\ Begins(c, s)
           /\ \A i, j \in 1 .. Len(s) : i < j => Position(p, S, s[i]) <= Position(p, S, s[j])
           /\ \A t : t \in ToSet(c) <=> \E i \in 1 .. Len(c) : c[i] = t
<1>1. IsFiniteSet(Tasks) /\ IsFiniteSet(S) /\ Cardinality(S) \in Nat
  <2>1. IsFiniteSet(Tasks)
    BY FS_Interval, PipelineAssumption DEF Tasks
  <2>2. IsFiniteSet(S)
    BY <2>1, FS_Subset
  <2>3. QED
    BY <2>1, <2>2, FS_CardinalityType
<1> DEFINE m == Cardinality(S)
           k == IF Len(s) < Slots THEN Len(s) ELSE Slots
<1>2. /\ s \in [1 .. m -> S]
      /\ \A i, j \in 1 .. m : i # j => s[i] # s[j]
      /\ \A i, j \in DOMAIN s : i < j => Position(p, S, s[i]) <= Position(p, S, s[j])
  BY DEF Ordered, SetToSeqs, IsInjective
<1>3. m \in Nat
  BY <1>1
<1> HIDE DEF m
<1>4. s \in Seq(Tasks) /\ Len(s) = m /\ DOMAIN s = 1 .. Len(s)
  BY <1>2, <1>3
<1>5. Slots \in Nat
  <2>1. RunningRows \in SUBSET Tasks
    BY DEF RunningRows
  <2>2. IsFiniteSet(RunningRows)
    BY <1>1, <2>1, FS_Subset
  <2>3. QED
    BY <2>2, FS_CardinalityType, PipelineAssumption DEF Slots
<1>6. k \in Nat /\ k <= Len(s)
  BY <1>3, <1>4, <1>5
<1> HIDE DEF k
<1>7. c \in Seq(Tasks) /\ Len(c) = k /\ \A i \in 1 .. k : c[i] = s[i]
  BY <1>4, <1>6 DEF k, Chosen
<1>8. \A i \in 1 .. k : i \in 1 .. Len(s) /\ c[i] = s[i] /\ c[i] \in S
  BY <1>2, <1>3, <1>4, <1>6, <1>7
<1>9. \A i, j \in 1 .. k : c[i] = c[j] => i = j
  BY <1>2, <1>4, <1>8
<1>10. ToSet(s) = S
  <2>1. ToSet(s) \subseteq S
    BY <1>2 DEF ToSet
  <2>2. s \in Injection(1 .. m, S)
    BY <1>2 DEF Injection, IsInjective
  <2>3. Cardinality(1 .. m) = m
    BY <1>3, FS_Interval
  <2>4. s \in Surjection(1 .. m, S)
    BY <1>1, <2>2, <2>3, FS_Injection DEF m
  <2>5. \A t \in S : \E i \in 1 .. m : s[i] = t
    BY <2>4 DEF Surjection
  <2>6. \A t \in S : t \in ToSet(s)
    BY <1>4, <2>5 DEF ToSet
  <2>7. QED
    BY <2>1, <2>6
<1>11. \A t : t \in ToSet(c) <=> \E i \in 1 .. Len(c) : c[i] = t
  <2>1. DOMAIN c = 1 .. Len(c)
    BY <1>7
  <2>2. QED
    BY <2>1 DEF ToSet
<1>12. QED
  BY <1>1, <1>2, <1>4, <1>6, <1>7, <1>8, <1>9, <1>10, <1>11 DEF m, Distinct, Begins

\* Besides what a step of this block keeps: what it starts could be started.
LEMMA ScheduleOnce ==
    ASSUME TypeInv, NEW p \in Processes, OnceInv(p), RunSchedule(p)
    PROVE  /\ OnceInv(p)'
           /\ \A u \in Tasks : rows'[u].state = "running" =>
                rows[u].state = "running" \/ u \in Schedulable(Scheduling(p))
<1> DEFINE v == [View(p) EXCEPT !.needs = FALSE]
           all == Scheduling(p)
           E == (early \cup lost)'
<1>1. /\ Runs(p, "schedule")
      /\ UNCHANGED <<attached, up, signal, enqueued, lost, limit, budget>>
      /\ \/ Commit(p, v) /\ UNCHANGED <<recent, early, passed>>
         \/ Commit(p, all) /\ UNCHANGED <<recent, early, passed>>
         \/ Commit(p, FinishAll(all, Unblocked(all), "result")) /\ UNCHANGED <<recent, early, passed>>
         \/ StartTasks(p, all, Schedulable(all))
  BY DEF RunSchedule, Scheduling
<1>2. /\ v \in Views /\ all \in Views
      /\ ViewInv(v, enqueued, early \cup lost) /\ ViewInv(all, enqueued, early \cup lost)
      /\ v.rows = rows /\ v.process = p /\ all.rows = rows /\ all.process = p
  BY <1>1, SchedulingIs
<1> HIDE DEF v, all
<1>3. CASE (Commit(p, v) \/ Commit(p, all)) /\ early' = early
  BY <1>1, <1>2, <1>3, WideBlockEnds DEF NoneStarted
<1>4. CASE Commit(p, FinishAll(all, Unblocked(all), "result")) /\ early' = early
  <2> DEFINE S == Unblocked(all)
             y == FinishAll(all, S, "result")
  <2>1. S \in SUBSET Tasks /\ \A t \in Tasks : t \in S \ (early \cup lost) => Free(all, t)
    BY <1>2, FailingFree DEF Unblocked, InState, Relevant
  <2> HIDE DEF S
  <2>2. /\ y \in Views /\ y.process = p /\ ViewInv(y, enqueued, early \cup lost)
        /\ \A u \in Tasks : y.rows[u].state = "running" => all.rows[u].state = "running"
    BY <1>2, <2>1, FinishAllKeeps, FinishAllIn DEF Responses
  <2>3. Commit(p, y)
    BY <1>4 DEF S
  <2> HIDE DEF y
  <2>4. OnceInv(p)' /\ NoneStarted
    BY <1>1, <1>2, <1>4, <2>2, <2>3, WideBlockEnds
  <2>5. QED
    BY <2>4 DEF NoneStarted
<1>5. CASE StartTasks(p, all, Schedulable(all))
  <2> DEFINE S == Schedulable(all)
  <2>1. S \in SUBSET Tasks /\ limit \in Nat
    BY TypeParts DEF Schedulable, InState, Relevant, OuterTyped
  <2>2. \A t \in S : all.rows[t].state = "pending"
    BY <1>2, <2>1, PendingRow DEF Schedulable, ViewInv
  <2>3. PICK s \in Ordered(p, S) :
          LET chosen == SubSeq(s, 1, IF Len(s) < Slots THEN Len(s) ELSE Slots)
              started == ToSet(chosen)
          IN /\ Commit(p, ScheduleAll(all, chosen))
             /\ early' = early \cup Unstartable(all, started)
    BY <1>5 DEF StartTasks
  <2> DEFINE c == Chosen(s)
             y == ScheduleAll(all, c)
  <2>4. /\ s \in Ordered(p, S) /\ Commit(p, y)
        /\ early' = early \cup Unstartable(all, ToSet(c))
    BY <2>3 DEF Chosen
  <2> HIDE DEF S, c
  <2>5. /\ c \in Seq(Tasks)
        /\ \A i \in 1 .. Len(c) : c[i] \in S /\ c[i] \in ToSet(c)
        /\ Distinct(c)
    <3>1. c = Chosen(s)
      BY DEF c
    <3>2. c \in Seq(Tasks)
      BY <2>1, <2>4, <3>1, ChosenAre
    <3>3. \A i \in 1 .. Len(c) : c[i] \in S
      BY <2>1, <2>4, <3>1, ChosenAre
    <3>4. Distinct(c)
      BY <2>1, <2>4, <3>1, ChosenAre
    <3>5. \A t : t \in ToSet(c) <=> \E i \in 1 .. Len(c) : c[i] = t
      BY <3>2 DEF ToSet
    <3>6. QED
      BY <3>2, <3>3, <3>4, <3>5
  <2>6. early \cup lost \subseteq E
    BY <1>1, <2>4
  <2>7. \A i \in 1 .. Len(c) : c[i] \notin E =>
          all.rows[c[i]].state = "pending" /\ ~Loaded(all, c[i]).cancelled /\ c[i] \notin Broken
    BY <2>2, <2>4, <2>5 DEF Unstartable
  <2> HIDE DEF E
  <2>8. ViewInv(all, enqueued, E)
    BY <1>2, <2>6, ViewInvMore
  <2>9. /\ y \in Views /\ y.process = p /\ ViewInv(y, enqueued, E)
        /\ \A u \in Tasks : y.rows[u].state = "running" =>
              all.rows[u].state = "running" \/ \E i \in 1 .. Len(c) : c[i] = u
    BY <1>2, <2>5, <2>7, <2>8, ScheduleAllKeeps, ScheduleAllIn
  <2> HIDE DEF y
  <2>10. OnceInv(p)' /\ rows' = y.rows
    BY <1>1, <2>4, <2>9, BlockEnds DEF E
  <2>11. QED
    BY <1>2, <2>5, <2>9, <2>10 DEF S, all
<1>6. QED
  BY <1>1, <1>3, <1>4, <1>5

LEMMA RunBlockOnce ==
    ASSUME TypeInv, NEW p \in Processes, OnceInv(p), RunBlock(p)
    PROVE  /\ OnceInv(p)'
           /\ NoneStarted \/ RunSchedule(p)
<1>1. ASSUME RunCancel(p) \/ RunCancelNonCritical(p) PROVE OnceInv(p)' /\ NoneStarted
  BY <1>1, CancelOnce DEF RunCancel, RunCancelNonCritical
<1>2. QED
  BY <1>1, ScheduleOnce, AddOnce, FailOnce, CompleteOnce, FinishOnce, AttachOnce, DetachOnce,
     DeliverOnce, RetryOnce, FinishPendingOnce, RecoverOnce DEF RunBlock

-----------------------------------------------------------------------------
(* The steps that are not blocks.                                          *)

LEMMA OneMoreLonger ==
    ASSUME NEW q, NEW r, NEW b, OneMore(q, r, b), NEW t, b.op \notin Concerns \/ b.task # t
    PROVE  Longer(q, r, t)
  BY DEF OneMore, Longer

LEMMA OneMoreRecovers ==
    ASSUME NEW q, NEW r, NEW b, OneMore(q, r, b), b.op # "recover", b.op # "finish", RecoverFirst(q)
    PROVE  RecoverFirst(r)
  BY DEF OneMore, RecoverFirst

\* Blocks that concern no task were added to the queue.
LEMMA AroundQuiet ==
    ASSUME NEW p, OnceInv(p), \A t \in Tasks : Longer(queue[p], queue'[p], t), RecoverFirst(queue'[p]),
           UNCHANGED <<rows, wire, objects, busy, delivered, torn, enqueued, early, lost>>,
           p \notin up' => queue'[p] = <<>>, attached' \subseteq up'
    PROVE  OnceInv(p)'
<1> DEFINE w == Whole(p)
           v == Whole(p)'
<1>1. /\ v.rows = w.rows /\ v.wire = w.wire /\ v.objects = w.objects /\ v.queue = queue'[p]
      /\ v.busy = w.busy /\ v.delivered = w.delivered /\ v.torn = w.torn /\ v.process = w.process /\ w.queue = queue[p]
  BY DEF Whole, View
<1> HIDE DEF w, v
<1>2. \A t \in Tasks : Apart(w, v, t)
  BY <1>1 DEF Apart
<1>3. \A t \in Tasks : Coherent(v, t)
  BY <1>1 DEF OnceInv, Coherent, IsStored, IsCached, w
<1>4. \A t \in Tasks \ (early \cup lost) : Sound(v, enqueued, t)
  BY <1>2, ApartSound DEF OnceInv, w
<1>5. (\A t \in Tasks : Coherent(Whole(p), t))'
  BY <1>3 DEF v
<1>6. (\A t \in Tasks \ (early \cup lost) : Sound(Whole(p), enqueued, t))'
  BY <1>4 DEF v
<1>7. QED
  BY <1>5, <1>6 DEF OnceInv

LEMMA PostQuiet ==
    ASSUME TypeInv, NEW p \in Processes, OnceInv(p), NEW b \in TaskBlocks, Post(p, b),
           b.op \notin Concerns, b.op # "recover", p \in up,
           UNCHANGED <<rows, wire, objects, busy, delivered, torn, enqueued, early, lost, up, attached>>
    PROVE  OnceInv(p)'
<1>1. queue[p] \in Seq(TaskBlocks)
  BY TypeParts DEF ViewTyped
<1>2. queue'[p] = Append(queue[p], b)
  BY TypeParts DEF Post, ViewTyped
<1>3. OneMore(queue[p], queue'[p], b)
  BY <1>1, <1>2, AppendAt
<1>4. \A t \in Tasks : Longer(queue[p], queue'[p], t)
  BY <1>3, OneMoreLonger
<1>5. RecoverFirst(queue'[p])
  BY <1>3, OneMoreRecovers DEF OnceInv, Concerns
<1>6. attached' \subseteq up' /\ p \in up'
  BY DEF OnceInv
<1>7. QED
  BY <1>4, <1>5, <1>6, AroundQuiet

LEMMA StartOnce ==
    ASSUME TypeInv, NEW p \in Processes, OnceInv(p), Start(p)
    PROVE  OnceInv(p)'
<1> DEFINE b == Block("recover", 0, None)
<1>1. b \in TaskBlocks /\ b.op = "recover"
  BY BlockIn DEF Operations, TaskOps
<1>2. queue[p] = <<>> /\ queue[p] \in Seq(TaskBlocks)
  BY TypeParts DEF OnceInv, Start, ViewTyped
<1>3. queue'[p] = Append(queue[p], b)
  BY TypeParts DEF Start, Post, ViewTyped
<1> HIDE DEF b
<1>4. OneMore(queue[p], queue'[p], b)
  BY <1>1, <1>2, <1>3, AppendAt
<1>5. \A t \in Tasks : Longer(queue[p], queue'[p], t)
  BY <1>1, <1>4, OneMoreLonger DEF Concerns
<1>6. queue'[p] = <<b>>
  BY <1>2, <1>3
<1>7. RecoverFirst(queue'[p])
  BY <1>1, <1>6 DEF RecoverFirst
<1>8. p \in up' /\ attached' \subseteq up'
  BY DEF Start, OnceInv
<1>9. QED
  BY <1>5, <1>7, <1>8, AroundQuiet DEF Start, history

LEMMA DetachPosts ==
    ASSUME TypeInv, NEW p \in Processes, OnceInv(p), Detach(p)
    PROVE  OnceInv(p)'
<1> DEFINE a == Block("cancelNonCritical", 0, None)
           b == Block("detach", 0, None)
           q == queue[p]
           r == Append(q, a)
<1>1. a \in TaskBlocks /\ a.op = "cancelNonCritical" /\ b \in TaskBlocks /\ b.op = "detach"
  BY BlockIn DEF Operations, TaskOps
<1>2. q \in Seq(TaskBlocks)
  BY TypeParts DEF ViewTyped
<1>3. queue'[p] = q \o <<a, b>>
  BY TypeParts DEF Detach, ViewTyped
<1> HIDE DEF a, b, q
<1>4. queue'[p] = Append(r, b)
  BY <1>1, <1>2, <1>3
<1>5. r \in Seq(TaskBlocks) /\ OneMore(q, r, a)
  BY <1>1, <1>2, AppendAt
<1> HIDE DEF r
<1>6. OneMore(r, queue'[p], b)
  BY <1>1, <1>4, <1>5, AppendAt
<1>7. ASSUME NEW t \in Tasks PROVE Longer(q, queue'[p], t)
  <2>1. Longer(q, r, t) /\ Longer(r, queue'[p], t)
    BY <1>1, <1>5, <1>6, OneMoreLonger DEF Concerns
  <2>2. QED
    BY <2>1 DEF Longer
<1>8. RecoverFirst(queue'[p])
  <2>1. RecoverFirst(r)
    BY <1>1, <1>5, OneMoreRecovers DEF OnceInv, q
  <2>2. QED
    BY <1>1, <1>6, <2>1, OneMoreRecovers
<1>9. attached' \subseteq up' /\ p \in up'
  BY DEF OnceInv, Detach, OnlyQueue
<1>10. QED
  BY <1>7, <1>8, <1>9, AroundQuiet DEF q, Detach, OnlyQueue


\* More tasks were enqueued.
LEMMA SoundMore ==
    ASSUME NEW w, NEW t \in Tasks, NEW n \in Nat, NEW m \in Nat, n <= m, Sound(w, n, t)
    PROVE  Sound(w, m, t)
<1>1. t \in Nat
  BY PipelineAssumption DEF Tasks
<1>2. (New(w, m, t) => New(w, n, t)) /\ (At(w.queue, "add", t) # {} => t <= m)
  BY <1>1 DEF New, Sound
<1>3. QED
  BY <1>2 DEF Sound

\* A block about t was added to the queue.
LEMMA AroundTask ==
    ASSUME TypeInv, NEW p \in Processes, OnceInv(p), NEW t \in Tasks, NEW b,
           OneMore(queue[p], queue'[p], b), b.task = t, b.op # "recover", b.op # "finish",
           \A s : s.task # t => (s \in wire' <=> s \in wire),
           UNCHANGED <<rows, objects, busy, delivered, torn, early, lost, up, attached>>, p \in up,
           enqueued' \in Nat, enqueued <= enqueued',
           t \notin early \cup lost => Sound(Whole(p)', enqueued', t)
    PROVE  OnceInv(p)'
<1> DEFINE w == Whole(p)
           v == Whole(p)'
<1>1. /\ v.rows = w.rows /\ v.wire = wire' /\ w.wire = wire /\ v.objects = w.objects /\ v.queue = queue'[p]
      /\ v.busy = w.busy /\ v.delivered = w.delivered /\ v.torn = w.torn /\ v.process = w.process /\ w.queue = queue[p]
  BY DEF Whole, View
<1> HIDE DEF w, v
<1>2. ASSUME NEW u \in Tasks \ {t} PROVE Apart(w, v, u)
  <2>1. Longer(queue[p], queue'[p], u)
    BY <1>2, OneMoreLonger
  <2>2. QED
    BY <1>1, <1>2, <2>1 DEF Apart
<1>3. \A u \in Tasks : Coherent(v, u)
  BY <1>1 DEF OnceInv, Coherent, IsStored, IsCached, w
<1>4. ASSUME NEW u \in Tasks \ (early \cup lost) PROVE Sound(v, enqueued', u)
  <2>1. CASE u = t
    BY <1>4, <2>1 DEF v
  <2>2. CASE u # t
    <3>1. Sound(w, enqueued, u)
      BY <1>4 DEF OnceInv, w
    <3>2. Sound(v, enqueued, u)
      BY <1>2, <1>4, <2>2, <3>1, ApartSound
    <3>3. enqueued \in Nat /\ enqueued' \in Nat /\ enqueued <= enqueued'
      BY TypeParts DEF OuterTyped
    <3>4. QED
      BY <1>4, <3>2, <3>3, SoundMore
  <2>3. QED
    BY <2>1, <2>2
<1>5. RecoverFirst(queue'[p])
  BY OneMoreRecovers DEF OnceInv
<1>6. (\A u \in Tasks : Coherent(Whole(p), u))'
  BY <1>3 DEF v
<1>7. (\A u \in Tasks \ (early \cup lost) : Sound(Whole(p), enqueued, u))'
  BY <1>4 DEF v
<1>8. QED
  BY <1>5, <1>6, <1>7 DEF OnceInv

LEMMA EnqueueOnce ==
    ASSUME TypeInv, NEW p \in Processes, OnceInv(p), Enqueue(p)
    PROVE  OnceInv(p)'
<1> DEFINE t == enqueued + 1
           b == Block("add", t, None)
           w == Whole(p)
           v == Whole(p)'
           k == Len(queue[p]) + 1
<1>1. ViewTyped /\ OuterTyped
  BY TypeParts
<1>2. /\ budget["tasks"] > 0 /\ enqueued' = t /\ Post(p, b) /\ p \in up
      /\ UNCHANGED <<rows, wire, objects, busy, delivered, torn, early, lost, up, attached>>
  BY DEF Enqueue, Spend, OnlyQueue
<1>3. t \in Tasks /\ enqueued \in Nat /\ t \in Nat /\ enqueued <= t /\ t > enqueued
  BY <1>1, <1>2, PipelineAssumption DEF OuterTyped, Bounded, Tasks
<1>4. b \in TaskBlocks /\ b.op = "add" /\ b.task = t
  BY <1>3, BlockIn DEF Operations
<1>5. queue[p] \in Seq(TaskBlocks) /\ queue'[p] = Append(queue[p], b)
  BY <1>1, <1>2 DEF Post, ViewTyped
<1> HIDE DEF t, b
<1>6. OneMore(queue[p], queue'[p], b)
  BY <1>4, <1>5, AppendAt
<1>7. /\ v.rows = w.rows /\ v.wire = w.wire /\ v.queue = queue'[p] /\ w.queue = queue[p]
      /\ v.busy = w.busy /\ v.delivered = w.delivered /\ v.torn = w.torn
  BY <1>2 DEF Whole, View
<1>8. ASSUME t \notin early \cup lost PROVE Sound(v, t, t)
  <2>1. Sound(w, enqueued, t)
    BY <1>3, <1>8 DEF OnceInv
  <2> HIDE DEF w, v, k
  <2>2. At(w.queue, "add", t) = {}
    BY <1>3, <2>1 DEF Sound
  <2>3. Unborn(w, t)
    BY <1>3, <2>1 DEF Sound, New
  <2>4. /\ At(v.queue, "add", t) = At(w.queue, "add", t) \cup {k}
        /\ At(v.queue, "complete", t) = At(w.queue, "complete", t)
        /\ At(v.queue, "finish", t) = At(w.queue, "finish", t)
        /\ At(v.queue, "retry", t) = At(w.queue, "retry", t)
        /\ At(v.queue, "fail", t) = At(w.queue, "fail", t)
    <3>1. OneMore(w.queue, v.queue, b) /\ k = Len(w.queue) + 1
      BY <1>6, <1>7 DEF k
    <3>2. At(v.queue, "add", t) = At(w.queue, "add", t) \cup {k}
      <4>1. OneMore(w.queue, v.queue, b) /\ b.op = "add" /\ b.task = t
        BY <1>4, <3>1
      <4>2. At(v.queue, "add", t) = At(w.queue, "add", t) \cup {Len(w.queue) + 1}
        BY <4>1, OneMoreElse
      <4>3. QED
        BY <3>1, <4>2
    <3>3. ASSUME NEW op, op # "add" PROVE At(v.queue, op, t) = At(w.queue, op, t)
      BY <1>4, <3>1, <3>3, OneMoreElse
    <3>4. QED
      BY <3>2, <3>3
  <2>5. AtMostOne({}) /\ AtMostOne({k}) /\ At(v.queue, "add", t) = {k}
    BY <2>2, <2>4 DEF AtMostOne
  <2>6. Unborn(v, t)
    BY <1>7, <2>3, <2>4 DEF Unborn, IsStored
  <2>7. /\ v.delivered[t] = v.torn[t] /\ ~IsStored(v, t) /\ At(v.queue, "finish", t) = {}
        /\ \A s \in v.wire : s.task # t
    BY <2>6 DEF Unborn
  <2>8. /\ t \in v.busy => v.rows[t].state = "completed"
        /\ At(v.queue, "retry", t) # {} => t \in v.busy
        /\ AtMostOne(At(v.queue, "retry", t))
        /\ At(v.queue, "fail", t) = {}
    BY <1>7, <2>1, <2>4 DEF Sound
  <2>9. t <= t
    BY <1>3
  <2>10. QED
    BY <2>5, <2>6, <2>7, <2>8, <2>9 DEF Sound
<1>9. t \notin early \cup lost => Sound(Whole(p)', enqueued', t)
  BY <1>2, <1>8
<1> HIDE DEF w, v
<1>10. QED
  BY <1>2, <1>3, <1>4, <1>6, <1>9, AroundTask

LEMMA EvaluateOnce ==
    ASSUME TypeInv, NEW p \in Processes, OnceInv(p), NEW t \in Tasks, Evaluate(p, t)
    PROVE  OnceInv(p)'
<1> DEFINE b == Block("retry", t, "result")
           w == Whole(p)
           v == Whole(p)'
           k == Len(queue[p]) + 1
<1>1. ViewTyped /\ OuterTyped
  BY TypeParts
<1>2. /\ Post(p, b) /\ p \in up /\ t \in busy[p]
      /\ UNCHANGED <<rows, wire, objects, busy, delivered, torn, enqueued, early, lost, up, attached>>
      /\ \A c \in ToSet(queue[p]) : ~(c.op = "retry" /\ c.task = t)
  BY DEF Evaluate, OnlyQueue
<1>3. b \in TaskBlocks /\ b.op = "retry" /\ b.task = t
  BY BlockIn DEF Operations, Responses
<1>4. queue[p] \in Seq(TaskBlocks) /\ queue'[p] = Append(queue[p], b)
  BY <1>1, <1>2 DEF Post, ViewTyped
<1>5. At(queue[p], "retry", t) = {}
  BY <1>2, <1>4 DEF At, ToSet
<1> HIDE DEF b
<1>6. OneMore(queue[p], queue'[p], b)
  BY <1>3, <1>4, AppendAt
<1>7. /\ v.rows = w.rows /\ v.wire = w.wire /\ v.queue = queue'[p] /\ w.queue = queue[p]
      /\ v.busy = w.busy /\ v.delivered = w.delivered /\ v.torn = w.torn /\ v.process = w.process /\ w.busy = busy[p]
  BY <1>2 DEF Whole, View
<1>8. ASSUME t \notin early \cup lost PROVE Sound(v, enqueued, t)
  <2>1. Sound(w, enqueued, t)
    BY <1>8 DEF OnceInv
  <2> HIDE DEF w, v, k
  <2>2. /\ At(v.queue, "add", t) = At(w.queue, "add", t)
        /\ At(v.queue, "complete", t) = At(w.queue, "complete", t)
        /\ At(v.queue, "finish", t) = At(w.queue, "finish", t)
        /\ At(v.queue, "retry", t) = At(w.queue, "retry", t) \cup {k}
        /\ At(v.queue, "fail", t) = At(w.queue, "fail", t)
    <3>1. OneMore(w.queue, v.queue, b) /\ k = Len(w.queue) + 1
      BY <1>6, <1>7 DEF k
    <3>2. At(v.queue, "retry", t) = At(w.queue, "retry", t) \cup {k}
      BY <1>3, <3>1, OneMoreElse
    <3>3. QED
      BY <1>3, <3>1, <3>2, OneMoreElse
  <2>3. /\ \A a : Ends(v.queue, t, a) = Ends(w.queue, t, a)
        /\ \A i \in At(w.queue, "complete", t) : v.queue[i] = w.queue[i]
    BY <1>3, <1>6, <1>7, OneMoreElse
  <2>4. At(v.queue, "retry", t) = {k} /\ AtMostOne({k})
    BY <1>5, <1>7, <2>2 DEF AtMostOne
  <2>5. /\ \A a : Sent(v, t, a) <=> Sent(w, t, a)
        /\ IsStored(v, t) <=> IsStored(w, t)
        /\ New(v, enqueued, t) <=> New(w, enqueued, t)
    BY <1>7, <2>2 DEF Sent, IsStored, New
  <2>6. Unsettled(v, t) <=> Unsettled(w, t)
    BY <1>7, <2>3, <2>5 DEF Unsettled
  <2>7. (Attempts(w, t) => Attempts(v, t)) /\ (Unborn(w, t) => Unborn(v, t))
    BY <1>7, <2>2, <2>3, <2>5, <2>6 DEF Attempts, Unborn
  <2>8. QED
    BY <1>2, <1>7, <2>1, <2>2, <2>4, <2>5, <2>6, <2>7 DEF Sound
<1>9. t \notin early \cup lost => Sound(Whole(p)', enqueued', t)
  BY <1>2, <1>8
<1>10. enqueued' \in Nat /\ enqueued <= enqueued'
  BY <1>1, <1>2 DEF OuterTyped
<1> HIDE DEF w, v
<1>11. QED
  BY <1>2, <1>3, <1>6, <1>9, <1>10, AroundTask

\* The session tells the end of a task once: from then on the block tells it.
LEMMA SessionCompletesOnce ==
    ASSUME TypeInv, NEW p \in Processes, OnceInv(p), NEW s \in wire, s.process = p,
           NEW r \in {"result", "unverified", "offline"}, SessionCompletes(s, r)
    PROVE  OnceInv(p)'
<1> DEFINE t == s.task
           b == [op |-> "complete", task |-> t, attempt |-> s.attempt, response |-> r]
           w == Whole(p)
           v == Whole(p)'
           k == Len(queue[p]) + 1
<1>1. ViewTyped /\ OuterTyped
  BY TypeParts
<1>2. /\ Post(p, b) /\ p \in up /\ wire' = wire \ {s}
      /\ UNCHANGED <<rows, objects, busy, delivered, torn, enqueued, early, lost, up, attached>>
  BY DEF SessionCompletes, history
<1>3. s \in SessionTasks
  BY <1>1 DEF ViewTyped
<1>4. /\ t \in Tasks /\ s.attempt \in Nat
      /\ s.noted = TRUE => s = [task |-> t, attempt |-> s.attempt, process |-> p, noted |-> TRUE]
  BY <1>3 DEF SessionTasks
<1>5. b \in TaskBlocks /\ b.op = "complete" /\ b.task = t /\ b.attempt = s.attempt
  BY <1>4 DEF TaskBlocks, Blocks, TaskOps, Operations, Responses
<1> HIDE DEF b
<1>6. queue[p] \in Seq(TaskBlocks) /\ queue'[p] = Append(queue[p], b)
  BY <1>1, <1>2 DEF Post, ViewTyped
<1>7. OneMore(queue[p], queue'[p], b)
  BY <1>5, <1>6, AppendAt
<1>8. /\ v.rows = w.rows /\ v.wire = w.wire \ {s} /\ v.queue = queue'[p] /\ w.queue = queue[p]
      /\ v.busy = w.busy /\ v.delivered = w.delivered /\ v.torn = w.torn /\ v.process = p /\ w.process = p
      /\ w.wire = wire /\ w.rows = rows
  BY <1>2 DEF Whole, View
<1>9. ASSUME t \notin early \cup lost PROVE Sound(v, enqueued, t)
  <2> DEFINE a == w.rows[t].attempt
  <2>1. Sound(w, enqueued, t)
    BY <1>4, <1>9 DEF OnceInv
  <2> HIDE DEF t, w, v, k
  <2>2. s \in w.wire /\ s.task = t /\ s.noted = TRUE
    <3>1. s \in w.wire /\ s.task = t /\ s.noted \in BOOLEAN
      BY <1>3, <1>8 DEF t, SessionTasks
    <3>2. s.noted
      BY <2>1, <3>1 DEF Sound
    <3>3. QED
      BY <3>1, <3>2
  <2>3. /\ At(v.queue, "add", t) = At(w.queue, "add", t)
        /\ At(v.queue, "complete", t) = At(w.queue, "complete", t) \cup {k}
        /\ At(v.queue, "finish", t) = At(w.queue, "finish", t)
        /\ At(v.queue, "retry", t) = At(w.queue, "retry", t)
        /\ At(v.queue, "fail", t) = At(w.queue, "fail", t)
    <3>1. OneMore(w.queue, v.queue, b) /\ k = Len(w.queue) + 1
      BY <1>7, <1>8 DEF k
    <3>2. At(v.queue, "complete", t) = At(w.queue, "complete", t) \cup {k}
      BY <1>5, <3>1, OneMoreElse
    <3>3. QED
      BY <1>5, <3>1, <3>2, OneMoreElse
  <2>4. /\ \A i \in At(w.queue, "complete", t) : v.queue[i] = w.queue[i]
        /\ v.queue[k] = b
    <3>1. OneMore(w.queue, v.queue, b) /\ k = Len(w.queue) + 1
      BY <1>7, <1>8 DEF k
    <3>2. v.queue[k] = b
      BY <3>1 DEF OneMore
    <3>3. QED
      BY <3>1, <3>2, OneMoreElse
  <2>5. Ends(v.queue, t, a) = Ends(w.queue, t, a) \cup (IF s.attempt = a THEN {k} ELSE {})
    BY <1>5, <1>7, <1>8, OneMoreAt DEF k
  <2>6. ~New(w, enqueued, t)
    BY <2>1, <2>2 DEF Sound, Unborn
  <2>7. ~New(v, enqueued, t)
    BY <2>3, <2>6 DEF New
  <2>8. s.attempt = a <=> Sent(w, t, a) /\ ~Sent(v, t, a)
    <3> DEFINE e == [task |-> t, attempt |-> a, process |-> p, noted |-> TRUE]
    <3>1. s.attempt = a <=> s = e
      <4>1. s = [task |-> t, attempt |-> s.attempt, process |-> p, noted |-> TRUE]
        BY <1>4, <2>2 DEF t
      <4>2. e.attempt = a
        OBVIOUS
      <4>3. QED
        BY <4>1, <4>2
    <3>2. (Sent(w, t, a) <=> e \in w.wire) /\ (Sent(v, t, a) <=> e \in v.wire)
      BY <1>8 DEF Sent
    <3> HIDE DEF e
    <3>3. s \in w.wire /\ v.wire = w.wire \ {s}
      BY <1>8, <2>2
    <3>4. QED
      BY <3>1, <3>2, <3>3
  <2>9. Sent(v, t, a) => Sent(w, t, a) /\ s.attempt # a
    BY <1>4, <1>8, <2>2 DEF Sent, t
  <2>10. IsStored(v, t) <=> IsStored(w, t)
    BY <1>8 DEF IsStored
  <2>11. v.rows[t] = w.rows[t] /\ v.rows[t].attempt = a
    BY <1>8
  <2> HIDE DEF a
  <2>12. Unsettled(v, t) => Unsettled(w, t)
    BY <2>5, <2>8, <2>9, <2>11 DEF Unsettled, a
  <2>13. ASSUME Attempts(w, t) PROVE Attempts(v, t)
    <3>1. \A x \in v.wire : x.task = t => x.attempt <= v.rows[t].attempt
      BY <1>8, <2>11, <2>13 DEF Attempts
    <3>2. s.attempt <= a
      BY <2>2, <2>13 DEF Attempts, a
    <3>3. \A i \in At(v.queue, "complete", t) : v.queue[i].attempt <= v.rows[t].attempt
      BY <1>5, <2>3, <2>4, <2>11, <2>13, <3>2 DEF Attempts
    <3>4. Unsettled(v, t) => v.rows[t].state = "running"
      BY <2>11, <2>12, <2>13 DEF Attempts
    <3>5. Sent(v, t, a) => Ends(v.queue, t, a) = {}
      BY <2>5, <2>9, <2>13 DEF Attempts, a
    <3>6. AtMostOne(Ends(v.queue, t, a))
      <4>1. CASE s.attempt = a
        <5>1. Ends(w.queue, t, a) = {}
          BY <2>8, <2>13, <4>1 DEF Attempts, a
        <5>2. Ends(v.queue, t, a) = {k}
          BY <2>5, <4>1, <5>1
        <5>3. QED
          BY <5>2 DEF AtMostOne
      <4>2. CASE s.attempt # a
        <5>1. Ends(v.queue, t, a) = Ends(w.queue, t, a)
          BY <2>5, <4>2
        <5>2. QED
          BY <2>13, <5>1 DEF Attempts, a
      <4>3. QED
        BY <4>1, <4>2
    <3>7. QED
      BY <2>11, <3>1, <3>3, <3>4, <3>5, <3>6 DEF Attempts
  <2>14. QED
    BY <1>8, <2>1, <2>3, <2>7, <2>10, <2>11, <2>12, <2>13 DEF Sound
<1>10. t \notin early \cup lost => Sound(Whole(p)', enqueued', t)
  BY <1>2, <1>9
<1>11. enqueued' \in Nat /\ enqueued <= enqueued'
  BY <1>1, <1>2 DEF OuterTyped
<1>12. \A x : x.task # t => (x \in wire' <=> x \in wire)
  BY <1>2
<1> HIDE DEF w, v, t
<1>13. QED
  BY <1>2, <1>4, <1>5, <1>7, <1>10, <1>11, <1>12, AroundTask

LEMMA SignalOnce ==
    ASSUME TypeInv, NEW p \in Processes, OnceInv(p),
           Release(p) \/ \E s \in {"wait", "fail"} : Hold(p, s)
    PROVE  OnceInv(p)'
<1>1. UNCHANGED <<rows, wire, objects, busy, delivered, torn, enqueued, early, lost, up, attached>>
  BY DEF Release, Hold, memVars, history
<1>2. CASE UNCHANGED queue
  <2>1. \A t \in Tasks : Longer(queue[p], queue'[p], t)
    BY <1>2 DEF Longer
  <2>2. RecoverFirst(queue'[p]) /\ (p \notin up' => queue'[p] = <<>>) /\ attached' \subseteq up'
    BY <1>1, <1>2 DEF OnceInv
  <2>3. QED
    BY <1>1, <2>1, <2>2, AroundQuiet
<1>3. CASE p \in up /\ Post(p, Block("schedule", 0, None))
  <2> DEFINE b == Block("schedule", 0, None)
  <2>1. b \in TaskBlocks /\ b.op = "schedule"
    BY BlockIn DEF Operations, TaskOps
  <2>2. Post(p, b) /\ p \in up
    BY <1>3
  <2> HIDE DEF b
  <2>3. b.op \notin Concerns /\ b.op # "recover"
    BY <2>1 DEF Concerns
  <2>4. QED
    BY <1>1, <2>1, <2>2, <2>3, PostQuiet
<1>4. QED
  BY <1>2, <1>3 DEF Release, Hold, memVars

-----------------------------------------------------------------------------
(* A process dies, in a block or between two.                              *)

\* The rows stay as the block left them (w); queue and cache are gone, perhaps
\* the session tasks as well.
LEMMA DiesOnce ==
    ASSUME TypeInv, NEW p \in Processes, OnceInv(p), NEW w, DiesAs(p, w), w.process = p,
           \A t \in Tasks \ (early \cup lost)' : Sound(w, enqueued, t)
    PROVE  OnceInv(p)' /\ rows' = w.rows
<1> DEFINE v == Whole(p)'
<1>1. /\ rows' = w.rows /\ wire' \subseteq w.wire /\ objects'[p] = NoObjects /\ queue'[p] = <<>>
      /\ busy'[p] = {} /\ delivered' = w.delivered /\ torn' = w.torn /\ enqueued' = enqueued
      /\ attached' = attached \ {p} /\ up' = up \ {p}
  BY TypeParts DEF DiesAs, Dies, ViewTyped
<1>2. /\ v.rows = w.rows /\ v.wire \subseteq w.wire /\ v.objects = NoObjects /\ v.queue = <<>>
      /\ v.busy = {} /\ v.delivered = w.delivered /\ v.torn = w.torn /\ v.process = w.process
  BY <1>1 DEF Whole, View
<1> HIDE DEF v
<1>3. \A t \in Tasks : Coherent(v, t)
  BY <1>2 DEF Coherent, IsCached, NoObjects, Fresh
<1>4. ASSUME NEW t \in Tasks \ (early \cup lost)' PROVE Sound(v, enqueued, t)
  <2>1. Sound(w, enqueued, t)
    BY <1>4
  <2>2. \A op : At(v.queue, op, t) = {}
    BY <1>2 DEF At
  <2>3. \A a : Ends(v.queue, t, a) = {}
    BY <2>2 DEF Ends
  <2>4. Fewer(w.queue, v.queue, t)
    BY <2>2, <2>3 DEF Fewer, AtMostOne
  <2>5. QED
    BY <1>2, <2>1, <2>2, <2>4, FewerSound
<1>5. (\A t \in Tasks : Coherent(Whole(p), t))'
  BY <1>3 DEF v
<1>6. (\A t \in Tasks \ (early \cup lost) : Sound(Whole(p), enqueued, t))'
  BY <1>1, <1>4 DEF v
<1>7. RecoverFirst(queue'[p])
  BY <1>1 DEF RecoverFirst
<1>8. attached' \subseteq up'
  BY <1>1 DEF OnceInv
<1>9. QED
  BY <1>1, <1>5, <1>6, <1>7, <1>8 DEF OnceInv

LEMMA CrashOnce ==
    ASSUME TypeInv, NEW p \in Processes, OnceInv(p), Crash(p)
    PROVE  OnceInv(p)' /\ rows' = rows
<1> DEFINE w == Whole(p)
<1>1. /\ w.rows = rows /\ w.wire = wire /\ w.delivered = delivered /\ w.torn = torn /\ w.process = p
  BY WholeIs
<1>2. \A t \in Tasks \ (early \cup lost)' : Sound(w, enqueued, t)
  BY DEF OnceInv, Crash
<1> HIDE DEF w
<1>3. DiesAs(p, w)
  BY <1>1 DEF Crash, DiesAs
<1>4. QED
  BY <1>1, <1>2, <1>3, DiesOnce

\* How far a delivery came makes no difference to what holds of the view.
LEMMA HalfwayInv ==
    ASSUME NEW w \in Views, NEW t \in Tasks, NEW o, NEW n, NEW E, ViewInv(w, n, E),
           NEW half \in Halfway(w, t, o)
    PROVE  ViewInv(half, n, E) /\ half.process = w.process /\ half.rows = w.rows
<1> DEFINE v == Called(w, t)
<1>1. half = w \/ half = v
  BY DEF Halfway
<1>2. v.rows = w.rows /\ v.process = w.process
  BY CalledAt
<1>3. Coherent(w, t) /\ (t \notin E => Sound(w, n, t))
  BY DEF ViewInv
<1>4. Keeps(w, v, t) /\ (t \notin E => Sound(v, n, t))
  BY <1>3, CalledKeeps, CalledSound
<1> HIDE DEF v
<1>5. ViewInv(v, n, E)
  BY <1>4, LocalInv DEF Keeps
<1>6. QED
  BY <1>1, <1>2, <1>5

\* The process dies while it finishes tasks that nothing else will finish.
LEMMA DiesFinishingOnce ==
    ASSUME TypeInv, NEW p \in Processes, OnceInv(p),
           NEW v \in Views, v.process = p, v.rows = rows, ViewInv(v, enqueued, (early \cup lost)'),
           NEW S \in SUBSET Tasks, NEW t \in S, NEW r \in Responses \cup {None},
           \A u \in DownTo(S, t) \ (early \cup lost)' : Free(v, u),
           DiesFinishing(p, v, S, t, r)
    PROVE  OnceInv(p)' /\ NoneStarted
<1> DEFINE E == (early \cup lost)'
           D == DownTo(S, t - 1)
           w == FinishAll(v, D, r)
           o == Completed(w, t, r)
           x == Stored(w, t, o)
<1>1. t \in Tasks /\ t \in DownTo(S, t) /\ D \subseteq DownTo(S, t) /\ t \notin D /\ D \in SUBSET Tasks
  <2>1. S \subseteq Tasks /\ \A u \in Tasks : u \in Nat
    BY PipelineAssumption DEF Tasks
  <2>2. QED
    BY <2>1 DEF DownTo
<1>2. PICK half \in {w} \cup Halfway(x, t, o) : DiesAs(p, half)
  BY DEF DiesFinishing
<1> HIDE DEF D, E
<1>3. /\ w \in Views /\ w.process = p /\ ViewInv(w, enqueued, E) /\ Within(v, w, D)
      /\ \A u \in Tasks : w.rows[u].state = "running" => rows[u].state = "running"
  BY <1>1, FinishAllKeeps, FinishAllIn DEF E
<1> HIDE DEF w
<1>4. Coherent(w, t) /\ (t \notin E => Sound(w, enqueued, t))
  BY <1>1, <1>3 DEF ViewInv
<1>5. o \in TaskRecords /\ o.state = "completed"
  BY <1>1, <1>3, CompletedIn
<1>6. t \notin E => Sound(x, enqueued, t)
  <2>1. t \notin E => Free(v, t)
    BY <1>1 DEF E
  <2>2. Apart(v, w, t)
    BY <1>1, <1>3 DEF Within
  <2>3. t \notin E => Free(w, t)
    BY <2>1, <2>2, FreeApart
  <2>4. QED
    BY <1>1, <1>3, <1>4, <2>3, CompletedSound
<1> HIDE DEF o
<1>7. x \in Views /\ Keeps(w, x, t)
  BY <1>1, <1>3, <1>5, StoredIn, StoredKeeps
<1> HIDE DEF x
<1>8. ViewInv(x, enqueued, E) /\ x.process = p
  BY <1>1, <1>3, <1>6, <1>7, LocalInv DEF Keeps, Local
<1>9. \A u \in Tasks : x.rows[u].state = "running" => w.rows[u].state = "running"
  BY <1>7 DEF Keeps, Local, Apart
<1>10. ViewInv(half, enqueued, E) /\ half.process = p /\ (half.rows = w.rows \/ half.rows = x.rows)
  <2>1. half \in Halfway(x, t, o) => ViewInv(half, enqueued, E) /\ half.process = p /\ half.rows = x.rows
    BY <1>1, <1>7, <1>8, HalfwayInv
  <2>2. QED
    BY <1>2, <1>3, <2>1
<1>11. OnceInv(p)' /\ rows' = half.rows
  BY <1>2, <1>10, DiesOnce DEF ViewInv, E
<1>12. QED
  BY <1>3, <1>9, <1>10, <1>11 DEF NoneStarted

LEMMA DieInFinishOnce ==
    ASSUME TypeInv, NEW p \in Processes, OnceInv(p), DieInFinish(p)
    PROVE  OnceInv(p)' /\ NoneStarted
<1> DEFINE v == View(p)
           t == Task(p)
<1>1. /\ Runs(p, "finish") /\ DiesFinishing(p, v, {t}, t, Response(p)) /\ UNCHANGED <<early, lost>>
  BY DEF DieInFinish
<1>2. /\ t \in Tasks /\ v \in Views /\ Response(p) \in Responses \cup {None}
      /\ ViewInv(v, enqueued, early \cup lost) /\ v.process = p /\ v.rows = rows
  BY <1>1, HeadTask, BlockBegins, WholeIs DEF TaskOps
<1>3. t \notin early \cup lost => Free(v, t)
  BY <1>1, FinishFree
<1> HIDE DEF v, t
<1>4. DownTo({t}, t) \subseteq {t}
  BY DEF DownTo
<1>5. {t} \in SUBSET Tasks /\ t \in {t}
  BY <1>2
<1>6. QED
  BY <1>1, <1>2, <1>3, <1>4, <1>5, DiesFinishingOnce

LEMMA DieInDeliverOnce ==
    ASSUME TypeInv, NEW p \in Processes, OnceInv(p), DieInDeliver(p)
    PROVE  OnceInv(p)' /\ NoneStarted
<1> DEFINE v == View(p)
           S == {t \in Tasks : rows[t].state = "completed"}
           x == Load(v, S)
           E == early \cup lost
<1>1. Runs(p, "deliver") /\ UNCHANGED <<early, lost>>
  BY DEF DieInDeliver
<1>2. PICK t \in S : \E y \in {DeliverAll(x, DownTo(S, t - 1))} :
                     \E half \in Halfway(y, t, Loaded(y, t)) : DiesAs(p, half)
  BY DEF DieInDeliver
<1> DEFINE D == DownTo(S, t - 1)
           y == DeliverAll(x, D)
<1>3. PICK half \in Halfway(y, t, Loaded(y, t)) : DiesAs(p, half)
  BY <1>2
<1>4. t \in Tasks /\ D \in SUBSET Tasks /\ \A u \in D : rows[u].state = "completed"
  BY DEF DownTo
<1> HIDE DEF S, D
<1>5. v \in Views /\ ViewInv(v, enqueued, E) /\ v.rows = rows /\ v.process = p
  BY <1>1, BlockBegins, WholeIs
<1> HIDE DEF v
<1>6. x \in Views /\ Recached(v, x) /\ x.rows = rows
  BY <1>5, LoadIn, LoadAt
<1>7. ViewInv(x, enqueued, E) /\ x.process = p
  BY <1>5, <1>6, RecachedInv DEF Recached
<1> HIDE DEF x
<1>8. /\ y \in Views /\ y.process = p /\ ViewInv(y, enqueued, E)
      /\ \A u \in Tasks : y.rows[u].state = "running" => rows[u].state = "running"
  BY <1>4, <1>6, <1>7, DeliverAllKeeps, DeliverAllIn
<1> HIDE DEF y
<1>9. ViewInv(half, enqueued, E) /\ half.process = p /\ half.rows = y.rows
  BY <1>4, <1>8, HalfwayInv
<1>10. OnceInv(p)' /\ rows' = half.rows
  BY <1>1, <1>3, <1>9, DiesOnce DEF ViewInv
<1>11. QED
  BY <1>8, <1>9, <1>10 DEF NoneStarted

LEMMA DieInRetryOnce ==
    ASSUME TypeInv, NEW p \in Processes, OnceInv(p), DieInRetry(p)
    PROVE  OnceInv(p)' /\ NoneStarted
<1> DEFINE t == Task(p)
           o == Evaluated(p)
           s == Retrying(p)
           E == early \cup lost
<1>1. Runs(p, "retry") /\ UNCHANGED <<early, lost>>
  BY DEF DieInRetry
<1>2. PICK half \in Halfway(s, t, o) : DiesAs(p, half)
  BY DEF DieInRetry, Evaluating, Evaluated, Retrying
<1>3. /\ t \in Tasks /\ s \in Views /\ Keeps(View(p), s, t)
      /\ t \notin E => Sound(s, enqueued, t)
  BY <1>1, RetryStored
<1> HIDE DEF t, o, s
<1>4. ViewInv(View(p), enqueued, E) /\ View(p).process = p /\ View(p).rows = rows
  BY <1>1, BlockBegins, WholeIs
<1>5. ViewInv(s, enqueued, E) /\ s.process = p
  BY <1>3, <1>4, LocalInv DEF Keeps, Local
<1>6. \A u \in Tasks : s.rows[u].state = "running" => rows[u].state = "running"
  BY <1>3, <1>4 DEF Keeps, Local, Apart
<1>7. ViewInv(half, enqueued, E) /\ half.process = p /\ half.rows = s.rows
  BY <1>3, <1>5, HalfwayInv
<1>8. OnceInv(p)' /\ rows' = half.rows
  BY <1>1, <1>2, <1>7, DiesOnce DEF ViewInv
<1>9. QED
  BY <1>6, <1>7, <1>8 DEF NoneStarted

LEMMA DieInRecoverOnce ==
    ASSUME TypeInv, NEW p \in Processes, OnceInv(p), DieInRecover(p)
    PROVE  OnceInv(p)' /\ NoneStarted
<1> DEFINE z == Reattached(p, Load(View(p), Tasks))
           S == Dropped(z)
           E == (early \cup lost)'
<1>1. Runs(p, "recover") /\ early' = early
  BY DEF DieInRecover
<1>2. PICK t \in S : /\ DiesFinishing(p, z, S, t, "dropped")
                     /\ lost' = lost \cup {u \in DownTo(S, t) : \E q \in Processes : Unanswered(q, u)}
  BY DEF DieInRecover
<1>3. /\ z \in Views /\ ViewInv(z, enqueued, early \cup lost) /\ z.rows = rows /\ z.process = p
      /\ \A u \in S : u \notin early \cup lost /\ ~Unanswered(p, u) => Free(z, u)
  BY <1>1, Recovering
<1>4. S \in SUBSET Tasks /\ DownTo(S, t) \subseteq S
  BY DEF Dropped, DownTo
<1> HIDE DEF z, S
<1>5. \A u \in DownTo(S, t) \ E : Free(z, u)
  BY <1>1, <1>2, <1>3, <1>4
<1>6. ViewInv(z, enqueued, E)
  BY <1>1, <1>2, <1>3, ViewInvMore
<1>7. QED
  BY <1>2, <1>3, <1>4, <1>5, <1>6, DiesFinishingOnce DEF Responses

LEMMA DieInFailingOnce ==
    ASSUME TypeInv, NEW p \in Processes, OnceInv(p), DieInFailing(p)
    PROVE  OnceInv(p)' /\ NoneStarted
<1> DEFINE all == Scheduling(p)
           S == Unblocked(all)
<1>1. Runs(p, "schedule") /\ UNCHANGED <<early, lost>>
  BY DEF DieInFailing
<1>2. PICK t \in S : DiesFinishing(p, all, S, t, "result")
  BY DEF DieInFailing, Scheduling
<1>3. /\ all \in Views /\ ViewInv(all, enqueued, early \cup lost) /\ all.rows = rows /\ all.process = p
  BY <1>1, SchedulingIs
<1> HIDE DEF all
<1>4. \A u \in S \ (early \cup lost) : Free(all, u)
  BY <1>3, FailingFree
<1>5. S \in SUBSET Tasks /\ DownTo(S, t) \subseteq S
  BY DEF Unblocked, InState, Relevant, DownTo
<1> HIDE DEF S
<1>6. QED
  BY <1>1, <1>2, <1>3, <1>4, <1>5, DiesFinishingOnce DEF Responses

\* Only -_schedule lets rows run: those that it could start.
Started(p) ==
    \A u \in Tasks : rows'[u].state = "running" =>
        rows[u].state = "running" \/ (Runs(p, "schedule") /\ u \in Schedulable(Scheduling(p)))

\* The task whose session task may have been started is one of those that run
\* unknown to the pipeline from now on; those started before it are stored.
LEMMA DieInScheduleOnce ==
    ASSUME TypeInv, NEW p \in Processes, OnceInv(p), DieInSchedule(p)
    PROVE  OnceInv(p)' /\ Started(p)
<1> DEFINE all == Scheduling(p)
           S == Schedulable(all)
           E == (early \cup lost)'
<1>1. Runs(p, "schedule")
  BY DEF DieInSchedule
<1>0. PICK s \in Ordered(p, S) : \E n \in 1 .. Len(s) :
            /\ DiesStarting(p, ScheduleAll(all, SubSeq(s, 1, n - 1)), s[n])
            /\ early' = early \cup Unstartable(all, ToSet(SubSeq(s, 1, n - 1)))
  BY DEF DieInSchedule, Scheduling
<1>2. PICK n \in 1 .. Len(s) :
            /\ DiesStarting(p, ScheduleAll(all, SubSeq(s, 1, n - 1)), s[n])
            /\ early' = early \cup Unstartable(all, ToSet(SubSeq(s, 1, n - 1)))
  BY <1>0
<1> DEFINE c == SubSeq(s, 1, n - 1)
           t == s[n]
           v == ScheduleAll(all, c)
           o == [Loaded(v, t) EXCEPT !.session = SessionOf(p)]
           a == [task |-> t, attempt |-> o.attempt, process |-> p, noted |-> FALSE]
<1>3. PICK begun \in {{}, {a}} :
            /\ DiesAs(p, Stored([v EXCEPT !.wire = @ \cup begun], t, o))
            /\ lost' = lost \cup {x.task : x \in begun}
  BY <1>2 DEF DiesStarting
<1>4. /\ all \in Views /\ ViewInv(all, enqueued, early \cup lost) /\ all.rows = rows /\ all.process = p
  BY <1>1, SchedulingIs
<1> HIDE DEF all
<1>5. S \in SUBSET Tasks /\ limit \in Nat
  BY TypeParts DEF Schedulable, InState, Relevant, OuterTyped
<1>6. \A u \in S : all.rows[u].state = "pending"
  BY <1>4, <1>5, PendingRow DEF Schedulable, ViewInv
<1> HIDE DEF S
<1>7. s \in Seq(Tasks) /\ Distinct(s) /\ ToSet(s) = S
  BY <1>5, ChosenAre
<1>8. /\ c \in Seq(Tasks) /\ Len(c) = n - 1 /\ Distinct(c)
      /\ \A i \in 1 .. Len(c) : c[i] = s[i] /\ c[i] \in S /\ c[i] \in ToSet(c)
      /\ t \in S /\ t \notin ToSet(c)
  <2>1. n \in Nat /\ Len(s) \in Nat /\ n - 1 \in 0 .. Len(s) /\ DOMAIN s = 1 .. Len(s)
    BY <1>7
  <2>2. /\ c \in Seq(Tasks) /\ Len(c) = n - 1 /\ DOMAIN c = 1 .. (n - 1)
        /\ \A i \in 1 .. (n - 1) : c[i] = s[i]
    BY <1>7, <2>1
  <2> HIDE DEF c
  <2>3. \A i \in 1 .. Len(s) : s[i] \in S
    BY <1>7, <2>1 DEF ToSet
  <2>4. \A i \in 1 .. (n - 1) : i \in 1 .. Len(s) /\ i # n
    BY <2>1
  <2>5. Distinct(c)
    BY <1>7, <2>2, <2>4 DEF Distinct
  <2>6. t \notin ToSet(c)
    BY <1>7, <2>2, <2>4 DEF Distinct, ToSet
  <2>7. QED
    BY <2>2, <2>3, <2>4, <2>5, <2>6 DEF ToSet
<1>9. \A i \in 1 .. Len(c) : c[i] \notin E =>
          all.rows[c[i]].state = "pending" /\ ~Loaded(all, c[i]).cancelled /\ c[i] \notin Broken
  BY <1>2, <1>6, <1>8 DEF Unstartable
<1>10. early \cup lost \subseteq E
  BY <1>2, <1>3
<1> HIDE DEF E, c
<1>11. ViewInv(all, enqueued, E)
  BY <1>4, <1>10, ViewInvMore
<1>12. /\ v \in Views /\ v.process = p /\ ViewInv(v, enqueued, E)
       /\ \A u \in Tasks : v.rows[u].state = "running" =>
             rows[u].state = "running" \/ \E i \in 1 .. Len(c) : c[i] = u
  BY <1>4, <1>8, <1>9, <1>11, ScheduleAllKeeps, ScheduleAllIn
<1> HIDE DEF v
<1>13. t \in Tasks /\ Coherent(v, t) /\ (t \notin E => Sound(v, enqueued, t))
  BY <1>5, <1>8, <1>12 DEF ViewInv
<1>14. o \in TaskRecords /\ o.state = Loaded(v, t).state /\ o.attempt = Loaded(v, t).attempt
  <2> DEFINE l == Loaded(v, t)
  <2>1. l \in TaskRecords /\ SessionOf(p) \in Processes \cup {None}
    BY <1>12, <1>13, LoadedIn DEF SessionOf
  <2> HIDE DEF l
  <2>2. [l EXCEPT !.session = SessionOf(p)] \in TaskRecords
    BY <2>1 DEF TaskRecords
  <2>3. /\ [l EXCEPT !.session = SessionOf(p)].state = l.state
        /\ [l EXCEPT !.session = SessionOf(p)].attempt = l.attempt
    BY <2>1 DEF TaskRecords
  <2>4. QED
    BY <2>2, <2>3 DEF l
<1>15. a \in SessionTasks /\ a.task = t
  <2> HIDE DEF o
  <2>1. QED
    BY <1>13, <1>14 DEF SessionTasks, TaskRecords
<1>16. Fits(v, t, o)
  BY <1>13, <1>14, LoadedFits DEF Fits
<1> HIDE DEF o, a
<1> DEFINE x == [v EXCEPT !.wire = @ \cup begun]
           half == Stored(x, t, o)
<1>17. /\ x.rows = v.rows /\ x.objects = v.objects /\ x.queue = v.queue /\ x.busy = v.busy
       /\ x.delivered = v.delivered /\ x.torn = v.torn /\ x.process = v.process /\ x.wire = v.wire \cup begun
  BY <1>12 DEF Views
<1>18. x \in Views
  BY <1>3, <1>12, <1>15 DEF Views
<1>19. DiesAs(p, half)
  BY <1>3
<1> HIDE DEF x
<1>20. Local(v, x, t)
  BY <1>3, <1>15, <1>17 DEF Local, Apart, Longer
<1>21. Fits(x, t, o)
  BY <1>16, <1>17 DEF Fits, IsStored
<1>22. Keeps(x, half, t)
  BY <1>13, <1>14, <1>18, <1>21, StoredKeeps DEF Fits
<1>23. t \notin E => Sound(half, enqueued, t)
  <2>1. SUFFICES ASSUME t \notin E PROVE Sound(half, enqueued, t)
    OBVIOUS
  <2>2. begun = {}
    BY <1>3, <1>15, <2>1 DEF E
  <2>3. Apart(v, x, t)
    BY <1>17, <2>2 DEF Apart, Longer
  <2>4. Sound(v, enqueued, t)
    BY <1>13, <2>1
  <2>5. Sound(x, enqueued, t)
    BY <2>3, <2>4, ApartSound
  <2>6. IsStored(x, t)
    <3>1. t \notin ToSet(c) => Apart(all, v, t)
      BY <1>4, <1>8, <1>9, <1>11, <1>13, ScheduleAllKeeps DEF Within, v
    <3>2. v.rows[t].state = "pending"
      BY <1>6, <1>8, <3>1 DEF Apart
    <3>3. QED
      BY <1>17, <3>2 DEF IsStored
  <2>7. QED
    BY <1>13, <1>14, <1>18, <1>21, <2>5, <2>6, StoredSound
<1> HIDE DEF half
<1>24. Local(v, half, t) /\ Coherent(half, t)
  BY <1>20, <1>22, LocalTrans DEF Keeps
<1>25. ViewInv(half, enqueued, E) /\ half.process = p
  BY <1>12, <1>13, <1>23, <1>24, LocalInv DEF Local
<1>26. \A u \in Tasks : half.rows[u].state = "running" => v.rows[u].state = "running"
  BY <1>17, <1>22, <1>24 DEF Keeps, Local, Apart
<1>27. OnceInv(p)' /\ rows' = half.rows
  BY <1>19, <1>25, DiesOnce DEF ViewInv, E
<1>28. QED
  BY <1>1, <1>8, <1>12, <1>26, <1>27 DEF Started, S, all

LEMMA DieInBlockOnce ==
    ASSUME TypeInv, NEW p \in Processes, OnceInv(p), DieInBlock(p)
    PROVE  OnceInv(p)' /\ Started(p)
<1>1. CASE DieInSchedule(p)
  BY <1>1, DieInScheduleOnce
<1>2. CASE ~DieInSchedule(p)
  <2>1. OnceInv(p)' /\ NoneStarted
    BY <1>2, DieInFinishOnce, DieInDeliverOnce, DieInRetryOnce, DieInRecoverOnce, DieInFailingOnce
       DEF DieInBlock
  <2>2. QED
    BY <2>1 DEF NoneStarted, Started
<1>3. QED
  BY <1>1, <1>2

LEMMA AroundOnce ==
    ASSUME TypeInv, NEW p \in Processes, OnceInv(p), Around(p)
    PROVE  OnceInv(p)' /\ rows' = rows
<1>1. ASSUME NEW op \in {"attach", "cancel", "finishPending"}, NEW t \in Tasks \cup {0},
             op = "cancel" => t \in Tasks, Post(p, Block(op, t, None)), p \in up,
             UNCHANGED <<rows, wire, objects, busy, delivered, torn, enqueued, early, lost, up, attached>>
      PROVE  OnceInv(p)'
  <2> DEFINE b == Block(op, t, None)
  <2>1. b \in TaskBlocks /\ b.op = op
    BY <1>1, BlockIn DEF Operations, TaskOps
  <2>2. Post(p, b)
    BY <1>1
  <2> HIDE DEF b
  <2>3. b.op \notin Concerns /\ b.op # "recover"
    BY <2>1 DEF Concerns
  <2>4. QED
    BY <1>1, <2>1, <2>2, <2>3, PostQuiet
<1>2. CASE Attach(p)
  BY <1>1, <1>2 DEF Attach, OnlyQueue
<1>3. CASE FailAuthentication(p)
  <2>1. p \in up
    BY <1>3 DEF FailAuthentication, OnceInv
  <2>2. QED
    BY <1>1, <1>3, <2>1 DEF FailAuthentication, OnlyQueue
<1>4. ASSUME NEW t \in Tasks, Cancel(p, t) PROVE OnceInv(p)' /\ rows' = rows
  BY <1>1, <1>4 DEF Cancel, OnlyQueue
<1>5. CASE Release(p) \/ \E s \in {"wait", "fail"} : Hold(p, s)
  BY <1>5, SignalOnce DEF Release, Hold
<1>6. CASE Start(p)
  BY <1>6, StartOnce DEF Start
<1>7. CASE Enqueue(p)
  BY <1>7, EnqueueOnce DEF Enqueue, OnlyQueue
<1>8. CASE Detach(p)
  BY <1>8, DetachPosts DEF Detach, OnlyQueue
<1>9. CASE Crash(p)
  BY <1>9, CrashOnce DEF Crash
<1>10. ASSUME NEW t \in Tasks, Evaluate(p, t) PROVE OnceInv(p)' /\ rows' = rows
  BY <1>10, EvaluateOnce DEF Evaluate, OnlyQueue
<1>11. QED
  BY <1>2, <1>3, <1>4, <1>5, <1>6, <1>7, <1>8, <1>9, <1>10 DEF Around, Attach, FailAuthentication, OnlyQueue

LEMMA OnceInit ==
    ASSUME Init, NEW p \in Processes
    PROVE  OnceInv(p)
<1> DEFINE w == Whole(p)
<1>1. /\ w.rows = [t \in Tasks |-> Fresh(IssuerOf[t])] /\ w.wire = {} /\ w.queue = <<>> /\ w.busy = {}
      /\ w.delivered = [t \in Tasks |-> 0] /\ w.torn = [t \in Tasks |-> 0] /\ enqueued = 0 /\ queue[p] = <<>> /\ attached = {}
  BY DEF Whole, View, Init
<1> HIDE DEF w
<1>2. \A t \in Tasks : ~IsStored(w, t)
  BY <1>1 DEF IsStored, Fresh
<1>3. \A op, t : At(w.queue, op, t) = {}
  BY <1>1 DEF At
<1>4. ASSUME NEW t \in Tasks PROVE Sound(w, enqueued, t)
  <2>1. Unborn(w, t) /\ t \notin w.busy /\ w.delivered[t] = w.torn[t]
    BY <1>1, <1>2, <1>3 DEF Unborn
  <2>2. AtMostOne({})
    BY DEF AtMostOne
  <2>3. \A s \in w.wire : s.task = t => s.noted
    BY <1>1
  <2>4. QED
    BY <1>2, <1>3, <2>1, <2>2, <2>3 DEF Sound
<1>5. RecoverFirst(queue[p])
  BY <1>1 DEF RecoverFirst
<1>6. QED
  BY <1>1, <1>2, <1>4, <1>5 DEF OnceInv, Coherent, w

\* What the sessions answer is answered to the only process there is.
LEMMA OnceStep ==
    ASSUME NEW app, Processes = {app}, TypeInv, OnceInv(app), [Next]_vars
    PROVE  OnceInv(app)' /\ Started(app)
<1>0. NoneStarted => Started(app)
  BY DEF NoneStarted, Started
<1>1. app \in Processes
  OBVIOUS
<1>2. CASE UNCHANGED vars
  <2>1. /\ UNCHANGED <<rows, wire, objects, busy, delivered, torn, enqueued, early, lost>>
        /\ UNCHANGED <<queue, up, attached>>
    BY <1>2 DEF vars, memVars, history
  <2>2. \A t \in Tasks : Longer(queue[app], queue'[app], t)
    BY <2>1 DEF Longer
  <2>3. RecoverFirst(queue'[app]) /\ (app \notin up' => queue'[app] = <<>>) /\ attached' \subseteq up'
    BY <2>1 DEF OnceInv
  <2>4. OnceInv(app)'
    BY <2>1, <2>2, <2>3, AroundQuiet
  <2>5. QED
    BY <1>0, <2>1, <2>4 DEF NoneStarted
<1>3. ASSUME NEW s \in wire, NEW r \in {"result", "unverified", "offline"}, SessionCompletes(s, r)
      PROVE  OnceInv(app)' /\ NoneStarted
  <2>1. s.process = app
    BY TypeParts DEF ViewTyped, SessionTasks
  <2>2. rows' = rows
    BY <1>3 DEF SessionCompletes
  <2>3. QED
    BY <1>1, <1>3, <2>1, <2>2, SessionCompletesOnce DEF NoneStarted
<1>4. ASSUME Around(app) PROVE OnceInv(app)' /\ NoneStarted
  BY <1>1, <1>4, AroundOnce DEF NoneStarted
<1>5. ASSUME RunBlock(app) PROVE OnceInv(app)' /\ Started(app)
  <2>1. OnceInv(app)' /\ (NoneStarted \/ RunSchedule(app))
    BY <1>1, <1>5, RunBlockOnce
  <2>2. RunSchedule(app) => Started(app)
    BY <1>1, ScheduleOnce DEF Started, RunSchedule
  <2>3. QED
    BY <1>0, <2>1, <2>2
<1>6. DieInBlock(app) => OnceInv(app)' /\ Started(app)
  BY <1>1, DieInBlockOnce
<1>7. CASE Next
  BY <1>0, <1>3, <1>4, <1>5, <1>6, <1>7, Steps
<1>8. QED
  BY <1>0, <1>2, <1>7

\* In the pipeline of a single process, a request that nothing but its session
\* finishes - no cancellation, no failed authentication, no session task that
\* could not be created or that runs unknown to the pipeline - has its result
\* handler called at most once more than its process died between the call and
\* the removal of the request: however else the process crashes and recovers,
\* the handler is detached, the request is sent again, or the evaluation of its
\* certificate halts the delivery.
THEOREM AnsweredOnce ==
    ASSUME NEW app, Processes = {app}
    PROVE  Spec => []DeliveredOnce
<1> DEFINE Inv == TypeInv /\ OnceInv(app)
<1>1. Init => Inv
  BY TypeInit, OnceInit
<1>2. Inv /\ [Next]_vars => Inv'
  BY TypeStep, OnceStep
<1>3. Inv => DeliveredOnce
  <2>1. SUFFICES ASSUME TypeInv, OnceInv(app), NEW t \in Tasks, delivered[t] > 1 + torn[t],
                        t \notin early \cup lost
                 PROVE  FALSE
    BY DEF DeliveredOnce
  <2>2. Sound(Whole(app), enqueued, t) /\ Whole(app).delivered = delivered /\ Whole(app).torn = torn
    BY <2>1, WholeIs DEF OnceInv
  <2>3. delivered[t] \in Nat /\ torn[t] \in Nat
    BY <2>1, TypeParts DEF ViewTyped
  <2>4. QED
    BY <2>1, <2>2, <2>3 DEF Sound
<1> HIDE DEF Inv
<1>4. QED
  BY <1>1, <1>2, <1>3, PTL DEF Spec

-----------------------------------------------------------------------------
(* One task of a group runs at a time.                                     *)

LEMMA SameGroupTurns == \A t, u : SameGroup(t, u) <=> SameGroup(u, t)
  BY DEF SameGroup

\* The only process leaves no row out of account.
LEMMA AllRelevant ==
    ASSUME NEW app, Processes = {app}, TypeInv, OnceInv(app), Runs(app, "schedule"),
           Scheduling(app).attached,
           NEW u \in Tasks, rows[u].state # "absent"
    PROVE  u \in InState(Scheduling(app), rows[u].state)
<1> DEFINE w == Scheduling(app)
<1>1. app \in Processes
  OBVIOUS
<1>2. w \in Views /\ ViewInv(w, enqueued, early \cup lost) /\ w.rows = rows /\ w.process = app
  BY <1>1, SchedulingIs
<1>3. up \subseteq {app}
  BY TypeParts DEF OuterTyped
<1> HIDE DEF w
<1>4. IsStored(w, u) /\ Coherent(w, u)
  BY <1>2 DEF IsStored, ViewInv
<1>5. Loaded(w, u).bundle \in up => Loaded(w, u).bundle = w.process
  BY <1>2, <1>3
<1>6. u \in Relevant(w)
  BY <1>4, <1>5 DEF Relevant, w
<1>7. QED
  BY <1>2, <1>4, <1>6, PendingRow DEF w

LEMMA StartedKeepsGroups ==
    ASSUME NEW app, Processes = {app}, TypeInv, OnceInv(app), OneRunningRowPerGroup, Started(app)
    PROVE  OneRunningRowPerGroup'
<1> DEFINE w == Scheduling(app)
           S == IF Runs(app, "schedule") THEN Schedulable(w) ELSE {}
<1>1. \A t \in S : Runs(app, "schedule") /\ t \in Schedulable(w)
  OBVIOUS
<1>2. \A u \in Tasks : rows'[u].state = "running" => rows[u].state = "running" \/ u \in S
  BY DEF Started
<1> HIDE DEF w
<1> HIDE DEF S
<1>3. ASSUME NEW t \in S, NEW u \in Tasks, rows[u].state = "running" PROVE ~SameGroup(t, u)
  <2>1. w.attached
    BY <1>1 DEF Schedulable, InState, Relevant
  <2>2. u \in InState(w, "running")
    BY <1>1, <1>3, <2>1, AllRelevant DEF w
  <2>3. QED
    BY <1>1, <2>2 DEF Schedulable
<1>4. ASSUME NEW t \in S, NEW u \in S, t # u PROVE ~SameGroup(t, u)
  <2>1. t \in Nat /\ u \in Nat
    BY <1>1, PipelineAssumption DEF Schedulable, InState, Relevant, Tasks
  <2>2. t < u \/ u < t
    BY <1>4, <2>1
  <2>3. t \in InState(w, "pending") /\ u \in InState(w, "pending")
    BY <1>1 DEF Schedulable
  <2>4. (u < t => ~SameGroup(t, u)) /\ (t < u => ~SameGroup(u, t))
    BY <1>1, <2>3 DEF Schedulable
  <2>5. QED
    BY <2>2, <2>4, SameGroupTurns
<1>5. ASSUME NEW t \in Tasks, NEW u \in Tasks, t # u,
             rows'[t].state = "running", rows'[u].state = "running"
      PROVE  ~SameGroup(t, u)
  <2>1. CASE t \in S \/ u \in S
    BY <1>2, <1>3, <1>4, <1>5, <2>1, SameGroupTurns
  <2>2. CASE t \notin S /\ u \notin S
    <3>1. t \in RunningRows /\ u \in RunningRows
      BY <1>2, <1>5, <2>2 DEF RunningRows
    <3>2. QED
      BY <1>5, <3>1 DEF OneRunningRowPerGroup
  <2>3. QED
    BY <2>1, <2>2
<1>6. QED
  BY <1>5 DEF OneRunningRowPerGroup, RunningRows

\* In the pipeline of a single process, no two requests of a group run at the
\* same time as far as the database tells: whatever else the process does, only
\* -_schedule lets a request run, and it counts the rows that were recovered,
\* those its cache knows in another state and those sent again.
THEOREM GroupsTakeTurns ==
    ASSUME NEW app, Processes = {app}
    PROVE  Spec => []OneRunningRowPerGroup
<1> DEFINE Inv == TypeInv /\ OnceInv(app) /\ OneRunningRowPerGroup
<1>1. Init => Inv
  <2>1. Init => OneRunningRowPerGroup
    BY DEF Init, OneRunningRowPerGroup, RunningRows, Fresh
  <2>2. QED
    BY <2>1, TypeInit, OnceInit
<1>2. Inv /\ [Next]_vars => Inv'
  <2>1. SUFFICES ASSUME TypeInv, OnceInv(app), OneRunningRowPerGroup, [Next]_vars
                 PROVE  Inv'
    OBVIOUS
  <2>2. OnceInv(app)' /\ Started(app)
    BY <2>1, OnceStep
  <2>3. TypeInv'
    BY <2>1, TypeStep
  <2>4. OneRunningRowPerGroup'
    BY <2>1, <2>2, StartedKeepsGroups
  <2>5. QED
    BY <2>2, <2>3, <2>4
<1>3. Inv => OneRunningRowPerGroup
  OBVIOUS
<1> HIDE DEF Inv
<1>4. QED
  BY <1>1, <1>2, <1>3, PTL DEF Spec

-----------------------------------------------------------------------------
(* Groups are scheduled in turn.                                           *)

\* The groups scheduled since g was; all that were, if g was not.
After(r, g) == {h \in Groups : \E j \in 1 .. Len(r) : r[j] = h /\ \A i \in 1 .. Len(r) : r[i] = g => i < j}

\* w is r without its k-th element.
OneOut(r, k, w) ==
    /\ k \in 1 .. Len(r) /\ Len(w) = Len(r) - 1
    /\ \A i \in 1 .. Len(w) : i < k => w[i] = r[i]
    /\ \A i \in 1 .. Len(w) : i >= k => w[i] = r[i + 1]

LEMMA RemoveAtIs ==
    ASSUME NEW r \in Seq(Groups), NEW k \in 1 .. Len(r)
    PROVE  RemoveAt(r, k) \in Seq(Groups) /\ OneOut(r, k, RemoveAt(r, k))
<1> DEFINE a == SubSeq(r, 1, k - 1)
           b == SubSeq(r, k + 1, Len(r))
           w == a \o b
<1>1. a \in Seq(Groups) /\ Len(a) = k - 1 /\ \A i \in 1 .. k - 1 : a[i] = r[i]
  OBVIOUS
<1>2. b \in Seq(Groups) /\ Len(b) = Len(r) - k /\ \A i \in 1 .. Len(r) - k : b[i] = r[k + i]
  OBVIOUS
<1> HIDE DEF a, b
<1>3. /\ w \in Seq(Groups) /\ Len(w) = Len(r) - 1
      /\ \A i \in 1 .. Len(w) : w[i] = IF i <= k - 1 THEN a[i] ELSE b[i - (k - 1)]
  <2>1. w \in Seq(Groups) /\ Len(w) = Len(a) + Len(b)
    BY <1>1, <1>2, ConcatProperties
  <2>2. \A i \in 1 .. Len(a) + Len(b) : w[i] = IF i <= Len(a) THEN a[i] ELSE b[i - Len(a)]
    BY <1>1, <1>2
  <2>3. Len(a) + Len(b) = Len(r) - 1 /\ Len(r) \in Nat /\ k \in 1 .. Len(r)
    BY <1>1, <1>2
  <2>4. QED
    BY <1>1, <2>1, <2>2, <2>3
<1> HIDE DEF w
<1>4. ASSUME NEW i \in 1 .. Len(w) PROVE (i < k => w[i] = r[i]) /\ (i >= k => w[i] = r[i + 1])
  <2>1. CASE i < k
    BY <1>1, <1>3, <2>1
  <2>2. CASE i >= k
    <3>1. i - (k - 1) \in 1 .. Len(r) - k /\ k + (i - (k - 1)) = i + 1 /\ ~(i <= k - 1)
      BY <1>3, <2>2
    <3>2. b[i - (k - 1)] = r[k + (i - (k - 1))]
      BY <1>2, <3>1
    <3>3. QED
      BY <1>3, <2>2, <3>1, <3>2
  <2>3. QED
    BY <2>1, <2>2
<1>5. w = RemoveAt(r, k)
  BY DEF RemoveAt, w, a, b
<1>6. QED
  BY <1>3, <1>4, <1>5 DEF OneOut

\* What is left when the group h leaves a list of groups that has it once.
LEMMA OneOutAfter ==
    ASSUME NEW r \in Seq(Groups), NEW k, NEW w \in Seq(Groups), OneOut(r, k, w), Distinct(r)
    PROVE  /\ Distinct(w)
           /\ \A i \in 1 .. Len(w) : w[i] # r[k]
           /\ \A g \in Groups : g # r[k] => \A x \in After(r, g) : x # r[k] => x \in After(w, g)
<1> DEFINE n(i) == IF i < k THEN i ELSE i + 1
<1>0. k \in 1 .. Len(r) /\ Len(w) = Len(r) - 1 /\ Len(r) \in Nat
  BY DEF OneOut
<1>1. \A i \in 1 .. Len(w) : n(i) \in 1 .. Len(r) /\ n(i) # k /\ w[i] = r[n(i)]
  BY <1>0 DEF OneOut
<1>2. \A i, j \in 1 .. Len(w) : (n(i) = n(j) => i = j) /\ (n(i) < n(j) => i < j)
  BY <1>0
<1>3. \A m \in 1 .. Len(r) : m # k => \E j \in 1 .. Len(w) : n(j) = m
  <2>1. ASSUME NEW m \in 1 .. Len(r), m # k PROVE \E j \in 1 .. Len(w) : n(j) = m
    <3>1. CASE m < k
      <4>1. m \in 1 .. Len(w) /\ n(m) = m
        BY <1>0, <3>1
      <4>2. QED
        BY <4>1
    <3>2. CASE m > k
      <4>1. m - 1 \in 1 .. Len(w) /\ n(m - 1) = m
        BY <1>0, <3>2
      <4>2. QED
        BY <4>1
    <3>3. QED
      BY <1>0, <2>1, <3>1, <3>2
  <2>2. QED
    BY <2>1
<1> HIDE DEF n
<1>4. Distinct(w)
  BY <1>1, <1>2 DEF Distinct
<1>5. \A i \in 1 .. Len(w) : w[i] # r[k]
  BY <1>0, <1>1 DEF Distinct
<1>6. ASSUME NEW g \in Groups, g # r[k], NEW x \in After(r, g), x # r[k] PROVE x \in After(w, g)
  <2>1. PICK m \in 1 .. Len(r) : r[m] = x /\ \A i \in 1 .. Len(r) : r[i] = g => i < m
    BY <1>6 DEF After
  <2>2. m # k
    BY <1>6, <2>1
  <2>3. PICK j \in 1 .. Len(w) : n(j) = m
    BY <1>3, <2>1, <2>2
  <2>4. w[j] = x
    BY <1>1, <2>1, <2>3
  <2>5. ASSUME NEW i \in 1 .. Len(w), w[i] = g PROVE i < j
    <3>1. n(i) < n(j)
      BY <1>1, <2>1, <2>3, <2>5
    <3>2. QED
      BY <1>2, <3>1
  <2>6. QED
    BY <1>6, <2>4, <2>5 DEF After
<1>7. QED
  BY <1>4, <1>5, <1>6

\* The group h goes to the end of the list.
LEMMA AppendAfter ==
    ASSUME NEW w \in Seq(Groups), NEW h \in Groups, Distinct(w), \A i \in 1 .. Len(w) : w[i] # h
    PROVE  /\ Distinct(Append(w, h))
           /\ \A g \in Groups : g # h => After(w, g) \cup {h} \subseteq After(Append(w, h), g)
<1> DEFINE r == Append(w, h)
<1>1. /\ Len(r) = Len(w) + 1 /\ Len(w) \in Nat
      /\ \A i \in 1 .. Len(w) : r[i] = w[i]
      /\ r[Len(w) + 1] = h
  OBVIOUS
<1> HIDE DEF r
<1>2. Distinct(r)
  BY <1>1 DEF Distinct
<1>3. ASSUME NEW g \in Groups, g # h PROVE After(w, g) \cup {h} \subseteq After(r, g)
  <2>1. \A i \in 1 .. Len(r) : r[i] = g => i \in 1 .. Len(w) /\ w[i] = g
    BY <1>1, <1>3
  <2>2. h \in After(r, g)
    <3>1. \A i \in 1 .. Len(r) : r[i] = g => i < Len(w) + 1
      BY <1>1, <2>1
    <3>2. Len(w) + 1 \in 1 .. Len(r)
      BY <1>1
    <3>3. QED
      BY <1>1, <3>1, <3>2 DEF After
  <2>3. ASSUME NEW x \in After(w, g) PROVE x \in After(r, g)
    <3>1. PICK j \in 1 .. Len(w) : w[j] = x /\ \A i \in 1 .. Len(w) : w[i] = g => i < j
      BY DEF After
    <3>2. j \in 1 .. Len(r) /\ r[j] = x
      BY <1>1, <3>1
    <3>3. \A i \in 1 .. Len(r) : r[i] = g => i < j
      BY <2>1, <3>1
    <3>4. x \in Groups
      BY DEF After
    <3>5. QED
      BY <3>2, <3>3, <3>4 DEF After
  <2>4. QED
    BY <2>2, <2>3
<1>4. QED
  BY <1>2, <1>3 DEF r

LEMMA RotatedAfter ==
    ASSUME NEW r \in Seq(Groups), NEW t \in Tasks, Distinct(r)
    PROVE  /\ Distinct(Rotated(r, t))
           /\ \A g \in Groups : g # GroupOf[t] =>
                After(r, g) \cup {GroupOf[t]} \subseteq After(Rotated(r, t), g)
<1> DEFINE h == GroupOf[t]
           w == Without(r, h)
<1>1. h \in Groups /\ Rotated(r, t) = Append(w, h)
  BY DEF Groups, Rotated
<1>2. CASE h \in ToSet(r)
  <2> DEFINE k == CHOOSE i \in DOMAIN r : r[i] = h
  <2>1. k \in 1 .. Len(r) /\ r[k] = h
    BY <1>2 DEF ToSet
  <2>2. w = RemoveAt(r, k)
    BY <1>2 DEF Without
  <2> HIDE DEF k, w
  <2>3. w \in Seq(Groups) /\ OneOut(r, k, w)
    BY <2>1, <2>2, RemoveAtIs
  <2>4. /\ Distinct(w)
        /\ \A i \in 1 .. Len(w) : w[i] # h
        /\ \A g \in Groups : g # h => \A x \in After(r, g) : x # h => x \in After(w, g)
    BY <2>1, <2>3, OneOutAfter
  <2>5. /\ Distinct(Append(w, h))
        /\ \A g \in Groups : g # h => After(w, g) \cup {h} \subseteq After(Append(w, h), g)
    BY <1>1, <2>3, <2>4, AppendAfter
  <2>6. QED
    BY <1>1, <2>4, <2>5
<1>3. CASE h \notin ToSet(r)
  <2>1. w = r
    BY <1>3 DEF Without
  <2>2. \A i \in 1 .. Len(r) : r[i] # h
    BY <1>3 DEF ToSet
  <2>3. /\ Distinct(Append(r, h))
        /\ \A g \in Groups : g # h => After(r, g) \cup {h} \subseteq After(Append(r, h), g)
    BY <1>1, <2>2, AppendAfter
  <2>4. QED
    BY <1>1, <2>1, <2>3
<1>4. QED
  BY <1>2, <1>3

\* Groups that are started come after one that is not.
LEMMA RotateAllAfter ==
    ASSUME NEW r \in Seq(Groups), NEW s \in Seq(Tasks), Distinct(r)
    PROVE  /\ Distinct(RotateAll(r, s))
           /\ \A g \in Groups : (\A i \in 1 .. Len(s) : GroupOf[s[i]] # g) =>
                /\ After(r, g) \subseteq After(RotateAll(r, s), g)
                /\ \A i \in 1 .. Len(s) : GroupOf[s[i]] \in After(RotateAll(r, s), g)
<1> DEFINE U == Seq(Groups)
           Others(g) == \A i \in 1 .. Len(s) : GroupOf[s[i]] # g
<1>1. \A x \in U, t \in Tasks : Rotated(x, t) \in U
  BY RotatedIn
<1>2. r \in U
  OBVIOUS
<1> HIDE DEF U
<1>3. PICK f : /\ f[0] = r
               /\ \A n \in 1 .. Len(s) : f[n] = Rotated(f[n - 1], s[n])
               /\ RotateAll(r, s) = f[Len(s)]
  BY <1>1, <1>2, RotateAllChain
<1>4. Len(s) \in Nat /\ \A i \in 1 .. Len(s) : s[i] \in Tasks
  OBVIOUS
<1> DEFINE Good(n) ==
             /\ f[n] \in U /\ Distinct(f[n])
             /\ \A g \in Groups : Others(g) =>
                  /\ After(r, g) \subseteq After(f[n], g)
                  /\ \A i \in 1 .. n : GroupOf[s[i]] \in After(f[n], g)
           G == {n \in 0 .. Len(s) : Good(n)}
<1>5. 0 \in G
  BY <1>2, <1>3, <1>4
<1>6. ASSUME NEW n \in 1 .. Len(s), n - 1 \in G PROVE n \in G
  <2> DEFINE x == f[n - 1]
             y == f[n]
             h == GroupOf[s[n]]
  <2>1. x \in U /\ Distinct(x)
        /\ \A g \in Groups : Others(g) =>
             /\ After(r, g) \subseteq After(x, g)
             /\ \A i \in 1 .. n - 1 : GroupOf[s[i]] \in After(x, g)
    BY <1>6
  <2>2. s[n] \in Tasks /\ y = Rotated(x, s[n])
    BY <1>3, <1>4
  <2>3. y \in U
    BY <1>1, <2>1, <2>2
  <2> HIDE DEF x, y
  <2>4. x \in Seq(Groups)
    BY <2>1 DEF U
  <2>5. Distinct(y) /\ \A g \in Groups : g # h => After(x, g) \cup {h} \subseteq After(y, g)
    BY <2>1, <2>2, <2>4, RotatedAfter
  <2>6. ASSUME NEW g \in Groups, Others(g)
        PROVE  /\ After(r, g) \subseteq After(y, g)
               /\ \A i \in 1 .. n : GroupOf[s[i]] \in After(y, g)
    <3>1. g # h
      BY <2>6
    <3>2. After(x, g) \subseteq After(y, g) /\ h \in After(y, g)
      BY <2>5, <3>1
    <3>3. After(r, g) \subseteq After(x, g) /\ \A i \in 1 .. n - 1 : GroupOf[s[i]] \in After(x, g)
      BY <2>1, <2>6
    <3>4. \A i \in 1 .. n : i = n \/ i \in 1 .. n - 1
      OBVIOUS
    <3>5. QED
      BY <3>2, <3>3, <3>4
  <2>7. Good(n)
    BY <2>3, <2>5, <2>6 DEF y
  <2>8. QED
    BY <1>4, <2>7
<1> HIDE DEF G
<1>7. 0 .. Len(s) \subseteq G
  BY <1>4, <1>5, <1>6, UpTo
<1>8. Len(s) \in G
  BY <1>4, <1>7
<1>9. Good(Len(s))
  BY <1>8 DEF G
<1>10. QED
  BY <1>3, <1>9

\* The oldest task of its group in S.
Eldest(S, u) == \A v \in S : v < u => GroupOf[v] # GroupOf[u]

LEMMA PositionIs ==
    ASSUME NEW p, NEW S, NEW u, recent[p] \in Seq(Groups)
    PROVE  /\ ~Eldest(S, u) => Position(p, S, u) = Len(recent[p]) + 1
           /\ Eldest(S, u) => Position(p, S, u) \in 0 .. Len(recent[p])
           /\ Eldest(S, u) /\ Position(p, S, u) # 0 => recent[p][Position(p, S, u)] = GroupOf[u]
           /\ Eldest(S, u) /\ Position(p, S, u) = 0 =>
                \A i \in 1 .. Len(recent[p]) : recent[p][i] # GroupOf[u]
<1> DEFINE r == recent[p]
<1>1. DOMAIN r = 1 .. Len(r) /\ Len(r) \in Nat
  OBVIOUS
<1> HIDE DEF r
<1>2. (\E v \in S : v < u /\ GroupOf[v] = GroupOf[u]) <=> ~Eldest(S, u)
  BY DEF Eldest
<1>3. CASE ~Eldest(S, u)
  BY <1>2, <1>3 DEF Position, r
<1>4. CASE Eldest(S, u) /\ GroupOf[u] \in ToSet(r)
  <2> DEFINE k == CHOOSE i \in DOMAIN r : r[i] = GroupOf[u]
  <2>1. k \in DOMAIN r /\ r[k] = GroupOf[u]
    BY <1>4 DEF ToSet
  <2>2. Position(p, S, u) = k
    BY <1>2, <1>4 DEF Position, r
  <2> HIDE DEF k
  <2>3. k \in 1 .. Len(r)
    BY <1>1, <2>1
  <2>4. QED
    BY <1>1, <1>4, <2>1, <2>2, <2>3 DEF r
<1>5. CASE Eldest(S, u) /\ GroupOf[u] \notin ToSet(r)
  <2>1. Position(p, S, u) = 0
    BY <1>2, <1>5 DEF Position, r
  <2>2. \A i \in 1 .. Len(r) : r[i] # GroupOf[u]
    BY <1>1, <1>5 DEF ToSet
  <2>3. QED
    BY <1>1, <1>5, <2>1, <2>2 DEF r
<1>6. QED
  BY <1>3, <1>4, <1>5

LEMMA EldestExists ==
    ASSUME NEW S \in SUBSET Tasks, NEW g, \E t \in S : GroupOf[t] = g
    PROVE  \E t \in S : GroupOf[t] = g /\ Eldest(S, t)
<1> DEFINE I == {t \in S : GroupOf[t] = g}
<1>1. I \in SUBSET Nat /\ I # {}
  BY PipelineAssumption DEF Tasks
<1>2. PICK t \in I : \A u \in I : ~(u < t)
  BY <1>1, LeastNat
<1>3. QED
  BY <1>2 DEF Eldest

\* A task that is started before the eldest of a group is the eldest of its
\* own, and that group was not scheduled since the other.
LEMMA BeforeWaiting ==
    ASSUME NEW p, NEW S, recent[p] \in Seq(Groups), Distinct(recent[p]),
           NEW t, Eldest(S, t), NEW u, GroupOf[u] # GroupOf[t],
           Position(p, S, u) <= Position(p, S, t)
    PROVE  Eldest(S, u) /\ GroupOf[u] \notin After(recent[p], GroupOf[t])
<1> DEFINE r == recent[p]
           m == Position(p, S, u)
           k == Position(p, S, t)
<1>1. Len(r) \in Nat /\ Distinct(r)
  OBVIOUS
<1>2. /\ ~Eldest(S, u) => m = Len(r) + 1
      /\ Eldest(S, u) => m \in 0 .. Len(r)
      /\ Eldest(S, u) /\ m # 0 => r[m] = GroupOf[u]
      /\ Eldest(S, u) /\ m = 0 => \A i \in 1 .. Len(r) : r[i] # GroupOf[u]
  BY PositionIs
<1>3. k \in 0 .. Len(r) /\ (k # 0 => r[k] = GroupOf[t])
  BY PositionIs
<1>4. m <= k
  OBVIOUS
<1> HIDE DEF r, m, k
<1>5. Eldest(S, u)
  BY <1>1, <1>2, <1>3, <1>4
<1>6. ASSUME NEW j \in 1 .. Len(r), r[j] = GroupOf[u],
             \A i \in 1 .. Len(r) : r[i] = GroupOf[t] => i < j
      PROVE  FALSE
  <2>1. m # 0 /\ m \in 1 .. Len(r) /\ r[m] = GroupOf[u]
    BY <1>1, <1>2, <1>5, <1>6
  <2>2. m = j
    BY <1>6, <2>1, <1>1 DEF Distinct
  <2>3. k \in 1 .. Len(r) /\ r[k] = GroupOf[t]
    BY <1>1, <1>3, <1>4, <2>1
  <2>4. k < j
    BY <1>6, <2>3
  <2>5. QED
    BY <1>1, <1>4, <2>1, <2>2, <2>3, <2>4
<1>7. GroupOf[u] \notin After(r, GroupOf[t])
  BY <1>6 DEF After
<1>8. QED
  BY <1>5, <1>7 DEF r

LEMMA GroupsFinite == IsFiniteSet(Groups) /\ Cardinality(Groups) \in Nat
<1> DEFINE f == [t \in Tasks |-> GroupOf[t]]
<1>1. f \in Surjection(Tasks, Groups)
  BY DEF Surjection, Groups
<1> HIDE DEF f
<1>2. IsFiniteSet(Tasks)
  BY FS_Interval, PipelineAssumption DEF Tasks
<1>3. IsFiniteSet(Groups)
  BY <1>1, <1>2, FS_Surjection
<1>4. QED
  BY <1>3, FS_CardinalityType

\* n different groups that were not in A are now in B, with those of A.
LEMMA Grown ==
    ASSUME NEW A \in SUBSET Groups, NEW B \in SUBSET Groups, A \subseteq B,
           NEW n \in Nat, NEW h \in [1 .. n -> Groups],
           \A i, j \in 1 .. n : h[i] = h[j] => i = j,
           \A i \in 1 .. n : h[i] \in B /\ h[i] \notin A
    PROVE  Cardinality(A) + n <= Cardinality(B)
<1> DEFINE H == {h[i] : i \in 1 .. n}
<1>1. h \in Bijection(1 .. n, H)
  BY DEF Bijection, Injection, Surjection, IsInjective
<1>2. A \cap H = {} /\ A \cup H \subseteq B /\ H \subseteq Groups
  OBVIOUS
<1> HIDE DEF H
<1>3. IsFiniteSet(1 .. n) /\ Cardinality(1 .. n) = n
  BY FS_Interval
<1>4. IsFiniteSet(H) /\ Cardinality(H) = n
  BY <1>1, <1>3, FS_Bijection DEF ExistsBijection
<1>5. IsFiniteSet(A) /\ IsFiniteSet(B)
  BY GroupsFinite, FS_Subset
<1>6. Cardinality(A \cup H) = Cardinality(A) + Cardinality(H) - Cardinality({})
  BY <1>2, <1>4, <1>5, FS_Union
<1>7. Cardinality({}) = 0
  BY FS_EmptySet
<1>8. Cardinality(A \cup H) <= Cardinality(B)
  BY <1>2, <1>5, FS_Subset
<1>9. Cardinality(A) \in Nat
  BY <1>5, FS_CardinalityType
<1>10. QED
  BY <1>4, <1>6, <1>7, <1>8, <1>9

\* A group was passed over at most once by each group scheduled since.
FairInv(p) ==
    /\ Distinct(recent[p])
    /\ \A g \in Groups : passed[g] <= Cardinality(After(recent[p], g))

LEMMA StartTasksFair ==
    ASSUME TypeInv, NEW p \in Processes, FairInv(p), NEW v, NEW S \in SUBSET Tasks, StartTasks(p, v, S)
    PROVE  FairInv(p)'
<1>1. recent \in [Processes -> Seq(Groups)] /\ passed \in [Groups -> Nat] /\ limit \in Nat
  BY TypeParts DEF OuterTyped
<1>2. PICK s \in Ordered(p, S) :
        LET chosen == SubSeq(s, 1, IF Len(s) < Slots THEN Len(s) ELSE Slots)
            started == ToSet(chosen)
        IN /\ recent' = [recent EXCEPT ![p] = RotateAll(@, chosen)]
           /\ passed' = [g \in Groups |->
                IF \E t \in started : GroupOf[t] = g THEN 0
                ELSE IF \E t \in S : GroupOf[t] = g THEN passed[g] + Len(chosen)
                ELSE passed[g]]
  BY DEF StartTasks
<1> DEFINE c == Chosen(s)
           r == recent[p]
           x == RotateAll(r, c)
<1>3. /\ recent' = [recent EXCEPT ![p] = x]
      /\ passed' = [g \in Groups |->
            IF \E t \in ToSet(c) : GroupOf[t] = g THEN 0
            ELSE IF \E t \in S : GroupOf[t] = g THEN passed[g] + Len(c)
            ELSE passed[g]]
  BY <1>2 DEF Chosen
<1>4. r \in Seq(Groups) /\ Distinct(r) /\ recent'[p] = x
  BY <1>1, <1>3 DEF FairInv
<1>5. c = Chosen(s) /\ s \in Ordered(p, S)
  BY <1>2
<1> HIDE DEF c, x
<1>6. /\ s \in Seq(Tasks) /\ ToSet(s) = S /\ c \in Seq(Tasks) /\ Len(c) \in Nat
      /\ \A i \in 1 .. Len(c) : i \in 1 .. Len(s) /\ c[i] = s[i] /\ c[i] \in S
      /\ \A i, j \in 1 .. Len(s) : i < j => Position(p, S, s[i]) <= Position(p, S, s[j])
  <2>1. s \in Seq(Tasks) /\ ToSet(s) = S
    BY <1>1, <1>5, ChosenAre
  <2>2. c \in Seq(Tasks) /\ Len(c) \in Nat
    BY <1>1, <1>5, ChosenAre
  <2>3. \A i \in 1 .. Len(c) : i \in 1 .. Len(s) /\ c[i] = s[i]
    <3>1. Len(c) <= Len(s)
      BY <1>1, <1>5, ChosenAre
    <3>2. Begins(c, s)
      BY <1>1, <1>5, ChosenAre
    <3>3. QED
      BY <2>1, <2>2, <3>1, <3>2 DEF Begins
  <2>4. \A i \in 1 .. Len(c) : c[i] \in S
    BY <1>1, <1>5, ChosenAre
  <2>5. \A i, j \in 1 .. Len(s) : i < j => Position(p, S, s[i]) <= Position(p, S, s[j])
    BY <1>1, <1>5, ChosenAre
  <2>6. QED
    BY <2>1, <2>2, <2>3, <2>4, <2>5
<1>7. Distinct(c)
  BY <1>1, <1>5, ChosenAre
<1>8. /\ Distinct(x)
      /\ \A g \in Groups : (\A i \in 1 .. Len(c) : GroupOf[c[i]] # g) =>
            /\ After(r, g) \subseteq After(x, g)
            /\ \A i \in 1 .. Len(c) : GroupOf[c[i]] \in After(x, g)
  BY <1>4, <1>6, RotateAllAfter DEF x
<1>9. \A g : (\E t \in ToSet(c) : GroupOf[t] = g) <=> \E i \in 1 .. Len(c) : GroupOf[c[i]] = g
  BY <1>6 DEF ToSet
<1>10. ASSUME NEW g \in Groups PROVE passed'[g] <= Cardinality(After(x, g))
  <2> DEFINE A == After(r, g)
             B == After(x, g)
  <2>1. A \in SUBSET Groups /\ B \in SUBSET Groups
    BY DEF After
  <2>2. passed[g] <= Cardinality(A) /\ passed[g] \in Nat
    BY <1>1 DEF FairInv
  <2> HIDE DEF A, B
  <2>3. IsFiniteSet(A) /\ IsFiniteSet(B)
    BY <2>1, GroupsFinite, FS_Subset
  <2>4. Cardinality(A) \in Nat /\ Cardinality(B) \in Nat
    BY <2>3, FS_CardinalityType
  <2>5. CASE \E i \in 1 .. Len(c) : GroupOf[c[i]] = g
    <3>1. passed'[g] = 0
      BY <1>3, <1>9, <2>5
    <3>2. QED
      BY <2>4, <3>1 DEF B
  <2>6. CASE \A i \in 1 .. Len(c) : GroupOf[c[i]] # g
    <3>1. A \subseteq B /\ \A i \in 1 .. Len(c) : GroupOf[c[i]] \in B
      BY <1>8, <2>6 DEF A, B
    <3>2. CASE \E t \in S : GroupOf[t] = g
      <4>1. PICK t \in S : GroupOf[t] = g /\ Eldest(S, t)
        BY <3>2, EldestExists
      <4>2. PICK k \in 1 .. Len(s) : s[k] = t
        BY <1>6 DEF ToSet
      <4>3. ASSUME NEW i \in 1 .. Len(c) PROVE i < k
        <5>1. ~(k \in 1 .. Len(c))
          BY <1>6, <2>6, <4>1, <4>2
        <5>2. QED
          BY <1>6, <5>1
      <4>4. ASSUME NEW i \in 1 .. Len(c)
            PROVE  Eldest(S, c[i]) /\ GroupOf[c[i]] \notin A /\ c[i] \in S
        <5>1. Position(p, S, c[i]) <= Position(p, S, t)
          BY <1>6, <4>2, <4>3
        <5>2. Eldest(S, c[i]) /\ GroupOf[c[i]] \notin After(recent[p], GroupOf[t])
          BY <1>4, <2>6, <4>1, <5>1, BeforeWaiting
        <5>3. QED
          BY <1>6, <4>1, <5>2 DEF A
      <4>5. ASSUME NEW i \in 1 .. Len(c), NEW j \in 1 .. Len(c), GroupOf[c[i]] = GroupOf[c[j]]
            PROVE  i = j
        <5>1. c[i] \in Tasks /\ c[j] \in Tasks
          BY <1>6
        <5>2. c[i] \in Nat /\ c[j] \in Nat
          BY <5>1 DEF Tasks
        <5>3. ~(c[i] < c[j]) /\ ~(c[j] < c[i])
          BY <4>4, <4>5 DEF Eldest
        <5>4. c[i] = c[j]
          BY <5>2, <5>3
        <5>5. QED
          BY <1>7, <4>5, <5>4 DEF Distinct
      <4> DEFINE h == [i \in 1 .. Len(c) |-> GroupOf[c[i]]]
      <4>6. h \in [1 .. Len(c) -> Groups]
        BY <1>6 DEF Groups
      <4>7. /\ \A i, j \in 1 .. Len(c) : h[i] = h[j] => i = j
            /\ \A i \in 1 .. Len(c) : h[i] \in B /\ h[i] \notin A
        BY <3>1, <4>4, <4>5
      <4> HIDE DEF h
      <4>8. Cardinality(A) + Len(c) <= Cardinality(B)
        BY <1>6, <2>1, <3>1, <4>6, <4>7, Grown
      <4>9. passed'[g] = passed[g] + Len(c)
        BY <1>3, <1>9, <2>6, <3>2
      <4>10. QED
        BY <1>6, <2>2, <2>4, <4>8, <4>9 DEF B
    <3>3. CASE ~\E t \in S : GroupOf[t] = g
      <4>1. passed'[g] = passed[g]
        BY <1>3, <1>9, <2>6, <3>3
      <4>2. Cardinality(A) <= Cardinality(B)
        BY <2>3, <3>1, FS_Subset
      <4>3. QED
        BY <2>2, <2>4, <4>1, <4>2 DEF B
    <3>4. QED
      BY <3>2, <3>3
  <2>7. QED
    BY <2>5, <2>6
<1>11. QED
  BY <1>4, <1>8, <1>10 DEF FairInv

\* A process that dies forgets the order of the groups.
LEMMA DiesFair ==
    ASSUME TypeInv, NEW p \in Processes, NEW r, NEW w, Dies(p, r, w)
    PROVE  FairInv(p)'
<1>1. recent'[p] = <<>> /\ \A g \in Groups : passed'[g] = 0
  BY TypeParts DEF Dies, OuterTyped
<1>2. ASSUME NEW g \in Groups PROVE passed'[g] <= Cardinality(After(recent'[p], g))
  <2>1. After(recent'[p], g) = {}
    BY <1>1 DEF After
  <2>2. Cardinality({}) = 0
    BY FS_EmptySet
  <2>3. Cardinality(After(recent'[p], g)) = 0 /\ passed'[g] = 0
    BY <1>1, <2>1, <2>2
  <2>4. QED
    BY <2>3
<1>3. Distinct(recent'[p])
  BY <1>1 DEF Distinct
<1>4. QED
  BY <1>2, <1>3 DEF FairInv

LEMMA FairStep ==
    ASSUME NEW app, Processes = {app}, TypeInv, FairInv(app), [Next]_vars
    PROVE  FairInv(app)'
<1>1. app \in Processes
  OBVIOUS
<1>2. CASE UNCHANGED <<recent, passed>>
  BY <1>2 DEF FairInv
<1>3. CASE RunSchedule(app)
  <2>1. \/ UNCHANGED <<recent, passed>>
        \/ \E S, v : S \in SUBSET Tasks /\ StartTasks(app, v, S)
    <3> DEFINE v == [View(app) EXCEPT !.needs = FALSE]
    <3>1. \/ UNCHANGED <<recent, passed>>
          \/ StartTasks(app, Load(v, Tasks), Schedulable(Load(v, Tasks)))
      BY <1>3 DEF RunSchedule
    <3>2. Schedulable(Load(v, Tasks)) \in SUBSET Tasks
      BY DEF Schedulable, InState, Relevant
    <3>3. QED
      BY <3>1, <3>2
  <2>2. QED
    BY <1>1, <1>2, <2>1, StartTasksFair
<1>4. ASSUME RunBlock(app) PROVE UNCHANGED <<recent, passed>> \/ RunSchedule(app)
  BY <1>4 DEF RunBlock, RunAdd, RunFail, RunComplete, RunFinish, RunAttach, RunDetach, RunDeliver,
     RunRetry, RunCancel, RunCancelNonCritical, CancelTasks, RunFinishPending, RunRecover
<1>5. ASSUME Around(app) PROVE UNCHANGED <<recent, passed>> \/ Dies(app, rows, wire)
  BY <1>5 DEF Around, Crash, Start, Attach, Release, Enqueue, Detach, FailAuthentication, Hold, Cancel,
     Evaluate, OnlyQueue, memVars, history
<1>6. ASSUME NEW w \in wire, NEW r \in {"result", "unverified", "offline"}, SessionCompletes(w, r)
      PROVE  UNCHANGED <<recent, passed>>
  BY <1>6 DEF SessionCompletes, history
<1>7. CASE UNCHANGED vars
  BY <1>2, <1>7 DEF vars, memVars, history
<1>8. ASSUME DieInBlock(app) PROVE \E r, w : Dies(app, r, w)
  <2>1. \A v : DiesAs(app, v) => \E r, w : Dies(app, r, w)
    BY DEF DiesAs
  <2>2. \A v, S, t, r : DiesFinishing(app, v, S, t, r) => \E x : DiesAs(app, x)
    BY DEF DiesFinishing
  <2>3. \A v, t : DiesStarting(app, v, t) => \E x : DiesAs(app, x)
    BY DEF DiesStarting
  <2>4. DieInFinish(app) \/ DieInRecover(app) \/ DieInFailing(app) => \E x : DiesAs(app, x)
    BY <2>2 DEF DieInFinish, DieInRecover, DieInFailing
  <2>5. DieInDeliver(app) \/ DieInRetry(app) => \E x : DiesAs(app, x)
    BY DEF DieInDeliver, DieInRetry
  <2>6. DieInSchedule(app) => \E x : DiesAs(app, x)
    BY <2>3 DEF DieInSchedule
  <2>7. QED
    BY <1>8, <2>1, <2>4, <2>5, <2>6 DEF DieInBlock
<1>9. CASE Next
  BY <1>1, <1>2, <1>3, <1>4, <1>5, <1>6, <1>8, <1>9, Steps, DiesFair
<1>10. QED
  BY <1>7, <1>9

\* In the pipeline of a single process, a group that could have had a task
\* started is passed over fewer times than there are groups, however many
\* requests of other groups, and of the group of requests without a group, are
\* waiting: what the comment on -_schedule promises of the "N slots".
THEOREM GroupsScheduledFairly ==
    ASSUME NEW app, Processes = {app}
    PROVE  Spec => []ScheduledFairly
<1> DEFINE Inv == TypeInv /\ FairInv(app)
<1>1. Init => Inv
  <2>1. SUFFICES ASSUME Init PROVE FairInv(app)
    BY TypeInit
  <2>2. recent[app] = <<>> /\ \A g \in Groups : passed[g] = 0
    BY <2>1 DEF Init
  <2>3. ASSUME NEW g \in Groups PROVE After(recent[app], g) = {}
    BY <2>2 DEF After
  <2>4. Distinct(recent[app])
    BY <2>2 DEF Distinct
  <2>5. Cardinality({}) = 0
    BY FS_EmptySet
  <2>6. ASSUME NEW g \in Groups PROVE passed[g] <= Cardinality(After(recent[app], g))
    <3>1. Cardinality(After(recent[app], g)) = 0 /\ passed[g] = 0
      BY <2>2, <2>3, <2>5
    <3>2. QED
      BY <3>1
  <2>7. QED
    BY <2>4, <2>6 DEF FairInv
<1>2. Inv /\ [Next]_vars => Inv'
  BY TypeStep, FairStep
<1>3. Inv => ScheduledFairly
  <2>1. SUFFICES ASSUME TypeInv, FairInv(app), NEW g \in Groups
                 PROVE  passed[g] < Cardinality(Groups)
    BY DEF ScheduledFairly
  <2> DEFINE A == After(recent[app], g)
  <2>2. passed[g] <= Cardinality(A) /\ passed[g] \in Nat
    BY <2>1, TypeParts DEF FairInv, OuterTyped
  <2>3. A \in SUBSET (Groups \ {g})
    <3>1. recent[app] \in Seq(Groups)
      BY <2>1, TypeParts DEF OuterTyped
    <3>2. ASSUME NEW j \in 1 .. Len(recent[app]) PROVE ~(j < j)
      BY <3>1
    <3>3. g \notin A
      BY <3>2 DEF After
    <3>4. QED
      BY <3>3 DEF After
  <2> HIDE DEF A
  <2>4. IsFiniteSet(Groups \ {g}) /\ Cardinality(Groups \ {g}) = Cardinality(Groups) - 1
    BY GroupsFinite, FS_RemoveElement
  <2>5. IsFiniteSet(A) /\ Cardinality(A) <= Cardinality(Groups \ {g})
    BY <2>3, <2>4, FS_Subset
  <2>6. Cardinality(A) \in Nat
    BY <2>5, FS_CardinalityType
  <2>7. QED
    BY <2>2, <2>4, <2>5, <2>6, GroupsFinite
<1> HIDE DEF Inv
<1>4. QED
  BY <1>1, <1>2, <1>3, PTL DEF Spec
=============================================================================
