------------------------- MODULE TokenRefresh_proofs -------------------------
(***************************************************************************)
(* Theorems about TokenRefresh, for any processes and any number of        *)
(* refreshes: TypeCorrect, TokensKept and NoUndueRefusal.                  *)
(*                                                                         *)
(* As long as no answer is lost, tokens that are sent are never ahead of   *)
(* the keychain, and the keychain is at most one answer behind the server  *)
(* (TokenOrder).  As long as no process oversleeps either, the lock keeps  *)
(* token requests apart, and a process that was told of the last change    *)
(* has no copy but of what the keychain has (Undisturbed).                 *)
(***************************************************************************)
EXTENDS TokenRefresh, TLAPS

Answered(p) == call[p] # None /\ call[p].answer = "token"

TokenOrder ==
    /\ stored <= valid
    /\ \A p \in Processes : copy[p] # None => copy[p] <= stored
    /\ \A p \in Processes : call[p] # None => call[p].token <= stored
    /\ \A p \in Processes : Answered(p) => call[p].new = valid /\ stored < valid
    /\ \A p, q \in Processes : Answered(p) /\ Answered(q) => p = q
    /\ stored = valid \/ \E p \in Processes : Answered(p)

Undisturbed ==
    \A p \in Processes :
        /\ held[p] = IF call[p] = None THEN {} ELSE {p}
        /\ p \notin news => copy[p] \in {None, stored}
        /\ call[p] # None /\ call[p].told =>
            /\ call[p].answer # "refused"
            /\ call[p].answer = "pending" => call[p].token = stored

\* A process waits for the lock before it sends a request, and not while one
\* is under way.
WaitsFirst ==
    \A p \in Processes : waiting[p] \subseteq {p} /\ (waiting[p] # {} => call[p] = None)

IInv ==
    /\ TypeOK
    /\ WaitsFirst
    /\ Lock!Apart(held, late)
    /\ overslept \/ late = {}
    /\ lostAnswer \/ TokenOrder
    /\ lostAnswer \/ overslept \/ Undisturbed

-----------------------------------------------------------------------------
(* Type correctness.                                                       *)

LEMMA TypeInit == Init => TypeOK
<1> SUFFICES ASSUME Init PROVE TypeOK
  OBVIOUS
<1>1. Lock!ServiceTypeOK
  BY DEF Init, Lock!ServiceInit, Lock!ServiceTypeOK
<1>2. copy \in [Processes -> Nat \cup {None}] /\ call \in [Processes -> Calls \cup {None}]
  BY DEF Init
<1>3. QED
  BY <1>1, <1>2 DEF Init, TypeOK

LEMMA LoadedType ==
    ASSUME TypeOK, NEW p \in Processes
    PROVE  Loaded(p) \in Nat
  BY DEF TypeOK, Loaded

LEMMA AnswerType ==
    ASSUME TypeOK, NEW p \in Processes,
           NEW answered, NEW granted, NEW lost, Lock!Answer(p, answered, granted, lost)
    PROVE  Lock!ServiceTypeOK'
<1>1. answered \subseteq Processes /\ granted \subseteq Processes
  BY DEF TypeOK, Lock!ServiceTypeOK, Lock!Answer
<1>2. waiting' \in [Processes -> SUBSET Processes] /\ held' \in [Processes -> SUBSET Processes]
  BY <1>1 DEF TypeOK, Lock!ServiceTypeOK, Lock!Answer
<1>3. QED
  BY <1>2 DEF TypeOK, Lock!ServiceTypeOK, Lock!Answer

LEMMA TypeStep ==
    ASSUME TypeOK, [Next]_vars
    PROVE  TypeOK'
<1> USE TokenAssumption
<1>1. SUFFICES ASSUME NEW p \in Processes,
                      \/ RequestRefresh(p) \/ Refresh(p) \/ Serve(p) \/ Fail(p) \/ Finish(p)
                      \/ AuthUpdated(p) \/ ResignActive(p) \/ Crash(p)
                      \/ Oversleep(p) \/ Wake(p)
               PROVE  TypeOK'
  BY DEF Next, TypeOK, vars, locks, authentication, history, Lock!ServiceTypeOK
<1>2. CASE RequestRefresh(p)
  <2>1. copy' \in [Processes -> Nat \cup {None}]
    BY <1>2, LoadedType DEF RequestRefresh, TypeOK
  <2>2. Lock!ServiceTypeOK'
    BY <1>2 DEF RequestRefresh, Lock!Ask, TypeOK, Lock!ServiceTypeOK
  <2>3. QED
    BY <1>2, <2>1, <2>2 DEF RequestRefresh, TypeOK, history
<1>3. CASE Refresh(p)
  <2>1. Lock!ServiceTypeOK'
    BY <1>3, AnswerType DEF Refresh
  <2>2. Loaded(p) \in Nat
    BY LoadedType
  <2>3. copy' \in [Processes -> Nat \cup {None}]
    BY <1>3, <2>2 DEF Refresh, TypeOK
  <2>4. [token |-> Loaded(p), told |-> p \notin news, answer |-> "pending", new |-> Loaded(p)] \in Calls
    BY <2>2 DEF Calls
  <2>5. call' \in [Processes -> Calls \cup {None}]
    BY <1>3, <2>4 DEF Refresh, TypeOK
  <2>6. QED
    BY <1>3, <2>1, <2>3, <2>5 DEF Refresh, TypeOK, history
<1>4. CASE Serve(p)
  <2>1. call[p] \in Calls
    BY <1>4 DEF Serve, TypeOK
  <2>2. valid' \in Nat
    BY <1>4 DEF Serve, TypeOK
  <2>3. call' \in [Processes -> Calls \cup {None}]
    BY <1>4, <2>1 DEF Serve, TypeOK, Calls, Errors
  <2>4. QED
    BY <1>4, <2>2, <2>3 DEF Serve, TypeOK, history, locks, Lock!ServiceTypeOK
<1>5. CASE Fail(p)
  <2>1. call[p] \in Calls
    BY <1>5 DEF Fail, TypeOK
  <2>2. call' \in [Processes -> Calls \cup {None}]
    BY <1>5, <2>1 DEF Fail, TypeOK, Calls, Errors
  <2>3. lostAnswer' \in BOOLEAN
    BY <1>5 DEF Fail, TypeOK
  <2>4. QED
    BY <1>5, <2>2, <2>3 DEF Fail, TypeOK, locks, Lock!ServiceTypeOK
<1>6. CASE Finish(p)
  <2>1. call[p].new \in Nat
    BY <1>6 DEF Finish, TypeOK, Calls
  <2>2. Lock!ServiceTypeOK'
    BY <1>6 DEF Finish, Lock!Release, TypeOK, locks, Lock!ServiceTypeOK
  <2>3. /\ stored' \in Nat /\ copy' \in [Processes -> Nat \cup {None}] /\ news' \in SUBSET Processes
        /\ call' \in [Processes -> Calls \cup {None}]
    BY <1>6, <2>1 DEF Finish, TypeOK
  <2>4. knownInvalid' \in [Processes -> BOOLEAN]
    BY <1>6 DEF Finish, TypeOK
  <2>5. QED
    BY <1>6, <2>2, <2>3, <2>4 DEF Finish, TypeOK, history
<1>7. CASE AuthUpdated(p) \/ ResignActive(p)
  BY <1>7 DEF AuthUpdated, ResignActive, TypeOK, history, locks, Lock!ServiceTypeOK
<1>8. CASE Crash(p)
  <2>1. Lock!ServiceTypeOK'
    BY <1>8 DEF Crash, Lock!Die, TypeOK, Lock!ServiceTypeOK
  <2>2. /\ copy' \in [Processes -> Nat \cup {None}] /\ call' \in [Processes -> Calls \cup {None}]
        /\ news' \in SUBSET Processes /\ knownInvalid' \in [Processes -> BOOLEAN]
    BY <1>8 DEF Crash, TypeOK
  <2>3. valid' \in Nat
    BY <1>8 DEF Crash, TypeOK
  <2>4. lostAnswer' \in BOOLEAN
    BY <1>8 DEF Crash, TypeOK
  <2>5. QED
    BY <1>8, <2>1, <2>2, <2>3, <2>4 DEF Crash, TypeOK
<1>9. CASE Oversleep(p)
  BY <1>9 DEF Oversleep, Lock!Oversleep, TypeOK, authentication, Lock!ServiceTypeOK
<1>10. CASE Wake(p)
  <2>1. Lock!ServiceTypeOK'
    <3>1. CASE Lock!Recover(p)
      BY <3>1 DEF Lock!Recover, TypeOK, Lock!ServiceTypeOK
    <3>2. QED
      BY <1>10, <3>1, AnswerType DEF Wake
  <2>2. QED
    BY <1>10, <2>1 DEF Wake, TypeOK, authentication, history
<1>11. QED
  BY <1>1, <1>2, <1>3, <1>4, <1>5, <1>6, <1>7, <1>8, <1>9, <1>10

\* What is known of tokens and requests is well typed: no process sends a
\* request without a token (-__refreshTokenForConnection:).
THEOREM TypeCorrect == Spec => []TypeOK
  BY TypeInit, TypeStep, PTL DEF Spec

-----------------------------------------------------------------------------
(* Requests.                                                               *)

LEMMA WaitStep ==
    ASSUME TypeOK, WaitsFirst, [Next]_vars
    PROVE  WaitsFirst'
<1>1. ASSUME NEW p \in Processes, RequestRefresh(p)
      PROVE  WaitsFirst'
  <2>1. call' = call /\ call[p] = None /\ waiting' = [waiting EXCEPT ![p] = @ \cup {p}]
    BY <1>1 DEF RequestRefresh, Refreshing, Lock!Ask
  <2>2. QED
    BY <2>1 DEF WaitsFirst, TypeOK, Lock!ServiceTypeOK
<1>2. ASSUME NEW p \in Processes, Refresh(p)
      PROVE  WaitsFirst'
  <2>1. waiting' = [waiting EXCEPT ![p] = @ \ {p}]
    BY <1>2 DEF Refresh, Lock!Answer
  <2>2. \A q \in Processes : q # p => call'[q] = call[q]
    BY <1>2 DEF Refresh, TypeOK
  <2>3. QED
    BY <2>1, <2>2 DEF WaitsFirst, TypeOK, Lock!ServiceTypeOK
<1>3. ASSUME NEW p \in Processes, Serve(p) \/ Fail(p) \/ Finish(p)
      PROVE  WaitsFirst'
  <2>1. waiting' = waiting /\ call[p] # None
    BY <1>3 DEF Serve, Fail, Finish, Lock!Release, locks
  <2>2. \A q \in Processes : q # p => call'[q] = call[q]
    BY <1>3 DEF Serve, Fail, Finish, TypeOK
  <2>3. QED
    BY <2>1, <2>2 DEF WaitsFirst
<1>4. ASSUME NEW p \in Processes, AuthUpdated(p) \/ ResignActive(p) \/ Oversleep(p)
      PROVE  WaitsFirst'
  BY <1>4 DEF AuthUpdated, ResignActive, Oversleep, Lock!Oversleep, locks, authentication, WaitsFirst
<1>5. ASSUME NEW p \in Processes, Crash(p)
      PROVE  WaitsFirst'
  <2>1. \A q \in Processes : /\ waiting'[q] = IF q = p THEN {} ELSE waiting[q]
                             /\ call'[q] = IF q = p THEN None ELSE call[q]
    BY <1>5 DEF Crash, Lock!Die, TypeOK, Lock!ServiceTypeOK
  <2>2. QED
    BY <2>1 DEF WaitsFirst
<1>6. ASSUME NEW p \in Processes, Wake(p)
      PROVE  WaitsFirst'
  <2>1. call' = call
    BY <1>6 DEF Wake, authentication
  <2>2. \A q \in Processes : waiting'[q] = waiting[q]
    BY <1>6 DEF Wake, Lock!Answer, Lock!Recover, TypeOK, Lock!ServiceTypeOK
  <2>3. QED
    BY <2>1, <2>2 DEF WaitsFirst
<1>7. CASE UNCHANGED vars
  BY <1>7 DEF vars, locks, authentication, WaitsFirst
<1>8. QED
  BY <1>1, <1>2, <1>3, <1>4, <1>5, <1>6, <1>7 DEF Next

-----------------------------------------------------------------------------
(* Tokens.                                                                 *)

\* Orders survive where the tokens stay and copies and requests are dropped.
LEMMA OrderDrop ==
    ASSUME TypeOK, TokenOrder, UNCHANGED <<valid, stored>>,
           \A q \in Processes : copy'[q] \in {None, copy[q]},
           \A q \in Processes : call'[q] = call[q] \/ (call'[q] = None /\ ~Answered(q))
    PROVE  TokenOrder'
<1>1. \A q \in Processes : Answered(q)' <=> Answered(q)
  BY DEF Answered
<1>2. \A q \in Processes : call'[q] # None => call'[q] = call[q]
  OBVIOUS
<1>3. QED
  BY <1>1, <1>2 DEF TokenOrder, Answered

LEMMA OrderServe ==
    ASSUME TypeOK, TokenOrder, NEW p \in Processes, Serve(p)
    PROVE  TokenOrder'
<1>1. /\ call[p] \in Calls /\ call[p] # None /\ ~Answered(p)
      /\ UNCHANGED <<stored, copy>>
  BY DEF Serve, TypeOK, Answered
<1>2. valid \in Nat /\ stored \in Nat /\ call[p].token \in Nat
  BY <1>1 DEF TypeOK, Calls
<1>3. \A q \in Processes : q # p => call'[q] = call[q]
  BY DEF Serve, TypeOK
<1>4. call'[p] # None /\ call'[p].token = call[p].token
  <2>1. \/ call' = [call EXCEPT ![p].answer = "token", ![p].new = valid + 1]
        \/ call' = [call EXCEPT ![p].answer = "refused"]
    BY DEF Serve
  <2>2. call'[p] \in Calls /\ call'[p].token = call[p].token
    BY <1>1, <1>2, <2>1 DEF TypeOK, Calls, Errors
  <2>3. QED
    BY <2>2, TokenAssumption
<1>5. CASE call[p].token = valid
  <2>1. stored = valid
    BY <1>1, <1>2, <1>5 DEF TokenOrder
  <2>2. \A q \in Processes : ~Answered(q)
    BY <1>2, <2>1 DEF TokenOrder
  <2>3. valid' = valid + 1 /\ call'[p].answer = "token" /\ call'[p].new = valid + 1
    BY <1>1, <1>5 DEF Serve, TypeOK, Calls
  <2>4. \A q \in Processes : Answered(q)' <=> q = p
    BY <1>3, <1>4, <2>2, <2>3 DEF Answered
  <2>5. \A q \in Processes : copy'[q] # None => copy'[q] <= stored
    BY <1>1 DEF TokenOrder
  <2>6. \A q \in Processes : call'[q] # None => call'[q].token <= stored
    BY <1>1, <1>3, <1>4 DEF TokenOrder
  <2>7. stored' <= valid' /\ stored' < valid'
    BY <1>1, <1>2, <2>1, <2>3
  <2>8. QED
    BY <1>1, <2>3, <2>4, <2>5, <2>6, <2>7 DEF TokenOrder
<1>6. CASE call[p].token # valid
  <2>1. valid' = valid /\ call'[p].answer = "refused"
    BY <1>1, <1>6 DEF Serve, TypeOK, Calls
  <2>2. \A q \in Processes : Answered(q)' <=> Answered(q)
    BY <1>1, <1>3, <2>1 DEF Answered
  <2>3. \A q \in Processes : call'[q] # None => call'[q].token <= stored
    BY <1>1, <1>3, <1>4 DEF TokenOrder
  <2>4. \A q \in Processes : Answered(q)' => call'[q].new = valid /\ stored < valid
    BY <1>1, <1>3, <2>2 DEF TokenOrder
  <2>5. QED
    BY <1>1, <2>1, <2>2, <2>3, <2>4 DEF TokenOrder
<1>7. QED
  BY <1>5, <1>6

LEMMA OrderFinish ==
    ASSUME TypeOK, TokenOrder, NEW p \in Processes, Finish(p)
    PROVE  TokenOrder'
<1>1. call[p] \in Calls /\ call[p] # None /\ valid' = valid
  BY DEF Finish, TypeOK
<1>2. \A q \in Processes : call'[q] = IF q = p THEN None ELSE call[q]
  BY DEF Finish, TypeOK
<1>3. CASE Answered(p)
  <2>1. stored' = valid /\ stored < valid
    BY <1>3 DEF Finish, Answered, TokenOrder, Errors
  <2>2. \A q \in Processes : copy'[q] = IF q = p THEN valid ELSE copy[q]
    BY <1>3, <2>1 DEF Finish, Answered, Errors, TokenOrder, TypeOK
  <2>3. \A q \in Processes : ~Answered(q)'
    BY <1>2, <1>3 DEF TokenOrder, Answered
  <2>4. stored \in Nat /\ valid \in Nat
    BY DEF TypeOK
  <2>5. \A q \in Processes : copy'[q] # None => copy'[q] <= valid
    <3>1. SUFFICES ASSUME NEW q \in Processes, copy[q] # None
                   PROVE  copy[q] <= valid
      BY <2>2, <2>4
    <3>2. copy[q] \in Nat /\ copy[q] <= stored
      BY <3>1 DEF TypeOK, TokenOrder
    <3>3. QED
      BY <2>1, <2>4, <3>2
  <2>6. \A q \in Processes : call'[q] # None => call'[q].token <= valid
    <3>1. SUFFICES ASSUME NEW q \in Processes, call[q] # None
                   PROVE  call[q].token <= valid
      BY <1>2
    <3>2. call[q].token \in Nat /\ call[q].token <= stored
      BY <3>1 DEF TypeOK, TokenOrder, Calls
    <3>3. QED
      BY <2>1, <2>4, <3>2
  <2>7. QED
    BY <1>1, <2>1, <2>3, <2>4, <2>5, <2>6 DEF TokenOrder
<1>4. CASE ~Answered(p)
  <2>1. UNCHANGED <<stored, copy>>
    BY <1>1, <1>4 DEF Finish, Answered
  <2>2. QED
    BY <1>1, <1>2, <1>4, <2>1, OrderDrop
<1>5. QED
  BY <1>3, <1>4

\* Reading the keychain's token, and sending it, is in order.
LEMMA OrderLoad ==
    ASSUME TypeOK, TokenOrder, NEW p \in Processes, RequestRefresh(p) \/ Refresh(p),
           ~Answered(p)
    PROVE  TokenOrder'
<1>1. UNCHANGED <<valid, stored>> /\ copy' = [copy EXCEPT ![p] = Loaded(p)]
  BY DEF RequestRefresh, Refresh
<1>2. Loaded(p) \in Nat /\ Loaded(p) <= stored /\ stored \in Nat
  BY DEF Loaded, TypeOK, TokenOrder
<1>3. \A q \in Processes : copy'[q] # None => copy'[q] <= stored
  BY <1>1, <1>2 DEF TokenOrder, TypeOK
<1>4. \A q \in Processes : q # p => call'[q] = call[q]
  BY DEF RequestRefresh, Refresh, TypeOK
<1>5. call'[p] = call[p] \/ (call'[p].token = Loaded(p) /\ call'[p].answer = "pending")
  BY DEF RequestRefresh, Refresh, TypeOK
<1>6. \A q \in Processes : Answered(q)' <=> Answered(q)
  BY <1>4, <1>5 DEF Answered
<1>7. \A q \in Processes : call'[q] # None => call'[q].token <= stored
  BY <1>2, <1>4, <1>5 DEF TokenOrder
<1>8. \A q \in Processes : Answered(q)' => call'[q].new = valid /\ stored < valid
  BY <1>4, <1>5, <1>6 DEF TokenOrder, Answered
<1>9. QED
  BY <1>1, <1>3, <1>6, <1>7, <1>8 DEF TokenOrder

LEMMA OrderFail ==
    ASSUME TypeOK, TokenOrder, NEW p \in Processes, Fail(p), ~Answered(p)
    PROVE  TokenOrder'
<1>1. call[p] \in Calls /\ UNCHANGED <<valid, stored, copy>>
  BY DEF Fail, TypeOK
<1>2. PICK e \in Errors : call' = [call EXCEPT ![p].answer = e]
  BY DEF Fail
<1>3. \A q \in Processes : q # p => call'[q] = call[q]
  BY <1>2 DEF TypeOK
<1>4. call'[p].answer = e /\ call'[p].token = call[p].token /\ e # "token"
  BY <1>1, <1>2 DEF TypeOK, Calls, Errors
<1>5. \A q \in Processes : Answered(q)' <=> Answered(q)
  BY <1>3, <1>4 DEF Answered
<1>6. \A q \in Processes : call'[q] # None => call'[q].token <= stored
  BY <1>3, <1>4 DEF TokenOrder, Fail
<1>7. \A q \in Processes : Answered(q)' => call'[q].new = valid /\ stored < valid
  BY <1>3, <1>4, <1>5 DEF TokenOrder, Answered
<1>8. QED
  BY <1>1, <1>5, <1>6, <1>7 DEF TokenOrder

LEMMA OrderStep ==
    ASSUME TypeOK, WaitsFirst, lostAnswer \/ TokenOrder, [Next]_vars
    PROVE  (lostAnswer \/ TokenOrder)'
<1>1. SUFFICES ASSUME TokenOrder, ~lostAnswer' PROVE TokenOrder'
  <2>1. lostAnswer => lostAnswer'
    BY DEF Next, vars, history, RequestRefresh, Refresh, Serve, Fail, Finish, AuthUpdated,
           ResignActive, Crash, Oversleep, Wake
  <2>2. QED
    BY <2>1
<1>2. ASSUME NEW p \in Processes, Oversleep(p) \/ Wake(p) \/ AuthUpdated(p) \/ ResignActive(p)
      PROVE  TokenOrder'
  <2>1. UNCHANGED <<valid, stored, call>>
    BY <1>2 DEF Oversleep, Wake, AuthUpdated, ResignActive, authentication
  <2>2. \A q \in Processes : copy'[q] \in {None, copy[q]}
    BY <1>2 DEF Oversleep, Wake, AuthUpdated, ResignActive, authentication, TypeOK
  <2>3. QED
    BY <1>1, <2>1, <2>2, OrderDrop
<1>3. ASSUME NEW p \in Processes, Crash(p)
      PROVE  TokenOrder'
  <2>1. UNCHANGED <<valid, stored>> /\ ~Answered(p)
    BY <1>1, <1>3 DEF Crash, Answered
  <2>2. \A q \in Processes : /\ copy'[q] = IF q = p THEN None ELSE copy[q]
                             /\ call'[q] = IF q = p THEN None ELSE call[q]
    BY <1>3 DEF Crash, TypeOK
  <2>3. QED
    BY <1>1, <2>1, <2>2, OrderDrop
<1>4. ASSUME NEW p \in Processes, RequestRefresh(p)
      PROVE  TokenOrder'
  <2>1. ~Answered(p)
    BY <1>4 DEF RequestRefresh, Refreshing, Answered
  <2>2. QED
    BY <1>1, <1>4, <2>1, OrderLoad
<1>5. ASSUME NEW p \in Processes, Refresh(p)
      PROVE  TokenOrder'
  <2>1. ~Answered(p)
    BY <1>5 DEF Refresh, Lock!Answer, WaitsFirst, Answered
  <2>2. QED
    BY <1>1, <1>5, <2>1, OrderLoad
<1>6. ASSUME NEW p \in Processes, Fail(p)
      PROVE  TokenOrder'
  BY <1>1, <1>6, OrderFail DEF Fail, Answered
<1>7. CASE UNCHANGED vars
  BY <1>1, <1>7 DEF vars, authentication, TokenOrder, Answered
<1>8. QED
  BY <1>1, <1>2, <1>3, <1>4, <1>5, <1>6, <1>7, OrderServe, OrderFinish DEF Next

LEMMA OrderInit == Init => TokenOrder
  BY TokenAssumption DEF Init, TokenOrder, Answered

LEMMA OrderKept == TypeOK /\ TokenOrder => TokenKept
  BY DEF TokenOrder, TokenKept, Answered

\* The token the server accepts is never forgotten by the completion handler
\* (-__refreshTokenForConnection:), even if the lock was lost meanwhile.
THEOREM TokensKept == Spec => []TokenKept
<1> DEFINE I == TypeOK /\ WaitsFirst /\ (lostAnswer \/ TokenOrder)
<1>1. Init => I
  BY TypeInit, OrderInit DEF Init, Lock!ServiceInit, WaitsFirst
<1>2. I /\ [Next]_vars => I'
  BY TypeStep, WaitStep, OrderStep
<1>3. I => TokenKept
  BY OrderKept DEF TokenKept
<1>4. QED
  BY <1>1, <1>2, <1>3, PTL DEF Spec

-----------------------------------------------------------------------------
(* Refusals.                                                               *)

LEMMA ApartStep ==
    ASSUME TypeOK, Lock!Apart(held, late), overslept \/ late = {}, [Next]_vars
    PROVE  Lock!Apart(held, late)' /\ (overslept \/ late = {})'
<1> DEFINE Fewer == (\A q \in Processes : held'[q] \subseteq held[q]) /\ late \subseteq late'
<1>1. ASSUME Fewer PROVE Lock!Apart(held, late)'
  BY <1>1 DEF Lock!Apart
<1>2. ASSUME NEW p \in Processes,
             RequestRefresh(p) \/ Serve(p) \/ Fail(p) \/ Finish(p) \/ AuthUpdated(p) \/ ResignActive(p)
      PROVE  Lock!Apart(held, late)' /\ (overslept \/ late = {})'
  <2>1. UNCHANGED <<late, overslept>>
    BY <1>2 DEF RequestRefresh, Serve, Fail, Finish, AuthUpdated, ResignActive, Lock!Ask,
                Lock!Release, locks, history
  <2>2. \A q \in Processes : held'[q] \subseteq held[q]
    BY <1>2 DEF RequestRefresh, Serve, Fail, Finish, AuthUpdated, ResignActive, Lock!Ask,
                Lock!Release, locks, TypeOK, Lock!ServiceTypeOK
  <2>3. QED
    BY <1>1, <2>1, <2>2
<1>3. ASSUME NEW p \in Processes, Refresh(p) \/ Wake(p)
      PROVE  Lock!Apart(held, late)' /\ (overslept \/ late = {})'
  <2>1. overslept' = overslept /\ late' \subseteq late
    BY <1>3 DEF Refresh, Wake, Lock!Answer, Lock!Recover, history
  <2>2. Lock!Apart(held', late')
    BY <1>3 DEF Refresh, Wake, Lock!Answer, Lock!Recover
  <2>3. QED
    BY <2>1, <2>2 DEF Lock!Apart
<1>4. ASSUME NEW p \in Processes, Crash(p)
      PROVE  Lock!Apart(held, late)' /\ (overslept \/ late = {})'
  <2>1. late' = late \ {p} /\ overslept' = overslept
    BY <1>4 DEF Crash, Lock!Die
  <2>2. \A q \in Processes : held'[q] = IF q = p THEN {} ELSE held[q]
    BY <1>4 DEF Crash, Lock!Die, TypeOK, Lock!ServiceTypeOK
  <2>3. QED
    BY <2>1, <2>2 DEF Lock!Apart
<1>5. ASSUME NEW p \in Processes, Oversleep(p)
      PROVE  Lock!Apart(held, late)' /\ (overslept \/ late = {})'
  BY <1>1, <1>5 DEF Oversleep, Lock!Oversleep
<1>6. CASE UNCHANGED vars
  BY <1>6 DEF vars, locks, history, Lock!Apart
<1>7. QED
  BY <1>2, <1>3, <1>4, <1>5, <1>6 DEF Next

\* Token requests do not overlap.
LEMMA Alone ==
    ASSUME Undisturbed, Lock!Apart(held, late), late = {},
           NEW p \in Processes, NEW q \in Processes, call[p] # None, call[q] # None
    PROVE  p = q
<1>1. p \in held[p] /\ q \in held[q]
  BY DEF Undisturbed
<1>2. p # q => p \in late \/ q \in late
  BY <1>1 DEF Lock!Apart
<1>3. QED
  BY <1>2

LEMMA UndisturbedLoad ==
    ASSUME TypeOK, WaitsFirst, Undisturbed, NEW p \in Processes,
           RequestRefresh(p) \/ Refresh(p)
    PROVE  Undisturbed'
<1> USE TokenAssumption
<1>1. UNCHANGED <<stored, news>> /\ copy' = [copy EXCEPT ![p] = Loaded(p)]
  BY DEF RequestRefresh, Refresh
<1>2. p \notin news => Loaded(p) = stored
  BY DEF Undisturbed, Loaded
<1>3. \A q \in Processes : q \notin news => copy'[q] \in {None, stored}
  BY <1>1, <1>2 DEF Undisturbed, TypeOK
<1>4. CASE RequestRefresh(p)
  <2>1. UNCHANGED <<held, call>>
    BY <1>4 DEF RequestRefresh, Lock!Ask
  <2>2. QED
    BY <1>1, <1>3, <2>1 DEF Undisturbed
<1>5. CASE Refresh(p)
  <2> DEFINE new == [token |-> Loaded(p), told |-> p \notin news, answer |-> "pending",
                     new |-> Loaded(p)]
  <2>1. \A q \in Processes : call'[q] = IF q = p THEN new ELSE call[q]
    BY <1>5 DEF Refresh, TypeOK
  <2>2. new # None
    <3>1. new \in Calls
      BY LoadedType DEF Calls
    <3>2. QED
      BY <3>1
  <2>3. call[p] = None
    BY <1>5 DEF Refresh, Lock!Answer, WaitsFirst
  <2>4. \A q \in Processes : held'[q] = IF q = p THEN {p} ELSE held[q]
    BY <1>5, <2>3 DEF Refresh, Lock!Answer, Undisturbed, TypeOK, Lock!ServiceTypeOK
  <2>5. new.told => new.token = stored /\ new.answer # "refused"
    BY <1>2
  <2> HIDE DEF new
  <2>6. QED
    BY <1>1, <1>3, <2>1, <2>2, <2>4, <2>5 DEF Undisturbed
<1>6. QED
  BY <1>4, <1>5

\* The server only sees tokens of processes that were told.
LEMMA UndisturbedServe ==
    ASSUME TypeOK, TokenOrder, Undisturbed, Lock!Apart(held, late), late = {},
           NEW p \in Processes, Serve(p) \/ (Fail(p) /\ ~lostAnswer')
    PROVE  Undisturbed'
<1> USE TokenAssumption
<1>1. call[p] \in Calls /\ call[p] # None /\ UNCHANGED <<held, stored, copy, news>>
  BY DEF Serve, Fail, TypeOK, locks
<1>2. call[p].answer = "pending"
  BY <1>1 DEF Serve, Fail
<1>3. stored = valid
  <2>1. \A q \in Processes : ~Answered(q)
    BY <1>1, <1>2, Alone DEF Answered
  <2>2. QED
    BY <2>1 DEF TokenOrder
<1>4. \A q \in Processes : q # p => call'[q] = call[q]
  BY DEF Serve, Fail, TypeOK
<1>5. PICK a \in {"token"} \cup Errors :
        /\ call'[p] # None /\ call'[p].answer = a /\ call'[p].told = call[p].told
        /\ a = "refused" => call[p].token # valid
  <2>1. PICK a \in {"token"} \cup Errors, n \in Nat :
          /\ call' = [call EXCEPT ![p].answer = a, ![p].new = n]
          /\ a = "refused" => call[p].token # valid
    <3>1. CASE Serve(p) /\ call[p].token = valid
      <4>1. call' = [call EXCEPT ![p].answer = "token", ![p].new = valid + 1]
        BY <3>1 DEF Serve
      <4>2. valid + 1 \in Nat
        BY DEF TypeOK
      <4>3. "token" \in {"token"} \cup Errors /\ "token" # "refused"
        OBVIOUS
      <4>4. WITNESS "token" \in {"token"} \cup Errors, valid + 1 \in Nat
      <4>5. QED
        BY <4>1, <4>3
    <3>2. ASSUME NEW e \in Errors, call' = [call EXCEPT ![p].answer = e]
          PROVE  call' = [call EXCEPT ![p].answer = e, ![p].new = call[p].new] /\ call[p].new \in Nat
      BY <1>1, <3>2 DEF Calls, TypeOK
    <3>3. CASE Serve(p) /\ call[p].token # valid
      <4>1. call' = [call EXCEPT ![p].answer = "refused"]
        BY <3>3 DEF Serve
      <4>2. "refused" \in Errors
        BY DEF Errors
      <4>3. call' = [call EXCEPT ![p].answer = "refused", ![p].new = call[p].new] /\ call[p].new \in Nat
        BY <3>2, <4>1, <4>2
      <4>4. QED
        BY <3>3, <4>2, <4>3
    <3>4. CASE Fail(p)
      <4>1. PICK e \in Errors \ {"refused"} : call' = [call EXCEPT ![p].answer = e]
        BY <3>4 DEF Fail
      <4>2. call' = [call EXCEPT ![p].answer = e, ![p].new = call[p].new] /\ call[p].new \in Nat
        BY <3>2, <4>1
      <4>3. QED
        BY <4>1, <4>2
    <3>5. QED
      BY <3>1, <3>3, <3>4
  <2>2. call'[p] \in Calls
    BY <1>1, <2>1 DEF TypeOK, Calls
  <2>3. call'[p].answer = a /\ call'[p].told = call[p].told
    BY <1>1, <2>1 DEF TypeOK, Calls
  <2>4. QED
    BY <2>1, <2>2, <2>3
<1>6. call[p].told => call[p].token = stored
  BY <1>1, <1>2 DEF Undisturbed
<1>7. a # "pending" /\ (call'[p].told => a # "refused")
  BY <1>3, <1>5, <1>6 DEF Errors
<1>8. QED
  BY <1>1, <1>4, <1>5, <1>7 DEF Undisturbed

LEMMA UndisturbedFinish ==
    ASSUME TypeOK, Undisturbed, Lock!Apart(held, late), late = {},
           NEW p \in Processes, Finish(p)
    PROVE  Undisturbed'
<1>1. call[p] # None /\ \A q \in Processes : call'[q] = IF q = p THEN None ELSE call[q]
  BY DEF Finish, TypeOK
<1>2. \A q \in Processes : q # p => call[q] = None
  BY <1>1, Alone
<1>3. \A q \in Processes : call'[q] = None
  BY <1>1, <1>2
<1>4. p \in held[p] /\ held[p] = {p}
  BY <1>1 DEF Undisturbed
<1>5. held' = [held EXCEPT ![p] = @ \ {p}]
  BY <1>4 DEF Finish, Lock!Release
<1>6. \A q \in Processes : held'[q] = {}
  BY <1>2, <1>4, <1>5 DEF Undisturbed, TypeOK, Lock!ServiceTypeOK
<1>7. \A q \in Processes : q \notin news' => copy'[q] \in {None, stored'}
  <2>1. CASE /\ stored' = call[p].new
             /\ copy' = [copy EXCEPT ![p] = call[p].new]
             /\ news' = news \cup (Processes \ {p})
    BY <2>1 DEF TypeOK
  <2>2. CASE UNCHANGED <<stored, copy, news>>
    BY <2>2 DEF Undisturbed
  <2>3. QED
    BY <2>1, <2>2 DEF Finish
<1>8. QED
  BY <1>3, <1>6, <1>7 DEF Undisturbed

LEMMA UndisturbedStep ==
    ASSUME TypeOK, WaitsFirst, Lock!Apart(held, late), overslept \/ late = {},
           lostAnswer \/ TokenOrder, lostAnswer \/ overslept \/ Undisturbed, [Next]_vars
    PROVE  (lostAnswer \/ overslept \/ Undisturbed)'
<1>1. SUFFICES ASSUME TokenOrder, Undisturbed, late = {}, ~lostAnswer', ~overslept'
               PROVE  Undisturbed'
  <2>1. lostAnswer => lostAnswer'
    BY DEF Next, vars, history, RequestRefresh, Refresh, Serve, Fail, Finish, AuthUpdated,
           ResignActive, Crash, Oversleep, Wake
  <2>2. overslept => overslept'
    BY DEF Next, vars, history, RequestRefresh, Refresh, Serve, Fail, Finish, AuthUpdated,
           ResignActive, Crash, Oversleep, Wake
  <2>3. QED
    BY <2>1, <2>2
<1>2. ASSUME NEW p \in Processes, Crash(p)
      PROVE  Undisturbed'
  <2>1. \A q \in Processes : /\ copy'[q] = IF q = p THEN None ELSE copy[q]
                             /\ call'[q] = IF q = p THEN None ELSE call[q]
                             /\ held'[q] = IF q = p THEN {} ELSE held[q]
    BY <1>2 DEF Crash, Lock!Die, TypeOK, Lock!ServiceTypeOK
  <2>2. stored' = stored /\ news' = news \ {p}
    BY <1>2 DEF Crash
  <2>3. QED
    BY <1>1, <2>1, <2>2 DEF Undisturbed
<1>3. ASSUME NEW p \in Processes, AuthUpdated(p) \/ ResignActive(p)
      PROVE  Undisturbed'
  <2>1. UNCHANGED <<held, stored, call>>
    BY <1>3 DEF AuthUpdated, ResignActive, locks
  <2>2. \A q \in Processes : copy'[q] = IF q = p THEN None ELSE copy[q]
    BY <1>3 DEF AuthUpdated, ResignActive, TypeOK
  <2>3. \A q \in Processes : q # p => (q \in news' <=> q \in news)
    BY <1>3 DEF AuthUpdated, ResignActive
  <2>4. QED
    BY <1>1, <2>1, <2>2, <2>3 DEF Undisturbed
<1>4. ASSUME NEW p \in Processes, Oversleep(p) \/ Wake(p)
      PROVE  Undisturbed'
  BY <1>1, <1>4 DEF Oversleep, Wake, Lock!Answer
<1>5. CASE UNCHANGED vars
  BY <1>1, <1>5 DEF vars, locks, authentication, Undisturbed
<1>6. ASSUME NEW p \in Processes, RequestRefresh(p) \/ Refresh(p)
      PROVE  Undisturbed'
  BY <1>1, <1>6, UndisturbedLoad
<1>7. ASSUME NEW p \in Processes, Serve(p) \/ Fail(p)
      PROVE  Undisturbed'
  BY <1>1, <1>7, UndisturbedServe
<1>8. ASSUME NEW p \in Processes, Finish(p)
      PROVE  Undisturbed'
  BY <1>1, <1>8, UndisturbedFinish
<1>9. QED
  BY <1>2, <1>3, <1>4, <1>5, <1>6, <1>7, <1>8 DEF Next

LEMMA IInvInit == Init => IInv
<1> SUFFICES ASSUME Init PROVE IInv
  OBVIOUS
<1>1. \A p \in Processes : call[p] = None /\ held[p] = {} /\ waiting[p] = {} /\ copy[p] = None
  BY DEF Init, Lock!ServiceInit
<1>2. late = {}
  BY DEF Init, Lock!ServiceInit
<1>3. WaitsFirst /\ Lock!Apart(held, late) /\ Undisturbed
  BY <1>1 DEF WaitsFirst, Lock!Apart, Undisturbed
<1>4. QED
  BY <1>2, <1>3, TypeInit, OrderInit DEF IInv

LEMMA IInvStep == IInv /\ [Next]_vars => IInv'
<1> SUFFICES ASSUME IInv, [Next]_vars PROVE IInv'
  OBVIOUS
<1>1. TypeOK' /\ WaitsFirst'
  BY TypeStep, WaitStep DEF IInv
<1>2. Lock!Apart(held, late)' /\ (overslept \/ late = {})'
  BY ApartStep DEF IInv
<1>3. (lostAnswer \/ TokenOrder)'
  BY OrderStep DEF IInv
<1>4. (lostAnswer \/ overslept \/ Undisturbed)'
  BY UndisturbedStep DEF IInv
<1>5. QED
  BY <1>1, <1>2, <1>3, <1>4 DEF IInv

\* No refresh of a process that was told of the last change is refused
\* (-_refreshTokenForConnection:), for what the lock promises (LockService).
THEOREM NoUndueRefusal == Spec => []RefusedOnlyIfDisturbed
<1>1. IInv => RefusedOnlyIfDisturbed
  BY DEF IInv, Undisturbed, RefusedOnlyIfDisturbed, Refused
<1>2. QED
  BY <1>1, IInvInit, IInvStep, PTL DEF Spec
=============================================================================
