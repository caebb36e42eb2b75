---------------------------- MODULE TokenRefresh ----------------------------
(***************************************************************************)
(* Refreshing an OAuth2 token under a lock of the app group                *)
(* (Authentication/OCAuthenticationMethodOAuth2.m, OCAuthenticationMethod, *)
(* Bookmark/OCBookmark.m), composed with what LockManager implements.      *)
(*                                                                         *)
(* All processes use the same account.  The server gives out a new refresh *)
(* token with every refresh and accepts only the last one, so refreshes    *)
(* must not overlap and each must start from the result of the last.  The  *)
(* token is kept in the keychain (stored), a copy of it in the bookmark    *)
(* object of each process (copy), which is dropped when another process    *)
(* posts that it has changed (news).                                       *)
(*                                                                         *)
(* Tokens are numbered in the order in which the server gives them out; a  *)
(* process waits for one lock at a time, so its requests need no names.    *)
(***************************************************************************)
EXTENDS Naturals

CONSTANTS
    Processes,      \* processes of the app group
    None,           \* no copy, no request
    MaxToken        \* bound: no refresh is asked for beyond this token

VARIABLES
    waiting,        \* processes whose request for the lock is not answered
    held,           \* locks processes have
    late,           \* processes that were not run for too long
    valid,          \* the refresh token the server accepts
    stored,         \* the one in the keychain
    copy,           \* _authenticationData of each process' bookmark
    news,           \* processes that have yet to hear of a change
    call,           \* the token request of each process
    knownInvalid,   \* authenticationDataKnownInvalidDate is set
    lostAnswer,     \* (history) a new token was lost on its way
    overslept       \* (history) a process was late

locks == <<waiting, held, late>>
authentication == <<valid, stored, copy, news, call, knownInvalid>>
history == <<lostAnswer, overslept>>
vars == <<locks, authentication, history>>

Lock == INSTANCE LockService WITH Requests <- Processes

\* What the completion handler is given instead of a token: the server's
\* refusal, another error of the server, a network failure.
Errors == {"refused", "malformed", "failed"}

\* A request sent with a token, its answer, the token given by it, and
\* (history) whether its process had heard of the last change of the token.
Calls == [token : Nat, told : BOOLEAN, answer : {"pending", "token"} \cup Errors, new : Nat]

ASSUME TokenAssumption == MaxToken \in Nat /\ None \notin Nat \cup Calls

TypeOK ==
    /\ Lock!ServiceTypeOK
    /\ valid \in Nat
    /\ stored \in Nat
    /\ copy \in [Processes -> Nat \cup {None}]
    /\ news \in SUBSET Processes
    /\ call \in [Processes -> Calls \cup {None}]
    /\ knownInvalid \in [Processes -> BOOLEAN]
    /\ lostAnswer \in BOOLEAN
    /\ overslept \in BOOLEAN

Init ==
    /\ Lock!ServiceInit
    /\ valid = 0
    /\ stored = 0
    /\ copy = [p \in Processes |-> None]
    /\ news = {}
    /\ call = [p \in Processes |-> None]
    /\ knownInvalid = [p \in Processes |-> FALSE]
    /\ lostAnswer = FALSE
    /\ overslept = FALSE

-----------------------------------------------------------------------------
(* The authentication method.                                              *)

\* (mutant) Only the bookmark's copy is read.
LoadedCopy(p) == copy[p]

\* -authenticationData: the bookmark's copy, or what the keychain has
Loaded(p) == IF copy[p] = None THEN stored ELSE copy[p]

\* -canSendAuthenticatedRequestsForConnection: has not been answered yet; the
\* connection makes other requests wait for its answer.
Refreshing(p) == waiting[p] # {} \/ call[p] # None

\* -_refreshTokenForConnection: the token is about to expire, or was answered
\* with an unexpected 401, and it is not known that it cannot be refreshed.
RequestRefresh(p) ==
    /\ ~Refreshing(p)
    /\ ~knownInvalid[p]
    /\ valid < MaxToken
    /\ Lock!Ask(p, p)
    /\ copy' = [copy EXCEPT ![p] = Loaded(p)]
    /\ UNCHANGED <<valid, stored, news, call, knownInvalid, history>>

\* -__refreshTokenForConnection: once the lock is there, the method's secret
\* is flushed, read again and sent.
Refresh(p) ==
    /\ Lock!Answer(p, {p}, {p}, {})
    /\ copy' = [copy EXCEPT ![p] = Loaded(p)]
    /\ knownInvalid' = [knownInvalid EXCEPT ![p] = FALSE]
    /\ call' = [call EXCEPT ![p] =
         [token |-> Loaded(p), told |-> p \notin news, answer |-> "pending", new |-> Loaded(p)]]
    /\ UNCHANGED <<valid, stored, news, history>>

\* The server gives out a new token in exchange for the last one, or refuses.
Serve(p) ==
    /\ call[p] # None
    /\ call[p].answer = "pending"
    /\ \/ /\ call[p].token = valid
          /\ valid' = valid + 1
          /\ call' = [call EXCEPT ![p].answer = "token", ![p].new = valid + 1]
       \/ /\ call[p].token # valid
          /\ call' = [call EXCEPT ![p].answer = "refused"]
          /\ UNCHANGED valid
    /\ UNCHANGED <<locks, stored, copy, news, knownInvalid, history>>

\* The request or its answer is lost, or the answer cannot be used.
Fail(p) ==
    /\ call[p] # None
    /\ call[p].answer \in {"pending", "token"}
    /\ \E e \in Errors \ {"refused"} : call' = [call EXCEPT ![p].answer = e]
    /\ lostAnswer' = (lostAnswer \/ call[p].answer = "token")
    /\ UNCHANGED <<locks, valid, stored, copy, news, knownInvalid, overslept>>

\* (mutant) The handler gives up if its lock was lost meanwhile.
FinishIfHeld(p) ==
    /\ call[p] # None
    /\ call[p].answer # "pending"
    /\ call' = [call EXCEPT ![p] = None]
    /\ \/ /\ call[p].answer = "token" /\ p \in held[p]
          /\ stored' = call[p].new
          /\ copy' = [copy EXCEPT ![p] = call[p].new]
          /\ news' = news \cup (Processes \ {p})
          /\ knownInvalid' = [knownInvalid EXCEPT ![p] = FALSE]
       \/ /\ call[p].answer \in Errors \/ p \notin held[p]
          /\ knownInvalid' = [knownInvalid EXCEPT ![p] = @ \/ call[p].answer # "failed"]
          /\ UNCHANGED <<stored, copy, news>>
    /\ \/ Lock!Release(p, p)
       \/ p \notin held[p] /\ UNCHANGED locks
    /\ UNCHANGED <<valid, history>>

\* (mutant) The lock is released only after a success.
FinishReleasingOnSuccess(p) ==
    /\ call[p] # None
    /\ call[p].answer # "pending"
    /\ call' = [call EXCEPT ![p] = None]
    /\ \/ /\ call[p].answer = "token"
          /\ stored' = call[p].new
          /\ copy' = [copy EXCEPT ![p] = call[p].new]
          /\ news' = news \cup (Processes \ {p})
          /\ knownInvalid' = [knownInvalid EXCEPT ![p] = FALSE]
          /\ Lock!Release(p, p) \/ (p \notin held[p] /\ UNCHANGED locks)
       \/ /\ call[p].answer \in Errors
          /\ knownInvalid' = [knownInvalid EXCEPT ![p] = @ \/ call[p].answer # "failed"]
          /\ UNCHANGED <<locks, stored, copy, news>>
    /\ UNCHANGED <<valid, history>>

\* The completion handler of the token request.  A new token is stored and the
\* other processes are notified; the lock is released, unless it was lost.
Finish(p) ==
    /\ call[p] # None
    /\ call[p].answer # "pending"
    /\ call' = [call EXCEPT ![p] = None]
    /\ \/ /\ call[p].answer = "token"
          /\ stored' = call[p].new
          /\ copy' = [copy EXCEPT ![p] = call[p].new]
          /\ news' = news \cup (Processes \ {p})
          /\ knownInvalid' = [knownInvalid EXCEPT ![p] = FALSE]
       \/ /\ call[p].answer \in Errors
          /\ knownInvalid' = [knownInvalid EXCEPT ![p] = @ \/ call[p].answer # "failed"]
          /\ UNCHANGED <<stored, copy, news>>
    /\ \/ Lock!Release(p, p)
       \/ p \notin held[p] /\ UNCHANGED locks
    /\ UNCHANGED <<valid, history>>

\* (mutant) The bookmark does not observe the notification.
AuthUpdatedMethod(p) ==
    /\ p \in news
    /\ news' = news \ {p}
    /\ knownInvalid' = [knownInvalid EXCEPT ![p] = FALSE]
    /\ UNCHANGED <<locks, valid, stored, copy, call, history>>

\* The notification reaches the method and the bookmark (-_authenticationData-
\* ChangedRemotely:, -considerAuthenticationDataFlush).
AuthUpdated(p) ==
    /\ p \in news
    /\ news' = news \ {p}
    /\ copy' = [copy EXCEPT ![p] = None]
    /\ knownInvalid' = [knownInvalid EXCEPT ![p] = FALSE]
    /\ UNCHANGED <<locks, valid, stored, call, history>>

\* A process that its user leaves flushes both caches (-_hostStatusChanged:).
ResignActive(p) ==
    /\ copy' = [copy EXCEPT ![p] = None]
    /\ knownInvalid' = [knownInvalid EXCEPT ![p] = FALSE]
    /\ UNCHANGED <<locks, valid, stored, news, call, history>>

-----------------------------------------------------------------------------
(* The system.                                                             *)

\* A request that a crashed process has sent may still reach the server.
Crash(p) ==
    /\ Lock!Die(p)
    /\ copy' = [copy EXCEPT ![p] = None]
    /\ call' = [call EXCEPT ![p] = None]
    /\ news' = news \ {p}
    /\ knownInvalid' = [knownInvalid EXCEPT ![p] = FALSE]
    /\ \/ /\ lostAnswer' = (lostAnswer \/ (call[p] # None /\ call[p].answer = "token"))
          /\ UNCHANGED valid
       \/ /\ call[p] # None
          /\ call[p].answer = "pending"
          /\ call[p].token = valid
          /\ valid' = valid + 1
          /\ lostAnswer' = TRUE
    /\ UNCHANGED <<stored, overslept>>

Oversleep(p) ==
    /\ p \notin late
    /\ Lock!Oversleep({p})
    /\ overslept' = TRUE
    /\ UNCHANGED <<authentication, lostAnswer>>

\* A pass finds a lock of the process lost, or nothing amiss.
Wake(p) ==
    /\ \/ \E lost \in SUBSET held[p] : lost # {} /\ Lock!Answer(p, {}, {}, lost)
       \/ p \in late /\ Lock!Recover(p)
    /\ UNCHANGED <<authentication, history>>

Next ==
    \E p \in Processes :
        \/ RequestRefresh(p) \/ Refresh(p) \/ Serve(p) \/ Fail(p) \/ Finish(p)
        \/ AuthUpdated(p) \/ ResignActive(p) \/ Crash(p) \/ Oversleep(p) \/ Wake(p)

\* Requests for the lock are answered (EventuallyServed of LockManager), token
\* requests are answered or time out, and handlers are run.
Fairness ==
    \A p \in Processes :
        /\ SF_vars(Refresh(p))
        /\ WF_vars(Serve(p))
        /\ WF_vars(Finish(p))
        /\ WF_vars(Wake(p))

Spec == Init /\ [][Next]_vars /\ Fairness

-----------------------------------------------------------------------------
(* Properties.                                                             *)

Refused(p) == call[p] # None /\ call[p].answer = "refused"

\* The server refuses no refresh of a process that had heard of the last
\* change, unless a new token was lost on its way or a process was not run for
\* too long: whatever the order of requests, crashes and notifications, no
\* user has to log in again.
RefusedOnlyIfDisturbed ==
    \A p \in Processes : Refused(p) => ~call[p].told \/ lostAnswer \/ overslept

\* The token the server accepts is in the keychain or on its way there, unless
\* it was lost, also after two processes refreshed at the same time.
TokenKept ==
    \/ stored = valid
    \/ \E p \in Processes : call[p] # None /\ call[p].answer = "token" /\ call[p].new = valid
    \/ lostAnswer

\* Who waits for the answer whether he can send gets one.
EveryRefreshEnds == \A p \in Processes : Refreshing(p) ~> ~Refreshing(p)
=============================================================================
