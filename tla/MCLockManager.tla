--------------------------- MODULE MCLockManager ---------------------------
(* Instances of LockManager for TLC. *)
EXTENDS LockManager, TLC

CONSTANTS app, ext

Budget(n, c, s, i) ==
    [requests |-> n, crashes |-> c, suspensions |-> s, invalidations |-> i]

\* Two processes; the first one comes back and only tries.
MCOwner == 1 :> app @@ 2 :> ext @@ 3 :> app
MCBudgets ==
    {Budget(3, 0, 0, 0), Budget(2, 1, 0, 0), Budget(2, 0, 1, 0), Budget(2, 0, 0, 1)}
=============================================================================
