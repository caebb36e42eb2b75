--------------------------- MODULE MCHTTPPipeline ---------------------------
(* Instances of HTTPPipeline for TLC. *)
EXTENDS HTTPPipeline, TLC

CONSTANTS app, a, b, default

Scenario(limit_, n, c, o, e, d, h) ==
    [limit |-> limit_,
     budget |-> [tasks |-> n, crashes |-> c, offline |-> o, early |-> e,
                 detaches |-> d, holds |-> h]]

\* One process and two groups.
MCIssuerOne == [t \in 1 .. 4 |-> app]
MCGroups == 1 :> a @@ 2 :> a @@ 3 :> b @@ 4 :> b
\* Tasks, crashes, offline, early ends, detached handlers and unmet signals.
MCScenarios ==
    {Scenario(2, 2, 1, 1, 0, 0, 0), Scenario(2, 2, 1, 0, 0, 1, 0),
     Scenario(2, 2, 1, 0, 1, 0, 0), Scenario(2, 2, 0, 1, 0, 1, 0),
     Scenario(0, 2, 0, 0, 1, 0, 1), Scenario(1, 1, 1, 1, 0, 1, 1),
     Scenario(1, 1, 1, 1, 1, 1, 0), Scenario(1, 1, 1, 0, 1, 0, 1),
     Scenario(0, 1, 2, 0, 0, 1, 0), Scenario(0, 1, 2, 0, 1, 0, 0),
     Scenario(1, 4, 0, 1, 0, 0, 0)}
=============================================================================
