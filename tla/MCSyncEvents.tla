---------------------------- MODULE MCSyncEvents ----------------------------
(* Instances of SyncEvents for TLC. *)
EXTENDS SyncEvents, TLC

CONSTANTS e1, e2, e3, r1, r2, app, ext

\* Two requests of one record and one of another.
MCRecordOf == e1 :> r1 @@ e2 :> r1 @@ e3 :> r2
\* One process owns every record.
MCOwnerOne == r1 :> app @@ r2 :> app
\* Each process owns a record.
MCOwnerTwo == r1 :> app @@ r2 :> ext
\* One record with two requests.
MCRecordOfOne == e1 :> r1 @@ e2 :> r1
MCOwnerSmall == r1 :> app
\* Two records with a request each.
MCRecordOfTwo == e1 :> r1 @@ e2 :> r2
=============================================================================
