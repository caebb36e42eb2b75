---------------------------- MODULE MCItemList ----------------------------
(***************************************************************************)
(* Instances of ItemList for TLC: a folder in a process that shows it and, *)
(* beside it, one that only acts on files.                                 *)
(***************************************************************************)
EXTENDS ItemList

CONSTANTS app, ext, x, y

Bounds(c, a, f) == [b \in Bounded |-> CASE b = "changes" -> c [] b = "actions" -> a [] OTHER -> f]

\* Another client's change, an action, and a list that is not received.
MCBudget == Bounds(1, 1, 1)
\* Another client's change and an action.
MCBudgetRinse == Bounds(1, 1, 0)
=============================================================================
