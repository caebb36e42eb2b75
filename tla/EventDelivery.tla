--------------------------- MODULE EventDelivery ---------------------------
(***************************************************************************)
(* What the sync engine promises about the events it is handed: the        *)
(* events of one sync record are handled exactly once, in the order in     *)
(* which they were accepted, none skipped.  Events of different records    *)
(* are independent, and one transaction may make the handling of several   *)
(* events durable at once.                                                 *)
(***************************************************************************)
EXTENDS Naturals, Sequences, SequencesExt

CONSTANTS
    Events,     \* the events (each stands for its UUID)
    RecordOf    \* the sync record each event is addressed to

VARIABLES
    received,   \* events accepted into the event queue, oldest first
    handled     \* events whose handling is durable, oldest first

vars == <<received, handled>>

OfRecord(s, r) == SelectSeq(s, LAMBDA e : RecordOf[e] = r)

Init == received = <<>> /\ handled = <<>>

Receive(e) ==
    /\ e \notin ToSet(received)
    /\ received' = Append(received, e)
    /\ UNCHANGED handled

Handle ==
    /\ IsStrictPrefix(handled, handled')
    /\ \A e \in Events :
          IsPrefix(OfRecord(handled', RecordOf[e]), OfRecord(received, RecordOf[e]))
    /\ UNCHANGED received

Next == Handle \/ \E e \in Events : Receive(e)

Spec == Init /\ [][Next]_vars
=============================================================================
