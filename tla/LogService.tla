----------------------------- MODULE LogService -----------------------------
(***************************************************************************)
(* What the asynchronous logger promises: messages are accepted in one     *)
(* order, handed to the sinks in that order and once each, and the worker  *)
(* leaves only when everything accepted until then has been handed over.   *)
(* What is accepted after it left is not written.                          *)
(***************************************************************************)
EXTENDS Naturals, Sequences

CONSTANT Messages

VARIABLES
    accepted,   \* the messages pushed, in order
    written,    \* the messages the sinks have got, in order
    closed      \* the worker has left

vars == <<accepted, written, closed>>

Init == accepted = <<>> /\ written = <<>> /\ closed = FALSE

Accept(m) == accepted' = Append(accepted, m) /\ UNCHANGED <<written, closed>>

Write ==
    /\ ~closed
    /\ \E n \in Len(written)..Len(accepted) : written' = SubSeq(accepted, 1, n)
    /\ UNCHANGED <<accepted, closed>>

Close ==
    /\ written = accepted
    /\ closed' = TRUE
    /\ UNCHANGED <<accepted, written>>

Next == (\E m \in Messages : Accept(m)) \/ Write \/ Close

Spec == Init /\ [][Next]_vars
=============================================================================
