------------------------------- MODULE MCOutbox -------------------------------
(* Two events, the second available later, and two dispatchers. *)
EXTENDS Outbox

MCAvailableAt == [e \in Event |-> e]
=============================================================================
