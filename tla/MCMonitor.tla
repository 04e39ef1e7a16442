----------------------------- MODULE MCMonitor ------------------------------
(***************************************************************************)
(* Small instances of Monitor: a short packet of event 0, a long one of    *)
(* event 1, and one of an event that no data writer is configured for.     *)
(***************************************************************************)
EXTENDS Monitor

MCPackets == {[event |-> 0, len |-> 1], [event |-> 1, len |-> 3], [event |-> 2, len |-> 1]}

=============================================================================
