---------------------- MODULE MCConnectionStateTracker ----------------------
(***************************************************************************)
(* Instance of the state tracker for TLC: a session with a producer and a  *)
(* consumer, and a temporary destination.                                  *)
(***************************************************************************)
EXTENDS ConnectionStateTracker

CONSTANTS s1, p1, c1, t1

MCSessionOf == [o \in Producers \cup Consumers |-> s1]
=============================================================================
