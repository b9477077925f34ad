------------------------ MODULE MCSessionContinuation ------------------------
(* Instances of SessionContinuation small enough for TLC: an owner and two *)
(* processes that try to take its session over.                            *)
EXTENDS SessionContinuation
=============================================================================
