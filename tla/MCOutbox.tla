------------------------------ MODULE MCOutbox ------------------------------
(* An instance of Outbox small enough for TLC: two replicas, one of which  *)
(* stays up.                                                               *)
EXTENDS Outbox
=============================================================================
