----------------------------- MODULE MCGateRun -----------------------------
(* Instances of GateRun for TLC.  One path is enough for one change to be *)
(* torn between two reads; whether it is in scope is up to the manifest.   *)
EXTENDS GateRun

CONSTANT path
=============================================================================
