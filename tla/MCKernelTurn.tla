---------------------------- MODULE MCKernelTurn ----------------------------
(* Instances of KernelTurn for TLC: a run of a few rounds that two calls *)
(* steer and two cancel.                                                 *)
EXTENDS KernelTurn, TLC

CONSTANTS s1, s2, c1, c2

MCSymmetry == Permutations({s1, s2}) \union Permutations({c1, c2})
=============================================================================
