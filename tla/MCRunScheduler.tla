--------------------------- MODULE MCRunScheduler ---------------------------
(* Instances of RunScheduler small enough for TLC.                         *)
EXTENDS RunScheduler, TLC

OneRun == {1}
TwoRuns == {1, 2}
Priorities == {0}
TwoPriorities == {0, 5}
ShortLease == {1}
TwoLeases == {1, 2}

\* Workers are only ever compared with one another.
WorkerSymmetry == Permutations(Worker)
=============================================================================
