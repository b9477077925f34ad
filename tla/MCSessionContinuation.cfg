SPECIFICATION FairSpec
CONSTANTS
  Owner = {o1, o2, o3}
  First = o1
  Steady = {o2}
  None = None
  MaxRounds = 2
  MaxLease = 2
CHECK_DEADLOCK FALSE
INVARIANTS
  RoundsExecutedOnce
  CheckpointNamesItsEvent
  WritersChangeByContinuation
  ContinuedFromSafeTail
  RestoredIsLast
PROPERTY
  SessionResolved
