SPECIFICATION Spec
CONSTANTS
  l1 = l1
  l2 = l2
  l3 = l3
  p1 = p1
  p2 = p2
  Lease = {l1, l2, l3}
  Process = {p1, p2}
  AllowedPaths <- MCAllowedPaths
  Recursive <- MCRecursive
  Rules <- MCRules
  Command = "test"
  MaxChanges = 1
  NoLease = NoLease
  NoProcess = NoProcess
SYMMETRY MCSymmetry
INVARIANTS StoppedMeansGone NothingRunsAfterReturn
PROPERTIES OnlyOwnRemoved SpawnedAsPlanned
CHECK_DEADLOCK FALSE
