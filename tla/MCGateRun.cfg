SPECIFICATION Spec
CONSTANTS
  path = path
  Path = {path}
  MaxWrites = 2
INVARIANTS PassedIsVerified ReceiptsTrue
PROPERTY SnapshotIsReal
CHECK_DEADLOCK FALSE
