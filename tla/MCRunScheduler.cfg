SPECIFICATION Spec
CONSTANTS
  RunId <- OneRun
  Priority <- Priorities
  Worker = {w1, w2}
  CompletionKey = {k1}
  ReportPath = {p1}
  LeaseMs <- TwoLeases
  None = None
  MaxTime = 4
  MaxVersion = 6
SYMMETRY WorkerSymmetry
INVARIANTS
  TypeOK
  SingleLeaseHolder
  ReexecutionNeedsOperator
  ResultFromLastLease
  OutboxMirrorsRun
PROPERTIES
  TerminalIsFinal
  ImplementsFencedWork
