SPECIFICATION FairSpec
CONSTANTS
  RunId <- TwoRuns
  Priority <- TwoPriorities
  Worker = {w1}
  CompletionKey = {k1}
  ReportPath = {}
  LeaseMs <- ShortLease
  None = None
  MaxTime = 2
  MaxVersion = 0
INVARIANT CompletionKeyUnique
PROPERTIES NoPriorityInversion AbandonedLeaseReleased
