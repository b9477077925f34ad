SPECIFICATION Spec
CONSTANTS
  Owner = {o1, o2}
  First = o1
  Steady = {o2}
  None = None
  MaxRounds = 1
  MaxLease = 1
CHECK_DEADLOCK FALSE
INVARIANT
  MarkerOnlyAfterNonterminalTail
