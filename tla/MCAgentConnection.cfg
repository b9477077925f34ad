SPECIFICATION FairSpec
CONSTANTS
  Session = {s1}
  Replica = {r1}
  MaxSessions = 1
  MaxSteps = 1
  MaxToolCalls = 2
  MaxAsks = 2
  Commands = {c1}
  MaxLease = 2
  MaxBytes = 1
  Encoded <- MCEncoded
  Reserved <- MCReserved
  Wires <- MCWires
  Toolsets <- MCToolsets
CHECK_DEADLOCK FALSE
INVARIANTS AcceptedAnswerStands RestoresAgree
PROPERTIES EffectsAreDurable RestoreSparesLiveOwner SessionsEnd
