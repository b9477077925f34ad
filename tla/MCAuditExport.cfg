SPECIFICATION FairSpec
CONSTANTS
  w1 = w1
  w2 = w2
  r1 = r1
  r2 = r2
  c1 = c1
  c2 = c2
  x = x
  y = y
  Writer = {w1, w2}
  Replica = {r1, r2}
  Appends <- MCAppends
  Client = {c1, c2}
  Request <- MCRequest
  MaxPage = 2
  MaxLog = 5
  MaxFaults = 1
INVARIANTS AuditComplete RegisteredIsStored
PROPERTY AuditDrains
CHECK_DEADLOCK FALSE
