SPECIFICATION FairSpec
CONSTANTS
  s1 = s1
  s2 = s2
  c1 = c1
  c2 = c2
  Steer = {s1, s2}
  Cancel = {c1, c2}
  MaxSteps = 2
  MaxToolCalls = 1
  MaxSteering = 2
INVARIANTS SteeringServed OneOutcome
PROPERTY CancelEnds
CHECK_DEADLOCK FALSE
