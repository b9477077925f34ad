SPECIFICATION FairSpec
CONSTANTS
  Writer = {w1, w2}
  Publisher = {p1, p2}
  Steady = {p1}
  None = None
  MaxEvents = 2
  MaxFaults = 2
INVARIANTS
  StreamInOrder
  PublishedIsDelivered
PROPERTIES
  ClaimEndsByHolder
  ImplementsOrderedDelivery
