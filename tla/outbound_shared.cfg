SPECIFICATION Spec
CONSTANTS
  m1 = m1
  m2 = m2
  d1 = d1
  n1 = n1
  NoLink = NoLink
  NoNode = NoNode
  Msg = {m1, m2}
  Dest = {d1}
  DestOf <- OneDest
  Node = {}
  Calls <- SharedLinkCalls
  MaxHashes = 1
  MaxSends = 2
  MaxDeliveryAttempts = 2
INVARIANTS TypeOK SentImpliesHanded NeverGivenUpEarly OpportunisticOnce DeliveryInv
PROPERTIES ConcludedStable ImplementsDelivery
CHECK_DEADLOCK FALSE
