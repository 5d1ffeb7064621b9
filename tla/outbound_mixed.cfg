SPECIFICATION FairSpec
CONSTANTS
  m1 = m1
  m2 = m2
  d1 = d1
  n1 = n1
  NoLink = NoLink
  NoNode = NoNode
  Msg = {m1}
  Dest = {d1}
  DestOf <- OneDest
  Node = {n1}
  Calls <- MixedCalls
  MaxHashes = 2
  MaxSends = 2
  MaxDeliveryAttempts = 1
INVARIANTS NoSilentDrop DeliveryInv
PROPERTY EventuallyTold
CHECK_DEADLOCK FALSE
