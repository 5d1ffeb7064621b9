SPECIFICATION Spec
CONSTANTS
  m1 = m1
  m2 = m2
  d1 = d1
  n1 = n1
  NoLink = NoLink
  NoNode = NoNode
  Msg = {m1}
  Dest = {d1}
  DestOf <- OneDest
  Node = {n1}
  Calls <- ConfirmedCalls
  MaxHashes = 1
  MaxSends = 1
  MaxDeliveryAttempts = 2
PROPERTY ReadySkipsCompleted
CHECK_DEADLOCK FALSE
