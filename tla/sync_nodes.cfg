SPECIFICATION Spec
CONSTANTS
  Node = {n1, n2}
  Msg = {m1, m2, m3}
  Unreadable = {m3}
  Unstamped = {m2}
  AlsoDirect = {m1}
  MaxRequests = 1
  OutboundLink = {o1}
  NoLink = NoLink
  NoNode = NoNode
PROPERTIES ImplementsMailbox
CHECK_DEADLOCK FALSE
