SPECIFICATION Spec
CONSTANTS
  Node = {n1}
  Msg = {m1}
  Unreadable = {}
  Unstamped = {}
  AlsoDirect = {}
  MaxRequests = 2
  OutboundLink = {}
  NoLink = NoLink
  NoNode = NoNode
INVARIANTS ActiveLinkIsUsed
CHECK_DEADLOCK FALSE
