SPECIFICATION FairSpec
CONSTANTS
  Node = {n1}
  Msg = {m1}
  Unreadable = {}
  Unstamped = {}
  AlsoDirect = {m1}
  MaxRequests = 2
  OutboundLink = {}
  NoLink = NoLink
  NoNode = NoNode
INVARIANTS SyncInv PathHasWaiter CompleteIsFull
PROPERTIES ImplementsMailbox PathRequestEnds MarkedIsGiven
CHECK_DEADLOCK FALSE
