SPECIFICATION FairSpec
CONSTANTS
  Node = {n1}
  Msg = {}
  Unreadable = {}
  Unstamped = {}
  AlsoDirect = {}
  MaxRequests = 1
  OutboundLink = {}
  NoLink = NoLink
  NoNode = NoNode
PROPERTIES EstablishingIsReported
CHECK_DEADLOCK FALSE
