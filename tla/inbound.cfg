SPECIFICATION FairSpec
CONSTANTS
  d1 = d1
  d2 = d2
  o1 = o1
  i1 = i1
  m1 = m1
  m2 = m2
  Peer = {d1, d2}
  Out = {o1}
  In = {i1}
  PeerOf <- LinksOfD1
  Msg = {m1, m2}
  SourceOf <- ByEach
  Arrivals = 2
  DeliveredIDExpiry = 1
  MaxTime = 2
  NoLink = NoLink
  None = None
INVARIANTS InboundInv OncePerExpiry OnlyReplacedAreLost
PROPERTIES LiveBackchannelKept DeadLinksForgotten
CHECK_DEADLOCK FALSE
