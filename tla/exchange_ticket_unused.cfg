SPECIFICATION Spec
CONSTANTS
  Router = {a, b}
  Announcing = {a}
  Msg = {a1, b1}
  a = a
  b = b
  a1 = a1
  a2 = a2
  b1 = b1
  Source <- ByName
  Destination <- ToTheOther
  AppCost <- NoAppCost
  AppFields <- AppFieldsOf
  StampCost <- OnlyAAsks
  EnforceStamps = {a}
  IncludeTickets = {a}
  TicketExpiry = 3
  TicketGrace = 1
  TicketRenew = 1
  TicketInterval = 1
  StampCostExpiry = 2
  Second = 2
  MaxWorth = 1
  MaxTime = 4
  MaxSends <- Once
  None = None
PROPERTIES HeldTicketIsUsed
CHECK_DEADLOCK FALSE
