SPECIFICATION FairSpec
CONSTANTS
  NumCPU = 3
  Bits = 3
  StampCosts <- AllCosts
  None = None
INVARIANTS MinerInv ErrorMeansNoneFound ValueMeetsCost
PROPERTIES Returns NoneLeftBehind
CHECK_DEADLOCK FALSE
