SPECIFICATION AdapterSpec
CONSTANTS
  InSizes <- MCInSizes
  Requests <- MCRequests
  NoTarget = NoTarget
  MaxInt = 1000
  kNumNanosecsPerSec = 4
  MaxTime = 11
  None = None
INVARIANTS
  AdapterTypeOK
  OutputInBounds
  ClosestScale
  RateBounded
  SinksNotStarved
