SPECIFICATION Spec
CONSTANTS
  Patterns <- LonePatterns
  Items <- LoneItems
  Valid <- LoneValid
  Addrs <- LoneAddrs
  Covers <- LoneCovers
  Cuts <- LoneCuts
  MaxTime = 2
  Expiries <- LoneExpiries
INVARIANTS
  ExpiryHonoured
