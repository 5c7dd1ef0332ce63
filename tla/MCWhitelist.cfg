SPECIFICATION Spec
CONSTANTS
  Patterns <- MCPatterns
  Items <- MCItems
  Valid <- MCValid
  Addrs <- MCAddrs
  Covers <- MCCovers
  Cuts <- MCCuts
  MaxTime = 1
  Expiries <- MCExpiries
INVARIANTS
  TypeOK
  RepeatsFromFile
  FileMatchesMemory
  DurableGrant
  AllowOnlyGranted
PROPERTIES
  KeepsPromise
