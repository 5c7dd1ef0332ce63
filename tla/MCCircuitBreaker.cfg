SPECIFICATION Spec
CONSTANTS
  r1 = r1
  r2 = r2
  r3 = r3
  r4 = r4
  r5 = r5
  Reqs <- MCReqs
  MaxRequests = 2
  Threshold = 2
  Interval = 1
  Timeout = 1
  MaxTime = 2
SYMMETRY Symmetry
INVARIANTS
  TypeOK
  TrialsBounded
PROPERTIES
  ChangesForCause
CHECK_DEADLOCK FALSE
