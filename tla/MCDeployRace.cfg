SPECIFICATION Spec
CONSTANTS
  cd1 = cd1
  vps1 = vps1
  cd2 = cd2
  script = script
  Runs <- TwoRuns
  Of <- MCOf
  After <- MCAfter
  MaxPush = 2
  Faults = FALSE
INVARIANTS
  SettledCurrent
CHECK_DEADLOCK FALSE
