SPECIFICATION Spec
CONSTANTS
  cd1 = cd1
  vps1 = vps1
  cd2 = cd2
  script = script
  Runs <- MCRuns
  Of <- MCOf
  After <- MCAfter
  MaxPush = 2
  Faults = TRUE
INVARIANTS
  TypeOK
  EndMeansPushed
  Delivered
PROPERTIES
  NeverBack
CHECK_DEADLOCK FALSE
