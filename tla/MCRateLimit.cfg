SPECIFICATION Spec
CONSTANTS
  g1 = g1
  g2 = g2
  r1 = r1
  r2 = r2
  r3 = r3
  Gateways <- MCGateways
  Reqs <- MCReqs
  AdminReqs <- MCAdminReqs
  At <- MCAt
  Rate <- MCRate
  Burst = 1
  MaxRetries = 1
  WindowLen = 1
  MaxDelay = 1
  MaxTime = 2
INVARIANTS
  TypeOK
  WindowBudget
  OnlyFaultsLeak
  FallbackBudget
PROPERTIES
  Answered
CHECK_DEADLOCK FALSE
