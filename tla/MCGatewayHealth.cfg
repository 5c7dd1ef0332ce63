SPECIFICATION Spec
CONSTANTS
  c1 = c1
  c2 = c2
  r1 = r1
  n8n = n8n
  NoRequest = NoRequest
  NoResponse = NoResponse
  Calls <- OneCall
  Slow <- OneCall
  RestReqs <- MCRestReqs
  Containers <- Nothing
  ShortNames <- Nothing
  Aquatiq <- Nothing
  Wirings <- MCWirings
  Requests <- Checks
  PostgresStates <- AllPostgres
  RedisStates <- AllRedis
  Width = 4
  MaxTime = 2
INVARIANTS
  ReportJustified
PROPERTIES
  StopEnds
CHECK_DEADLOCK FALSE
