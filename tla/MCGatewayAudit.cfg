SPECIFICATION Spec
CONSTANTS
  c1 = c1
  c2 = c2
  r1 = r1
  n8n = n8n
  NoRequest = NoRequest
  NoResponse = NoResponse
  Calls <- OneCall
  Slow <- Nothing
  RestReqs <- Nothing
  Containers <- MCContainers
  ShortNames <- MCContainers
  Aquatiq <- Nothing
  Wirings <- AllWired
  Requests <- Operating
  PostgresStates <- Up
  RedisStates <- Up
  Width = 4
  MaxTime = 2
INVARIANTS
  OperationsAudited
CHECK_DEADLOCK FALSE
