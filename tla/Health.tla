-------------------------------- MODULE Health --------------------------------
(***************************************************************************)
(* The health and database services of the gateway (internal/health,       *)
(* internal/grpc): a handler asks PostgreSQL over a connection of its own  *)
(* and then, by the method, Redis over the gateway's client, one question  *)
(* after the other, and reports what it made of the answers.               *)
(***************************************************************************)
EXTENDS Server

CONSTANTS
  PostgresStates,  \* what may become of PostgreSQL: "up", "down", or "hung",
  RedisStates      \* when it answers no more; and of Redis

ASSUME StatesAssumption == /\ PostgresStates \subseteq {"up", "down", "hung"}
                           /\ RedisStates \subseteq {"up", "down"}

VARIABLES
  postgres,  \* the databases
  redis,
  probe,     \* the question a call is at
  found,     \* what it has found of PostgreSQL and of Redis
  report,    \* what it has reported
  saw        \* history: the states of both that a call has lived through

databases == <<postgres, redis>>
health    == <<databases, probe, found, report, saw>>

\* The requests of the two services, for what the handlers make of them.
HealthCheckRequest      == [service : {"health"}, method : {"Check"}]
ReadinessRequest        == [service : {"health"}, method : {"Readiness"}]
LivenessRequest         == [service : {"health"}, method : {"Liveness"}]
PostgreSQLHealthRequest == [service : {"health"}, method : {"CheckPostgreSQL"}]
RedisHealthRequest      == [service : {"health"}, method : {"CheckRedis"}]
CheckPostgreSQLRequest        == [service : {"database"}, method : {"CheckPostgreSQL"}]
CheckRedisRequest             == [service : {"database"}, method : {"CheckRedis"}]
GetPostgreSQLStatsRequest     == [service : {"database"}, method : {"GetPostgreSQLStats"}]
GetRedisStatsRequest          == [service : {"database"}, method : {"GetRedisStats"}]
GetConnectionPoolStatsRequest == [service : {"database"}, method : {"GetConnectionPoolStats"}]

HealthService ==
  HealthCheckRequest \cup ReadinessRequest \cup LivenessRequest
    \cup PostgreSQLHealthRequest \cup RedisHealthRequest
DatabaseService ==
  CheckPostgreSQLRequest \cup CheckRedisRequest \cup GetPostgreSQLStatsRequest
    \cup GetRedisStatsRequest \cup GetConnectionPoolStatsRequest
HealthRequests == HealthService \cup DatabaseService

\* The methods that ask PostgreSQL, and those that ask Redis.
AsksPostgres(q) == q.method \in {"Check", "Readiness", "CheckPostgreSQL", "GetPostgreSQLStats"}
AsksRedis(q)    == q.method \in {"Check", "CheckRedis", "GetRedisStats"}

\* And the responses.  A figure is what a database was asked for, or zero.
HealthStatus   == {"unspecified", "healthy", "degraded", "unhealthy"}
DatabaseStatus == HealthStatus \cup {"unavailable"}
Figure         == {"zero", "read"}
DatabaseHealth == [name : {"postgresql", "redis"}, status : HealthStatus]

HealthCheckResponse ==
  [status : HealthStatus, postgresql : DatabaseHealth, redis : DatabaseHealth]
ReadinessResponse        == [ready : BOOLEAN]
LivenessResponse         == [alive : BOOLEAN]
PostgreSQLHealthResponse == [status : HealthStatus, activeConnections : Figure]
RedisHealthResponse      == [status : HealthStatus, connectedClients : Figure]
CheckPostgreSQLResponse  == [status : DatabaseStatus, activeConnections : Figure]
CheckRedisResponse       == [status : DatabaseStatus, connectedClients : Figure]
GetPostgreSQLStatsResponse     == [totalConnections : Figure]
GetRedisStatsResponse          == [mode : {"standalone"}, connectedClients : Figure]
GetConnectionPoolStatsResponse == [poolName : {"requested"}, totalConnections : Figure]

Reports ==
  HealthCheckResponse \cup ReadinessResponse \cup LivenessResponse
    \cup PostgreSQLHealthResponse \cup RedisHealthResponse
    \cup CheckPostgreSQLResponse \cup CheckRedisResponse \cup GetPostgreSQLStatsResponse
    \cup GetRedisStatsResponse \cup GetConnectionPoolStatsResponse

Findings == {"none", "healthy", "unhealthy", "absent"}

\* The questions to PostgreSQL, in their order; an error of the last, the size,
\* is dropped.
After   == [ping |-> "version", version |-> "connections", connections |-> "size"]
Counted == DOMAIN After
Asked   == Counted \cup {"size"}

HealthTypeOK ==
  /\ postgres \in PostgresStates /\ redis \in RedisStates
  /\ probe \in [Calls -> Asked \cup {"idle", "redis", "done"}]
  /\ found \in [Calls -> [postgres : Findings, redis : Findings]]
  /\ report \in [Calls -> Reports \cup {NoResponse}]
  /\ saw \in [Calls -> [postgres : SUBSET (PostgresStates \cup {"left"}),
                        redis : SUBSET RedisStates]]

HealthInit ==
  /\ postgres \in PostgresStates /\ redis \in RedisStates
  /\ probe = [c \in Calls |-> "idle"]
  /\ found = [c \in Calls |-> [postgres |-> "none", redis |-> "none"]]
  /\ report = [c \in Calls |-> NoResponse]
  /\ saw = [c \in Calls |-> [postgres |-> {}, redis |-> {}]]
-----------------------------------------------------------------------------
Checking(c) ==
  alive /\ rpc[c] = "running" /\ c \notin held /\ req[c] \in HealthRequests

\* Where a call goes on when it is through with PostgreSQL.
Later(c) == IF AsksRedis(req[c]) THEN "redis" ELSE "done"

Begin(c) ==
  /\ Checking(c)
  /\ probe[c] = "idle"
  /\ probe' = [probe EXCEPT ![c] = IF AsksPostgres(req[c]) THEN "ping" ELSE Later(c)]
  /\ saw' = [saw EXCEPT ![c] = [postgres |-> {postgres}, redis |-> {redis}]]
  /\ UNCHANGED <<server, databases, found, report>>

\* PostgreSQL answers, and the next question is asked.
Answered(c) ==
  /\ Checking(c)
  /\ probe[c] \in Counted
  /\ postgres = "up"
  /\ probe' = [probe EXCEPT ![c] = After[@]]
  /\ UNCHANGED <<server, databases, found, report, saw>>

\* The check of PostgreSQL comes to r.
Found(c, r) ==
  /\ found' = [found EXCEPT ![c].postgres = r]
  /\ probe' = [probe EXCEPT ![c] = Later(c)]
  /\ UNCHANGED <<server, databases, report>>

\* The size, or an error instead of it.
Healthy(c) ==
  /\ Checking(c)
  /\ probe[c] = "size"
  /\ postgres # "hung"
  /\ Found(c, "healthy")
  /\ UNCHANGED saw

\* A question that fails ends the check.
Unhealthy(c) ==
  /\ Checking(c)
  /\ probe[c] \in Counted
  /\ postgres = "down"
  /\ Found(c, "unhealthy")
  /\ UNCHANGED saw

\* So does the end of the caller's context, the only end a question to a hung
\* server has.
CallerLeaves(c) ==
  /\ Checking(c)
  /\ probe[c] \in Asked
  /\ Found(c, IF probe[c] = "size" THEN "healthy" ELSE "unhealthy")
  /\ saw' = [saw EXCEPT ![c].postgres = @ \cup {"left"}]

PingRedis(c) ==
  /\ Checking(c)
  /\ probe[c] = "redis"
  /\ found' = [found EXCEPT ![c].redis = IF "redis" \notin parts THEN "absent"
                                        ELSE IF redis = "up" THEN "healthy" ELSE "unhealthy"]
  /\ probe' = [probe EXCEPT ![c] = "done"]
  /\ UNCHANGED <<server, databases, report, saw>>

\* A faulty Degraded: a Redis that was never configured counts.
DegradedByAbsence(f) == f.postgres # "healthy" \/ f.redis # "healthy"

\* A Redis that is not configured degrades nothing.
Degraded(f) == f.postgres # "healthy" \/ f.redis = "unhealthy"

Status(finding) == IF finding = "healthy" THEN "healthy" ELSE "unhealthy"

Reading(finding) == IF finding = "healthy" THEN "read" ELSE "zero"

\* What each method makes of what was found.  The statistics drop the error, and
\* the pool's are zeros always.
Response(q, f) ==
  CASE q.method = "Check" ->
         [status     |-> IF Degraded(f) THEN "degraded" ELSE "healthy",
          postgresql |-> [name |-> "postgresql", status |-> Status(f.postgres)],
          redis      |-> [name |-> "redis", status |-> Status(f.redis)]]
    [] q.method = "Readiness" -> [ready |-> f.postgres = "healthy"]
    [] q.method = "Liveness"  -> [alive |-> TRUE]
    [] q.method = "CheckPostgreSQL" ->
         [status |-> Status(f.postgres), activeConnections |-> Reading(f.postgres)]
    [] q.method = "CheckRedis" ->
         [status |-> Status(f.redis), connectedClients |-> Reading(f.redis)]
    [] q.method = "GetPostgreSQLStats" -> [totalConnections |-> Reading(f.postgres)]
    [] q.method = "GetRedisStats" ->
         [mode |-> "standalone", connectedClients |-> Reading(f.redis)]
    [] q.method = "GetConnectionPoolStats" ->
         [poolName |-> "requested", totalConnections |-> "zero"]

Report(c) ==
  /\ Checking(c)
  /\ probe[c] = "done"
  /\ Answer(c)
  /\ report' = [report EXCEPT ![c] = Response(req[c], found[c])]
  /\ UNCHANGED <<databases, probe, found, saw>>
-----------------------------------------------------------------------------
\* The calls that live through a change.  Without one nothing changes: what the
\* databases came to before is in the initial states.
Under == {c \in Calls : rpc[c] = "running" /\ probe[c] # "idle"}

PostgresChanges(s) ==
  /\ Under # {}
  /\ s # postgres
  /\ postgres' = s
  /\ saw' = [c \in Calls |-> IF c \in Under
                            THEN [saw[c] EXCEPT !.postgres = @ \cup {s}] ELSE saw[c]]
  /\ UNCHANGED <<server, redis, probe, found, report>>

RedisChanges(s) ==
  /\ Under # {}
  /\ s # redis
  /\ redis' = s
  /\ saw' = [c \in Calls |-> IF c \in Under
                            THEN [saw[c] EXCEPT !.redis = @ \cup {s}] ELSE saw[c]]
  /\ UNCHANGED <<server, postgres, probe, found, report>>

\* What a handler does by itself: not when PostgreSQL hangs.
HealthHandles(c) ==
  Begin(c) \/ Answered(c) \/ Healthy(c) \/ Unhealthy(c) \/ PingRedis(c) \/ Report(c)

DatabaseSteps == \/ \E s \in PostgresStates : PostgresChanges(s)
                 \/ \E s \in RedisStates : RedisChanges(s)
-----------------------------------------------------------------------------
\* Whether a response shows PostgreSQL up, and whether it shows Redis up.
ShowsPostgres(q, m) ==
  CASE q.method = "Check"              -> m.postgresql.status = "healthy"
    [] q.method = "Readiness"          -> m.ready
    [] q.method = "CheckPostgreSQL"    -> m.status = "healthy"
    [] q.method = "GetPostgreSQLStats" -> m.totalConnections = "read"

ShowsRedis(q, m) ==
  CASE q.method = "Check"         -> m.redis.status = "healthy"
    [] q.method = "CheckRedis"    -> m.status = "healthy"
    [] q.method = "GetRedisStats" -> m.connectedClients = "read"

\* A database that a response shows up was up at some time during the call, and
\* one that it shows down was not up all the time, or the caller had left.  The
\* service is degraded for one of these only: a Redis that is not configured
\* degrades nothing.  Both need not have been up at the same time.
ReportJustified ==
  \A c \in Calls :
    LET q == req[c]
        s == saw[c]
        m == report[c]
    IN  m # NoResponse =>
          /\ AsksPostgres(q) =>
               IF ShowsPostgres(q, m) THEN "up" \in s.postgres ELSE s.postgres # {"up"}
          /\ AsksRedis(q) /\ "redis" \in parts =>
               IF ShowsRedis(q, m) THEN "up" \in s.redis ELSE s.redis # {"up"}
          /\ q.method = "Check" =>
               IF m.status = "healthy" THEN ShowsPostgres(q, m)
               ELSE s.postgres # {"up"} \/ ("redis" \in parts /\ s.redis # {"up"})
=============================================================================
