----------------------------- MODULE GatewayProofs -----------------------------
(***************************************************************************)
(* What the runs check of the gateway, for every number of requests and    *)
(* calls, every set of containers and every state of the databases.  A     *)
(* step of a handler is for the process nothing, an answer, or its end     *)
(* (ServerSteps); what the process does to a call is the same in every     *)
(* case (Frame).  The invariants of the process, of the Docker calls and   *)
(* of the health calls are therefore proved one after the other.           *)
(***************************************************************************)
EXTENDS Gateway, TLAPS

ServerNext ==
  \/ MainSteps
  \/ ServeSteps
  \/ Terminate
  \/ alive /\ \E s \in {"error", "killed"} : Exit(s)
  \/ \E r \in RestReqs : RestSteps(r)
  \/ \E c \in Calls : Answer(c) \/ ClientSteps(c) \/ \E q \in Requests : Call(c, q)

\* Before the gRPC server serves there are no calls, and after GracefulStop no
\* new ones; the same of the REST server.
ServerInv ==
  /\ ServerTypeOK
  /\ alive => /\ \A c \in Calls : rpc[c] # "lost"
              /\ \A r \in RestReqs : web[r] # "lost"
  /\ main \in {"starting", "listening"} => grpc = "none"
  /\ grpc = "none" => \A c \in Calls : rpc[c] = "new"
  /\ \A c \in Calls : rpc[c] = "new" => req[c] = NoRequest
  /\ main \in {"draining", "stopping", "closing"} => rest # "serving"
  /\ main \in {"stopping", "closing"} => grpc # "serving" /\ (Running(web) # {} => late)
  /\ main = "closing" => Running(rpc) = {}
  /\ closed # {} => main = "closing"
  /\ OrderlyAnswers

\* To the process a step is one of its own or none.
LEMMA ServerSteps == Next => ServerNext \/ UNCHANGED server
<1> SUFFICES ASSUME Next PROVE ServerNext \/ UNCHANGED server
  OBVIOUS
<1>1. CASE Process(MainSteps) \/ Process(ServeSteps) \/ Process(Terminate) \/ Process(Kill)
  BY <1>1 DEF Process, Kill, ServerNext
<1>2. CASE \E r \in RestReqs : Process(RestSteps(r))
  BY <1>2 DEF Process, ServerNext
<1>3. ASSUME NEW c \in Calls, NEW q \in Requests, Process(Call(c, q))
      PROVE  ServerNext
  BY <1>3 DEF Process, ServerNext
<1>4. ASSUME NEW c \in Calls, Process(WhitelistAnswers(c)) \/ Process(ClientSteps(c))
      PROVE  ServerNext
  BY <1>4 DEF Process, WhitelistAnswers, ServerNext
<1>5. ASSUME NEW c \in Calls, DockerHandles(c)
      PROVE  ServerNext \/ UNCHANGED server
  <2>1. CASE Ask(c) \/ Record(c)
    BY <2>1 DEF Ask, Record
  <2>2. CASE Succeed(c) \/ Fail(c)
    BY <2>2 DEF Succeed, Fail, ServerNext
  <2>3. CASE Panic(c)
    BY <2>3 DEF Panic, Handling, ServerNext
  <2> QED BY <1>5, <2>1, <2>2, <2>3 DEF DockerHandles
<1>6. ASSUME NEW c \in Calls, DaemonSteps(c)
      PROVE  UNCHANGED server
  BY <1>6 DEF DaemonSteps, Carry, Inspect, Refusal, Sample, Measure
<1>7. ASSUME NEW c \in Calls, HealthHandles(c) \/ CallerLeaves(c)
      PROVE  ServerNext \/ UNCHANGED server
  <2>1. CASE Report(c)
    BY <2>1 DEF Report, ServerNext
  <2> QED BY <1>7, <2>1 DEF HealthHandles, Begin, Answered, Healthy, Unhealthy, PingRedis,
                            CallerLeaves, Found
<1>8. CASE HostSteps
  BY <1>8 DEF HostSteps, Ends, Revives, Work
<1>9. CASE DatabaseSteps
  BY <1>9 DEF DatabaseSteps, PostgresChanges, RedisChanges
<1> QED
  BY <1>1, <1>2, <1>3, <1>4, <1>5, <1>6, <1>7, <1>8, <1>9 DEF Next, DockerCall, HealthCall

-----------------------------------------------------------------------------
LEMMA ServerInitial == ServerInit => ServerInv
BY DEF ServerInit, ServerInv, ServerTypeOK, Stages, alive, Running, OrderlyAnswers, Clients

LEMMA ExitInvariant ==
  ASSUME ServerInv, alive, NEW s \in {"error", "killed"}, Exit(s)
  PROVE  ServerInv'
BY DEF ServerInv, ServerTypeOK, Stages, alive, Running, OrderlyAnswers, Exit

LEMMA ServerInvariant == ServerInv /\ [ServerNext]_server => ServerInv'
<1> SUFFICES ASSUME ServerInv, [ServerNext]_server PROVE ServerInv'
  OBVIOUS
<1> USE DEF ServerInv, ServerTypeOK, alive, Running, OrderlyAnswers
<1>1. ASSUME NEW loaded \in BOOLEAN, NEW p \in SUBSET (Clients \cup {"whitelist"}),
             Wire(loaded, p)
      PROVE  ServerInv'
  BY <1>1 DEF Wire, Advance, Stages
<1>2. CASE Listen
  BY <1>2 DEF Listen, Advance, Stages
<1>3. CASE ListenFails
  BY <1>3, ExitInvariant DEF ListenFails
<1>4. CASE Notify
  BY <1>4 DEF Notify, Advance, Stages
<1>5. CASE Shutdown
  BY <1>5 DEF Shutdown, Advance, Stages
<1>6. CASE Drained
  BY <1>6 DEF Drained, Advance, Stages
<1>7. CASE Stopped
  BY <1>7 DEF Stopped, Advance, Stages
<1>8. ASSUME NEW x \in Clients, Close(x)
      PROVE  ServerInv'
  BY <1>8 DEF Close, Stages
<1>9. CASE Return
  BY <1>9 DEF Return, Exit, Stages
<1>10. CASE ServeSteps
  <2>1. CASE RestServes
    BY <2>1 DEF RestServes, Stages
  <2>2. CASE RestFails
    BY <2>2, ExitInvariant DEF RestFails
  <2>3. CASE GrpcServes
    BY <2>3 DEF GrpcServes, Stages
  <2>4. CASE GrpcFails
    BY <2>4, ExitInvariant DEF GrpcFails
  <2> QED BY <1>10, <2>1, <2>2, <2>3, <2>4 DEF ServeSteps
<1>11. CASE Terminate
  <2>1. CASE Exit("killed")
    BY <1>11, <2>1, ExitInvariant DEF Terminate
  <2> QED BY <1>11, <2>1 DEF Terminate, Stages
<1>12. CASE alive /\ \E s \in {"error", "killed"} : Exit(s)
  BY <1>12, ExitInvariant
<1>13. ASSUME NEW r \in RestReqs, RestSteps(r)
       PROVE  ServerInv'
  <2>1. CASE Accept(r)
    BY <2>1 DEF Accept, process, Stages
  <2>2. ASSUME NEW s \in {"answered", "limited"}, Respond(r, s)
        PROVE  ServerInv'
    BY <2>2 DEF Respond, process, Stages
  <2> QED BY <1>13, <2>1, <2>2 DEF RestSteps
<1>14. ASSUME NEW c \in Calls, Answer(c)
       PROVE  ServerInv'
  BY <1>14 DEF Answer, process, Stages
<1>15. ASSUME NEW c \in Calls, NEW q \in Requests, Call(c, q)
       PROVE  ServerInv'
  BY <1>15 DEF Call, process, Stages
<1>16. ASSUME NEW c \in Calls, ClientSteps(c)
       PROVE  ServerInv'
  BY <1>16 DEF ClientSteps, MessageComes, ClientEnds, process, Stages
<1>17. CASE UNCHANGED server
  BY <1>17 DEF server, process
<1> QED
  BY <1>1, <1>2, <1>3, <1>4, <1>5, <1>6, <1>7, <1>8, <1>9, <1>10, <1>11, <1>12, <1>13,
     <1>14, <1>15, <1>16, <1>17 DEF ServerNext, MainSteps

\* What a step of the process does to a call: what was asked stays what it was,
\* and so does what could be wired; a call that is over stays over.
LEMMA Frame ==
  ASSUME ServerInv, [ServerNext]_server, NEW c \in Calls
  PROVE  /\ rpc[c] # "new" => req'[c] = req[c] /\ parts' = parts /\ rpc'[c] # "new"
         /\ rpc[c] \notin {"new", "running"} => rpc'[c] = rpc[c]
<1> DEFINE Kept == /\ rpc[c] # "new" => req'[c] = req[c] /\ parts' = parts /\ rpc'[c] # "new"
                   /\ rpc[c] \notin {"new", "running"} => rpc'[c] = rpc[c]
<1> SUFFICES Kept
  OBVIOUS
<1> USE DEF ServerInv, ServerTypeOK
<1>1. ASSUME NEW s, Exit(s)
      PROVE  Kept
  BY <1>1 DEF Exit
<1>2. CASE MainSteps
  <2>1. ASSUME NEW loaded \in BOOLEAN, NEW p \in SUBSET (Clients \cup {"whitelist"}),
               Wire(loaded, p)
        PROVE  Kept
    BY <2>1 DEF Wire, Advance
  <2>2. CASE ListenFails \/ Return
    BY <2>2, <1>1 DEF ListenFails, Return
  <2> QED
    BY <1>2, <2>1, <2>2 DEF MainSteps, Listen, Notify, Shutdown, Drained, Stopped, Close
<1>3. CASE ServeSteps
  BY <1>3, <1>1 DEF ServeSteps, RestServes, RestFails, GrpcServes, GrpcFails
<1>4. CASE Terminate
  BY <1>4, <1>1 DEF Terminate
<1>5. CASE \E s \in {"error", "killed"} : Exit(s)
  BY <1>5, <1>1
<1>6. CASE \E r \in RestReqs : RestSteps(r)
  BY <1>6 DEF RestSteps, Accept, Respond, process
<1>7. ASSUME NEW d \in Calls, Answer(d)
      PROVE  Kept
  BY <1>7 DEF Answer, process
<1>8. ASSUME NEW d \in Calls, NEW q \in Requests, Call(d, q)
      PROVE  Kept
  BY <1>8 DEF Call, process
<1>9. ASSUME NEW d \in Calls, ClientSteps(d)
      PROVE  Kept
  BY <1>9 DEF ClientSteps, MessageComes, ClientEnds, process
<1>10. CASE UNCHANGED server
  BY <1>10 DEF server, process
<1> QED
  BY <1>2, <1>3, <1>4, <1>5, <1>6, <1>7, <1>8, <1>9, <1>10 DEF ServerNext

-----------------------------------------------------------------------------
\* A call that has not been made has nothing of the daemon, what has a record was
\* logged, and what a container has used since a sample is not more than the time
\* since, unless it was started again.
DockerCallInv(c) ==
  /\ rpc[c] = "new" => daemon[c] = "none" /\ c \notin logged /\ answer[c] = NoResponse
  /\ c \in audit => c \in logged
  /\ daemon[c] # "none" => req[c] \in DockerRequests
  /\ answer[c] # NoResponse => rpc[c] = "answered"
  /\ daemon[c] = "sampled" =>
       /\ req[c] \in GetContainerStatsRequest
       /\ sample[c].at <= now
       /\ c \in restarted \/ /\ sample[c].used <= usage[req[c].name]
                             /\ usage[req[c].name] - sample[c].used <= now - sample[c].at

DockerInv ==
  /\ DockerTypeOK
  /\ \A k \in Containers : usage[k] <= now
  /\ \A c \in Calls : DockerCallInv(c)
  /\ AnswersAudited
  /\ LoadBounded

LEMMA DifferenceType ==
  ASSUME NEW a \in Nat, NEW b \in Nat
  PROVE  Difference(a, b) \in 0..(Width - 1)
BY DockerAssumption DEF Difference

\* Without an overflow it is the difference.
LEMMA DifferenceExact ==
  ASSUME NEW a \in Nat, NEW b \in Nat, b <= a, a < Width
  PROVE  Difference(a, b) = a - b
BY DockerAssumption DEF Difference

LEMMA NoReply == NoResponse \notin GetContainerStatsResponse /\ NoResponse \notin OperationResponse
BY RequestsAssumption DEF Responses, Replies

\* A reply is not the response to an operation.
LEMMA RepliesDiffer == \A m \in Replies : m \notin OperationResponse
<1>1. \A m \in OperationResponse : DOMAIN m = {"success"}
  BY DEF OperationResponse, StartContainerResponse, StopContainerResponse, RestartContainerResponse
<1>2. \A m \in Replies : DOMAIN m # {"success"}
  BY DEF Replies, GetContainerResponse, ListContainersResponse, GetAquatiqServicesResponse,
         GetContainerStatsResponse, GetContainerLogsResponse, ListImagesResponse,
         ListNetworksResponse, ListVolumesResponse, GetSystemInfoResponse
<1> QED BY <1>1, <1>2

LEMMA DockerInitial == ServerInit /\ DockerInit => DockerInv
<1> SUFFICES ASSUME ServerInit, DockerInit PROVE DockerInv
  OBVIOUS
<1>1. DockerTypeOK
  BY DockerAssumption DEF DockerInit, DockerTypeOK
<1>2. \A k \in Containers : usage[k] <= now
  BY DEF DockerInit
<1>3. \A c \in Calls : DockerCallInv(c)
  BY DEF DockerInit, ServerInit, DockerCallInv
<1>4. AnswersAudited
  <2>1. [success |-> TRUE] \in OperationResponse /\ [success |-> FALSE] \in OperationResponse
    BY DEF OperationResponse, StartContainerResponse
  <2> QED BY <2>1, NoReply DEF DockerInit, AnswersAudited
<1>5. LoadBounded
  BY NoReply DEF DockerInit, LoadBounded
<1> QED BY <1>1, <1>2, <1>3, <1>4, <1>5 DEF DockerInv

\* A step that leaves the state of the Docker calls alone.
LEMMA DockerUntouched ==
  ASSUME DockerInv, ServerInv, [ServerNext]_server, UNCHANGED docker
  PROVE  DockerInv'
<1>1. DockerTypeOK' /\ (\A k \in Containers : usage[k] <= now)' /\ LoadBounded'
  BY DEF DockerInv, DockerTypeOK, LoadBounded, docker, host, asking
<1>2. ASSUME NEW c \in Calls
      PROVE  DockerCallInv(c)'
  <2>1. DockerCallInv(c)
    BY DEF DockerInv
  <2> QED BY <2>1, Frame DEF DockerCallInv, docker, host, asking
<1>3. AnswersAudited'
  BY Frame DEF AnswersAudited, DockerInv, DockerCallInv, docker, host, asking
<1> QED BY <1>1, <1>2, <1>3 DEF DockerInv

\* The handler's steps.
LEMMA DockerHandlesInv ==
  ASSUME DockerInv, ServerInv, [ServerNext]_server, NEW c \in Calls, DockerHandles(c)
  PROVE  DockerInv'
<1> DEFINE Same(d) == /\ rpc[d] # "new" => req'[d] = req[d] /\ rpc'[d] # "new"
                      /\ rpc[d] \notin {"new", "running"} => rpc'[d] = rpc[d]
<1>0. \A d \in Calls : Same(d)
  BY Frame
<1> USE DEF DockerInv, DockerTypeOK
<1>1. CASE Ask(c)
  <2>1. DockerTypeOK' /\ (\A k \in Containers : usage[k] <= now)' /\ LoadBounded'
    BY <1>1 DEF Ask, host, LoadBounded
  <2>2. ASSUME NEW d \in Calls
        PROVE  DockerCallInv(d)'
    BY <1>1, <1>0 DEF Ask, Handling, host, server, DockerCallInv
  <2>3. AnswersAudited'
    BY <1>1 DEF Ask, Handling, host, server, AnswersAudited
  <2> QED BY <2>1, <2>2, <2>3
<1>2. CASE Record(c)
  <2>1. DockerTypeOK' /\ (\A k \in Containers : usage[k] <= now)' /\ LoadBounded'
    BY <1>2 DEF Record, host, LoadBounded
  <2>2. ASSUME NEW d \in Calls
        PROVE  DockerCallInv(d)'
    BY <1>2, <1>0 DEF Record, Handling, host, server, DockerCallInv
  <2>3. AnswersAudited'
    <3>1. answer[c] = NoResponse
      BY <1>2 DEF Record, Handling, DockerCallInv
    <3>2. [success |-> FALSE] \in OperationResponse
      BY DEF OperationResponse, StartContainerResponse
    <3>3. answer[c] # [success |-> FALSE]
      BY <3>1, <3>2, NoReply
    <3> QED BY <1>2, <3>3 DEF Record, Handling, host, server, AnswersAudited
  <2> QED BY <2>1, <2>2, <2>3
<1>3. CASE Succeed(c)
  <2>1. [success |-> TRUE] \in OperationResponse /\ [success |-> FALSE] \in OperationResponse
        /\ [success |-> TRUE] # [success |-> FALSE]
    BY DEF OperationResponse, StartContainerResponse
  <2>2. DockerTypeOK' /\ (\A k \in Containers : usage[k] <= now)' /\ LoadBounded'
    BY <1>3, <2>1 DEF Succeed, host, LoadBounded, Responses
  <2>3. ASSUME NEW d \in Calls
        PROVE  DockerCallInv(d)'
    BY <1>3, <1>0 DEF Succeed, Answer, process, Handling, host, DockerCallInv, ServerInv,
                      ServerTypeOK
  <2>4. AnswersAudited'
    <3>1. reply[c] \notin OperationResponse
      BY NoReply, RepliesDiffer
    <3> QED BY <1>3, <2>1, <3>1 DEF Succeed, Answer, host, AnswersAudited
  <2> QED BY <2>2, <2>3, <2>4
<1>4. CASE Fail(c)
  <2>1. [success |-> TRUE] \in OperationResponse /\ [success |-> FALSE] \in OperationResponse
        /\ [success |-> TRUE] # [success |-> FALSE]
    BY DEF OperationResponse, StartContainerResponse
  <2>2. DockerTypeOK' /\ (\A k \in Containers : usage[k] <= now)' /\ LoadBounded'
    BY <1>4, <2>1 DEF Fail, host, LoadBounded, Responses
  <2>3. ASSUME NEW d \in Calls
        PROVE  DockerCallInv(d)'
    BY <1>4, <1>0 DEF Fail, Answer, process, Handling, host, DockerCallInv, ServerInv,
                      ServerTypeOK
  <2>4. AnswersAudited'
    <3>1. c \notin audit /\ (req[c] \notin Operation => answer'[c] = NoResponse)
      BY <1>4 DEF Fail, DockerCallInv
    <3>2. answer'[c] # [success |-> TRUE]
      BY <1>4, <2>1, NoReply DEF Fail
    <3>3. UNCHANGED <<req, daemon, logged, audit>>
      BY <1>4 DEF Fail, Answer, host
    <3> QED BY <1>4, <3>1, <3>2, <3>3 DEF Fail, AnswersAudited
  <2> QED BY <2>2, <2>3, <2>4
<1>5. CASE Panic(c)
  BY <1>5, DockerUntouched DEF Panic
<1> QED BY <1>1, <1>2, <1>3, <1>4, <1>5 DEF DockerHandles

\* A container starts anew: the calls between two samples of it are marked.
LEMMA StartKeeps ==
  ASSUME DockerInv, NEW k \in Containers, Start(k), NEW c \in Calls,
         daemon[c] = "sampled", now' = now, sample' = sample
  PROVE  c \in restarted' \/ /\ sample[c].used <= usage'[req[c].name]
                             /\ usage'[req[c].name] - sample[c].used <= now - sample[c].at
BY DEF DockerInv, DockerTypeOK, DockerCallInv, Start, Sampling, GetContainerStatsRequest

LEMMA ToldType ==
  ASSUME DockerTypeOK, NEW q \in Inspection
  PROVE  Told(q) \in Replies /\ Told(q) \notin GetContainerStatsResponse
<1>1. \A k \in Containers : Info(k) \in ContainerInfo
  BY DEF Info, ContainerInfo, DockerTypeOK
<1>2. CASE q \in GetContainerRequest
  <2>1. q.method = "GetContainer" /\ q.name \in Containers
    BY <1>2 DEF GetContainerRequest
  <2>2. Told(q) = [container |-> Info(q.name)]
    BY <2>1 DEF Told
  <2>3. Told(q) \in GetContainerResponse /\ DOMAIN Told(q) = {"container"}
    BY <1>1, <2>1, <2>2 DEF GetContainerResponse
  <2> QED BY <2>3 DEF GetContainerStatsResponse, Replies
<1>3. CASE q \in ListContainersRequest
  <2>1. Told(q) = [containers |-> {Info(k) : k \in Containers}]
    BY <1>3 DEF Told, ListContainersRequest
  <2>2. Told(q) \in ListContainersResponse /\ DOMAIN Told(q) = {"containers"}
    BY <1>1, <2>1 DEF ListContainersResponse
  <2> QED BY <2>2 DEF GetContainerStatsResponse, Replies
<1>4. CASE q \in GetAquatiqServicesRequest
  <2>1. Told(q) = [services |-> {Info(k) : k \in Aquatiq}]
    BY <1>4 DEF Told, GetAquatiqServicesRequest
  <2>2. Told(q) \in GetAquatiqServicesResponse /\ DOMAIN Told(q) = {"services"}
    BY <1>1, <2>1, NamesAssumption DEF GetAquatiqServicesResponse
  <2> QED BY <2>2 DEF GetContainerStatsResponse, Replies
<1>5. CASE q \in GetContainerLogsRequest
  <2>1. Told(q) = [logs |-> IF q.tail = 0 THEN "none" ELSE "theirs"]
    BY <1>5 DEF Told, GetContainerLogsRequest
  <2>2. Told(q) \in GetContainerLogsResponse /\ DOMAIN Told(q) = {"logs"}
    BY <2>1 DEF GetContainerLogsResponse
  <2> QED BY <2>2 DEF GetContainerStatsResponse, Replies
<1>6. CASE q \in ListImagesRequest
  <2>1. Told(q) = [images |-> "theirs"]
    BY <1>6 DEF Told, ListImagesRequest
  <2>2. Told(q) \in ListImagesResponse /\ DOMAIN Told(q) = {"images"}
    BY <2>1 DEF ListImagesResponse
  <2> QED BY <2>2 DEF GetContainerStatsResponse, Replies
<1>7. CASE q \in ListNetworksRequest
  <2>1. Told(q) = [networks |-> "theirs"]
    BY <1>7 DEF Told, ListNetworksRequest
  <2>2. Told(q) \in ListNetworksResponse /\ DOMAIN Told(q) = {"networks"}
    BY <2>1 DEF ListNetworksResponse
  <2> QED BY <2>2 DEF GetContainerStatsResponse, Replies
<1>8. CASE q \in ListVolumesRequest
  <2>1. Told(q) = [volumes |-> "theirs"]
    BY <1>8 DEF Told, ListVolumesRequest
  <2>2. Told(q) \in ListVolumesResponse /\ DOMAIN Told(q) = {"volumes"}
    BY <2>1 DEF ListVolumesResponse
  <2> QED BY <2>2 DEF GetContainerStatsResponse, Replies
<1>9. CASE q \in GetSystemInfoRequest
  <2>1. Told(q) = [info |-> "theirs"]
    BY <1>9 DEF Told, GetSystemInfoRequest
  <2>2. Told(q) \in GetSystemInfoResponse /\ DOMAIN Told(q) = {"info"}
    BY <2>1 DEF GetSystemInfoResponse
  <2> QED BY <2>2 DEF GetContainerStatsResponse, Replies
<1> QED BY <1>2, <1>3, <1>4, <1>5, <1>6, <1>7, <1>8, <1>9 DEF Inspection

\* The daemon's steps.
LEMMA DaemonStepsInv ==
  ASSUME DockerInv, ServerInv, [ServerNext]_server, NEW c \in Calls, DaemonSteps(c)
  PROVE  DockerInv'
<1> USE DEF DockerInv, DockerTypeOK
<1>1. CASE Carry(c)
  <2> DEFINE k == req[c].name
  <2>1. k \in Containers
    BY <1>1 DEF Carry, Operation, StartContainerRequest, StopContainerRequest,
                RestartContainerRequest
  <2>2. \/ Start(k)
        \/ UNCHANGED <<usage, restarted>>
    BY <1>1 DEF Carry
  <2>3. restarted \subseteq restarted' /\ restarted' \subseteq Calls
    BY <2>2 DEF Start, Sampling
  <2>4. /\ usage' \in [Containers -> 0..MaxTime]
        /\ \A j \in Containers : usage'[j] <= now
    BY <2>1, <2>2, DockerAssumption DEF Start
  <2>5. DockerTypeOK'
    BY <1>1, <2>1, <2>3, <2>4 DEF Carry
  <2>6. LoadBounded'
    BY <1>1, <2>3 DEF Carry, LoadBounded
  <2>7. ASSUME NEW d \in Calls
        PROVE  DockerCallInv(d)'
    <3>1. CASE d = c
      BY <1>1, <3>1 DEF Carry, server, DockerCallInv
    <3>2. CASE d # c
      <4>1. CASE Start(k)
        BY <1>1, <2>1, <2>3, <3>2, <4>1, StartKeeps DEF Carry, server, DockerCallInv
      <4>2. CASE UNCHANGED <<usage, restarted>>
        BY <1>1, <3>2, <4>2 DEF Carry, server, DockerCallInv
      <4> QED BY <2>2, <4>1, <4>2
    <3> QED BY <3>1, <3>2
  <2>8. AnswersAudited'
    BY <1>1 DEF Carry, server, AnswersAudited
  <2>9. now' = now
    BY <1>1 DEF Carry
  <2> QED BY <2>4, <2>5, <2>6, <2>7, <2>8, <2>9
<1>2. CASE Inspect(c)
  <2>1. /\ Told(req[c]) \in Replies
        /\ Told(req[c]) \notin GetContainerStatsResponse
    BY <1>2, ToldType DEF Inspect
  <2>2. DockerTypeOK' /\ (\A k \in Containers : usage[k] <= now)' /\ LoadBounded'
    BY <1>2, <2>1 DEF Inspect, host, LoadBounded
  <2>3. ASSUME NEW d \in Calls
        PROVE  DockerCallInv(d)'
    BY <1>2 DEF Inspect, host, server, DockerCallInv
  <2>4. AnswersAudited'
    BY <1>2 DEF Inspect, server, AnswersAudited
  <2> QED BY <2>2, <2>3, <2>4
<1>3. CASE Refusal(c)
  <2>1. DockerTypeOK' /\ (\A k \in Containers : usage[k] <= now)' /\ LoadBounded'
    BY <1>3 DEF Refusal, host, LoadBounded
  <2>2. ASSUME NEW d \in Calls
        PROVE  DockerCallInv(d)'
    BY <1>3 DEF Refusal, host, server, DockerCallInv
  <2>3. AnswersAudited'
    BY <1>3 DEF Refusal, server, AnswersAudited
  <2> QED BY <2>1, <2>2, <2>3
<1>4. CASE Sample(c)
  <2> DEFINE k == req[c].name
             s == IF box[k] = "stopped" THEN [used |-> 0, at |-> 0]
                  ELSE [used |-> usage[k], at |-> now]
  <2>1. k \in Containers
    BY <1>4 DEF Sample, GetContainerStatsRequest
  <2>2. /\ s \in [used : 0..MaxTime, at : 0..MaxTime]
        /\ s.at <= now /\ s.used <= usage[k] /\ usage[k] - s.used <= now - s.at
    BY <2>1, DockerAssumption
  <2>3. sample' = [sample EXCEPT ![c] = s] /\ UNCHANGED <<server, host, reply, logged, audit, answer, restarted>>
    BY <1>4 DEF Sample
  <2> HIDE DEF s
  <2>4. DockerTypeOK' /\ (\A j \in Containers : usage[j] <= now)' /\ LoadBounded'
    BY <1>4, <2>2, <2>3 DEF Sample, host, LoadBounded
  <2>5. ASSUME NEW d \in Calls
        PROVE  DockerCallInv(d)'
    BY <1>4, <2>2, <2>3 DEF Sample, host, server, DockerCallInv
  <2>6. AnswersAudited'
    BY <1>4 DEF Sample, server, AnswersAudited
  <2> QED BY <2>4, <2>5, <2>6
<1>5. CASE Measure(c)
  <2> DEFINE k == req[c].name
             s == sample[c]
             d == Difference(now, s.at)
             missing == s.at = 0 \/ d = 0 \/ box[k] = "stopped"
             m == [used |-> IF missing THEN 0 ELSE Used(k, s), in |-> IF missing THEN 0 ELSE d]
  <2>1. /\ k \in Containers
        /\ usage[k] \in Nat /\ now \in Nat /\ usage[k] < Width /\ now < Width
        /\ s.used \in Nat /\ s.at \in Nat /\ s.at <= now
        /\ c \in restarted \/ (s.used <= usage[k] /\ usage[k] - s.used <= now - s.at)
    <3>1. DockerCallInv(c) /\ daemon[c] = "sampled"
      BY <1>5 DEF Measure
    <3>2. k \in Containers
      BY <3>1 DEF DockerCallInv, GetContainerStatsRequest
    <3>3. usage[k] \in 0..MaxTime /\ now \in 1..MaxTime
          /\ s \in [used : 0..MaxTime, at : 0..MaxTime]
      BY <3>2
    <3>4. s.at <= now /\ (c \in restarted \/ (s.used <= usage[k] /\ usage[k] - s.used <= now - s.at))
      BY <3>1 DEF DockerCallInv
    <3> HIDE DEF k, s
    <3> QED BY <3>2, <3>3, <3>4, DockerAssumption
  <2>2. d = now - s.at
    BY <2>1, DifferenceExact
  <2>3. Used(k, s) \in 0..(Width - 1)
    BY <2>1, DifferenceType DEF Used
  <2>4. c \in restarted \/ Used(k, s) <= d
    BY <2>1, <2>2, DifferenceExact DEF Used
  <2>5. m \in ContainerStats /\ (c \in restarted \/ m.used <= m.in)
    <3>1. d \in 0..MaxTime
      <4>1. now \in 1..MaxTime
        OBVIOUS
      <4> HIDE DEF d, s
      <4> QED BY <2>1, <2>2, <4>1, DockerAssumption
    <3> HIDE DEF d
    <3> QED BY <2>3, <2>4, <3>1, DockerAssumption DEF ContainerStats
  <2>6. reply' = [reply EXCEPT ![c] = [stats |-> m]] /\ UNCHANGED <<server, host, sample, logged, audit, answer, restarted>>
    BY <1>5 DEF Measure
  <2> HIDE DEF m
  <2>7. [stats |-> m] \in GetContainerStatsResponse
    BY <2>5 DEF GetContainerStatsResponse
  <2>8. DockerTypeOK' /\ (\A j \in Containers : usage[j] <= now)'
    BY <1>5, <2>6, <2>7 DEF Measure, host, Replies
  <2>9. LoadBounded'
    BY <2>5, <2>6, <2>7 DEF LoadBounded
  <2>10. ASSUME NEW e \in Calls
         PROVE  DockerCallInv(e)'
    BY <1>5, <2>6 DEF Measure, host, server, DockerCallInv
  <2>11. AnswersAudited'
    BY <1>5 DEF Measure, server, AnswersAudited
  <2> QED BY <2>8, <2>9, <2>10, <2>11
<1> QED BY <1>1, <1>2, <1>3, <1>4, <1>5 DEF DaemonSteps

\* What the host does by itself.
LEMMA HostStepsInv ==
  ASSUME DockerInv, HostSteps
  PROVE  DockerInv'
<1> USE DEF DockerInv, DockerTypeOK
<1>1. ASSUME NEW k \in Containers, Ends(k)
      PROVE  DockerInv'
  BY <1>1 DEF Ends, asking, server, DockerCallInv, AnswersAudited, LoadBounded
<1>2. ASSUME NEW k \in Containers, Revives(k)
      PROVE  DockerInv'
  <2>1. /\ restarted \subseteq restarted' /\ restarted' \subseteq Calls
        /\ usage' \in [Containers -> 0..MaxTime]
        /\ \A j \in Containers : usage'[j] <= now
    BY <1>2, DockerAssumption DEF Revives, Start, Sampling
  <2>2. DockerTypeOK' /\ (\A j \in Containers : usage[j] <= now)' /\ LoadBounded'
    BY <1>2, <2>1 DEF Revives, LoadBounded
  <2>3. ASSUME NEW d \in Calls
        PROVE  DockerCallInv(d)'
    BY <1>2, <2>1, StartKeeps DEF Revives, server, DockerCallInv
  <2>4. AnswersAudited'
    BY <1>2 DEF Revives, server, AnswersAudited
  <2> QED BY <2>2, <2>3, <2>4
<1>3. ASSUME NEW S \in SUBSET Containers, Work(S)
      PROVE  DockerInv'
  <2>1. /\ now' = now + 1 /\ now < MaxTime
        /\ \A k \in Containers : usage'[k] \in {usage[k], usage[k] + 1}
        /\ usage' \in [Containers -> 0..MaxTime]
        /\ UNCHANGED <<server, box, asking>>
    BY <1>3, DockerAssumption DEF Work
  <2>2. DockerTypeOK' /\ (\A j \in Containers : usage[j] <= now)' /\ LoadBounded'
    BY <2>1, DockerAssumption DEF asking, LoadBounded
  <2>3. ASSUME NEW d \in Calls
        PROVE  DockerCallInv(d)'
    <3>1. daemon[d] = "sampled" => req[d].name \in Containers
      BY DEF DockerCallInv, GetContainerStatsRequest
    <3>2. CASE daemon[d] = "sampled"
      <4> DEFINE k == req[d].name
      <4>1. /\ usage[k] \in Nat /\ now \in Nat /\ sample[d].used \in Nat /\ sample[d].at \in Nat
            /\ usage'[k] = usage[k] \/ usage'[k] = usage[k] + 1
        BY <2>1, <3>1, <3>2, DockerAssumption
      <4>2. DockerCallInv(d) /\ UNCHANGED <<rpc, req, daemon, sample, logged, audit, answer, restarted>>
        BY <2>1 DEF asking, server
      <4> HIDE DEF DockerInv, DockerTypeOK
      <4> QED BY <2>1, <3>2, <4>1, <4>2 DEF DockerCallInv
    <3>3. CASE daemon[d] # "sampled"
      BY <2>1, <3>3 DEF asking, server, DockerCallInv
    <3> QED BY <3>2, <3>3
  <2>4. AnswersAudited'
    BY <2>1 DEF asking, server, AnswersAudited
  <2> QED BY <2>2, <2>3, <2>4
<1> QED BY <1>1, <1>2, <1>3 DEF HostSteps

-----------------------------------------------------------------------------
\* What a call has found agrees with what it has lived through, and is complete
\* when it is through.
HealthCallInv(c) ==
  /\ rpc[c] = "new" => probe[c] = "idle" /\ report[c] = NoResponse
  /\ report[c] # NoResponse => rpc[c] = "answered"
  /\ IF probe[c] = "idle" THEN found[c].postgres = "none" /\ found[c].redis = "none"
     ELSE req[c] \in HealthRequests
  /\ rpc[c] = "running" /\ probe[c] # "idle" =>
       postgres \in saw[c].postgres /\ redis \in saw[c].redis
  /\ probe[c] \in Asked => AsksPostgres(req[c])
  /\ probe[c] \in Asked \ {"ping"} => "up" \in saw[c].postgres
  /\ probe[c] = "redis" => AsksRedis(req[c])
  /\ probe[c] \in {"redis", "done"} /\ AsksPostgres(req[c]) =>
       found[c].postgres \in {"healthy", "unhealthy"}
  /\ probe[c] = "done" /\ AsksRedis(req[c]) => found[c].redis # "none"
  /\ found[c].postgres = "healthy" => "up" \in saw[c].postgres
  /\ found[c].postgres = "unhealthy" => saw[c].postgres # {"up"}
  /\ found[c].redis = "healthy" => "up" \in saw[c].redis /\ "redis" \in parts
  /\ found[c].redis = "unhealthy" => saw[c].redis # {"up"} /\ "redis" \in parts
  /\ found[c].redis = "absent" => "redis" \notin parts

HealthInv ==
  /\ HealthTypeOK
  /\ \A c \in Calls : HealthCallInv(c)
  /\ ReportJustified

LEMMA AskedAre == Asked = {"ping", "version", "connections", "size"}
                  /\ Counted = {"ping", "version", "connections"}
                  /\ After["ping"] = "version" /\ After["version"] = "connections"
                  /\ After["connections"] = "size"
BY DEF Asked, Counted, After

LEMMA HealthInitial == ServerInit /\ HealthInit => HealthInv
<1> SUFFICES ASSUME ServerInit, HealthInit PROVE HealthInv
  OBVIOUS
<1>1. HealthTypeOK
  BY DEF HealthInit, HealthTypeOK, Findings
<1>2. \A c \in Calls : HealthCallInv(c)
  BY AskedAre DEF HealthInit, ServerInit, HealthCallInv
<1>3. ReportJustified
  BY DEF HealthInit, ReportJustified
<1> QED BY <1>1, <1>2, <1>3 DEF HealthInv

\* A step that leaves the state of the health calls alone.
LEMMA HealthUntouched ==
  ASSUME HealthInv, ServerInv, [ServerNext]_server, UNCHANGED health
  PROVE  HealthInv'
<1>1. HealthTypeOK'
  BY DEF HealthInv, HealthTypeOK, health, databases
<1>2. ASSUME NEW c \in Calls
      PROVE  HealthCallInv(c)'
  <2>1. HealthCallInv(c) /\ rpc[c] \in {"new", "running", "answered", "unimplemented", "lost"}
    BY DEF HealthInv, ServerInv, ServerTypeOK
  <2>2. CASE rpc[c] = "new"
    BY <2>1, <2>2, AskedAre DEF HealthCallInv, health, databases
  <2>3. CASE rpc[c] # "new"
    <3>1. req'[c] = req[c] /\ parts' = parts /\ rpc'[c] # "new"
      BY <2>3, Frame
    <3>2. rpc[c] # "running" => rpc'[c] = rpc[c]
      BY <2>3, Frame
    <3> QED BY <2>1, <2>3, <3>1, <3>2 DEF HealthCallInv, health, databases, AsksPostgres, AsksRedis
  <2> QED BY <2>2, <2>3
<1>3. ReportJustified'
  <2> SUFFICES ASSUME NEW c \in Calls, report[c] # NoResponse
               PROVE  req'[c] = req[c] /\ parts' = parts
    BY DEF ReportJustified, HealthInv, health, databases, AsksPostgres, AsksRedis,
           ShowsPostgres, ShowsRedis
  <2> QED BY Frame DEF HealthInv, HealthCallInv
<1> QED BY <1>1, <1>2, <1>3 DEF HealthInv

\* What a response shows is what was found.
LEMMA ResponseShows ==
  ASSUME NEW q \in HealthRequests, NEW f \in [postgres : Findings, redis : Findings]
  PROVE  LET m == Response(q, f)
         IN  /\ m \in Reports
             /\ AsksPostgres(q) => (ShowsPostgres(q, m) <=> f.postgres = "healthy")
             /\ AsksRedis(q) => (ShowsRedis(q, m) <=> f.redis = "healthy")
             /\ q.method = "Check" => m.status = IF Degraded(f) THEN "degraded" ELSE "healthy"
<1> DEFINE m == Response(q, f)
<1>0. \A x : /\ Status(x) \in HealthStatus /\ Reading(x) \in Figure
             /\ Status(x) = "healthy" <=> x = "healthy"
             /\ Reading(x) = "read" <=> x = "healthy"
  BY DEF Status, Reading, HealthStatus, Figure
<1> USE DEF Reports, AsksPostgres, AsksRedis, ShowsPostgres, ShowsRedis
<1>1. CASE q.method = "Check"
  <2>1. m = [status     |-> IF Degraded(f) THEN "degraded" ELSE "healthy",
             postgresql |-> [name |-> "postgresql", status |-> Status(f.postgres)],
             redis      |-> [name |-> "redis", status |-> Status(f.redis)]]
    BY <1>1 DEF Response
  <2>2. m \in HealthCheckResponse
    BY <1>0, <2>1 DEF HealthCheckResponse, DatabaseHealth, HealthStatus
  <2> QED BY <1>0, <1>1, <2>1, <2>2
<1>2. CASE q.method = "Readiness"
  <2>1. q.method # "Check" /\ ~AsksRedis(q)
    BY <1>2
  <2>2. CASE f.postgres = "healthy"
    <3>1. m = [ready |-> TRUE]
      BY <1>2, <2>2 DEF Response
    <3>2. m \in ReadinessResponse /\ m.ready
      BY <3>1 DEF ReadinessResponse
    <3> QED BY <1>2, <2>1, <2>2, <3>2
  <2>3. CASE f.postgres # "healthy"
    <3>1. m = [ready |-> FALSE]
      BY <1>2, <2>3 DEF Response
    <3>2. m \in ReadinessResponse /\ ~m.ready
      BY <3>1 DEF ReadinessResponse
    <3> QED BY <1>2, <2>1, <2>3, <3>2
  <2> QED BY <2>2, <2>3
<1>3. CASE q.method = "Liveness"
  <2>1. m = [alive |-> TRUE]
    BY <1>3 DEF Response
  <2>2. m \in LivenessResponse
    BY <2>1 DEF LivenessResponse
  <2> QED BY <1>3, <2>2
<1>4. CASE q.method = "CheckPostgreSQL"
  <2>1. m = [status |-> Status(f.postgres), activeConnections |-> Reading(f.postgres)]
    BY <1>4 DEF Response
  <2>2. m \in PostgreSQLHealthResponse
    BY <1>0, <2>1 DEF PostgreSQLHealthResponse
  <2> QED BY <1>0, <1>4, <2>1, <2>2
<1>5. CASE q.method = "CheckRedis"
  <2>1. m = [status |-> Status(f.redis), connectedClients |-> Reading(f.redis)]
    BY <1>5 DEF Response
  <2>2. m \in RedisHealthResponse
    BY <1>0, <2>1 DEF RedisHealthResponse
  <2> QED BY <1>0, <1>5, <2>1, <2>2
<1>6. CASE q.method = "GetPostgreSQLStats"
  <2>1. m = [totalConnections |-> Reading(f.postgres)]
    BY <1>6 DEF Response
  <2>2. m \in GetPostgreSQLStatsResponse
    BY <1>0, <2>1 DEF GetPostgreSQLStatsResponse
  <2> QED BY <1>0, <1>6, <2>1, <2>2
<1>7. CASE q.method = "GetRedisStats"
  <2>1. m = [mode |-> "standalone", connectedClients |-> Reading(f.redis)]
    BY <1>7 DEF Response
  <2>2. m \in GetRedisStatsResponse
    BY <1>0, <2>1 DEF GetRedisStatsResponse
  <2> QED BY <1>0, <1>7, <2>1, <2>2
<1>8. CASE q.method = "GetConnectionPoolStats"
  <2>1. m = [poolName |-> "requested", totalConnections |-> "zero"]
    BY <1>8 DEF Response
  <2>2. m \in GetConnectionPoolStatsResponse
    BY <2>1 DEF GetConnectionPoolStatsResponse, Figure
  <2> QED BY <1>8, <2>2
<1>9. q.method \in {"Check", "Readiness", "Liveness", "CheckPostgreSQL", "CheckRedis",
                    "GetPostgreSQLStats", "GetRedisStats", "GetConnectionPoolStats"}
  BY DEF HealthRequests, HealthService, DatabaseService, HealthCheckRequest, ReadinessRequest, LivenessRequest,
         PostgreSQLHealthRequest, RedisHealthRequest, CheckPostgreSQLRequest, CheckRedisRequest,
         GetPostgreSQLStatsRequest, GetRedisStatsRequest, GetConnectionPoolStatsRequest
<1> QED BY <1>1, <1>2, <1>3, <1>4, <1>5, <1>6, <1>7, <1>8, <1>9

\* A step of call c that answers nothing: only c's own state changes.
LEMMA ProbeKeepsReports ==
  ASSUME HealthInv, UNCHANGED <<server, databases, report>>, NEW c \in Calls,
         report[c] = NoResponse, \A d \in Calls \ {c} : saw'[d] = saw[d]
  PROVE  ReportJustified'
BY DEF HealthInv, ReportJustified, server, process, AsksPostgres, AsksRedis, ShowsPostgres,
       ShowsRedis

\* The handler's steps, and the end of its caller's patience.
LEMMA HealthHandlesInv ==
  ASSUME HealthInv, ServerInv, [ServerNext]_server, NEW c \in Calls,
         HealthHandles(c) \/ CallerLeaves(c)
  PROVE  HealthInv'
<1>1. HealthTypeOK /\ (\A d \in Calls : HealthCallInv(d)) /\ HealthCallInv(c)
  BY DEF HealthInv
<1>2. rpc[c] = "running" /\ req[c] \in HealthRequests /\ report[c] = NoResponse
  BY <1>1 DEF HealthHandles, CallerLeaves, Begin, Answered, Healthy, Unhealthy, PingRedis, Report,
              Checking, HealthCallInv
<1>3. CASE Begin(c)
  <2>1. HealthTypeOK'
    BY <1>1, <1>3, AskedAre DEF Begin, HealthTypeOK, Later, databases
  <2>2. ASSUME NEW d \in Calls
        PROVE  HealthCallInv(d)'
    <3>1. CASE d = c
      BY <1>1, <1>2, <1>3, <3>1, AskedAre
      DEF Begin, HealthCallInv, HealthTypeOK, Later, databases, server, process, AsksPostgres,
          AsksRedis
    <3>2. CASE d # c
      BY <1>1, <1>3, <3>2
      DEF Begin, HealthCallInv, HealthTypeOK, databases, server, process, AsksPostgres, AsksRedis
    <3> QED BY <3>1, <3>2
  <2>3. ReportJustified'
    BY <1>1, <1>2, <1>3, ProbeKeepsReports DEF Begin, HealthTypeOK
  <2> QED BY <2>1, <2>2, <2>3 DEF HealthInv
<1>4. CASE Answered(c)
  <2>1. HealthTypeOK'
    BY <1>1, <1>4, AskedAre DEF Answered, HealthTypeOK, databases
  <2>2. ASSUME NEW d \in Calls
        PROVE  HealthCallInv(d)'
    <3>1. CASE d = c
      BY <1>1, <1>2, <1>4, <3>1, AskedAre
      DEF Answered, HealthCallInv, HealthTypeOK, databases, server, process, AsksPostgres,
          AsksRedis
    <3>2. CASE d # c
      BY <1>1, <1>4, <3>2
      DEF Answered, HealthCallInv, HealthTypeOK, databases, server, process, AsksPostgres,
          AsksRedis
    <3> QED BY <3>1, <3>2
  <2>3. ReportJustified'
    BY <1>1, <1>2, <1>4, ProbeKeepsReports DEF Answered, HealthTypeOK
  <2> QED BY <2>1, <2>2, <2>3 DEF HealthInv
<1>5. CASE Healthy(c) \/ Unhealthy(c) \/ CallerLeaves(c)
  <2>1. PICK r \in {"healthy", "unhealthy"} :
          /\ probe[c] \in Asked
          /\ Found(c, r)
          /\ \/ /\ saw' = saw
                /\ r = "healthy" => probe[c] = "size"
                /\ r = "unhealthy" => postgres = "down"
             \/ /\ saw' = [saw EXCEPT ![c].postgres = @ \cup {"left"}]
                /\ r = "healthy" => probe[c] = "size"
    <3>1. CASE Healthy(c)
      BY <3>1, AskedAre DEF Healthy
    <3>2. CASE Unhealthy(c)
      BY <3>2, AskedAre DEF Unhealthy
    <3>3. CASE CallerLeaves(c) /\ probe[c] = "size"
      BY <3>3 DEF CallerLeaves
    <3>4. CASE CallerLeaves(c) /\ probe[c] # "size"
      BY <3>4 DEF CallerLeaves
    <3> QED BY <1>5, <3>1, <3>2, <3>3, <3>4
  <2>2. /\ probe' = [probe EXCEPT ![c] = Later(c)]
        /\ found' = [found EXCEPT ![c].postgres = r]
        /\ UNCHANGED <<server, databases, report>>
    BY <2>1 DEF Found
  <2>3. /\ \A d \in Calls : saw'[d].redis = saw[d].redis /\ saw[d].postgres \subseteq saw'[d].postgres
        /\ \A d \in Calls \ {c} : saw'[d] = saw[d]
        /\ r = "healthy" => "up" \in saw'[c].postgres
        /\ r = "unhealthy" => saw'[c].postgres # {"up"}
        /\ saw' \in [Calls -> [postgres : SUBSET (PostgresStates \cup {"left"}),
                               redis : SUBSET RedisStates]]
    <3>1. probe[c] = "size" => "up" \in saw[c].postgres
      BY <1>1, AskedAre DEF HealthCallInv
    <3>2. postgres = "down" => saw[c].postgres # {"up"}
      BY <1>1, <1>2, <2>1, AskedAre DEF HealthCallInv
    <3>3. saw \in [Calls -> [postgres : SUBSET (PostgresStates \cup {"left"}),
                             redis : SUBSET RedisStates]]
      BY <1>1 DEF HealthTypeOK
    <3>4. CASE saw' = saw
      <4>1. \/ /\ r = "healthy" => probe[c] = "size"
               /\ r = "unhealthy" => postgres = "down"
            \/ "left" \in saw[c].postgres
        BY <2>1, <3>3, <3>4
      <4> QED BY <3>1, <3>2, <3>3, <3>4, <4>1, <2>1
    <3>5. CASE saw' = [saw EXCEPT ![c].postgres = @ \cup {"left"}] /\ (r = "healthy" => probe[c] = "size")
      <4>1. /\ saw'[c].postgres = saw[c].postgres \cup {"left"} /\ saw'[c].redis = saw[c].redis
            /\ \A d \in Calls \ {c} : saw'[d] = saw[d]
        BY <3>3, <3>5
      <4>2. saw' \in [Calls -> [postgres : SUBSET (PostgresStates \cup {"left"}),
                                redis : SUBSET RedisStates]]
        BY <3>3, <3>5
      <4> QED BY <3>1, <3>5, <4>1, <4>2
    <3> QED BY <2>1, <3>4, <3>5
  <2>4. HealthTypeOK'
    BY <1>1, <2>1, <2>2, <2>3, AskedAre DEF HealthTypeOK, Later, databases, Findings
  <2>5. ASSUME NEW d \in Calls
        PROVE  HealthCallInv(d)'
    <3>1. CASE d = c
      <4>1. /\ found'[c].postgres = r /\ found'[c].redis = found[c].redis
            /\ probe'[c] = Later(c) /\ probe'[c] \in {"redis", "done"}
        BY <1>1, <2>2 DEF HealthTypeOK, Later
      <4>2. AsksPostgres(req[c]) /\ UNCHANGED <<rpc, req, parts, postgres, redis, report>>
        BY <1>1, <2>1, <2>2 DEF HealthCallInv, server, process, databases
      <4>3. postgres \in saw'[c].postgres /\ redis \in saw'[c].redis
            /\ saw'[c].redis = saw[c].redis
        BY <1>1, <1>2, <2>1, <2>3, AskedAre DEF HealthCallInv
      <4> QED
        BY <1>1, <1>2, <2>3, <3>1, <4>1, <4>2, <4>3, AskedAre
        DEF HealthCallInv, Later, AsksPostgres, AsksRedis
    <3>2. CASE d # c
      <4>1. /\ found'[d] = found[d] /\ probe'[d] = probe[d] /\ saw'[d] = saw[d]
            /\ UNCHANGED <<rpc, req, parts, postgres, redis, report>>
        BY <1>1, <2>2, <2>3, <3>2 DEF HealthTypeOK, server, process, databases
      <4> QED BY <1>1, <4>1 DEF HealthCallInv, AsksPostgres, AsksRedis
    <3> QED BY <3>1, <3>2
  <2>6. ReportJustified'
    BY <1>2, <2>2, <2>3, ProbeKeepsReports
  <2> QED BY <2>4, <2>5, <2>6 DEF HealthInv
<1>6. CASE PingRedis(c)
  <2> DEFINE r == IF "redis" \notin parts THEN "absent"
                  ELSE IF redis = "up" THEN "healthy" ELSE "unhealthy"
  <2>1. /\ found' = [found EXCEPT ![c].redis = r] /\ probe' = [probe EXCEPT ![c] = "done"]
        /\ UNCHANGED <<server, databases, report, saw>>
        /\ probe[c] = "redis" /\ rpc[c] = "running"
    BY <1>6 DEF PingRedis, Checking
  <2>2. r \in {"absent", "healthy", "unhealthy"}
    OBVIOUS
  <2>3. redis \in saw[c].redis
    BY <1>1, <2>1 DEF HealthCallInv
  <2>4. /\ r = "healthy" => "up" \in saw[c].redis /\ "redis" \in parts
        /\ r = "unhealthy" => saw[c].redis # {"up"} /\ "redis" \in parts
        /\ r = "absent" => "redis" \notin parts
    BY <2>3
  <2> HIDE DEF r
  <2>5. HealthTypeOK'
    BY <1>1, <2>1, <2>2 DEF HealthTypeOK, databases, Findings
  <2>6. ASSUME NEW d \in Calls
        PROVE  HealthCallInv(d)'
    <3>1. CASE d = c
      <4>1. /\ found'[c].redis = r /\ found'[c].postgres = found[c].postgres
            /\ probe'[c] = "done" /\ UNCHANGED <<rpc, req, parts, postgres, redis, report, saw>>
        BY <1>1, <2>1 DEF HealthTypeOK, server, process, databases
      <4> QED
        BY <1>1, <1>2, <2>1, <2>2, <2>4, <3>1, <4>1, AskedAre
        DEF HealthCallInv, AsksPostgres, AsksRedis
    <3>2. CASE d # c
      <4>1. /\ found'[d] = found[d] /\ probe'[d] = probe[d]
            /\ UNCHANGED <<rpc, req, parts, postgres, redis, report, saw>>
        BY <1>1, <2>1, <3>2 DEF HealthTypeOK, server, process, databases
      <4> QED BY <1>1, <4>1 DEF HealthCallInv, AsksPostgres, AsksRedis
    <3> QED BY <3>1, <3>2
  <2>7. ReportJustified'
    BY <1>2, <2>1, ProbeKeepsReports
  <2> QED BY <2>5, <2>6, <2>7 DEF HealthInv
<1>7. CASE Report(c)
  <2> DEFINE m == Response(req[c], found[c])
  <2>1. /\ report' = [report EXCEPT ![c] = m] /\ rpc' = [rpc EXCEPT ![c] = "answered"]
        /\ UNCHANGED <<databases, probe, found, saw, req, parts>>
        /\ probe[c] = "done"
    BY <1>7 DEF Report, Answer, process
  <2>2. found[c] \in [postgres : Findings, redis : Findings]
    BY <1>1 DEF HealthTypeOK
  <2>3. /\ m \in Reports
        /\ AsksPostgres(req[c]) => (ShowsPostgres(req[c], m) <=> found[c].postgres = "healthy")
        /\ AsksRedis(req[c]) => (ShowsRedis(req[c], m) <=> found[c].redis = "healthy")
        /\ req[c].method = "Check" =>
             m.status = IF Degraded(found[c]) THEN "degraded" ELSE "healthy"
    BY <1>2, <2>2, ResponseShows
  <2> HIDE DEF m
  <2>4. HealthTypeOK'
    BY <1>1, <2>1, <2>3 DEF HealthTypeOK, databases
  <2>5. rpc \in [Calls -> {"new", "running", "answered", "unimplemented", "lost"}]
    BY DEF ServerInv, ServerTypeOK
  <2>6. ASSUME NEW d \in Calls
        PROVE  HealthCallInv(d)'
    BY <1>1, <1>2, <2>1, <2>5
    DEF HealthCallInv, HealthTypeOK, databases, AsksPostgres, AsksRedis
  <2>7. ReportJustified'
    <3> DEFINE q == req[c]
               s == saw[c]
    <3>1. /\ AsksPostgres(q) =>
                IF ShowsPostgres(q, m) THEN "up" \in s.postgres ELSE s.postgres # {"up"}
          /\ AsksRedis(q) /\ "redis" \in parts =>
                IF ShowsRedis(q, m) THEN "up" \in s.redis ELSE s.redis # {"up"}
      <4>1. found[c].postgres \in Findings /\ found[c].redis \in Findings
        BY <2>2
      <4> QED BY <1>1, <2>1, <2>3, <4>1 DEF HealthCallInv, Findings
    <3>2. q.method = "Check" =>
            IF m.status = "healthy" THEN ShowsPostgres(q, m)
            ELSE s.postgres # {"up"} \/ ("redis" \in parts /\ s.redis # {"up"})
      <4>1. q.method = "Check" => AsksPostgres(q) /\ AsksRedis(q)
        BY DEF AsksPostgres, AsksRedis
      <4> HIDE DEF q, s
      <4> QED BY <1>1, <2>1, <2>3, <3>1, <4>1 DEF HealthCallInv, Degraded, q, s
    <3>3. report'[c] = m /\ \A d \in Calls \ {c} : report'[d] = report[d]
      BY <1>1, <2>1 DEF HealthTypeOK
    <3>4. ReportJustified /\ UNCHANGED <<req, saw, parts>>
      BY <2>1 DEF HealthInv
    <3> SUFFICES ASSUME NEW d \in Calls, report'[d] # NoResponse
                 PROVE  LET qd == req[d]
                            sd == saw[d]
                            md == report'[d]
                        IN  /\ AsksPostgres(qd) =>
                                 IF ShowsPostgres(qd, md) THEN "up" \in sd.postgres
                                 ELSE sd.postgres # {"up"}
                            /\ AsksRedis(qd) /\ "redis" \in parts =>
                                 IF ShowsRedis(qd, md) THEN "up" \in sd.redis
                                 ELSE sd.redis # {"up"}
                            /\ qd.method = "Check" =>
                                 IF md.status = "healthy" THEN ShowsPostgres(qd, md)
                                 ELSE \/ sd.postgres # {"up"}
                                      \/ "redis" \in parts /\ sd.redis # {"up"}
      BY <3>4 DEF ReportJustified, AsksPostgres, AsksRedis, ShowsPostgres, ShowsRedis
    <3>5. CASE d = c
      BY <3>1, <3>2, <3>3, <3>5
    <3>6. CASE d # c
      BY <3>3, <3>4, <3>6 DEF ReportJustified
    <3> QED BY <3>5, <3>6
  <2> QED BY <2>4, <2>6, <2>7 DEF HealthInv
<1> QED BY <1>3, <1>4, <1>5, <1>6, <1>7 DEF HealthHandles

\* A database changes while calls ask it.
LEMMA DatabaseStepsInv ==
  ASSUME HealthInv, ServerInv, DatabaseSteps
  PROVE  HealthInv'
<1>1. HealthTypeOK /\ (\A c \in Calls : HealthCallInv(c)) /\ ReportJustified
  BY DEF HealthInv
<1>2. ASSUME NEW t \in PostgresStates, PostgresChanges(t)
      PROVE  HealthInv'
  <2>1. /\ postgres' = t /\ UNCHANGED <<server, redis, probe, found, report>>
        /\ \A c \in Calls :
             IF rpc[c] = "running" /\ probe[c] # "idle"
             THEN saw'[c].postgres = saw[c].postgres \cup {t} /\ saw'[c].redis = saw[c].redis
             ELSE saw'[c] = saw[c]
    BY <1>1, <1>2 DEF PostgresChanges, Under, HealthTypeOK
  <2>2. HealthTypeOK'
    BY <1>1, <1>2 DEF PostgresChanges, HealthTypeOK
  <2>3. ASSUME NEW c \in Calls
        PROVE  HealthCallInv(c)'
    <3>1. HealthCallInv(c) /\ UNCHANGED <<rpc, req, parts>>
      BY <1>1, <2>1 DEF server, process
    <3>2. CASE rpc[c] = "running" /\ probe[c] # "idle"
      <4>1. /\ saw'[c].postgres = saw[c].postgres \cup {t} /\ saw'[c].redis = saw[c].redis
            /\ postgres \in saw[c].postgres
        BY <2>1, <3>1, <3>2 DEF HealthCallInv
      <4>2. saw[c].postgres # {"up"} => saw'[c].postgres # {"up"}
        BY <4>1
      <4> QED BY <2>1, <3>1, <3>2, <4>1, <4>2 DEF HealthCallInv, AsksPostgres, AsksRedis
    <3>3. CASE ~(rpc[c] = "running" /\ probe[c] # "idle")
      BY <2>1, <3>1, <3>3 DEF HealthCallInv, AsksPostgres, AsksRedis
    <3> QED BY <3>2, <3>3
  <2>4. ReportJustified'
    <3> SUFFICES ASSUME NEW c \in Calls, report[c] # NoResponse
                 PROVE  saw'[c] = saw[c] /\ UNCHANGED <<req, parts, report>>
      BY <1>1, <2>1 DEF ReportJustified, AsksPostgres, AsksRedis, ShowsPostgres, ShowsRedis
    <3> QED BY <1>1, <2>1 DEF HealthCallInv, server, process
  <2> QED BY <2>2, <2>3, <2>4 DEF HealthInv
<1>3. ASSUME NEW t \in RedisStates, RedisChanges(t)
      PROVE  HealthInv'
  <2>1. /\ redis' = t /\ UNCHANGED <<server, postgres, probe, found, report>>
        /\ \A c \in Calls :
             IF rpc[c] = "running" /\ probe[c] # "idle"
             THEN saw'[c].redis = saw[c].redis \cup {t} /\ saw'[c].postgres = saw[c].postgres
             ELSE saw'[c] = saw[c]
    BY <1>1, <1>3 DEF RedisChanges, Under, HealthTypeOK
  <2>2. HealthTypeOK'
    BY <1>1, <1>3 DEF RedisChanges, HealthTypeOK
  <2>3. ASSUME NEW c \in Calls
        PROVE  HealthCallInv(c)'
    <3>1. HealthCallInv(c) /\ UNCHANGED <<rpc, req, parts>>
      BY <1>1, <2>1 DEF server, process
    <3>2. CASE rpc[c] = "running" /\ probe[c] # "idle"
      <4>1. /\ saw'[c].redis = saw[c].redis \cup {t} /\ saw'[c].postgres = saw[c].postgres
            /\ redis \in saw[c].redis
        BY <2>1, <3>1, <3>2 DEF HealthCallInv
      <4>2. saw[c].redis # {"up"} => saw'[c].redis # {"up"}
        BY <4>1
      <4> QED BY <2>1, <3>1, <3>2, <4>1, <4>2 DEF HealthCallInv, AsksPostgres, AsksRedis
    <3>3. CASE ~(rpc[c] = "running" /\ probe[c] # "idle")
      BY <2>1, <3>1, <3>3 DEF HealthCallInv, AsksPostgres, AsksRedis
    <3> QED BY <3>2, <3>3
  <2>4. ReportJustified'
    <3> SUFFICES ASSUME NEW c \in Calls, report[c] # NoResponse
                 PROVE  saw'[c] = saw[c] /\ UNCHANGED <<req, parts, report>>
      BY <1>1, <2>1 DEF ReportJustified, AsksPostgres, AsksRedis, ShowsPostgres, ShowsRedis
    <3> QED BY <1>1, <2>1 DEF HealthCallInv, server, process
  <2> QED BY <2>2, <2>3, <2>4 DEF HealthInv
<1> QED BY <1>2, <1>3 DEF DatabaseSteps

-----------------------------------------------------------------------------
IInv == ServerInv /\ DockerInv /\ HealthInv

LEMMA Initially == Init => IInv
BY ServerInitial, DockerInitial, HealthInitial DEF Init, IInv

LEMMA Inductive == IInv /\ [Next]_gvars => IInv'
<1> SUFFICES ASSUME IInv, [Next]_gvars PROVE IInv'
  OBVIOUS
<1>1. ServerInv /\ DockerInv /\ HealthInv
  BY DEF IInv
<1>2. [ServerNext]_server
  BY ServerSteps DEF gvars
<1>3. ServerInv'
  BY <1>1, <1>2, ServerInvariant
<1>4. DockerInv'
  <2>1. CASE UNCHANGED docker
    BY <1>1, <1>2, <2>1, DockerUntouched
  <2>2. ASSUME NEW c \in Calls, DockerCall(c)
        PROVE  DockerInv'
    BY <1>1, <1>2, <2>2, DockerHandlesInv, DaemonStepsInv DEF DockerCall
  <2>3. CASE HostSteps
    BY <1>1, <2>3, HostStepsInv
  <2> QED BY <2>1, <2>2, <2>3 DEF Next, Process, HealthCall, gvars
<1>5. HealthInv'
  <2>1. CASE UNCHANGED health
    BY <1>1, <1>2, <2>1, HealthUntouched
  <2>2. ASSUME NEW c \in Calls, HealthCall(c)
        PROVE  HealthInv'
    BY <1>1, <1>2, <2>2, HealthHandlesInv DEF HealthCall
  <2>3. CASE DatabaseSteps
    BY <1>1, <2>3, DatabaseStepsInv
  <2> QED BY <2>1, <2>2, <2>3 DEF Next, Process, DockerCall, gvars
<1> QED BY <1>3, <1>4, <1>5 DEF IInv

LEMMA Invariance == Spec => []IInv
<1> QED BY Initially, Inductive, PTL DEF Spec

\* Every variable has its type.
THEOREM GatewayTypeCorrect == Spec => []TypeOK
<1>1. IInv => TypeOK
  BY DEF IInv, ServerInv, DockerInv, HealthInv, TypeOK
<1> QED BY <1>1, Invariance, PTL

\* Who stops in order has answered: main's last lines.
THEOREM OrderlyAnswered == Spec => []OrderlyAnswers
<1>1. IInv => OrderlyAnswers
  BY DEF IInv, ServerInv
<1> QED BY <1>1, Invariance, PTL

\* The deferred Close calls come when nobody uses the clients.
THEOREM ClosedAreUnused == Spec => []ClosedUnused
<1>1. IInv => ClosedUnused
  BY DEF IInv, ServerInv, ClosedUnused
<1> QED BY <1>1, Invariance, PTL

\* What the Docker service calls a success was done and logged, and what has a
\* record was done and not called a failure, whatever records the logger drops.
THEOREM AnswersAreAudited == Spec => []AnswersAudited
<1>1. IInv => AnswersAudited
  BY DEF IInv, DockerInv
<1> QED BY <1>1, Invariance, PTL

\* The processor load of GetContainerStats overflows only by a restart.
THEOREM LoadIsBounded == Spec => []LoadBounded
<1>1. IInv => LoadBounded
  BY DEF IInv, DockerInv
<1> QED BY <1>1, Invariance, PTL

\* A health report is about something that was so.
THEOREM ReportsJustified == Spec => []ReportJustified
<1>1. IInv => ReportJustified
  BY DEF IInv, HealthInv
<1> QED BY <1>1, Invariance, PTL
-----------------------------------------------------------------------------
\* The process implements the graceful server.  What ends the process ends it
\* there.
LEMMA GracefulEnd ==
  ASSUME ServerInv, alive, NEW s \in {"error", "killed"}, Exit(s)
  PROVE  Graceful!End
BY DEF Exit, alive, Phase, Graceful!End, Graceful!Up, ServerInv, ServerTypeOK

LEMMA GracefulStep ==
  ASSUME ServerInv, [ServerNext]_server
  PROVE  [Graceful!Next]_(Graceful!vars)
<1> USE DEF ServerInv, ServerTypeOK, alive
<1>1. CASE UNCHANGED <<main, status, web, rpc, closed>>
  BY <1>1 DEF Phase, Graceful!vars
<1>2. ASSUME alive, NEW s \in {"error", "killed"}, Exit(s)
      PROVE  Graceful!Next
  BY <1>2, GracefulEnd DEF Graceful!Next
<1>3. CASE MainSteps
  <2>1. ASSUME NEW loaded \in BOOLEAN, NEW p \in SUBSET (Clients \cup {"whitelist"}),
               Wire(loaded, p)
        PROVE  UNCHANGED Graceful!vars
    BY <2>1 DEF Wire, Advance, Phase, Graceful!vars
  <2>2. CASE Listen \/ Notify
    BY <2>2 DEF Listen, Notify, Advance, Phase, Graceful!vars
  <2>3. CASE ListenFails
    BY <1>2, <2>3 DEF ListenFails
  <2>4. CASE Shutdown
    <3>1. Graceful!Drain
      BY <2>4 DEF Shutdown, Advance, Phase, Graceful!Drain
    <3> QED BY <3>1 DEF Graceful!Next
  <2>5. CASE Drained
    <3>1. Graceful!Stop
      BY <2>5 DEF Drained, Advance, Phase, Graceful!Stop
    <3> QED BY <3>1 DEF Graceful!Next
  <2>6. CASE Stopped
    <3>1. Graceful!Stopped
      BY <2>6 DEF Stopped, Advance, Running, Phase, Graceful!Stopped
    <3> QED BY <3>1 DEF Graceful!Next
  <2>7. ASSUME NEW x \in Clients, Close(x)
        PROVE  Graceful!Next
    <3>1. Graceful!Close(x)
      BY <2>7 DEF Close, Phase, Graceful!Close
    <3> QED BY <3>1 DEF Graceful!Next
  <2>8. CASE Return
    <3>1. Graceful!End
      BY <2>8 DEF Return, Exit, Phase, Graceful!End, Graceful!Up
    <3> QED BY <3>1 DEF Graceful!Next
  <2> QED
    BY <1>3, <2>1, <2>2, <2>3, <2>4, <2>5, <2>6, <2>7, <2>8 DEF MainSteps
<1>4. CASE ServeSteps
  <2>1. CASE RestServes \/ GrpcServes
    BY <1>1, <2>1 DEF RestServes, GrpcServes
  <2>2. CASE RestFails \/ GrpcFails
    BY <1>2, <2>2 DEF RestFails, GrpcFails
  <2> QED BY <1>4, <2>1, <2>2 DEF ServeSteps
<1>5. CASE Terminate
  BY <1>1, <1>2, <1>5 DEF Terminate
<1>6. CASE alive /\ \E s \in {"error", "killed"} : Exit(s)
  BY <1>2, <1>6
<1>7. ASSUME NEW r \in RestReqs, RestSteps(r)
      PROVE  Graceful!Next
  <2>1. CASE Accept(r)
    <3>1. Phase = "open"
      BY <2>1 DEF Accept, Phase
    <3>2. Phase' = Phase /\ UNCHANGED <<rpc, closed>>
      BY <2>1 DEF Accept, process, Phase
    <3>3. Graceful!Accept(r)
      BY <2>1, <3>1, <3>2 DEF Accept, Graceful!Accept
    <3> QED BY <3>3 DEF Graceful!Next
  <2>2. ASSUME NEW s \in {"answered", "limited"}, Respond(r, s)
        PROVE  Graceful!Next
    <3>1. Phase' = Phase /\ UNCHANGED <<rpc, closed>> /\ Graceful!Up
      BY <2>2 DEF Respond, process, Phase, Graceful!Up, Stages
    <3>2. Graceful!Respond(r)
      BY <2>2, <3>1 DEF Respond, Graceful!Respond
    <3> QED BY <3>2 DEF Graceful!Next
  <2> QED BY <1>7, <2>1, <2>2 DEF RestSteps
<1>8. ASSUME NEW c \in Calls, Answer(c)
      PROVE  Graceful!Next
  <2>1. Phase' = Phase /\ UNCHANGED <<web, closed>> /\ Graceful!Up
    BY <1>8 DEF Answer, process, Phase, Graceful!Up, Stages
  <2>2. Graceful!Answer(c)
    BY <1>8, <2>1 DEF Answer, Graceful!Answer
  <2> QED BY <2>2 DEF Graceful!Next
<1>9. ASSUME NEW c \in Calls, NEW q \in Requests, Call(c, q)
      PROVE  Graceful!Next
  <2>1. Phase \in {"open", "draining"}
    BY <1>9 DEF Call, Phase, Stages
  <2>2. Phase' = Phase /\ UNCHANGED <<web, closed>>
    BY <1>9 DEF Call, process, Phase
  <2>3. Graceful!Call(c)
    BY <1>9, <2>1, <2>2 DEF Call, Graceful!Call
  <2> QED BY <2>3 DEF Graceful!Next
<1>10. ASSUME NEW c \in Calls, ClientSteps(c)
       PROVE  [Graceful!Next]_(Graceful!vars)
  <2>1. CASE MessageComes(c)
    BY <1>1, <2>1 DEF MessageComes, process
  <2>2. CASE ClientEnds(c)
    <3>1. Phase' = Phase /\ UNCHANGED <<web, closed>> /\ Graceful!Up
      BY <2>2 DEF ClientEnds, process, Phase, Graceful!Up, Stages
    <3>2. Graceful!Answer(c)
      BY <2>2, <3>1 DEF ClientEnds, Graceful!Answer
    <3> QED BY <3>2 DEF Graceful!Next
  <2> QED BY <1>10, <2>1, <2>2 DEF ClientSteps
<1>11. CASE UNCHANGED server
  BY <1>1, <1>11 DEF server, process
<1> QED
  BY <1>3, <1>4, <1>5, <1>6, <1>7, <1>8, <1>9, <1>10, <1>11 DEF ServerNext

\* The process with its goroutines, signals and failures is a graceful server.
THEOREM ServesGracefully == Spec => StopsGracefully
<1>1. Init => Graceful!Init
  BY DEF Init, ServerInit, Phase, Graceful!Init
<1>2. IInv /\ [Next]_gvars => [Graceful!Next]_(Graceful!vars)
  <2> SUFFICES ASSUME IInv, [Next]_gvars PROVE [Graceful!Next]_(Graceful!vars)
    OBVIOUS
  <2>1. [ServerNext]_server
    BY ServerSteps DEF gvars
  <2> QED BY <2>1, GracefulStep DEF IInv
<1> QED BY <1>1, <1>2, Invariance, PTL DEF Spec, StopsGracefully, Graceful!Spec
-----------------------------------------------------------------------------
\* To the operations on containers a step of the process is nothing, its end, or
\* a new call.
LEMMA ServerOutline ==
  ASSUME [ServerNext]_server
  PROVE  \/ UNCHANGED <<status, req>>
         \/ alive /\ alive' = FALSE /\ req' = req
         \/ \E c \in Calls, q \in Requests : Call(c, q)
<1> DEFINE Outline == \/ UNCHANGED <<status, req>>
                      \/ alive /\ alive' = FALSE /\ req' = req
<1> SUFFICES ASSUME ~\E c \in Calls, q \in Requests : Call(c, q)
             PROVE  Outline
  OBVIOUS
<1>1. ASSUME alive, NEW s \in {"ok", "error", "killed"}, Exit(s)
      PROVE  Outline
  BY <1>1 DEF Exit, alive
<1>2. CASE MainSteps
  <2>1. CASE ListenFails \/ Return
    BY <2>1, <1>1 DEF ListenFails, Return
  <2> QED
    BY <1>2, <2>1 DEF MainSteps, Wire, Listen, Notify, Shutdown, Drained, Stopped, Close
<1>3. CASE ServeSteps
  BY <1>3, <1>1 DEF ServeSteps, RestServes, RestFails, GrpcServes, GrpcFails
<1>4. CASE Terminate
  BY <1>4, <1>1 DEF Terminate
<1>5. CASE alive /\ \E s \in {"error", "killed"} : Exit(s)
  BY <1>5, <1>1
<1>6. CASE \E r \in RestReqs : RestSteps(r)
  BY <1>6 DEF RestSteps, Accept, Respond, process
<1>7. ASSUME NEW c \in Calls, Answer(c)
      PROVE  Outline
  BY <1>7 DEF Answer, process
<1>8. ASSUME NEW c \in Calls, ClientSteps(c)
      PROVE  Outline
  BY <1>8 DEF ClientSteps, MessageComes, ClientEnds, process
<1>9. CASE UNCHANGED server
  BY <1>9 DEF server, process
<1> QED BY <1>2, <1>3, <1>4, <1>5, <1>6, <1>7, <1>8, <1>9 DEF ServerNext

\* The two responses to an operation differ from each other and from the rest.
LEMMA OutcomesDiffer ==
  /\ [success |-> TRUE] \in OperationResponse /\ [success |-> FALSE] \in OperationResponse
  /\ [success |-> TRUE] # [success |-> FALSE]
  /\ \A m \in Replies \cup {NoResponse} : m # [success |-> TRUE] /\ m # [success |-> FALSE]
<1>1. [success |-> TRUE] \in OperationResponse /\ [success |-> FALSE] \in OperationResponse
      /\ [success |-> TRUE] # [success |-> FALSE]
  BY DEF OperationResponse, StartContainerResponse
<1> QED BY <1>1, RepliesDiffer, NoReply

\* An operation is neither an inspection nor a question for statistics.
LEMMA OperationsDiffer ==
  \A q \in Operation : q \notin Inspection /\ q \notin GetContainerStatsRequest
<1>1. \A q \in Operation : q.method \in {"StartContainer", "StopContainer", "RestartContainer"}
  BY DEF Operation, StartContainerRequest, StopContainerRequest, RestartContainerRequest
<1>2. \A q \in Inspection \cup GetContainerStatsRequest :
        q.method \notin {"StartContainer", "StopContainer", "RestartContainer"}
  BY DEF Inspection, GetContainerStatsRequest, GetContainerRequest, ListContainersRequest,
         GetAquatiqServicesRequest, GetContainerLogsRequest, ListImagesRequest,
         ListNetworksRequest, ListVolumesRequest, GetSystemInfoRequest
<1> QED BY <1>1, <1>2

\* Steps that change nothing the promise speaks of.
LEMMA AuditedQuiet ==
  ASSUME UNCHANGED <<status, req, logged, audit, answer, box>>, Done' = Done
  PROVE  UNCHANGED Audited!vars
BY DEF alive, Wanted, Outcome, Audited!vars

\* Steps of the process.
LEMMA AuditedUntouched ==
  ASSUME ServerInv, DockerInv, [ServerNext]_server, UNCHANGED docker
  PROVE  [Audited!Next]_(Audited!vars)
<1>1. UNCHANGED <<daemon, logged, audit, answer, box>> /\ Outcome' = Outcome
  BY DEF docker, host, asking, Outcome
<1>2. CASE UNCHANGED <<status, req>>
  BY <1>1, <1>2, AuditedQuiet DEF Done
<1>3. CASE alive /\ alive' = FALSE /\ req' = req
  <2>1. Audited!Die
    BY <1>1, <1>3 DEF Audited!Die, Wanted, Done
  <2> QED BY <2>1 DEF Audited!Next
<1>4. ASSUME NEW c \in Calls, NEW q \in Requests, Call(c, q)
      PROVE  [Audited!Next]_(Audited!vars)
  <2>1. /\ alive /\ alive' = alive /\ req' = [req EXCEPT ![c] = q]
        /\ rpc[c] = "new" /\ req \in [Calls -> Requests \cup {NoRequest}]
    BY <1>4 DEF Call, process, alive, ServerInv, ServerTypeOK
  <2>2. daemon[c] = "none" /\ req[c] = NoRequest
    BY <2>1 DEF ServerInv, DockerInv, DockerCallInv
  <2>3. Done' = Done
    BY <1>1, <2>1, <2>2 DEF Done
  <2>4. NoRequest \notin Operation
    BY RequestsAssumption DEF AllRequests, DockerRequests
  <2>5. Wanted[c] = NoRequest
    BY <2>2, <2>4 DEF Wanted
  <2>6. CASE q \in Operation
    <3>1. Wanted' = [Wanted EXCEPT ![c] = q]
      BY <2>1, <2>6 DEF Wanted
    <3>2. Audited!Want(c, q)
      BY <1>1, <2>1, <2>3, <2>5, <3>1 DEF Audited!Want
    <3> QED BY <2>6, <3>2 DEF Audited!Next
  <2>7. CASE q \notin Operation
    <3>1. Wanted' = Wanted
      BY <2>1, <2>2, <2>4, <2>7 DEF Wanted
    <3> QED BY <1>1, <2>1, <2>3, <3>1 DEF Audited!vars
  <2> QED BY <2>6, <2>7
<1> QED BY <1>2, <1>3, <1>4, ServerOutline

\* Steps of a handler.
LEMMA AuditedHandles ==
  ASSUME ServerInv, DockerInv, [ServerNext]_server, NEW c \in Calls, DockerHandles(c)
  PROVE  [Audited!Next]_(Audited!vars)
<1> USE DEF DockerInv, DockerTypeOK
<1>0. ASSUME Answer(c)
      PROVE  UNCHANGED <<status, req>> /\ alive' = alive /\ rpc[c] = "running"
  BY <1>0 DEF Answer, process, alive
<1>1. CASE Ask(c)
  <2>1. UNCHANGED <<status, req, logged, audit, answer, box>>
    BY <1>1 DEF Ask, server, process, host
  <2>2. Done' = Done
    BY <1>1, <2>1 DEF Ask, Done
  <2> QED BY <2>1, <2>2, AuditedQuiet
<1>2. CASE Record(c)
  <2>1. UNCHANGED <<status, req, daemon, answer, box>> /\ alive
    BY <1>2 DEF Record, server, process, host, Handling
  <2>2. answer[c] = NoResponse
    BY <1>2 DEF Record, Handling, DockerCallInv
  <2>3. Outcome[c] = "nothing"
    BY <2>2, OutcomesDiffer DEF Outcome
  <2>4. c \in Done
    BY <1>2 DEF Record, Done
  <2>5. UNCHANGED <<alive, Wanted, Done, Outcome>>
    BY <2>1 DEF alive, Wanted, Done, Outcome
  <2>6. Audited!Record(c)
    BY <1>2, <2>1, <2>3, <2>4, <2>5 DEF Record, Audited!Record
  <2> QED BY <2>6 DEF Audited!Next
<1>3. CASE Succeed(c) \/ Fail(c)
  <2>1. /\ Answer(c) /\ UNCHANGED <<daemon, logged, audit, box>> /\ Handling(c)
        /\ answer' = [answer EXCEPT ![c] = answer'[c]]
    BY <1>3 DEF Succeed, Fail, host
  <2>2. /\ UNCHANGED <<status, req>> /\ alive /\ alive' = alive
        /\ Wanted' = Wanted /\ Done' = Done
    BY <1>0, <2>1 DEF Handling, Wanted, Done
  <2>3. Outcome[c] = "nothing"
    <3>1. answer[c] = NoResponse
      BY <1>0, <2>1 DEF DockerCallInv
    <3> QED BY <3>1, OutcomesDiffer DEF Outcome
  <2>4. CASE req[c] \in Operation
    <3>1. \/ c \in logged /\ answer'[c] = [success |-> TRUE]
          \/ c \notin logged /\ answer'[c] = [success |-> FALSE]
      BY <1>3, <2>4 DEF Succeed, Fail
    <3>2. Outcome'[c] = IF c \in logged THEN "success" ELSE "failure"
      BY <3>1, OutcomesDiffer DEF Outcome
    <3>3. \A d \in Calls : d # c => Outcome'[d] = Outcome[d]
      BY <2>1 DEF Outcome
    <3>4. Outcome' = [Outcome EXCEPT ![c] = Outcome'[c]]
      <4>1. DOMAIN Outcome = Calls /\ DOMAIN Outcome' = Calls
        BY DEF Outcome
      <4>2. Outcome = [d \in Calls |-> Outcome[d]] /\ Outcome' = [d \in Calls |-> Outcome'[d]]
        BY DEF Outcome
      <4> QED BY <3>3, <4>1, <4>2
    <3>5. Wanted[c] \in Operation
      BY <2>4 DEF Wanted
    <3>6. Audited!Tell(c)
      BY <2>1, <2>2, <2>3, <3>2, <3>4, <3>5 DEF Audited!Tell
    <3> QED BY <3>6 DEF Audited!Next
  <2>5. CASE req[c] \notin Operation
    <3>1. answer'[c] \in Replies \cup {NoResponse}
      BY <1>3, <2>5 DEF Succeed, Fail
    <3>2. Outcome'[c] = "nothing"
      BY <3>1, OutcomesDiffer DEF Outcome
    <3>3. \A d \in Calls : d # c => Outcome'[d] = Outcome[d]
      BY <2>1 DEF Outcome
    <3>4. Outcome' = Outcome
      BY <2>3, <3>2, <3>3 DEF Outcome
    <3> QED BY <2>1, <2>2, <3>4 DEF Audited!vars
  <2> QED BY <2>4, <2>5
<1>4. CASE Panic(c)
  BY <1>4, AuditedUntouched DEF Panic
<1> QED BY <1>1, <1>2, <1>3, <1>4 DEF DockerHandles

\* Steps of the daemon: one of them does the operation.
LEMMA AuditedDaemon ==
  ASSUME DockerInv, NEW c \in Calls, DaemonSteps(c)
  PROVE  [Audited!Next]_(Audited!vars)
<1> USE DEF DockerInv, DockerTypeOK
<1>1. CASE Carry(c)
  <2>1. UNCHANGED <<status, req, logged, audit, answer>>
    BY <1>1 DEF Carry, server, process
  <2>2. UNCHANGED <<alive, Wanted, Outcome>>
    BY <2>1 DEF alive, Wanted, Outcome
  <2>3. Wanted[c] = req[c] /\ req[c] \in Operation /\ c \notin Done
    BY <1>1 DEF Carry, Wanted, Done
  <2>4. Done' = Done \cup {c}
    BY <1>1, <2>1 DEF Carry, Done
  <2>5. box' = [box EXCEPT ![Wanted[c].name] = Audited!Effect(Wanted[c])]
    BY <1>1, <2>3 DEF Carry, Audited!Effect
  <2>6. Audited!Do(c)
    BY <2>1, <2>2, <2>3, <2>4, <2>5 DEF Audited!Do
  <2> QED BY <2>6 DEF Audited!Next
<1>2. CASE Inspect(c) \/ Refusal(c) \/ Sample(c) \/ Measure(c)
  <2>1. UNCHANGED <<status, req, logged, audit, answer, box>>
    BY <1>2 DEF Inspect, Refusal, Sample, Measure, server, process, host
  <2>2. CASE Inspect(c) \/ Measure(c)
    <3>1. req[c] \notin Operation
      BY <2>2, OperationsDiffer DEF Inspect, Measure, DockerCallInv
    <3> QED BY <2>1, <2>2, <3>1, AuditedQuiet DEF Inspect, Measure, Done
  <2>3. CASE Refusal(c) \/ Sample(c)
    <3>1. Done' = Done
      BY <2>1, <2>3 DEF Refusal, Sample, Done
    <3> QED BY <2>1, <3>1, AuditedQuiet
  <2> QED BY <1>2, <2>2, <2>3
<1> QED BY <1>1, <1>2 DEF DaemonSteps

\* Steps of the host: a container stops or starts by itself.
LEMMA AuditedHost ==
  ASSUME DockerInv, HostSteps
  PROVE  [Audited!Next]_(Audited!vars)
<1>1. ASSUME NEW k \in Containers, Ends(k) \/ Revives(k)
      PROVE  Audited!Next
  <2>1. UNCHANGED <<status, req, daemon, logged, audit, answer>>
    BY <1>1 DEF Ends, Revives, server, process, asking
  <2>2. UNCHANGED <<alive, Wanted, Done, Outcome>>
    BY <2>1 DEF alive, Wanted, Done, Outcome
  <2>3. Audited!Change(k)
    BY <1>1, <2>1, <2>2 DEF Ends, Revives, Audited!Change
  <2> QED BY <2>3 DEF Audited!Next
<1>2. ASSUME NEW S \in SUBSET Containers, Work(S)
      PROVE  UNCHANGED Audited!vars
  BY <1>2, AuditedQuiet DEF Work, server, process, asking, Done
<1> QED BY <1>1, <1>2 DEF HostSteps

LEMMA AuditedStep == IInv /\ [Next]_gvars => [Audited!Next]_(Audited!vars)
<1> SUFFICES ASSUME IInv, [Next]_gvars PROVE [Audited!Next]_(Audited!vars)
  OBVIOUS
<1>1. ServerInv /\ DockerInv
  BY DEF IInv
<1>2. [ServerNext]_server
  BY ServerSteps DEF gvars
<1>3. CASE UNCHANGED docker
  BY <1>1, <1>2, <1>3, AuditedUntouched
<1>4. ASSUME NEW c \in Calls, DockerCall(c)
      PROVE  [Audited!Next]_(Audited!vars)
  BY <1>1, <1>2, <1>4, AuditedHandles, AuditedDaemon DEF DockerCall
<1>5. CASE HostSteps
  BY <1>1, <1>5, AuditedHost
<1> QED BY <1>3, <1>4, <1>5 DEF Next, Process, HealthCall, gvars

\* Docker operations are done, logged and told of as promised, whoever gives up on
\* whom, whenever the process ends and whatever records the logger drops.
THEOREM OperationsAsPromised == Spec => OperatesAudited
<1>1. Init => Audited!Init
  <2> SUFFICES ASSUME Init PROVE Audited!Init
    OBVIOUS
  <2>1. Done = {} /\ alive
    BY DEF Init, ServerInit, DockerInit, Done, alive
  <2>2. Wanted = [c \in Calls |-> NoRequest]
    BY DEF Init, ServerInit, Wanted
  <2>3. Outcome = [c \in Calls |-> "nothing"]
    BY OutcomesDiffer DEF Init, DockerInit, Outcome
  <2> QED BY <2>1, <2>2, <2>3 DEF Init, DockerInit, Audited!Init, alive
<1> QED BY <1>1, AuditedStep, Invariance, PTL DEF Spec, OperatesAudited, Audited!Spec
=============================================================================
