-------------------------------- MODULE Docker --------------------------------
(***************************************************************************)
(* The Docker service of the gateway (internal/docker, internal/grpc): a   *)
(* handler asks the daemon, over a proxy and with a client that waits 30 s *)
(* for it, logs an operation when it has succeeded, and answers.           *)
(* The daemon is a process of its own: what it was asked for it may do     *)
(* when the handler has given up, and when the gateway is gone.            *)
(***************************************************************************)
EXTENDS Server

CONSTANTS
  Containers,
  ShortNames,  \* the containers whose names have less than 12 characters
  Aquatiq,     \* the containers whose names have "aquatiq-" in them
  Width,       \* the counters of the daemon are taken modulo this, 2^64
  MaxTime      \* bound on the clock of the daemon's host

ASSUME NamesAssumption  == ShortNames \subseteq Containers /\ Aquatiq \subseteq Containers
ASSUME DockerAssumption == Width \in Nat \ {0} /\ MaxTime \in 1..(Width - 1)

VARIABLES
  box,      \* the containers: "running" or "stopped"
  usage,    \* the processor time each has used since it was started
  now,      \* the processor time of the host
  daemon,   \* what a call has from the daemon
  sample,   \* the first sample of a call for statistics
  reply,    \* what the daemon's answer comes to as a response
  logged,   \* the calls whose event LogEvent has been given
  audit,    \* the calls with an audit record
  answer,   \* what a call was answered
  restarted \* history: the calls whose container was started between samples

host   == <<box, usage, now>>
asking == <<daemon, sample, reply, logged, audit, answer, restarted>>
docker == <<host, asking>>

\* The requests of the service, for what the handlers make of them.  The lists
\* ignore the filters of theirs.
StartContainerRequest   == [service : {"docker"}, method : {"StartContainer"}, name : Containers]
StopContainerRequest    == [service : {"docker"}, method : {"StopContainer"}, name : Containers]
RestartContainerRequest == [service : {"docker"}, method : {"RestartContainer"}, name : Containers]
GetContainerRequest     == [service : {"docker"}, method : {"GetContainer"}, name : Containers]
GetContainerLogsRequest == [service : {"docker"}, method : {"GetContainerLogs"},
                            name : Containers, tail : {0, 1}]
GetContainerStatsRequest == [service : {"docker"}, method : {"GetContainerStats"}, name : Containers]
ListContainersRequest   == [service : {"docker"}, method : {"ListContainers"}]
GetAquatiqServicesRequest == [service : {"docker"}, method : {"GetAquatiqServices"}]
ListImagesRequest       == [service : {"docker"}, method : {"ListImages"}]
ListNetworksRequest     == [service : {"docker"}, method : {"ListNetworks"}]
ListVolumesRequest      == [service : {"docker"}, method : {"ListVolumes"}]
GetSystemInfoRequest    == [service : {"docker"}, method : {"GetSystemInfo"}]

Operation   == StartContainerRequest \cup StopContainerRequest \cup RestartContainerRequest
Inspection  == GetContainerRequest \cup ListContainersRequest \cup GetAquatiqServicesRequest
                 \cup GetContainerLogsRequest \cup ListImagesRequest \cup ListNetworksRequest
                 \cup ListVolumesRequest \cup GetSystemInfoRequest
DockerRequests == Operation \cup Inspection \cup GetContainerStatsRequest

\* What it answers.  An operation reports its failure in its response, the rest
\* have an error instead of one.
ContainerInfo  == [name : Containers, state : {"running", "stopped"}]
ContainerStats == [used : 0..(Width - 1), in : 0..MaxTime]

StartContainerResponse     == [success : BOOLEAN]
StopContainerResponse      == [success : BOOLEAN]
RestartContainerResponse   == [success : BOOLEAN]
GetContainerResponse       == [container : ContainerInfo]
ListContainersResponse     == [containers : SUBSET ContainerInfo]
GetAquatiqServicesResponse == [services : SUBSET ContainerInfo]
GetContainerStatsResponse  == [stats : ContainerStats]
GetContainerLogsResponse   == [logs : {"none", "theirs"}]
ListImagesResponse         == [images : {"theirs"}]
ListNetworksResponse       == [networks : {"theirs"}]
ListVolumesResponse        == [volumes : {"theirs"}]
GetSystemInfoResponse      == [info : {"theirs"}]

OperationResponse ==
  StartContainerResponse \cup StopContainerResponse \cup RestartContainerResponse
Replies ==
  GetContainerResponse \cup ListContainersResponse \cup GetAquatiqServicesResponse
    \cup GetContainerStatsResponse \cup GetContainerLogsResponse \cup ListImagesResponse
    \cup ListNetworksResponse \cup ListVolumesResponse \cup GetSystemInfoResponse
Responses == OperationResponse \cup Replies

DockerTypeOK ==
  /\ box \in [Containers -> {"running", "stopped"}]
  /\ usage \in [Containers -> 0..MaxTime]
  /\ now \in 1..MaxTime
  /\ daemon \in [Calls -> {"none", "asked", "sampled", "done", "refused"}]
  /\ sample \in [Calls -> [used : 0..MaxTime, at : 0..MaxTime]]
  /\ reply \in [Calls -> Replies \cup {NoResponse}]
  /\ logged \subseteq Calls /\ audit \subseteq Calls /\ restarted \subseteq Calls
  /\ answer \in [Calls -> Responses \cup {NoResponse}]

DockerInit ==
  /\ box \in [Containers -> {"running", "stopped"}]
  /\ usage \in [Containers -> 0..1]
  /\ now = 1
  /\ daemon = [c \in Calls |-> "none"]
  /\ sample = [c \in Calls |-> [used |-> 0, at |-> 0]]
  /\ reply = [c \in Calls |-> NoResponse]
  /\ logged = {} /\ audit = {} /\ restarted = {}
  /\ answer = [c \in Calls |-> NoResponse]
-----------------------------------------------------------------------------
Handling(c) ==
  alive /\ rpc[c] = "running" /\ c \notin held /\ req[c] \in DockerRequests

\* The handler sends its request to the daemon.
Ask(c) ==
  /\ Handling(c)
  /\ daemon[c] = "none"
  /\ daemon' = [daemon EXCEPT ![c] = "asked"]
  /\ UNCHANGED <<server, host, sample, reply, logged, audit, answer, restarted>>

\* The calls that are between two samples of container k.
Sampling(k) == {c \in Calls : daemon[c] = "sampled" /\ req[c].name = k}

\* The container k starts anew, with counters of its own.
Start(k) ==
  /\ usage' = [usage EXCEPT ![k] = 0]
  /\ restarted' = restarted \cup Sampling(k)

\* The daemon carries an operation out.  It does not ask whether anyone waits.
Carry(c) ==
  /\ daemon[c] = "asked"
  /\ req[c] \in Operation
  /\ LET k == req[c].name
     IN  /\ box' = [box EXCEPT ![k] = IF req[c].method = "StopContainer" THEN "stopped"
                                      ELSE "running"]
         /\ IF req[c].method = "RestartContainer" \/ <<box[k], box'[k]>> = <<"stopped", "running">>
            THEN Start(k) ELSE UNCHANGED <<usage, restarted>>
  /\ daemon' = [daemon EXCEPT ![c] = "done"]
  /\ UNCHANGED <<server, now, sample, reply, logged, audit, answer>>

\* What the daemon tells of a container: a list has the stopped ones too.
Info(k) == [name |-> k, state |-> box[k]]

\* And what it answers.  The tail goes to it as it is, and 0 lines are none.
Told(q) ==
  CASE q.method = "GetContainer"       -> [container |-> Info(q.name)]
    [] q.method = "ListContainers"     -> [containers |-> {Info(k) : k \in Containers}]
    [] q.method = "GetAquatiqServices" -> [services |-> {Info(k) : k \in Aquatiq}]
    [] q.method = "GetContainerLogs"   -> [logs |-> IF q.tail = 0 THEN "none" ELSE "theirs"]
    [] q.method = "ListImages"         -> [images |-> "theirs"]
    [] q.method = "ListNetworks"       -> [networks |-> "theirs"]
    [] q.method = "ListVolumes"        -> [volumes |-> "theirs"]
    [] q.method = "GetSystemInfo"      -> [info |-> "theirs"]

\* It answers an inspection, or refuses what it is asked.
Inspect(c) ==
  /\ daemon[c] = "asked"
  /\ req[c] \in Inspection
  /\ reply' = [reply EXCEPT ![c] = Told(req[c])]
  /\ daemon' = [daemon EXCEPT ![c] = "done"]
  /\ UNCHANGED <<server, host, sample, logged, audit, answer, restarted>>

Refusal(c) ==
  /\ daemon[c] \in {"asked", "sampled"}
  /\ daemon' = [daemon EXCEPT ![c] = "refused"]
  /\ UNCHANGED <<server, host, sample, reply, logged, audit, answer, restarted>>

\* Statistics: the daemon takes two samples.  A stopped container has none.
Sample(c) ==
  /\ daemon[c] = "asked"
  /\ req[c] \in GetContainerStatsRequest
  /\ LET k == req[c].name
     IN  sample' = [sample EXCEPT ![c] = IF box[k] = "stopped" THEN [used |-> 0, at |-> 0]
                                         ELSE [used |-> usage[k], at |-> now]]
  /\ daemon' = [daemon EXCEPT ![c] = "sampled"]
  /\ UNCHANGED <<server, host, reply, logged, audit, answer, restarted>>

\* A faulty Difference: it can be negative.
DifferenceSigned(a, b) == a - b

\* The difference of two counters, as uint64 has it.
Difference(a, b) == (a - b) % Width

\* A faulty Used: all that it has used so far.
UsedInAll(k, s) == usage[k]

\* What a container has used since a sample.
Used(k, s) == Difference(usage[k], s.used)

\* The second sample, and what the handler computes from both: nothing when one
\* is missing, the container being stopped, or no time has passed.
Measure(c) ==
  /\ daemon[c] = "sampled"
  /\ LET s == sample[c]
         d == Difference(now, s.at)
         k == req[c].name
         missing == s.at = 0 \/ d = 0 \/ box[k] = "stopped"
     IN  reply' = [reply EXCEPT ![c] =
           [stats |-> [used |-> IF missing THEN 0 ELSE Used(k, s),
                       in   |-> IF missing THEN 0 ELSE d]]]
  /\ daemon' = [daemon EXCEPT ![c] = "done"]
  /\ UNCHANGED <<server, host, sample, logged, audit, answer, restarted>>
-----------------------------------------------------------------------------
\* A faulty Record: before the daemon has answered.
RecordFirst(c) ==
  /\ Handling(c)
  /\ req[c] \in Operation
  /\ daemon[c] # "none"
  /\ c \notin logged
  /\ logged' = logged \cup {c}
  /\ audit' \in {audit, audit \cup {c}}
  /\ UNCHANGED <<server, host, daemon, sample, reply, answer, restarted>>

\* LogEvent, for an operation that has succeeded.  It tells nobody what becomes of
\* the record: at the level "warn" or "error" there is none, and in production
\* zap drops some of those that are alike.
Record(c) ==
  /\ Handling(c)
  /\ req[c] \in Operation
  /\ daemon[c] = "done"
  /\ c \notin logged
  /\ logged' = logged \cup {c}
  /\ audit' \in {audit, audit \cup {c}}
  /\ UNCHANGED <<server, host, daemon, sample, reply, answer, restarted>>

\* A faulty Succeed: the record is left for later.
SucceedEarly(c) ==
  /\ Handling(c)
  /\ daemon[c] = "done"
  /\ Answer(c)
  /\ answer' = [answer EXCEPT ![c] = IF req[c] \in Operation THEN [success |-> TRUE]
                                         ELSE reply[c]]
  /\ UNCHANGED <<host, daemon, sample, reply, logged, audit, restarted>>

\* The handler of an operation answers once it has logged it.
Succeed(c) ==
  /\ Handling(c)
  /\ daemon[c] = "done"
  /\ req[c] \in Operation => c \in logged
  /\ req[c] \in GetContainerStatsRequest => req[c].name \notin ShortNames
  /\ Answer(c)
  /\ answer' = [answer EXCEPT ![c] = IF req[c] \in Operation THEN [success |-> TRUE]
                                         ELSE reply[c]]
  /\ UNCHANGED <<host, daemon, sample, reply, logged, audit, restarted>>

\* The daemon refused, the client's timeout or the caller's context ran out, or
\* the daemon's answer was lost.  Nothing is logged.
Fail(c) ==
  /\ Handling(c)
  /\ daemon[c] # "none"
  /\ c \notin logged
  /\ Answer(c)
  /\ answer' = [answer EXCEPT ![c] = IF req[c] \in Operation THEN [success |-> FALSE]
                                         ELSE NoResponse]
  /\ UNCHANGED <<host, daemon, sample, reply, logged, audit, restarted>>

\* nameOrID[:12] of a shorter name panics, and ends the process.
Panic(c) ==
  /\ Handling(c)
  /\ req[c] \in GetContainerStatsRequest
  /\ daemon[c] = "done"
  /\ req[c].name \in ShortNames
  /\ Exit("error")
  /\ UNCHANGED docker
-----------------------------------------------------------------------------
\* What happens on the host happens while a call waits for the daemon: what it
\* came to before is in the initial states.
Busy == alive /\ \E c \in Calls : daemon[c] \in {"asked", "sampled"}

\* A container ends by itself, and is started again by its restart policy.
Ends(k) ==
  /\ Busy
  /\ box[k] = "running"
  /\ box' = [box EXCEPT ![k] = "stopped"]
  /\ UNCHANGED <<server, usage, now, asking>>

Revives(k) ==
  /\ Busy
  /\ box[k] = "stopped"
  /\ box' = [box EXCEPT ![k] = "running"]
  /\ Start(k)
  /\ UNCHANGED <<server, now, daemon, sample, reply, logged, audit, answer>>

\* Time passes on the host of one processor; the containers in S use it.
Work(S) ==
  /\ Busy
  /\ now < MaxTime
  /\ S \subseteq {k \in Containers : box[k] = "running"}
  /\ now' = now + 1
  /\ usage' = [k \in Containers |-> IF k \in S THEN usage[k] + 1 ELSE usage[k]]
  /\ UNCHANGED <<server, box, asking>>

\* The handler goes on, and the client's timeout sees to it that it ends.
DockerHandles(c) == Ask(c) \/ Record(c) \/ Succeed(c) \/ Fail(c) \/ Panic(c)

DaemonSteps(c) == Carry(c) \/ Inspect(c) \/ Refusal(c) \/ Sample(c) \/ Measure(c)

HostSteps == \/ \E k \in Containers : Ends(k) \/ Revives(k)
             \/ \E S \in SUBSET Containers : Work(S)
-----------------------------------------------------------------------------
\* Whoever gave up, and wherever the process ended: success is told only of what
\* the daemon has done and LogEvent was given, no record is of what was not done
\* or was told to have failed, and none is of an inspection.  A success may be
\* without its record, as the logger may drop it.
AnswersAudited ==
  \A c \in Calls :
    /\ answer[c] = [success |-> TRUE] => c \in logged /\ daemon[c] = "done"
    /\ answer[c] = [success |-> FALSE] => c \notin audit
    /\ c \in audit => req[c] \in Operation /\ daemon[c] = "done"

\* The statistics never show more processor time than there was, unless the
\* container was started again between the two samples: then its counter has
\* gone back and the difference wraps.
LoadBounded ==
  \A c \in Calls :
    reply[c] \in GetContainerStatsResponse =>
      c \in restarted \/ reply[c].stats.used <= reply[c].stats.in

\* "Captured Events: Docker operations (start, stop, inspect)": what a call has
\* had done is in the audit log when the call is over.
OperationsAudited ==
  \A c \in Calls :
    req[c] \in Operation /\ daemon[c] = "done" /\ rpc[c] = "answered" => c \in audit
=============================================================================
