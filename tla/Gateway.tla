-------------------------------- MODULE Gateway --------------------------------
(***************************************************************************)
(* The gateway whole: the process of Server, the calls that Docker and     *)
(* Health handle, and the daemon and the databases beside it.  The calls   *)
(* share nothing but the process, which ends under all of them when one    *)
(* handler panics, a server fails or a signal comes, and closes the        *)
(* clients they use when it stops in order.                                *)
(***************************************************************************)
EXTENDS Docker, Health

\* A call of the whitelist service, whose manager is the subject of Whitelist.
WhitelistRequests == [service : {"whitelist"},
                      method : {"GetWhitelist", "AddToWhitelist", "RemoveFromWhitelist",
                                "GetBlacklist", "AddToBlacklist", "RemoveFromBlacklist",
                                "IsAllowed", "CleanupExpired"}]

\* A stream of the reflection service, for tools like grpcurl.
ReflectionRequests == [service : {"reflection"}, method : {"ServerReflectionInfo"}]

AllRequests ==
  DockerRequests \cup HealthRequests \cup WhitelistRequests \cup ReflectionRequests

ASSUME RequestsAssumption ==
  /\ Requests \subseteq AllRequests
  /\ NoRequest \notin AllRequests
  /\ NoResponse \notin Responses \cup Reports
ASSUME CallsAssumption == IsFiniteSet(Calls) /\ IsFiniteSet(RestReqs)

gvars == <<server, docker, health>>

TypeOK == ServerTypeOK /\ DockerTypeOK /\ HealthTypeOK

Init == ServerInit /\ DockerInit /\ HealthInit

\* A step of the process or of its REST server is none of the handlers' state.
Process(A) == A /\ UNCHANGED <<docker, health>>

WhitelistAnswers(c) == req[c] \in WhitelistRequests /\ Answer(c)

DockerCall(c) == (DockerHandles(c) \/ DaemonSteps(c)) /\ UNCHANGED health
HealthCall(c) == (HealthHandles(c) \/ CallerLeaves(c)) /\ UNCHANGED docker

Next ==
  \/ Process(MainSteps)
  \/ Process(ServeSteps)
  \/ Process(Terminate)
  \/ Process(Kill)
  \/ \E r \in RestReqs : Process(RestSteps(r))
  \/ \E c \in Calls : \/ \E q \in Requests : Process(Call(c, q))
                      \/ Process(WhitelistAnswers(c))
                      \/ Process(ClientSteps(c))
                      \/ DockerCall(c)
                      \/ HealthCall(c)
  \/ HostSteps /\ UNCHANGED health
  \/ DatabaseSteps /\ UNCHANGED docker

\* main goes on, the goroutines it has started run, and a handler comes to its
\* end: those of Docker calls by the timeout of the client.  Nothing is assumed
\* of callers, the daemon and the databases, and no bound of PostgreSQL's.
Fairness ==
  /\ WF_gvars(Process(MainSteps))
  /\ WF_gvars(Process(ServeSteps))
  /\ \A c \in Calls : /\ WF_gvars(Process(WhitelistAnswers(c)))
                      /\ WF_gvars(DockerHandles(c) /\ UNCHANGED health)
                      /\ WF_gvars(HealthHandles(c) /\ UNCHANGED docker)

Spec == Init /\ [][Next]_gvars /\ Fairness
-----------------------------------------------------------------------------
\* A process that stops in order has answered every call it took, and every
\* request but those that ShutdownTimeout ran out on.
OrderlyAnswers ==
  status = "ok" =>
    \A c \in Calls : rpc[c] # "lost" /\ \A r \in RestReqs : web[r] = "lost" => late

\* No call runs when a client it may use is closed, and a REST request only when
\* ShutdownTimeout has run out on it.
ClosedUnused ==
  closed # {} => Running(rpc) = {} /\ (Running(web) # {} => late)

\* A call runs that a client holds, or that waits on a PostgreSQL that hangs:
\* GracefulStop has no deadline, and neither have these.
Waiting ==
  \E c \in Calls : /\ rpc[c] = "running"
                   /\ c \in held \/ (postgres = "hung" /\ probe[c] \in Asked)

\* A process that SIGTERM has reached ends, whatever runs, unless its clients and
\* PostgreSQL make it wait again and again.
StopEnds == <>[]~Waiting => (signalled ~> status # "none")

\* How far the process has come, to those who connect: a server that is spawned
\* late, or a signal that comes early, changes nothing for them.
Phase ==
  CASE status = "ok" -> "stopped"
    [] status \in {"error", "killed"} -> "dead"
    [] OTHER -> IF main \in {"draining", "stopping", "closing"} THEN main ELSE "open"

Graceful == INSTANCE GracefulServer WITH phase <- Phase

\* The process, with its goroutines, its select and its deferred calls, is a
\* graceful server to those who connect: no door that was closed opens again, and
\* what was taken in is answered before the process stops in order.
StopsGracefully == Graceful!Spec

\* What each caller wants of the daemon, which of it the daemon has done, and what
\* the caller has been told.
Wanted == [c \in Calls |-> IF req[c] \in Operation THEN req[c] ELSE NoRequest]

Done == {c \in Calls : req[c] \in Operation /\ daemon[c] = "done"}

Outcome ==
  [c \in Calls |-> CASE answer[c] = [success |-> TRUE]  -> "success"
                     [] answer[c] = [success |-> FALSE] -> "failure"
                     [] OTHER -> "nothing"]

Audited == INSTANCE AuditedOperations WITH
  Operations <- Operation, up <- alive, wanted <- Wanted, done <- Done, told <- Outcome

\* The Docker service and the daemon carry out operations as AuditedOperations
\* says, wherever the client gives up, the daemon refuses or the process ends:
\* no caller is told of a success, and none is recorded, before the daemon is done.
OperatesAudited == Audited!Spec
=============================================================================
