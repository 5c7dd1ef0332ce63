-------------------------------- MODULE Server --------------------------------
(***************************************************************************)
(* The gateway process (cmd/gateway/main.go): it wires what it can, starts *)
(* a REST and a gRPC server in goroutines of their own, and on SIGTERM     *)
(* stops the one, then the other, then closes its clients.  Any goroutine  *)
(* may end the process in the middle of it.                                *)
(*                                                                         *)
(* What the handlers of the gRPC calls do is in Docker and Health; Gateway *)
(* puts the three together.                                                *)
(***************************************************************************)
EXTENDS Integers, FiniteSets

CONSTANTS
  RestReqs,   \* requests to the REST server
  Calls,      \* gRPC calls
  Wirings,    \* the sets of parts a loaded configuration may come to
  Requests,   \* what a gRPC call may ask for
  NoRequest,  \* what it asks for before it is made
  Slow,       \* the calls whose clients may hold their messages back
  NoResponse  \* an error, or no answer yet

ASSUME WiringsAssumption == Wirings \subseteq SUBSET {"redis", "docker", "whitelist"}
ASSUME SlowAssumption    == Slow \subseteq Calls

VARIABLES
  main,      \* how far main has come
  status,    \* how the process has ended: "none", "ok", "error", "killed"
  conf,      \* "none", "loaded", or "default": the configuration could not be
  parts,     \* what could be wired
  rest,      \* the goroutines of the servers
  grpc,
  signalled, \* SIGTERM waits in the channel or has been received
  late,      \* Shutdown gave up on the REST requests that were running
  closed,    \* the clients that are closed
  web,       \* the REST requests
  rpc,       \* the gRPC calls
  req,       \* what they ask for
  held       \* the calls that only their clients can bring on

process == <<main, status, conf, parts, rest, grpc, signalled, late, closed>>
server  == <<process, web, rpc, req, held>>

Clients == {"docker", "redis"}
Stages  == {"starting", "listening", "wired", "waiting", "draining", "stopping", "closing"}

ServerTypeOK ==
  /\ main \in Stages
  /\ status \in {"none", "ok", "error", "killed"}
  /\ conf \in {"none", "loaded", "default"}
  /\ parts \subseteq Clients \cup {"whitelist"}
  /\ rest \in {"none", "spawned", "serving", "ended"}
  /\ grpc \in {"none", "spawned", "serving", "ended"}
  /\ signalled \in BOOLEAN /\ late \in BOOLEAN
  /\ closed \subseteq Clients
  /\ web \in [RestReqs -> {"new", "running", "answered", "limited", "lost"}]
  /\ rpc \in [Calls -> {"new", "running", "answered", "unimplemented", "lost"}]
  /\ req \in [Calls -> Requests \cup {NoRequest}]
  /\ held \subseteq Calls

alive == status = "none"

Running(f) == {x \in DOMAIN f : f[x] = "running"}

\* The services that have been registered.
Registered == {"health", "database", "reflection"} \cup (parts \cap {"docker", "whitelist"})

ServerInit ==
  /\ main = "starting" /\ status = "none" /\ conf = "none" /\ parts = {}
  /\ rest = "none" /\ grpc = "none"
  /\ signalled = FALSE /\ late = FALSE /\ closed = {}
  /\ web = [r \in RestReqs |-> "new"]
  /\ rpc = [c \in Calls |-> "new"]
  /\ req = [c \in Calls |-> NoRequest]
  /\ held = {}

\* The process ends, and with it every request and call that runs.
Exit(s) ==
  /\ status' = s
  /\ web' = [r \in RestReqs |-> IF web[r] = "running" THEN "lost" ELSE web[r]]
  /\ rpc' = [c \in Calls |-> IF rpc[c] = "running" THEN "lost" ELSE rpc[c]]
  /\ UNCHANGED <<main, conf, parts, rest, grpc, signalled, late, closed, req, held>>

Advance(from, to) == alive /\ main = from /\ main' = to
-----------------------------------------------------------------------------
\* What may be wired: Redis, Docker and the whitelist are each left out when they
\* cannot be had.  When the configuration cannot be loaded, or is not valid, the
\* default one has no Redis, no Docker host and an empty whitelist.
Configured(loaded) == IF loaded THEN Wirings ELSE {{"whitelist"}}

\* main up to the goroutine of the REST server.
Wire(loaded, p) ==
  /\ Advance("starting", "listening")
  /\ p \in Configured(loaded)
  /\ conf' = IF loaded THEN "loaded" ELSE "default"
  /\ parts' = p
  /\ rest' = "spawned"
  /\ UNCHANGED <<status, grpc, signalled, late, closed, web, rpc, req, held>>

\* net.Listen, the services, and the goroutine of the gRPC server.
Listen ==
  /\ Advance("listening", "wired")
  /\ grpc' = "spawned"
  /\ UNCHANGED <<status, conf, parts, rest, signalled, late, closed, web, rpc, req, held>>

\* The port is taken, or the certificate cannot be loaded.
ListenFails == alive /\ main = "listening" /\ Exit("error")

Notify ==
  /\ Advance("wired", "waiting")
  /\ UNCHANGED <<status, conf, parts, rest, grpc, signalled, late, closed, web, rpc, req, held>>

\* SIGTERM ends a process that has not asked for it yet.
Terminate ==
  /\ alive
  /\ ~signalled
  /\ IF main \in {"starting", "listening", "wired"} THEN Exit("killed")
     ELSE /\ signalled' = TRUE
          /\ UNCHANGED <<main, status, conf, parts, rest, grpc, late, closed, web, rpc, req, held>>

\* Shutdown closes the listener of the REST server.
Shutdown ==
  /\ Advance("waiting", "draining")
  /\ signalled
  /\ rest' = IF rest = "serving" THEN "ended" ELSE rest
  /\ UNCHANGED <<status, conf, parts, grpc, signalled, late, closed, web, rpc, req, held>>

\* A faulty Drained: Shutdown without a timeout.
DrainedPatiently ==
  /\ Advance("draining", "stopping")
  /\ Running(web) = {}
  /\ late' = FALSE
  /\ grpc' = IF grpc = "serving" THEN "ended" ELSE grpc
  /\ UNCHANGED <<status, conf, parts, rest, signalled, closed, web, rpc, req, held>>

\* It returns when no request runs, or with an error after ShutdownTimeout, and
\* GracefulStop takes no more calls.
Drained ==
  /\ Advance("draining", "stopping")
  /\ late' = (Running(web) # {})
  /\ grpc' = IF grpc = "serving" THEN "ended" ELSE grpc
  /\ UNCHANGED <<status, conf, parts, rest, signalled, closed, web, rpc, req, held>>

\* A faulty Stopped: Stop instead of GracefulStop.
StoppedAtOnce ==
  /\ Advance("stopping", "closing")
  /\ UNCHANGED <<status, conf, parts, rest, grpc, signalled, late, closed, web, rpc, req, held>>

\* GracefulStop returns when no call runs, however long that takes: it has no
\* deadline, and a call may be its client's to end.
Stopped ==
  /\ Advance("stopping", "closing")
  /\ Running(rpc) = {}
  /\ UNCHANGED <<status, conf, parts, rest, grpc, signalled, late, closed, web, rpc, req, held>>

\* The deferred calls, the last deferred first.
Close(x) ==
  /\ alive /\ main = "closing"
  /\ x \in (parts \cap Clients) \ closed
  /\ x = "redis" => "docker" \in closed \/ "docker" \notin parts
  /\ closed' = closed \cup {x}
  /\ UNCHANGED <<main, status, conf, parts, rest, grpc, signalled, late, web, rpc, req, held>>

Return == alive /\ main = "closing" /\ parts \cap Clients \subseteq closed /\ Exit("ok")

\* SIGKILL: Docker sends it 10 s after SIGTERM, and the kernel when it must.
Kill == alive /\ Exit("killed")
-----------------------------------------------------------------------------
\* A faulty RestServes: it serves although Shutdown has been called.
RestServesAnyway ==
  /\ alive
  /\ rest = "spawned"
  /\ rest' = "serving"
  /\ UNCHANGED <<main, status, conf, parts, grpc, signalled, late, closed, web, rpc, req, held>>

\* ListenAndServe, which returns ErrServerClosed after Shutdown.
RestServes ==
  /\ alive
  /\ rest = "spawned"
  /\ rest' = IF main \in {"draining", "stopping", "closing"} THEN "ended" ELSE "serving"
  /\ UNCHANGED <<main, status, conf, parts, grpc, signalled, late, closed, web, rpc, req, held>>

RestFails == alive /\ rest = "spawned" /\ Exit("error")

GrpcServes ==
  /\ alive
  /\ grpc = "spawned"
  /\ main \notin {"stopping", "closing"}
  /\ grpc' = "serving"
  /\ UNCHANGED <<main, status, conf, parts, rest, signalled, late, closed, web, rpc, req, held>>

\* Serve after GracefulStop: ErrServerStopped, which is not told apart.
GrpcFails == alive /\ grpc = "spawned" /\ main \in {"stopping", "closing"} /\ Exit("error")

\* A request passes the rate limiter, which with the default configuration has
\* no tokens.
Accept(r) ==
  /\ alive
  /\ rest = "serving"
  /\ web[r] = "new"
  /\ web' = [web EXCEPT ![r] = IF conf = "default" THEN "limited" ELSE "running"]
  /\ UNCHANGED <<process, rpc, req, held>>

\* Its handler answers, or the limiter does.
Respond(r, s) ==
  /\ alive
  /\ web[r] = "running"
  /\ web' = [web EXCEPT ![r] = s]
  /\ UNCHANGED <<process, rpc, req, held>>

\* A call may come without its message, and a stream for reflection is its client's.
Call(c, q) ==
  /\ alive
  /\ grpc = "serving"
  /\ rpc[c] = "new"
  /\ req' = [req EXCEPT ![c] = q]
  /\ rpc' = [rpc EXCEPT ![c] = IF q.service \in Registered THEN "running" ELSE "unimplemented"]
  /\ held' \in {held, held \cup {c}}
  /\ q.service = "reflection" => c \in held'
  /\ c \in held' => q.service = "reflection" \/ (c \in Slow /\ q.service \in Registered)
  /\ UNCHANGED <<process, web>>

\* The message comes.
MessageComes(c) ==
  /\ alive
  /\ rpc[c] = "running"
  /\ c \in held
  /\ req[c].service # "reflection"
  /\ held' = held \ {c}
  /\ UNCHANGED <<process, web, rpc, req>>

\* The client gives the call up, or is through with its stream.
ClientEnds(c) ==
  /\ alive
  /\ rpc[c] = "running"
  /\ c \in held
  /\ rpc' = [rpc EXCEPT ![c] = "answered"]
  /\ held' = held \ {c}
  /\ UNCHANGED <<process, web, req>>

ClientSteps(c) == MessageComes(c) \/ ClientEnds(c)

\* A handler returns.
Answer(c) ==
  /\ alive
  /\ rpc[c] = "running"
  /\ c \notin held
  /\ rpc' = [rpc EXCEPT ![c] = "answered"]
  /\ UNCHANGED <<process, web, req, held>>

MainSteps ==
  \/ \E loaded \in BOOLEAN, p \in SUBSET (Clients \cup {"whitelist"}) : Wire(loaded, p)
  \/ Listen
  \/ ListenFails
  \/ Notify
  \/ Shutdown
  \/ Drained
  \/ Stopped
  \/ \E x \in Clients : Close(x)
  \/ Return

ServeSteps == RestServes \/ RestFails \/ GrpcServes \/ GrpcFails

RestSteps(r) == Accept(r) \/ \E s \in {"answered", "limited"} : Respond(r, s)
=============================================================================
