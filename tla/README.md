# Verification of the Aquatiq gateway

TLA+ models of the Aquatiq infrastructure repository, the TLC runs that check
them on small instances, and TLAPS proofs of what matters most for every size.
Paths below are relative to the repository; `gw/` stands for
`aquatiq-gateway/`.

    tlc -workers 2 -config MCWhitelist.cfg MCWhitelist
    tlapm WhitelistProofs.tla    # and the other *Proofs modules

## 1. The system

The repository deploys a stack of containers on one host (Traefik, PostgreSQL,
Redis, NATS, n8n, monitoring) and contains the source of one program, the
integration gateway, a Go process with a REST and a gRPC server. The program
has no tests.

| Component | State | Operations | Talks to |
|---|---|---|---|
| Gateway, `gw/cmd/gateway/main.go` | the objects below, two servers in goroutines | start with fallbacks, serve, graceful stop | all |
| Whitelist manager, `gw/internal/whitelist/manager.go` | whitelist and blacklist in memory, a Traefik YAML file | add, remove, list on both; `IsAllowed`; `CleanupExpired`; load at start; write after a change | called by the gRPC service; file read by Traefik |
| Whitelist service, `gw/internal/grpc/whitelist_service.go` | none | eight handlers, one per operation of the manager | manager |
| Docker manager and service, `gw/internal/docker/manager.go`, `gw/internal/grpc/docker_service.go` | none (the Docker daemon's) | start, stop, restart; list, inspect, logs, statistics, images, networks, volumes, system | socket proxy, audit log |
| Health checker, `gw/internal/health/checker.go`, with the health and database services | start time | ten calls: status, readiness, liveness, one database, statistics | PostgreSQL over a connection per call, Redis over the gateway's client |
| Rate limiter, `gw/internal/ratelimit/ratelimit.go` | two token buckets per process; counters in Redis | `Middleware("global")`, `Middleware("admin")`; a `PerIPLimiter` that nothing uses | Redis cache; every HTTP request |
| Redis cache, `gw/internal/cache/redis.go` | Redis | get, set, delete, `Increment`, `Expire`, ...; `TokenCache` | Redis |
| Audit logger, `gw/internal/audit/logger.go` | none | `LogEvent` | the log |
| Configuration, `gw/internal/config/config.go` | read once | `Load`, defaults, `validate` | file and environment |
| Query cache, `gw/internal/cache/query_cache.go` | Redis | `Get`, `Set`, `Invalidate`, `CacheWrapper` (fills asynchronously) | Redis cache |
| Circuit breaker, `gw/pkg/circuitbreaker/circuitbreaker.go` | generation, counts and state of gobreaker; a map of breakers | `Execute`, `ExecuteContext`, `GetStats` | the wrapped call |
| HTTP client, `gw/pkg/httpclient/httpclient.go` | none | `Do` with retries and backoff | circuit breaker, remote services |
| API keys, `gw/internal/auth/apikey.go` | a map of keys | two middlewares, `AddKey`, `RemoveKey` | HTTP requests |
| Deployment, `webhook-deploy.sh`, `.github/workflows/*` | a git checkout and running containers on the host | fetch, reset, build, up | git, Docker |

In `main.go` everything down to the configuration is wired; the query cache,
the circuit breaker, the HTTP client and the API keys are libraries of the same
program that nothing calls yet.

**How they interact.** HTTP requests pass the global tier of the limiter and,
on admin routes, the admin tier after it; each tier calls Redis up to twice.
gRPC calls reach the managers directly, each in its own goroutine, with no
limiter and no recovery between; a client may also hold a stream of the
reflection service open. The whitelist manager serialises them with one
mutex that it also holds while it writes the file; the Docker calls share one
client with a timeout of 30 s and log an operation after it has succeeded; the
health calls open a connection of their own. Several gateways may share one
Redis, never one file. What cannot be had at the start is left out: without
Redis the limiter has only its local buckets, without a manager its service is
not registered. A stop drains the REST server up to a timeout, waits for every
gRPC call, and closes the clients last. The HTTP client makes each call, with
all its retries, as one use of a circuit breaker.

**What is hard.** The file write that is cut short by an error or a crash, in
memory already done; the state that is rebuilt from the file and is not the
one that was lost; three steps of a rate check between which other gateways,
the clock and the expiry of keys come; replies lost after the work was done;
calls that outlive their callers (circuit breaker, asynchronous cache fill, the
Docker daemon); a key or a database that changes between two questions of one
request; unsynchronised maps; a stop that meets running calls, a server that
has not begun to serve, and a database that never answers; a handler whose
panic ends the process under everyone else; a deployment whose failure is
reported as success. `PROJECT.json` lists each hazard at its line.

**What makes each component correct.**
- *Whitelist manager*: an add never makes a second entry of a text; file and
  memory agree unless the last write failed; an acknowledged grant lasts until
  its expiry or removal, through restarts, and nobody is let in without a grant,
  both unless a restart reads a file that was cut off in its write; denied beats
  allowed; no answer from a half-made change.
- *Gateway process*: a stop in order answers what was taken; no client is
  closed under a call; a door that was closed stays so; a stop ends unless a
  client holds a call or PostgreSQL hangs.
- *Docker service*: success means done and given to the logger; a record means
  done, but a success may be without one; an operation is done once or not at
  all; the statistics are possible ones unless the container was started
  between their samples.
- *Health checker*: a report is justified by what was the case during the call.
- *Rate limiter*: over all gateways a window's budget is not exceeded by what
  the shared counter lets through, nor its gateway's bucket by the rest; a counter always gets an expiry unless a fault comes between;
  every request is answered.
- *Circuit breaker*: results of an older generation do not move the present
  one; no more than `MaxRequests` trial calls, and no place for one lost; it
  leaves half-open if calls end.
- *HTTP client*: bounded attempts and waits; one use of the breaker per call,
  whatever becomes of it; a server on trial gets the attempts of the trial calls
  and the retries of calls that were let through before, and no others.
- *Query cache*: nothing is served that was invalidated before it was asked
  for, unless a store was on its way; a stale result does not stay for ever, if
  the default TTL is positive.
- *API keys*: nobody is served whose key was not held, in force and with its
  scopes during the request; nobody is refused without a reason in that time.
  A lookup that a change of the map falls into promises nothing.
- *Deployment*: what is reported as deployed runs, or a failure, an overtaking
  build or an overlapping start is why it does not; nothing else takes a version
  back.

## 2. Modules

| Module | Models |
|---|---|
| `Server` | the gateway process: wiring, the two servers, signals, the orderly stop, every other end |
| `Docker` | extends `Server`: the Docker service, its manager and the daemon |
| `Health` | extends `Server`: the health and database services and the two databases |
| `Gateway` | extends `Docker` and `Health`: the process with its calls, whole |
| `GracefulServer` | what the process promises those who connect, abstractly |
| `AuditedOperations` | what the Docker service promises of an operation, abstractly |
| `GatewayProofs` | the safety invariants and the two refinements, proved |
| `Whitelist` | the whitelist manager and the part of the process start and stop that concerns it |
| `AccessList` | what it promises to its callers, abstractly |
| `WhitelistProofs` | invariants and refinement, proved |
| `RateLimit` | the limiter's two tiers, the local buckets, the counters in Redis |
| `RateLimitProofs` | its safety invariants, proved |
| `CircuitBreaker` | `ExecuteContext` over the state machine of gobreaker |
| `CircuitBreakerProofs` | its safety invariants and its action property, proved |
| `HttpClient` | extends `CircuitBreaker`: the attempts and waits inside a use of the breaker |
| `HttpClientProofs` | it implements `CircuitBreaker`; its safety invariants, proved |
| `QueryCache` | `CacheWrapper` with its asynchronous store, and `Invalidate` |
| `QueryCacheProofs` | its type invariant and its safety property, proved |
| `ApiKeyAuth` | two middlewares over the unlocked map of keys |
| `ApiKeyAuthProofs` | its safety invariants, proved |
| `Deploy` | the deploy jobs of two workflows and `webhook-deploy.sh deploy` over one checkout |
| `DeployProofs` | its safety invariants and its action property, proved |
| `MC...` | the constants of the runs, one module for each component |

Two compositions follow the code: `Gateway` puts the process, the Docker calls
and the health calls together, because they meet in it: one handler's panic, a
failing server or a signal ends the others, and the stop closes what they use.
`HttpClient` puts the client into the breaker. `Whitelist` and `RateLimit` are
models of their own, with their own crash and start: in `Gateway` a call of
the whitelist service is answered in one step and the limiter is the choice
between an answer and a refusal. They have no state in common with the rest,
and what the end of the process does to them is in their modules, at every
point of theirs.

Definitions that a comment calls faulty are not part of any specification:
each is a plausible bug in the definition that follows it, put in its place to
see that a property notices.

### Whitelist

| Model | Code |
|---|---|
| `whitelist`, entries `[ip, exp, copy]` | `Manager.whitelist`; comment, author and creation time left out; `exp = Never` for a nil `ExpiresAt`; `copy` tells the entries of one text apart |
| `blacklist` | `Manager.blacklist`; the code compares texts, and keeps them distinct |
| `file` | the YAML at `traefikConfigPath`: missing, unparsable, or the items of its `sourceRange` |
| `op`, `pending`, `target`, `opened` | the goroutine that holds the mutex: which operation, whose entries, the list computed at lines 344-351, and whether `os.WriteFile` has opened the file |
| `up` | process down; running; running without a manager |
| `AddToWhitelist`, `RemoveFromWhitelist`, `CleanupExpired` | lines 67-90, 118-138, 385-410: validation, duplicate and existence tests, the change in memory |
| `OpenFile` | `O_TRUNC` inside `os.WriteFile` (377) |
| `OpenFails`, `WriteFails`, `WriteAll` | the three ways that call ends, each with what its caller does next: an add takes its entry back (95-97), a removal returns the error and keeps the change (140-142), a cleanup ignores it (412) |
| `AddToBlacklist`, `RemoveFromBlacklist` | 170-246, one step, no file |
| `IsAllowed` | 260-290, one step under the read lock |
| `Crash`, `Start`, `StartFails` | end of the process at any point; `loadFromTraefikConfig` at the next start; a file that does not parse |

The history variables record what callers were told and how the file came to
be; no action of the code depends on them. `granted` and `acked` survive a
restart as they are. What a restart does not find of `acked` in a file whose last
write was not completed is in `lost`, and what it finds there that nobody was
granted in `strays`; with a file whose last write was completed it adds to
neither.

Abstractions. A list is a set of entries that keeps repeats apart by `copy`: the
code neither sorts nor depends on order, but an operator's file, or one cut off
in its write, may hold a text twice, and `loadFromTraefikConfig` takes it as it
is. A request that is refused before it changes anything is not a step.
`Partial(target)` is what a file may hold after an interrupted write: any subset
of the list and one shortened item, perhaps to a text that the list has already,
or text that does not parse, which includes every prefix. Crashes are of the
process: what a completed write left is not lost (no power failure). The clock
does not run backwards, and expiries have its granularity. A file that is
missing starts an empty list, as line 312 does.

`AccessList` has the same lists without a file: each request is one atomic
step, an answer comes from the current lists, and a boot restores at least the
unexpired acknowledged grants that no earlier boot has lost if the record was
whole (`Kept`). `Promise` maps
`allow` to the whitelist *without* the entry of an add that is still being
written, so an add takes effect at its successful write, and a removal or a
cleanup when the memory changes, which is before its caller is answered and
holds even if the caller gets an error.

### RateLimit

| Model | Code |
|---|---|
| `pc`, `tier` | where each HTTP request is in the chain of the two middlewares (main.go 134, 170; ratelimit.go 86-118) |
| `since` | when `allowDistributed` formatted the key (64): `Key(r)` is that tier and window |
| `counter`, `ttl` | Redis: value and expiry of each key |
| `bucket` | `globalLimiter`, `adminLimiter` of each gateway |
| `distributed` | the gateways whose Redis answered at start (main.go 59-83) |
| `NameKey`, `Incr`, `Expire` | the three steps of 63-83, `Limit` is `limit*60` |
| `IncrFails`, `ExpireFails`, `IncrLost` | an error, answered by the local bucket (68-74) or ignored (77-79); a reply lost after the increment, after which go-redis tries again |
| `Crash(g)` | a gateway ends with its requests in flight and comes back with full buckets |
| `Tick` | time passes, buckets fill, Redis drops expired keys |

Abstractions. One tick is one refill of `Rate` tokens; a window is `WindowLen`
ticks. `MaxDelay` bounds the wait between line 64 and the increment by one
window: the Redis client's timeout is 10 s, it tries at most four times with
milliseconds between, and a window is 60 s. Redis itself keeps its data over a
restart (`appendonly yes` in the compose file); its loss is not modelled.
`passed` and `faulted` are history, and so is `starts`: how often each gateway
came up with full buckets.

### CircuitBreaker

| Model | Code |
|---|---|
| `cb` | gobreaker v2.3: state, generation, the three counts its decisions use, expiry |
| `NewGeneration`, `Current`, `Succeed`, `Fail`, `Settle`, `Admits` | `toNewGeneration`, `currentState`, `onSuccess`, `onFailure`, `afterRequest`, `beforeRequest` of the library (external) |
| `Trips` | `ReadyToTrip` (34-36) |
| `caller` | the goroutine in `ExecuteContext`, at its select or past it |
| `call`, `result`, `began` | the goroutine it starts (70-73): where it is, how the wrapped function ended, the generation it is stamped with |
| `Enter`, `EnterDone` | 57-74 |
| `Admit`, `Refuse`, `End`, `Panic` | `Execute` (51-53): the two critical sections of the library with the wrapped function between |
| `Send`, `Receive`, `Cancel` | the channel of capacity one (67, 72) and the select (76-81) |
| `State` | 85-87; like every operation it may move the breaker on |

Abstractions. gobreaker's `BucketPeriod` is not set by `New`, so its counts are
those of one fixed interval. `Execute` is `ExecuteContext` with a context that
never ends. What the wrapped function returns is `ok` or `failed`; a panic of
it ends the process, because the goroutine is not one of the HTTP server's. The
totals of `GetStats` are left out, since no decision reads them.

### QueryCache

| Model | Code |
|---|---|
| `entry`, `left` | the key of one query in Redis and what is left of its life |
| `pc`, `ttl`, `read`, `answer` | one call of `CacheWrapper` and the goroutine it starts (145-149); a worker is free again when its store has been carried out or is lost |
| `Call`, `Hit`, `Miss` | 126-136 and `Get`, which takes every error for a miss |
| `Query`, `QueryFails` | 139-151: the query reads the data at some moment; the answer and the start of the goroutine follow without a step of anybody that could tell |
| `CacheTTL`, `Put` | 64-67; `RedisCache.Set` |
| `Store`, `StoreLost`, `StoreFails` | the SET carried out; carried out with its reply lost, so that it is sent again; given up |
| `Invalidate`, `InvalidateFails` | 74-81; an error, with the key deleted or not |
| `Change` | whoever writes the data behind the query (not in this program) |

Queries have different keys (`generateKey`), so one query is enough. A result
is the version of the data it was read from; `Nulls` are the versions whose
result is nil, which line 134 does not take as a hit. `fence` is history.
`DefaultTTL` is anything but zero, which line 27 replaces: with a negative one
Redis is asked for no expiry and a key stays for ever.

### HttpClient

| Model | Code |
|---|---|
| `Do`, `DoDone`, `Leave` | `Do` (httpclient.go 103-124) enters `ExecuteContext` with the context of its request, and leaves it when that ends |
| `ended`, `ContextEnds` | the contexts that have been cancelled or have run out, which can happen at any step of a call |
| `attempts`, `step`, `wait`, `last` | the loop of retryablehttp (external): how many requests it has sent, whether it sends or waits, for how long, and after which answer |
| `FirstAttempt`, `Unreadable` | the wrapped function begins (116); the request's own body cannot be read |
| `Again`, `NextAttempt`, `GiveUp` | an answer that is retried, the end of the wait, and of the context during it |
| `Backoff`, `Exponential` | 75-91, in the word of a `time.Duration` |
| `Retries` | `CheckRetry` as `New` sets it (43-72), and `RetryMax` |
| `Finish`, `Overrun` | 115-133: the last answer as the breaker counts it; a body of unknown length, for which `make` panics |

`load` is history: the requests sent since the breaker is half-open, those of
late calls of earlier generations among them. `Account` keeps it in every step.

Abstractions. `Get`, `Post`, `Put` and `Delete` are `Do` after they have made a
request. An answer is one of six classes, told apart by what the loop and
lines 121-133 do with it. A body that comes whole with its end in one read
counts as a failure, as it does in the code. Jitter is not configured. Durations are
taken modulo `2 * Half`; the assumption `WordAssumption` is what the configured
values satisfy with room, and without it `RetriesSpaced` is false.

### ApiKeyAuth

| Model | Code |
|---|---|
| `keys` | the map of `APIKeyAuth` |
| `pc`, `cred` | a request in `Middleware` or `RequireScopes`; the key value it carries |
| `extractAPIKey` | the header, the bearer token, the query, in that order |
| `Arrive`, `ArriveBare`, `Authenticate`, `Unauthorized` | `Middleware` around `validateAPIKey` |
| `Scope`, `Serve`, `Forbid`, `hasScopes` | `RequireScopes`, which looks the key up anew and does not test its expiry |
| `AddKey`, `RemoveKey` | 217-227, by one goroutine at a time |
| `raced`, `Torn`, `Fatal` | an iteration that a change falls into is a data race: the copy of an entry is not atomic and its slot may be given to another key meanwhile, so the request may find nothing, or any fields under its key's text, or the process ends |

`validateAPIKey` compares every key of the map in constant time, so a lookup is
an iteration: it begins in `Arrive` or `Scope` and ends in the step that uses
what it found. `came` and `held` are history, and so is `raced` for a lookup
that is over.

### Server, Docker, Health, Gateway

| Model | Code |
|---|---|
| `main` | how far `main` has come: `Wire` (47-224), `Listen` and `ListenFails` (226-286), `Notify` (289-290), `Shutdown`, `Drained`, `Stopped` (300-318), `Close`, `Return` (the deferred calls) |
| `Configured`, `conf`, `parts` | `config.Load`, or the configuration `main` falls back on; what could be wired with it |
| `rest`, `grpc`, `RestServes`, `RestFails`, `GrpcServes`, `GrpcFails` | the two server goroutines (203-223, 269-285), which run when they are scheduled, before or after the signal |
| `signalled`, `Terminate`, `Kill` | SIGTERM before and after `signal.Notify`; SIGKILL |
| `web`, `Accept`, `Respond` | the REST requests, through the limiter |
| `rpc`, `req`, `Call`, `Answer`, `Exit` | the gRPC calls; `Exit` loses those that run |
| `held`, `Slow`, `MessageComes`, `ClientEnds` | a call whose message its client has not sent, and a stream of the reflection service (282), which only its client brings on or ends |
| `daemon`, `Ask`, `Carry`, `Inspect`, `Refusal`, `Sample`, `Measure` | a Docker call at the daemon (external), which carries out what it was asked for whether or not anybody waits |
| `logged`, `audit`, `Record`, `Succeed`, `Fail` | `LogEvent`, which may write the record or drop it (audit/logger.go 33-92); the answer, and the ways to fail: refusal, timeout, the caller's context, a lost answer (manager.go 168-232) |
| `Difference`, `Used`, `sample` | the unsigned subtractions of the statistics (manager.go 274-283) |
| `Panic` | `nameOrID[:12]` of a shorter name (315) |
| `box`, `usage`, `now`, `Ends`, `Revives`, `Work` | the containers and the processor time of the host (external) |
| `postgres`, `redis`, `PostgresChanges`, `RedisChanges` | the databases (external); a hung PostgreSQL answers nothing |
| `probe`, `Begin`, `Answered`, `Healthy`, `Unhealthy`, `PingRedis`, `CallerLeaves` | the questions of `checker.go`, one after the other; the error of the last, the size, is dropped, but not its delay |
| `report`, `Response`, `Status`, `Degraded` | the answers of the health and the database service |

`GracefulServer` knows a phase where the gateway has a `main`, two server
goroutines, a channel of signals and deferred calls, and says what callers may
see of them: requests and calls are taken while their door is open, doors close
in one direction, a client is closed when no call runs, and what is taken is
answered unless the process ends first. `Phase` maps the process to it: all of
the start is "open", because a server that is not up yet takes nobody.
`AuditedOperations` leaves out the handler, its client and its timeout: an
operation is wanted, done, logged and told, in the only orders allowed, and its
record is written or dropped when it is logged; it may be done after everyone
has gone. `Wanted`, `Done` and `Outcome` map the calls to it.

The messages of `api/proto` are sets of records with the fields that the
handlers fill in and the models tell apart. `saw` and `restarted` are history.

Abstractions. The host and the databases change only while a call waits for
them: what they came to before is in the initial states, and nobody looks in
between. The daemon may act after the gateway has ended. The list requests
ignore their filters, as the handlers do; a tail of 0 is sent as it is, and the
daemon returns no lines for it. Of the statistics the processor time is kept;
on a host with cgroup v2 the percentage is multiplied by the length of a list
that is empty there and shown as zero. `config.yaml` writes keys with
underscores where the structure's names have none, so those are not read; the
model takes any wiring from a configuration that loads. The default one has no Redis, no Docker host, an empty
whitelist, a rate of zero, and port 0 for gRPC, which the system replaces by a
free one. A REST handler asks at most Redis, with its timeouts.

### Deploy

| Model | Code |
|---|---|
| `pushed`, `origin`, `head` | main on GitHub; `origin/main` and `HEAD` of `/opt/aquatiq` |
| `image` | the sources that the local image of the gateway was built from (`docker-compose.yml` 161: `build: ./aquatiq-gateway`, no `image:`) |
| `config`, `gateway` | what the containers run: the compose file, the gateway |
| `pc`, `target`, `building` | each run: its place in the script and how it ended, `NEW_COMMIT`, the files its build has read |
| `Fetch`, `Compare`, `Reset` | `git fetch`; the comparison that may end the run with "Already up to date"; stash, checkout and `reset --hard`. The three scripts have these lines in common |
| `BuildBegin`, `BuildEnd`, `BuildFails` | `docker compose build` of `deploy.yml` and the script: the files read, the image tagged, or neither, all three with status zero because of `\| grep ... \|\| true` |
| `Pull` | what `build-and-deploy.yml` does instead (177-191): it pulls an image that no service uses |
| `UpBegin`, `UpEnd`, `UpFails`, `reading` | `docker compose up -d`: the compose file is read; some time later the containers run with it, and with an image that had the name in between; or some of it has failed. Its status is lost too |
| `Fail` | a git command fails under `set -e`, or the run is cut off (ssh, reboot) |

The history: `cut`, whether a run was cut off after its reset, a start failed,
or two overlapped that had read different things, since the last start that was
alone in what it read and read what is there now; `lost`, whether a build was
left out, failed or was overtaken since the last one of the checkout; of the
starts under way, `overlaps` are those that overlapped one that had read
otherwise, and `misled` those during which an overtaking build had the name.

Abstractions. Commits are numbered: main only grows. A build reads its files at
one moment, and so does a start the compose file; what a start then changes, it
changes at its end, with any image that had the name meanwhile. A run is made once; which runs there are, and
the push that starts each, are constants, and a run may start any time after
its push. The secrets the workflows write, the permissions they set, the image
registry and the webhook's HTTP loop are left out: the loop never reads a
delivery, because its handler's standard input is not that of `nc`.

## 3. Runs

| Run | Shows | Bounds |
|---|---|---|
| `gateway` | `TypeOK`, `OrderlyAnswers`, `ClosedUnused`, `AnswersAudited`, `LoadBounded`; the gateway implements `GracefulServer` (`StopsGracefully`) and `AuditedOperations` (`OperatesAudited`) | two Docker calls and a REST request; one container, with a short name; a counter of four, two ticks of the host; no client holds a call. 1972619 states under symmetry of the calls |
| `gateway_health` | `ReportJustified`, `StopEnds` | one call of any method of the health and database services, of the whitelist, a list of images, or a stream of the reflection service, whose client may hold its message back; PostgreSQL up, down and hung, Redis up and down, with and without Redis wired. 626712 states |
| `docker_audit` | **violated**: `OperationsAudited` | one Docker call |
| `whitelist` | `TypeOK`, `RepeatsFromFile`, `FileMatchesMemory`, `DurableGrant`, `AllowOnlyGranted` hold, and the manager implements `AccessList` (`KeepsPromise`) | two texts: a network and a host in it, which is also what a cut of the network's text leaves, so that a list may hold the host twice; two addresses; expiries now and never; one tick. 1512250 states |
| `whitelist_expiry` | **violated**: `ExpiryHonoured`, an entry with an expiry is permanent after a restart | one address and junk that only a cut file can bring; two ticks |
| `ratelimit` | `TypeOK`, `WindowBudget`, `OnlyFaultsLeak`, `FallbackBudget`, `Answered` | two gateways, three requests of which one is an admin's, a budget of one in a window of one tick, clock to the expiry of the first window's key; one lost reply per check. 595866 states |
| `breaker` | `TypeOK`, `TrialsBounded`, `ChangesForCause` | five uses of a breaker that two failures open and two trials close; an interval and a timeout of one tick, two ticks: enough to be half-open with a call of an earlier generation still running. 748264 states under symmetry of the uses |
| `http_client` | `HttpTypeOK`, `RetriesSpaced`, `TrialLoad`; the client implements `CircuitBreaker` with its fairness (`OneUsePerCall`); `GoroutineEnds`, `HalfOpenResolves` | two calls with two retries each, over a breaker that one failure opens and one trial closes; waits from one to three in a word that the doubling would leave with the next retry; `Retry-After` of zero and of more than the bound. 459287 states |
| `query_cache` | `TypeOK`, `AnswersInvalidated`, `SettlesFresh` | two callers at a time, calling again and again; ttl arguments of zero and one tick, a default of two; three changes of the data, one to no result. 56808 states |
| `api_key` | `TypeOK`, `ServedByHeld`, `RefusedForCause` | one request, two key values, two scopes, both required; three changes of the map, one tick. 2554365 states under symmetry of keys and scopes |
| `deploy` | `TypeOK` (versions keep their order), `EndMeansPushed`, `Delivered`, `NeverBack` | two pushes, four runs of all kinds, with failures. 520401 states |
| `deploy_race` | **violated**: `SettledCurrent` | a run of `deploy.yml` and one of the script, nothing fails |

Why the bounds are enough. The gateway's interesting cases need an operation
between the two samples of another call's statistics, a call and a request
still running when the signal comes, and the process ending under both; a
health check is not affected by another call, so one at a time is enough, and
its databases may change between any two of its questions; a stop that waits for
a client needs one call. The whitelist's
cases need two overlapping patterns, one of which is a cut of the other, one
update cut off and one restart, then another update; the clock needs one tick because only "expired or not" is
compared. The limiter's need two requests racing for the first count, one late
request with the key of an earlier window, and the expiry of that key two
windows later; the budget is chosen so that the three requests can exceed it. The
breaker's need one failure more than opens it, two trials, and one call left
over to report late; the client's, one call that retries while the other is
refused, is on trial, or closes the breaker. The query cache's need one caller
whose store is late and another that looks up after the invalidation. An API
request makes two lookups and shares only what it reads: one request and three
changes are enough for one into each lookup and one between them, of its own key
or of another. The
deployment's need a run of each kind and one run still going when the other's
push comes, and two builds or two starts at a time. The safety properties are proved for all values besides.

`CHECK_DEADLOCK FALSE` where the system may stop: in the limiter's run, when
every request is answered and the clock is at its bound; in the breaker's and
the client's, when a panic has ended the process; in the deployment's, when
every run has ended and the last push is made; in the gateway's, when the
process has ended and the daemon has nothing left to do; in the API keys', when
a race has ended the process or every request is answered.

**Fairness.** `WF` in `Gateway` of the steps of `main`, of the server
goroutines, and of every handler: each is runnable, or in a call that a timeout
ends (the Docker client has 30 s, `Shutdown` has `ShutdownTimeout`). Nothing is
assumed of callers, of the daemon or of the databases. A question to a hung
PostgreSQL is not among the handler's fair steps, because nothing in the code
bounds it, and a call that its client holds has none: `StopEnds` says that these
are all that a stop can wait for (`Waiting`), once they come to an end for good.
`WF(Check(r))` in `RateLimit`: every call to Redis ends
with a reply or its timeout, and the number of retries is bounded; `IncrLost` is
not part of the fair action, only not for ever. `Answered` includes death with
the gateway: a crashed gateway answers nobody. `WF(Goes(r))` in
`CircuitBreaker`: the goroutine is runnable, and the wrapped function returns;
nothing is assumed of the callers of `ExecuteContext`, nor of the clock, nor
that calls succeed. `WF(Works(r))` in `HttpClient` is what makes that true of
the one function the code wraps: every attempt ends by the answer or by
`http.Client.Timeout`, every wait ends, and `OneUsePerCall` shows that the
breaker's fairness follows. `QueryCache`: `WF(Tick)`, Redis expires keys; `WF`
of `Store \/ StoreFails`, a SET has a timeout and three retries, so replies are
not lost for ever. `Whitelist`, `ApiKeyAuth` and `Deploy` assume none: an update
of the whitelist gives its mutex back by a deferred call on every path.

**Findings.** `whitelist_expiry`: `loadFromTraefikConfig` rebuilds entries
without `ExpiresAt`, where `whitelist.proto` offers an "Optional expiration".
`deploy_race`: `WEBHOOK_SETUP.md` says that updated containers start when main
is pushed; a slower, older build or start that ends last wins, and every later
run of any kind finds the checkout up to date. `docker_audit`: `docs/SECURITY.md` lists
Docker operations among the captured events; one that the daemon carries out
after its handler has given up is never recorded.

Divergences that the models follow, stated here without a run of their own:
- `CleanupExpired` and `AddToBlacklist` ignore the expiry of blacklist entries;
  `whitelist.proto:32` says the cleanup removes "expired whitelist/blacklist
  entries". `Whitelist` has no expiry for a denial.
- The image that `build-and-deploy.yml` pulls is not the one the compose file
  runs, so the workflow that "automatically deploys code changes" (line 14)
  deploys the compose file only.
- A failed build or start completes as a success, because its status is that of
  `grep ... || true`; `WEBHOOK_SETUP.md:58` says that health checks verify it.
- `docs/SECURITY.md:345` lists "inspect" among the captured Docker operations;
  only start, stop and restart are ever logged (`manager.go` 168-232). Of these a
  record may be missing even of a success: `LogEvent` writes it at the level
  "info", which the levels "warn" and "error" drop (`audit/logger.go` 45-56; this
  program asks for "info", `main.go:38`), and zap's production configuration (40)
  samples messages that are alike. `Record` may drop any.
- A tail of 0 lines is "all" in `docker.proto:107` and none to the daemon.
- A 2xx body that arrives whole with its end counts as a failure
  (`httpclient.go:129`); one of unknown length panics in a goroutine that
  nothing recovers.
- `Post` and `Put` send no body (`httpclient.go:173`).

## 4. Proofs

Assumptions are those named in the modules: types of the constants, for the
limiter `DelayAssumption`, and for the HTTP client `WordAssumption`.

`GatewayProofs`. Three invariants, proved one after the other: `ServerInv` of
the process, `DockerInv` of the Docker calls, `HealthInv` of the health calls.
`ServerSteps` says that whatever a handler does is to the process one of its
own steps, an answer, or nothing, and `Frame` what a step of the process does
to a call; with them the process is proved once, and each kind of call needs a
case for its own actions only.
- `ServerInv` relates how far `main` has come to what the servers accept: no
  call before the gRPC server serves and none after `GracefulStop`, no client
  closed before the last call is answered. `OrderlyAnswers` is inductive only
  with it: `Return` comes where nothing runs any more.
- `DockerInv` relates what was logged and the records to the daemon, and the
  answer to what was logged, and
  bounds a sample by what the container has used and the host has counted, for
  containers that were not started since. `LoadBounded` needs that
  the processor time of a container grows no faster than the host's.
- `HealthInv` says that what a call has found so far was the case at a moment
  it has lived through.

With them two refinements, for any number of requests, calls and containers:
- `ServesGracefully`: `Spec => Graceful!Spec`. `GracefulStep` maps each step of
  the process; most of the start and of the goroutines are stutters, `Drained`
  and `Stopped` close a door, every way to end is `End`. It needs `ServerInv`
  where `GracefulServer` has a condition on the phase and the code one on a
  goroutine: that a server which serves is in its phase, and that an orderly
  `Return` has no call left to lose.
- `OperationsAsPromised`: `Spec => Audited!Spec`, by actor: the process
  (`AuditedUntouched`), the handlers (`AuditedHandles`), the daemon
  (`AuditedDaemon`), the host (`AuditedHost`); a call that is no operation is a
  stutter whatever it does (`OperationsDiffer`). It needs `DockerInv` for the
  order of done, logged and told.

`WhitelistProofs`. The safety invariants follow from one inductive invariant:
- `Base` and `Control`: types; who may hold the mutex, and that an update in
  progress is up to date with the clock only where the code is;
- `PendingOK`, `TargetOK`: the entries of the update in progress are its own,
  and the list it is about to write is between the live part and the whole of
  the memory;
- `FileOK`: the file agrees with the memory between updates unless stale;
- `AckedOK`: every acknowledged grant that no restart has lost is in memory with
  at least its expiry, and in the file unless that is torn or open. The statement
  of `DurableGrant` itself is not inductive: it speaks of the live part, and time
  passing would need to know that memory expires no earlier than was granted;
- `GrantedOK`: every entry in memory, but the pending one of an add, was granted
  or came from the file, and what a file that is not torn lists was granted or is
  among the strays of an earlier one.

`GrantsLast` and `OnlyGranted` follow with exactly the exceptions that `lost` and
`strays` name; `AckedOK` and `GrantedOK` are what shows that a start adds to these
only after a torn write. `RepeatsExplained` is a conjunct of the invariant: an add
tests for its text first, and an entry from the file never expires.

`Refinement` proves `Spec => Promise!Spec`: one case per action, most of which
map to an action of `AccessList` of a similar name and the steps of a file
write to `Internal`, except the successful write of an add (`Grant`).

`RateLimitProofs`. `Budget` rests on the fact that a key is never dropped while
a request that named it can still increment it. A key's expiry is two windows
after a moment inside or after its window, so it is dropped after the next
window has ended (`TTLOK`); a request increments within one window of naming
(`SinceOK`), so none is left by then (`CounterOK`: once dropped a counter is
dead). Two windows is exactly the margin needed: with a TTL of one window TLC
finds the counter restarted. `NoLeak` needs only the program counter.
`Fallback` is inductive with the tokens in it (`BucketsOK`): what was let through
outside of the windows' budgets *and* what the bucket holds came from the rate
and the starts; a token that is taken moves from one to the other, a crash loses
what the bucket held and earns a bucketful, and a request on its way to set an
expiry is in its window's budget already (`ExpireOK`). Together the two theorems
bound everything that is served: no path of the limiter is without a budget.

`CircuitBreakerProofs`. `Counted` relates the counts of the breaker to the calls
themselves: `requests` is the number of calls that began in the present
generation, `failures` and `successes` are at most the number of those that
ended so, and while half-open no more than `MaxRequests` have begun, none has
failed and every success counts. `Stages` says that no call is stamped with a
generation still to come, which is why a new one starts with counts that agree
with nothing having begun, and that a call let through is running or has ended
well or badly. `TrialsBounded` follows by splitting the begun calls of a
half-open generation into the running ones and the successes: no place is lost,
and a breaker whose places are all taken has a call running. That this call ends
and moves it on is `HalfOpenResolves`, which stays with TLC; `ChangesForCause`
follows because each change is made when a count reaches its limit;
a result of an earlier generation moves no count.

`HttpClientProofs`. `Implements`: every step of the client is a step of the
breaker or none, so the breaker's invariant holds of it, and with the invariant
what it was proved for (`BreakerKept`). Of the client's own, `Spaced`
needs that the shift of a reachable attempt stays in the word.
`TrialLoadBounded` splits the requests on record: those of the calls begun in the
half-open generation, whose number is in `Counted` and whose attempts are
bounded, and those of earlier calls, none of which is a first attempt (`OnRecord`)
because a call makes that one when it is let through. It needs that a half-open
generation has no expiry (`Lasting`), so that `load` and the generation begin and
end together. That the breaker's fairness
follows too is model-checked.

`QueryCacheProofs`. `TTLKnown`: only a negative default reaches Redis as no
expiry, which is what `TypeOK` says of `left`. `Fenced`: neither Redis nor a store on its way holds
anything older than the last invalidation without a race. It survives
`Invalidate` precisely because of the condition in `fence`: with a store of an
older result on its way the fence does not move.

`ApiKeyAuthProofs`. `Justified`: what a request has found, it found among the
values the map has held since it came, unless a change fell into that lookup: then
nothing is said of what it found.
`RefusedForCause` joins the invariant because the clock and the history only
grow.

`DeployProofs`. `TypeOK` carries the order of the versions (`head <= origin <=
pushed`, everything that runs at most `head`), from which the checkout never goes
back: `Reset` goes to `origin/main` as it is by then, not to the commit that was
compared. `Seen` says that a run past its fetch has fetched the push that started
it, and brought the checkout there when it resets. `Delivered` speaks of moments
when no run is at work and is far from inductive; what is kept by every step is
that whatever is still to be done has somebody who will do it, unless it is in
the history as lost: a start (`OnlyCutsStrand`, `StartAhead`), a build of the
present checkout (`BuildAhead`). A start that takes its time adds what it has
read to this: it knows what the name of the image means (`ReadsImage`); two of
them have read the same or both count as overlapping (`Apart`); and one that
overlaps none and has read what is no longer there is followed by another start
(`Followed`), which is why `cut` may be cleared by its end only if nothing has
changed since it read. `TakesOn`, that such a start takes the configuration no
further back, nor the gateway unless an older build had the name, gives
`NeverBack`; it rests on `ImageFirst`, that without an overtaking build the image
is no older than the gateway.

Only model-checked: `StopEnds`, `Answered`, `GoroutineEnds`,
`HalfOpenResolves`, `SettlesFresh` and the fairness in `OneUsePerCall`, being
liveness; and the violations. Every safety property of a passing run is proved.

## 5. Not modelled

What is planned is done: the process and its calls, the whitelist, the limiter,
the breaker, the client over it, the query cache, the API keys, the deployments.
Left out:

- *Audit logger*: its other log lines. No part of the program reads them, and
  `LogEvent` of the Docker operations is in `Docker`.
- *Configuration*: which value comes from the file, the environment or a
  default. It is read once, by one goroutine; the models take its outcomes.
- *Redis cache*: `TokenCache`, `SetNX`, `Keys` and the rest have no caller. A
  token stored when it has already expired is stored for ever (`redis.go:178`),
  but its reader compares the expiry itself.
- *Rate limiter*: `PerIPLimiter`, which nothing uses.
- *Circuit breaker*: the `Manager`'s map, filled before it is read by anyone;
  `GetStats`, which reads counts and state under two locks and may show a pair
  that never was, and on which nothing depends.
- *Health checker*: figures other than "read or zero"; among them
  `TotalConns - IdleConns` of a pool between two moments, which may wrap.
- *Whitelist messages*: their conversion to protobuf, field by field; the
  client stubs and descriptors of the generated code.
- *Deployment*: the webhook's HTTP loop never reads a delivery, because its
  handler's standard input is not that of `nc`, so it starts no run; the secrets
  and permissions that the workflows write; `fresh-install`.
- *Installation and local scripts, the compose stack*: run by hand once, or
  declarative configuration of other programs; the source of the bounds and
  failures assumed above.
