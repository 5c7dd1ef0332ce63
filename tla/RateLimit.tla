------------------------------ MODULE RateLimit ------------------------------
(***************************************************************************)
(* The rate limiter of the gateway (internal/ratelimit/ratelimit.go) in    *)
(* front of its routes: every request passes the global tier, a request to *)
(* an admin route passes the admin tier after it (cmd/gateway/main.go).    *)
(* Several gateways share one Redis.                                       *)
(*                                                                         *)
(* A check reads the clock to name the counter of the current window,      *)
(* increments it, and sets its expiry if it was the first to do so: three  *)
(* steps, between which other requests, other gateways, the clock and a    *)
(* crash may come.  A call to Redis may fail, and its reply may be lost    *)
(* after Redis has done the work.                                          *)
(***************************************************************************)
EXTENDS Integers, FiniteSets

CONSTANTS
  Gateways,    \* the processes that share Redis
  Reqs,        \* requests, each made once
  AdminReqs,   \* those to an admin route
  At,          \* the gateway each request is made to
  Rate,        \* requests per tick, by tier (GlobalRPS, AdminRPS)
  Burst,       \* BurstSize
  WindowLen,   \* ticks in a window (60 seconds)
  MaxDelay,    \* the longest wait between naming a counter and its increment
  MaxRetries,  \* bound on the replies lost to one check
  MaxTime      \* bound on the clock

Tiers   == {"global", "admin"}
Windows == 0..(MaxTime \div WindowLen)
Keys    == Tiers \X Windows

ASSUME RequestAssumption == AdminReqs \subseteq Reqs /\ At \in [Reqs -> Gateways]
ASSUME RateAssumption    == Rate \in [Tiers -> Nat] /\ Burst \in Nat
ASSUME TimeAssumption    == WindowLen \in Nat \ {0} /\ MaxTime \in Nat
\* The dial, read and write timeouts of the Redis client are 10 seconds
\* (redis.timeout), its retries three: together less than a window.
ASSUME DelayAssumption   == MaxDelay \in 0..WindowLen /\ MaxRetries \in Nat

VARIABLES
  distributed, \* the gateways that reached Redis when they started
  pc,       \* "new", "check", "count", "expire", "served", "refused", "dropped"
  tier,     \* the tier a request is being checked for
  since,    \* when it named its counter; 0 outside of a count
  retries,  \* how often its increment has been tried again
  counter,  \* Redis: the value of each key, 0 if it does not exist
  ttl,      \* Redis: when each key expires, NoTTL if never
  bucket,   \* the tokens of globalLimiter and adminLimiter in each gateway
  now,
  passed,   \* history: the requests whose increment of a key was in its limit
  faulted,  \* history: keys whose first increment or expiry went wrong
  starts    \* history: how often each gateway has been started

redis == <<counter, ttl, passed, faulted>>
local == <<bucket, starts>>
vars  == <<distributed, pc, tier, since, retries, redis, local, now>>

NoTTL == -1
\* A faulty TTL: one window, as long as the counter is needed by the clock.
TTLShort == WindowLen

TTL == 2 * WindowLen

\* int64(limit)*60
Limit(t) == Rate[t] * WindowLen

\* New: the admin bucket holds half a burst.
BucketSize(t) == IF t = "admin" THEN Burst \div 2 ELSE Burst

Key(r) == <<tier[r], since[r] \div WindowLen>>

TypeOK ==
  /\ distributed \subseteq Gateways
  /\ pc \in [Reqs -> {"new", "check", "count", "expire", "served", "refused", "dropped"}]
  /\ tier \in [Reqs -> Tiers]
  /\ since \in [Reqs -> 0..MaxTime]
  /\ retries \in [Reqs -> 0..MaxRetries]
  /\ counter \in [Keys -> Nat]
  /\ ttl \in [Keys -> {NoTTL} \cup 0..(MaxTime + TTL)]
  /\ bucket \in [Gateways \X Tiers -> 0..Burst]
  /\ now \in 0..MaxTime
  /\ passed \in [Keys -> SUBSET Reqs]
  /\ faulted \subseteq Keys
  /\ starts \in [Gateways -> Nat \ {0}]

Init ==
  /\ distributed \in SUBSET Gateways
  /\ pc = [r \in Reqs |-> "new"]
  /\ tier = [r \in Reqs |-> "global"]
  /\ since = [r \in Reqs |-> 0]
  /\ retries = [r \in Reqs |-> 0]
  /\ counter = [k \in Keys |-> 0]
  /\ ttl = [k \in Keys |-> NoTTL]
  /\ bucket = [b \in Gateways \X Tiers |-> BucketSize(b[2])]
  /\ now = 0
  /\ passed = [k \in Keys |-> {}]
  /\ faulted = {}
  /\ starts = [g \in Gateways |-> 1]
-----------------------------------------------------------------------------
\* The outcome of a check.  An admin request goes on to the second check.
Answer(r, ok) ==
  /\ since' = [since EXCEPT ![r] = 0]
  /\ retries' = [retries EXCEPT ![r] = 0]
  /\ IF ok /\ tier[r] = "global" /\ r \in AdminReqs
     THEN pc' = [pc EXCEPT ![r] = "check"] /\ tier' = [tier EXCEPT ![r] = "admin"]
     ELSE /\ pc' = [pc EXCEPT ![r] = IF ok THEN "served" ELSE "refused"]
          /\ UNCHANGED tier

\* A faulty TakeToken: an empty bucket goes on paying out debts.
TakeTokenBlind(r) ==
  LET b == <<At[r], tier[r]>>
  IN  Answer(r, bucket[b] > 0) /\ bucket' = [bucket EXCEPT ![b] = @ - 1]

\* rate.Limiter.Allow on the bucket of the request's gateway and tier.
TakeToken(r) ==
  LET b  == <<At[r], tier[r]>>
      ok == bucket[b] > 0
  IN  Answer(r, ok) /\ bucket' = [bucket EXCEPT ![b] = IF ok THEN @ - 1 ELSE 0]

Arrive(r) ==
  /\ pc[r] = "new"
  /\ pc' = [pc EXCEPT ![r] = "check"]
  /\ UNCHANGED <<distributed, tier, since, retries, redis, local, now>>

AllowLocal(r) ==
  /\ At[r] \notin distributed
  /\ pc[r] = "check"
  /\ TakeToken(r)
  /\ UNCHANGED <<distributed, redis, starts, now>>

NameKey(r) ==
  /\ At[r] \in distributed
  /\ pc[r] = "check"
  /\ pc' = [pc EXCEPT ![r] = "count"]
  /\ since' = [since EXCEPT ![r] = now]
  /\ UNCHANGED <<distributed, tier, retries, redis, local, now>>

\* count == 1; and a faulty version that takes INCR to return the old value.
FirstOld(n) == n = 0
First(n)    == n = 1

\* count <= limit*60
Within(n, t) == n <= Limit(t)

Incr(r) ==
  /\ pc[r] = "count"
  /\ LET k == Key(r)
         n == counter[k] + 1
     IN  /\ counter' = [counter EXCEPT ![k] = n]
         /\ passed' = [passed EXCEPT ![k] = IF Within(n, tier[r]) THEN @ \cup {r} ELSE @]
         /\ IF First(n) THEN /\ pc' = [pc EXCEPT ![r] = "expire"]
                             /\ UNCHANGED <<tier, since, retries>>
                        ELSE Answer(r, Within(n, tier[r]))
  /\ UNCHANGED <<distributed, ttl, faulted, local, now>>

\* Redis counts, the reply is lost, and the client library tries again.
IncrLost(r) ==
  /\ pc[r] = "count"
  /\ retries[r] < MaxRetries
  /\ retries' = [retries EXCEPT ![r] = @ + 1]
  /\ LET k == Key(r)
     IN  /\ counter' = [counter EXCEPT ![k] = @ + 1]
         /\ faulted' = IF counter[k] = 0 THEN faulted \cup {k} ELSE faulted
  /\ UNCHANGED <<distributed, pc, tier, since, ttl, passed, local, now>>

\* A faulty IncrFails: the check starts over until Redis answers.
IncrFailsAgain(r) ==
  /\ pc[r] = "count"
  /\ pc' = [pc EXCEPT ![r] = "check"]
  /\ UNCHANGED <<distributed, tier, since, retries, redis, local, now>>

\* Another faulty IncrFails: without Redis there is no limit.
IncrFailsOpen(r) ==
  /\ pc[r] = "count"
  /\ Answer(r, TRUE)
  /\ UNCHANGED <<distributed, redis, local, now>>

\* On an error the check falls back on the gateway's own bucket.
IncrFails(r) ==
  /\ pc[r] = "count"
  /\ TakeToken(r)
  /\ UNCHANGED <<distributed, redis, starts, now>>

\* The request that sets the expiry is the one that counted 1.
Expire(r) ==
  /\ pc[r] = "expire"
  /\ ttl' = [ttl EXCEPT ![Key(r)] = now + TTL]
  /\ Answer(r, Within(1, tier[r]))
  /\ UNCHANGED <<distributed, counter, passed, faulted, local, now>>

\* The error is ignored.
ExpireFails(r) ==
  /\ pc[r] = "expire"
  /\ faulted' = faulted \cup {Key(r)}
  /\ Answer(r, Within(1, tier[r]))
  /\ UNCHANGED <<distributed, counter, ttl, passed, local, now>>
-----------------------------------------------------------------------------
InFlight(r) == pc[r] \in {"check", "count", "expire"}

\* A gateway dies with its requests and comes back with full buckets, with or
\* without Redis.
Crash(g) ==
  LET lost == {r \in Reqs : At[r] = g /\ InFlight(r)}
  IN  /\ lost # {}
      /\ distributed' \in {distributed \cup {g}, distributed \ {g}}
      /\ pc' = [r \in Reqs |-> IF r \in lost THEN "dropped" ELSE pc[r]]
      /\ since' = [r \in Reqs |-> IF r \in lost THEN 0 ELSE since[r]]
      /\ retries' = [r \in Reqs |-> IF r \in lost THEN 0 ELSE retries[r]]
      /\ faulted' = faulted \cup {Key(r) : r \in {q \in lost : pc[q] = "expire"}}
      /\ bucket' = [b \in Gateways \X Tiers |->
                      IF b[1] = g THEN BucketSize(b[2]) ELSE bucket[b]]
      /\ starts' = [starts EXCEPT ![g] = @ + 1]
      /\ UNCHANGED <<tier, counter, ttl, passed, now>>

Refill(n, t) == IF n + Rate[t] < BucketSize(t) THEN n + Rate[t] ELSE BucketSize(t)

Expired(k, t) == ttl[k] # NoTTL /\ ttl[k] <= t

\* The clock moves, buckets fill, Redis drops what has expired.  No request
\* waits for its increment longer than MaxDelay.
Tick ==
  /\ now < MaxTime
  /\ \A r \in Reqs : pc[r] = "count" => now < since[r] + MaxDelay
  /\ now' = now + 1
  /\ bucket' = [b \in Gateways \X Tiers |-> Refill(bucket[b], b[2])]
  /\ counter' = [k \in Keys |-> IF Expired(k, now + 1) THEN 0 ELSE counter[k]]
  /\ ttl' = [k \in Keys |-> IF Expired(k, now + 1) THEN NoTTL ELSE ttl[k]]
  /\ UNCHANGED <<distributed, pc, tier, since, retries, passed, faulted, starts>>

Check(r) == AllowLocal(r) \/ NameKey(r) \/ Incr(r) \/ IncrFails(r)
              \/ Expire(r) \/ ExpireFails(r)

Next ==
  \/ \E r \in Reqs : \/ Arrive(r)
                     \/ AllowLocal(r)
                     \/ NameKey(r)
                     \/ Incr(r)
                     \/ IncrLost(r)
                     \/ IncrFails(r)
                     \/ Expire(r)
                     \/ ExpireFails(r)
  \/ \E g \in Gateways : Crash(g)
  \/ Tick

\* A handler goroutine runs on: every call to Redis ends, by a reply or by its
\* timeout, and the client library does not try for ever.
Spec == Init /\ [][Next]_vars /\ \A r \in Reqs : WF_vars(Check(r))
-----------------------------------------------------------------------------
\* Over all gateways, no more requests than the limit of a tier get through on
\* the strength of one window's counter, however the steps of the checks, the
\* clock, the expiry of the keys, crashes and lost replies interleave: a key
\* is never gone while a request that named it may still increment it.
WindowBudget == \A k \in Keys : Cardinality(passed[k]) <= Limit(k[1])

\* A counter that exists without an expiry is about to get one, or something
\* went wrong between its first increment and the call that sets the expiry.
OnlyFaultsLeak ==
  \A k \in Keys : counter[k] > 0 /\ ttl[k] = NoTTL =>
    k \in faulted \/ \E r \in Reqs : pc[r] = "expire" /\ Key(r) = k

\* A tier has let the request through, and it was in no window's budget.
Cleared(r, t) ==
  \/ t = "global" /\ tier[r] = "admin"
  \/ t = tier[r] /\ pc[r] = "served"

Uncounted(g, t) ==
  {r \in Reqs : /\ At[r] = g
                /\ Cleared(r, t)
                /\ \A k \in Keys : k[1] = t => r \notin passed[k]}

\* However Redis comes and goes between the checks and gateways are restarted,
\* what a gateway lets through outside of the windows' budgets is bounded by the
\* rate of the tier and one bucketful for every start: nothing is for free.
FallbackBudget ==
  \A g \in Gateways, t \in Tiers :
    Cardinality(Uncounted(g, t)) <= starts[g] * BucketSize(t) + Rate[t] * now

\* No request is being checked for ever: it is answered, or dies with its gateway.
Answered == \A r \in Reqs : []<>~InFlight(r)
=============================================================================
