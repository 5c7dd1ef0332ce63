---------------------------- MODULE CircuitBreaker ----------------------------
(***************************************************************************)
(* The circuit breaker of the gateway (pkg/circuitbreaker): a gobreaker    *)
(* breaker and ExecuteContext, which makes the call in a goroutine of its  *)
(* own so that the caller can leave when its context ends.  The call then  *)
(* goes on without it, and reports to the breaker whenever it ends, maybe  *)
(* to a breaker that has moved on.                                         *)
(*                                                                         *)
(* gobreaker serialises its own operations with a mutex and stamps every   *)
(* call with the generation it began in; a generation ends with a change   *)
(* of state and, while closed, with the interval of the counts.            *)
(***************************************************************************)
EXTENDS Integers, FiniteSets

CONSTANTS
  Reqs,         \* uses of the breaker, each made once
  MaxRequests,  \* trial calls let through while half-open
  Threshold,    \* FailureThreshold
  Interval,     \* life of the counts while closed, 0 for ever
  Timeout,      \* how long the breaker stays open
  MaxTime       \* bound on the clock

ASSUME ReqsAssumption   == IsFiniteSet(Reqs)
\* gobreaker replaces a MaxRequests of 0 by 1.
ASSUME LimitsAssumption == MaxRequests \in Nat \ {0} /\ Threshold \in Nat
ASSUME TimeAssumption   == Interval \in Nat /\ Timeout \in Nat \ {0} /\ MaxTime \in Nat

VARIABLES
  up,      \* the process is alive
  cb,      \* the breaker
  caller,  \* "new", "waiting", "returned" with a result, "cancelled"
  call,    \* the goroutine: "none", "spawned", "running", "sending", "done"
  result,  \* how the call ended: "none", "ok", "failed", "refused"
  began,   \* the generation the call was let through in, 0 before
  now

vars == <<up, cb, caller, call, result, began, now>>

NoExpiry == -1

Breaker == [state : {"closed", "half-open", "open"}, generation : Nat \ {0},
            requests : Nat, successes : Nat, failures : Nat,
            expiry : {NoExpiry} \cup 0..(MaxTime + Interval + Timeout)]

TypeOK ==
  /\ up \in BOOLEAN
  /\ cb \in Breaker
  /\ caller \in [Reqs -> {"new", "waiting", "returned", "cancelled"}]
  /\ call \in [Reqs -> {"none", "spawned", "running", "sending", "done"}]
  /\ result \in [Reqs -> {"none", "ok", "failed", "refused"}]
  /\ began \in [Reqs -> Nat]
  /\ now \in 0..MaxTime
-----------------------------------------------------------------------------
\* toNewGeneration, with the state of the generation; successes and failures
\* are the consecutive ones.
NewGeneration(s, g, t) ==
  [state |-> s, generation |-> g, requests |-> 0, successes |-> 0, failures |-> 0,
   expiry |-> CASE s = "closed"    -> IF Interval = 0 THEN NoExpiry ELSE t + Interval
                [] s = "open"      -> t + Timeout
                [] s = "half-open" -> NoExpiry]

\* currentState: what every operation of the breaker does first.
Current ==
  IF cb.expiry # NoExpiry /\ cb.expiry < now
  THEN NewGeneration(IF cb.state = "open" THEN "half-open" ELSE cb.state,
                     cb.generation + 1, now)
  ELSE cb

\* A faulty ReadyToTrip: it looks at the calls, not at the failures.
TripsOnRequests(b) == b.requests >= Threshold

\* ReadyToTrip
Trips(b) == b.failures >= Threshold

Succeed(b) ==
  LET c == [b EXCEPT !.successes = @ + 1, !.failures = 0]
  IN  IF b.state = "half-open" /\ c.successes >= MaxRequests
      THEN NewGeneration("closed", b.generation + 1, now) ELSE c

Fail(b) ==
  LET c == [b EXCEPT !.failures = @ + 1, !.successes = 0]
  IN  IF b.state = "half-open" \/ Trips(c)
      THEN NewGeneration("open", b.generation + 1, now) ELSE c

\* afterRequest: a result of an earlier generation does not count.
Settle(r, o) ==
  LET b == Current
  IN  IF began[r] # b.generation THEN b
      ELSE IF o = "ok" THEN Succeed(b) ELSE Fail(b)

Admits(b) == b.state = "closed" \/ (b.state = "half-open" /\ b.requests < MaxRequests)

Init ==
  /\ up = TRUE
  /\ cb = NewGeneration("closed", 1, 0)
  /\ caller = [r \in Reqs |-> "new"]
  /\ call = [r \in Reqs |-> "none"]
  /\ result = [r \in Reqs |-> "none"]
  /\ began = [r \in Reqs |-> 0]
  /\ now = 0
-----------------------------------------------------------------------------
\* ExecuteContext, up to its select.
Enter(r) ==
  /\ up
  /\ caller[r] = "new"
  /\ caller' = [caller EXCEPT ![r] = "waiting"]
  /\ call' = [call EXCEPT ![r] = "spawned"]
  /\ UNCHANGED <<up, cb, result, began, now>>

\* The context had ended before the call.
EnterDone(r) ==
  /\ up
  /\ caller[r] = "new"
  /\ caller' = [caller EXCEPT ![r] = "cancelled"]
  /\ UNCHANGED <<up, cb, call, result, began, now>>

\* The goroutine enters the breaker, its caller there or not.
Admit(r) ==
  /\ up
  /\ call[r] = "spawned"
  /\ LET b == Current
     IN  /\ Admits(b)
         /\ cb' = [b EXCEPT !.requests = @ + 1]
         /\ began' = [began EXCEPT ![r] = b.generation]
  /\ call' = [call EXCEPT ![r] = "running"]
  /\ UNCHANGED <<up, caller, result, now>>

\* ErrOpenState, or ErrTooManyRequests while half-open.
Refuse(r) ==
  /\ up
  /\ call[r] = "spawned"
  /\ ~Admits(Current)
  /\ cb' = Current
  /\ call' = [call EXCEPT ![r] = "sending"]
  /\ result' = [result EXCEPT ![r] = "refused"]
  /\ UNCHANGED <<up, caller, began, now>>

\* A faulty End: a call whose caller has left does not report.
EndUnreported(r, o) ==
  /\ up
  /\ call[r] = "running"
  /\ cb' = IF caller[r] = "cancelled" THEN cb ELSE Settle(r, o)
  /\ call' = [call EXCEPT ![r] = "sending"]
  /\ result' = [result EXCEPT ![r] = o]
  /\ UNCHANGED <<up, caller, began, now>>

\* The wrapped function returns; any error is a failure.
End(r, o) ==
  /\ up
  /\ call[r] = "running"
  /\ cb' = Settle(r, o)
  /\ call' = [call EXCEPT ![r] = "sending"]
  /\ result' = [result EXCEPT ![r] = o]
  /\ UNCHANGED <<up, caller, began, now>>

\* It panics: the breaker counts a failure and panics again, in a goroutine
\* where nobody recovers.
Panic(r) ==
  /\ up
  /\ call[r] = "running"
  /\ cb' = Settle(r, "failed")
  /\ call' = [call EXCEPT ![r] = "done"]
  /\ result' = [result EXCEPT ![r] = "failed"]
  /\ up' = FALSE
  /\ UNCHANGED <<caller, began, now>>

\* A faulty Send: the channel has no buffer.
SendUnbuffered(r) ==
  /\ up
  /\ call[r] = "sending"
  /\ caller[r] = "waiting"
  /\ call' = [call EXCEPT ![r] = "done"]
  /\ UNCHANGED <<up, cb, caller, result, began, now>>

\* The channel has room for the one result.
Send(r) ==
  /\ up
  /\ call[r] = "sending"
  /\ call' = [call EXCEPT ![r] = "done"]
  /\ UNCHANGED <<up, cb, caller, result, began, now>>

\* The two branches of the select; with both ready either is taken.
Receive(r) ==
  /\ up
  /\ caller[r] = "waiting"
  /\ call[r] = "done"
  /\ caller' = [caller EXCEPT ![r] = "returned"]
  /\ UNCHANGED <<up, cb, call, result, began, now>>

\* A faulty Cancel: it gives back the place of the call, which goes on.
CancelReleases(r) ==
  /\ up
  /\ caller[r] = "waiting"
  /\ caller' = [caller EXCEPT ![r] = "cancelled"]
  /\ cb' = IF call[r] = "running" THEN [cb EXCEPT !.requests = @ - 1] ELSE cb
  /\ UNCHANGED <<up, call, result, began, now>>

Cancel(r) ==
  /\ up
  /\ caller[r] = "waiting"
  /\ caller' = [caller EXCEPT ![r] = "cancelled"]
  /\ UNCHANGED <<up, cb, call, result, began, now>>

\* State, which GetStats calls, moves the breaker on as every operation does.
State ==
  /\ up
  /\ cb' = Current
  /\ UNCHANGED <<up, caller, call, result, began, now>>

Tick ==
  /\ up
  /\ now < MaxTime
  /\ now' = now + 1
  /\ UNCHANGED <<up, cb, caller, call, result, began>>

Next ==
  \/ \E r \in Reqs : \/ Enter(r)
                     \/ EnterDone(r)
                     \/ Admit(r)
                     \/ Refuse(r)
                     \/ \E o \in {"ok", "failed"} : End(r, o)
                     \/ Panic(r)
                     \/ Send(r)
                     \/ Receive(r)
                     \/ Cancel(r)
  \/ State
  \/ Tick

\* The goroutine of a call goes on, and the call ends.
Goes(r) == \/ Admit(r) \/ Refuse(r) \/ End(r, "ok") \/ End(r, "failed")
           \/ Panic(r) \/ Send(r)

Spec == Init /\ [][Next]_vars /\ \A r \in Reqs : WF_vars(Goes(r))
-----------------------------------------------------------------------------
\* The calls of the present generation that, after this step, have ended with o.
Evidence(o) == {r \in Reqs : began'[r] = cb.generation /\ result'[r] = o}

Trials == {r \in Reqs : began[r] = cb.generation /\ call[r] = "running"}

\* While half-open no more than MaxRequests trial calls are let through, and
\* none of these places is lost: each is held by a call that still runs,
\* whoever has given up waiting for it, or is a success that counts towards
\* closing, of which there are fewer than it takes.  So a breaker whose places
\* are all taken has a call running that will move it on.
TrialsBounded ==
  cb.state = "half-open" => /\ cb.requests <= MaxRequests
                            /\ cb.requests = Cardinality(Trials) + cb.successes
                            /\ cb.successes < MaxRequests

\* The breaker changes its state for what calls of the present generation
\* did: it opens after Threshold failures, or one while half-open, and closes
\* after MaxRequests successful trials; never for the late result of a call
\* that began before.
ChangesForCause ==
  [][/\ cb.state = "closed" /\ cb'.state # "closed" =>
          cb'.state = "open" /\ Cardinality(Evidence("failed")) >= Threshold
     /\ cb.state = "half-open" /\ cb'.state = "open" =>
          Evidence("failed") # {}
     /\ cb.state = "half-open" /\ cb'.state = "closed" =>
          Cardinality(Evidence("ok")) >= MaxRequests
     /\ cb.state = "open" => cb'.state # "closed"]_vars

\* The goroutine that ExecuteContext starts comes to its end, its caller
\* waiting or gone.
GoroutineEnds == \A r \in Reqs : call[r] = "spawned" ~> (call[r] = "done" \/ ~up)

\* A half-open breaker that has let all its trial calls through opens or
\* closes: no slot is lost to a caller that gave up.
HalfOpenResolves ==
  cb.state = "half-open" /\ cb.requests = MaxRequests ~> (cb.state # "half-open" \/ ~up)
=============================================================================
