------------------------------ MODULE HttpClient ------------------------------
(***************************************************************************)
(* The HTTP client of the gateway (pkg/httpclient).  Do makes a call as    *)
(* one use of the circuit breaker; inside it retryablehttp makes up to     *)
(* RetryMax + 1 attempts, and waits between them.  The module adds the     *)
(* attempts, and the contexts the callers give, to CircuitBreaker: what    *)
(* the breaker sees of a call is its end.                                  *)
(***************************************************************************)
EXTENDS CircuitBreaker

CONSTANTS
  RetryMax,                    \* retries after the first attempt
  RetryWaitMin, RetryWaitMax,  \* bounds of the backoff
  RetryAfters,                 \* durations a Retry-After header may ask for
  Half                         \* durations are in -Half..(Half - 1): 2^63

ASSUME RetryAssumption == RetryMax \in Nat /\ RetryAfters \subseteq Int
ASSUME WaitAssumption ==
  /\ RetryWaitMin \in Nat /\ RetryWaitMax \in Nat /\ RetryWaitMin <= RetryWaitMax
\* Doubled for every retry, the least wait does not shrink or leave the word:
\* the configured three retries and waits of seconds are far from it.
ASSUME WordAssumption ==
  /\ Half \in Nat \ {0}
  /\ \A i \in 0..(RetryMax - 1) : RetryWaitMin * 2^i \in RetryWaitMin..(Half - 1)

VARIABLES
  ended,     \* the calls whose context has ended
  attempts,  \* how many attempts a call has made
  step,      \* of a call that runs: "sending", "waiting"; "idle" otherwise
  wait,      \* how long a call waits
  last       \* the answer a call waits after, or ended with

\* History: the requests sent while the breaker is half-open, and has been since
\* it last was not; each is a call and the number of its attempt.
VARIABLE load

http  == <<ended, attempts, step, wait, last>>
hvars == <<vars, http>>

\* 429; and 408, 5xx, a connection error or a timeout.
Retryable == {"limited", "unavailable"}

\* 2xx, by what the one Read of the body gives: bytes; the whole of it and EOF
\* with its last byte, as HTTP/1.1 does; or a panic, its length being unknown.
Successful == {"read", "whole", "unknown"}

\* "bad": any other status, or a body that cannot be read.
Answers == Retryable \cup Successful \cup {"bad"}

HttpTypeOK ==
  /\ TypeOK
  /\ ended \subseteq Reqs
  /\ attempts \in [Reqs -> 0..(RetryMax + 1)]
  /\ step \in [Reqs -> {"idle", "sending", "waiting"}]
  /\ wait \in [Reqs -> Int]
  /\ last \in [Reqs -> {"none"} \cup Answers]
  /\ load \subseteq Reqs \X (1..(RetryMax + 1))
-----------------------------------------------------------------------------
\* A faulty Exponential: a word one bit shorter.
ExponentialShort(i) == (RetryWaitMin * 2^i) % (Half \div 2)

\* min * time.Duration(1 << attemptNum), in the word of a duration.
Exponential(i) == ((RetryWaitMin * 2^i + Half) % (2 * Half)) - Half

\* What Backoff may return after the attempt with number i.
Backoff(i, x) ==
  {IF Exponential(i) > RetryWaitMax THEN RetryWaitMax ELSE Exponential(i)}
    \cup (IF x = "limited" THEN RetryAfters ELSE {})

\* A faulty Retries: the last attempt is retried too.
RetriesOnce(r, x) == r \notin ended /\ x \in Retryable /\ attempts[r] <= RetryMax + 1

\* CheckRetry says so, and an attempt is left.
Retries(r, x) == r \notin ended /\ x \in Retryable /\ attempts[r] <= RetryMax

HInit ==
  /\ Init
  /\ ended = {}
  /\ attempts = [r \in Reqs |-> 0]
  /\ step = [r \in Reqs |-> "idle"]
  /\ wait = [r \in Reqs |-> 0]
  /\ last = [r \in Reqs |-> "none"]
  /\ load = {}
-----------------------------------------------------------------------------
\* The context of a call is cancelled or runs out.
ContextEnds(r) ==
  /\ up
  /\ r \notin ended
  /\ caller[r] \in {"new", "waiting"}
  /\ ended' = ended \cup {r}
  /\ UNCHANGED <<vars, attempts, step, wait, last>>

Do(r)     == r \notin ended /\ Enter(r) /\ UNCHANGED http
DoDone(r) == r \in ended /\ EnterDone(r) /\ UNCHANGED http
Leave(r)  == r \in ended /\ Cancel(r) /\ UNCHANGED http

\* The breaker lets the call through: the first attempt.
FirstAttempt(r) ==
  /\ Admit(r)
  /\ attempts' = [attempts EXCEPT ![r] = 1]
  /\ step' = [step EXCEPT ![r] = "sending"]
  /\ UNCHANGED <<ended, wait, last>>

\* FromRequest cannot read the request's own body.
Unreadable(r) ==
  /\ step[r] = "sending" /\ attempts[r] = 1
  /\ End(r, "failed")
  /\ step' = [step EXCEPT ![r] = "idle"]
  /\ UNCHANGED <<ended, attempts, wait, last>>

\* A faulty Again: the breaker hears of every attempt that failed.
AgainCounted(r, x) ==
  /\ up
  /\ step[r] = "sending"
  /\ Retries(r, x)
  /\ step' = [step EXCEPT ![r] = "waiting"]
  /\ \E w \in Backoff(attempts[r] - 1, x) : wait' = [wait EXCEPT ![r] = w]
  /\ last' = [last EXCEPT ![r] = x]
  /\ cb' = Settle(r, "failed")
  /\ UNCHANGED <<up, caller, call, result, began, now, ended, attempts>>

\* An attempt is answered with x, to be tried again after a wait.
Again(r, x) ==
  /\ up
  /\ step[r] = "sending"
  /\ Retries(r, x)
  /\ step' = [step EXCEPT ![r] = "waiting"]
  /\ \E w \in Backoff(attempts[r] - 1, x) : wait' = [wait EXCEPT ![r] = w]
  /\ last' = [last EXCEPT ![r] = x]
  /\ UNCHANGED <<vars, ended, attempts>>

\* The wait is over.  It may be although the context has ended too: the select
\* takes either.
NextAttempt(r) ==
  /\ up
  /\ step[r] = "waiting"
  /\ attempts' = [attempts EXCEPT ![r] = @ + 1]
  /\ step' = [step EXCEPT ![r] = "sending"]
  /\ wait' = [wait EXCEPT ![r] = 0]
  /\ last' = [last EXCEPT ![r] = "none"]
  /\ UNCHANGED <<vars, ended>>

GiveUp(r) ==
  /\ step[r] = "waiting"
  /\ r \in ended
  /\ End(r, "failed")
  /\ step' = [step EXCEPT ![r] = "idle"]
  /\ wait' = [wait EXCEPT ![r] = 0]
  /\ last' = [last EXCEPT ![r] = "none"]
  /\ UNCHANGED <<ended, attempts>>

\* The last answer.  Only a body that Read returns without an error is a
\* success, and an answer that finds the context ended is a failure.
Finish(r, x) ==
  /\ step[r] = "sending"
  /\ ~Retries(r, x)
  /\ x = "unknown" => r \in ended
  /\ End(r, IF x = "read" /\ r \notin ended THEN "ok" ELSE "failed")
  /\ step' = [step EXCEPT ![r] = "idle"]
  /\ last' = [last EXCEPT ![r] = x]
  /\ UNCHANGED <<ended, attempts, wait>>

\* make([]byte, -1) panics, in the goroutine of the breaker's wrapper.
Overrun(r) ==
  /\ step[r] = "sending"
  /\ r \notin ended
  /\ Panic(r)
  /\ step' = [step EXCEPT ![r] = "idle"]
  /\ last' = [last EXCEPT ![r] = "unknown"]
  /\ UNCHANGED <<ended, attempts, wait>>

Works(r) ==
  \/ FirstAttempt(r)
  \/ Refuse(r) /\ UNCHANGED http
  \/ Unreadable(r)
  \/ \E x \in Retryable : Again(r, x)
  \/ NextAttempt(r)
  \/ GiveUp(r)
  \/ \E x \in Answers : Finish(r, x)
  \/ Overrun(r)
  \/ Send(r) /\ UNCHANGED http

ClientStep ==
  \/ \E r \in Reqs : \/ ContextEnds(r)
                     \/ Do(r)
                     \/ DoDone(r)
                     \/ Leave(r)
                     \/ Works(r)
                     \/ Receive(r) /\ UNCHANGED http
  \/ State /\ UNCHANGED http
  \/ Tick /\ UNCHANGED http

NewAttempts == {<<r, attempts'[r]>> : r \in {q \in Reqs : attempts'[q] # attempts[q]}}

\* The history, whatever the step.
Account ==
  load' = IF cb'.state # "half-open" THEN {}
          ELSE IF cb.state = "half-open" THEN load \cup NewAttempts
          ELSE NewAttempts

HNext == ClientStep /\ Account

\* An attempt ends (the client has a timeout) and so does a wait.
HSpec == HInit /\ [][HNext]_<<hvars, load>> /\ \A r \in Reqs : WF_hvars(Works(r))
-----------------------------------------------------------------------------
\* To the breaker a call is one use, whatever its attempts, waits and the end of
\* its context come to: the client implements CircuitBreaker, fairness included,
\* and the breaker's properties are its own.
OneUsePerCall == Spec

\* Between two attempts the client waits for RetryWaitMin at least and for
\* RetryWaitMax at most, unless the server asked for something else.
RetriesSpaced ==
  \A r \in Reqs : step[r] = "waiting" /\ last[r] # "limited" =>
                    wait[r] \in RetryWaitMin..RetryWaitMax

\* The calls of earlier generations that have sent one of these.
Late == {r \in Reqs : began[r] # cb.generation /\ \E i \in 1..(RetryMax + 1) : <<r, i>> \in load}

\* A server on trial gets all attempts of the trial calls (a trial is a call with
\* its retries, not a request), and beside them only retries of calls that were
\* let through before and go on, their callers waiting or not: the breaker keeps
\* new calls away from it, and no more.
TrialLoad ==
  cb.state = "half-open" =>
    Cardinality(load) <= MaxRequests * (RetryMax + 1) + Cardinality(Late) * RetryMax
=============================================================================
