--------------------------- MODULE HttpClientProofs ---------------------------
(***************************************************************************)
(* Proofs about HttpClient, for every number of calls and retries, every   *)
(* backoff and every breaker: a call with its retries is one use of the    *)
(* breaker, so what CircuitBreakerProofs proves of the breaker holds here, *)
(* and with it what the client promises on its own.                        *)
(***************************************************************************)
EXTENDS HttpClient, CircuitBreakerProofs

\* The attempts of a call agree with where it is, and its waits with Backoff.
Attempting ==
  \A r \in Reqs : /\ step[r] = "sending" => attempts[r] >= 1
                  /\ step[r] = "waiting" => attempts[r] \in 1..RetryMax
                  /\ step[r] = "waiting" /\ last[r] # "limited" =>
                       wait[r] \in RetryWaitMin..RetryWaitMax

HttpTypes ==
  /\ ended \subseteq Reqs
  /\ attempts \in [Reqs -> 0..(RetryMax + 1)]
  /\ step \in [Reqs -> {"idle", "sending", "waiting"}]
  /\ wait \in [Reqs -> Int]
  /\ last \in [Reqs -> {"none"} \cup Answers]

HInv == HttpTypes /\ Attempting

USE RetryAssumption, WaitAssumption, WordAssumption

\* Every step of the client is a step of the breaker or none at all.
LEMMA StepRefines == [ClientStep]_hvars => [Next]_vars
<1> SUFFICES ASSUME [ClientStep]_hvars PROVE Next \/ UNCHANGED vars
  OBVIOUS
<1>1. ASSUME NEW r \in Reqs, Works(r) PROVE Next \/ UNCHANGED vars
  <2>1. CASE FirstAttempt(r)
    BY <2>1 DEF FirstAttempt, Next
  <2>2. CASE Unreadable(r) \/ GiveUp(r)
    BY <2>2 DEF Unreadable, GiveUp, Next
  <2>3. CASE \E x \in Answers : Finish(r, x)
    <3>1. \E o \in {"ok", "failed"} : End(r, o)
      BY <2>3 DEF Finish
    <3> QED BY <3>1 DEF Next
  <2>4. CASE Overrun(r)
    BY <2>4 DEF Overrun, Next
  <2>5. CASE NextAttempt(r) \/ \E x \in Retryable : Again(r, x)
    BY <2>5 DEF NextAttempt, Again
  <2>6. CASE Refuse(r) \/ Send(r)
    BY <2>6 DEF Next
  <2> QED BY <1>1, <2>1, <2>2, <2>3, <2>4, <2>5, <2>6 DEF Works
<1>2. ASSUME NEW r \in Reqs, ContextEnds(r) PROVE UNCHANGED vars
  BY <1>2 DEF ContextEnds
<1>3. ASSUME NEW r \in Reqs, Do(r) \/ DoDone(r) \/ Leave(r) \/ Receive(r) PROVE Next
  BY <1>3 DEF Do, DoDone, Leave, Next
<1>4. ASSUME State \/ Tick PROVE Next
  BY <1>4 DEF Next
<1>5. ASSUME UNCHANGED hvars PROVE UNCHANGED vars
  BY <1>5 DEF hvars
<1> QED BY <1>1, <1>2, <1>3, <1>4, <1>5 DEF ClientStep

\* HttpClient implements CircuitBreaker: whatever the attempts, the waits and
\* the contexts do, the breaker sees one use of each call.
THEOREM Implements == HSpec => Init /\ [][Next]_vars
<1>1. HInit => Init
  BY DEF HInit
<1>2. [HNext]_<<hvars, load>> => [Next]_vars
  BY StepRefines DEF HNext
<1> QED BY <1>1, <1>2, PTL DEF HSpec

\* What is proved of the breaker is proved of the breaker under the client.
LEMMA BreakerInductive == HSpec => []IInv
<1>1. IInv /\ [Next]_vars => IInv'
  BY Step
<1> QED BY <1>1, TypeInit, Implements, PTL

\* Under the client too the breaker changes its state for cause and a half-open
\* one loses no place, whether a call answers, is retried, runs over or panics
\* and whether its caller is still there.
THEOREM BreakerKept == HSpec => []TrialsBounded /\ ChangesForCause
<1> DEFINE Cause ==
      /\ cb.state = "closed" /\ cb'.state # "closed" =>
           cb'.state = "open" /\ Cardinality(Evidence("failed")) >= Threshold
      /\ cb.state = "half-open" /\ cb'.state = "open" => Evidence("failed") # {}
      /\ cb.state = "half-open" /\ cb'.state = "closed" =>
           Cardinality(Evidence("ok")) >= MaxRequests
      /\ cb.state = "open" => cb'.state # "closed"
<1>1. IInv /\ [Next]_vars => [Cause]_vars
  BY Step DEF Because
<1>2. HSpec => []TrialsBounded
  BY PlacesHeld, BreakerInductive, PTL
<1>3. HSpec => [][Cause]_vars
  BY <1>1, BreakerInductive, Implements, PTL
<1> QED BY <1>2, <1>3 DEF ChangesForCause

\* A wait that Backoff chose by itself is within its bounds: it is neither
\* shrunk nor made negative by the width of a duration.
LEMMA BackoffBounded ==
  ASSUME NEW i \in 0..(RetryMax - 1), NEW x, NEW w \in Backoff(i, x)
  PROVE  w \in Int /\ (x # "limited" => w \in RetryWaitMin..RetryWaitMax)
<1> DEFINE d == RetryWaitMin * 2^i
<1>1. d \in RetryWaitMin..(Half - 1)
  OBVIOUS
<1> HIDE DEF d
<1>2. (d + Half) % (2 * Half) = d + Half
  <2>1. d + Half \in 0..(2 * Half - 1)
    BY <1>1
  <2> QED BY <2>1
<1>3. Exponential(i) = d
  BY <1>1, <1>2 DEF Exponential, d
<1> QED BY <1>1, <1>3 DEF Backoff

LEMMA HInitial == HInit => HInv
BY DEF HInit, HInv, HttpTypes, Attempting

LEMMA HStep == HttpTypes /\ Attempting /\ [ClientStep]_hvars => HInv'
<1> SUFFICES ASSUME HttpTypes, Attempting, [ClientStep]_hvars PROVE HInv'
  OBVIOUS
<1>1. ASSUME UNCHANGED http PROVE HInv'
  BY <1>1 DEF http, HInv, HttpTypes, Attempting
<1>2. ASSUME NEW r \in Reqs, ContextEnds(r) PROVE HInv'
  BY <1>2 DEF ContextEnds, HInv, HttpTypes, Attempting
<1>3. ASSUME NEW r \in Reqs, FirstAttempt(r) PROVE HInv'
  BY <1>3 DEF FirstAttempt, HInv, HttpTypes, Attempting
<1>4. ASSUME NEW r \in Reqs, Unreadable(r) PROVE HInv'
  BY <1>4 DEF Unreadable, HInv, HttpTypes, Attempting
<1>5. ASSUME NEW r \in Reqs, NEW x \in Retryable, Again(r, x) PROVE HInv'
  <2>1. attempts[r] \in 1..RetryMax
    BY <1>5 DEF Again, Retries, HttpTypes, Attempting
  <2>2. PICK w \in Backoff(attempts[r] - 1, x) : wait' = [wait EXCEPT ![r] = w]
    BY <1>5 DEF Again
  <2>3. w \in Int /\ (x # "limited" => w \in RetryWaitMin..RetryWaitMax)
    BY <2>1, BackoffBounded
  <2>4. x \in Answers
    BY DEF Answers
  <2>5. HttpTypes'
    BY <1>5, <2>2, <2>3, <2>4 DEF Again, HttpTypes
  <2>6. Attempting'
    BY <1>5, <2>1, <2>2, <2>3 DEF Again, HttpTypes, Attempting
  <2> QED BY <2>5, <2>6 DEF HInv
<1>6. ASSUME NEW r \in Reqs, NextAttempt(r) PROVE HInv'
  BY <1>6 DEF NextAttempt, HInv, HttpTypes, Attempting
<1>7. ASSUME NEW r \in Reqs, GiveUp(r) PROVE HInv'
  BY <1>7 DEF GiveUp, HInv, HttpTypes, Attempting
<1>8. ASSUME NEW r \in Reqs, NEW x \in Answers, Finish(r, x) PROVE HInv'
  BY <1>8 DEF Finish, HInv, HttpTypes, Attempting
<1>9. ASSUME NEW r \in Reqs, Overrun(r) PROVE HInv'
  BY <1>9 DEF Overrun, Answers, Successful, HInv, HttpTypes, Attempting
<1>10. ASSUME NEW r \in Reqs, Works(r) PROVE HInv'
  BY <1>1, <1>3, <1>4, <1>5, <1>6, <1>7, <1>8, <1>9, <1>10 DEF Works
<1>11. ASSUME NEW r \in Reqs, Do(r) \/ DoDone(r) \/ Leave(r) PROVE HInv'
  BY <1>1, <1>11 DEF Do, DoDone, Leave
<1> QED BY <1>1, <1>2, <1>10, <1>11 DEF ClientStep, hvars

LEMMA HInductive == HSpec => []HInv
<1>1. HInv /\ [HNext]_<<hvars, load>> => HInv'
  BY HStep DEF HInv, HNext
<1>2. HInit => HInv
  BY HInitial
<1> QED BY <1>1, <1>2, PTL DEF HSpec

LEMMA TimesMonotone ==
  ASSUME NEW a \in Nat, NEW b \in Nat, NEW c \in Nat, a <= b
  PROVE  a * c \in Nat /\ b * c \in Nat /\ a * c <= b * c
<1>1. PICK d \in Nat : b = a + d
  <2>1. b - a \in Nat /\ b = a + (b - a)
    OBVIOUS
  <2> QED BY <2>1
<1>2. b * c = a * c + d * c
  BY <1>1
<1>3. a * c \in Nat /\ d * c \in Nat
  OBVIOUS
<1> QED BY <1>2, <1>3

\* The waits between the attempts stay within the configured bounds, for every
\* number of retries the width of a duration has room for.
THEOREM Spaced == HSpec => []RetriesSpaced
<1>1. HInv => RetriesSpaced
  BY DEF HInv, Attempting, RetriesSpaced
<1> QED BY <1>1, HInductive, PTL

\* A half-open generation lasts until the breaker opens or closes.
Lasting == cb.state = "half-open" => cb.expiry = NoExpiry

LEMMA LastingStep ==
  ASSUME IInv, Lasting, [Next]_vars
  PROVE  /\ Lasting'
         /\ cb.state = "half-open" /\ cb'.state = "half-open" => cb'.generation = cb.generation
<1> DEFINE Goal == /\ Lasting'
                   /\ cb.state = "half-open" /\ cb'.state = "half-open" =>
                        cb'.generation = cb.generation
           B == [state : {"closed", "half-open", "open"}, generation : Nat \ {0},
                 requests : Nat, successes : Nat, failures : Nat,
                 expiry : {NoExpiry} \cup 0..(MaxTime + Interval + Timeout)]
           Stays(b) == /\ b.state = "half-open" => b.expiry = NoExpiry
                       /\ cb.state = "half-open" /\ b.state = "half-open" =>
                            b.generation = cb.generation
<1> SUFFICES Goal
  OBVIOUS
<1>1. \A s \in {"closed", "half-open", "open"}, g \in Nat \ {0} :
        NewGeneration(s, g, now).state = s
        /\ (s = "half-open" => NewGeneration(s, g, now).expiry = NoExpiry)
  BY DEF NewGeneration
<1>2. cb \in B /\ Current \in B
  BY CurrentOK DEF IInv, TypeOK, Breaker
<1>3. Stays(Current) /\ (cb.state = "half-open" => Current = cb)
  <2>1. CASE cb.state = "half-open"
    BY <1>2, <2>1 DEF Lasting, Current
  <2>2. CASE cb.state # "half-open"
    <3>1. cb.generation + 1 \in Nat \ {0}
      BY <1>2
    <3> QED BY <1>1, <1>2, <2>2, <3>1 DEF Current
  <2> QED BY <2>1, <2>2
<1>4. CASE cb' \in {cb, Current}
  BY <1>3, <1>4 DEF Lasting
<1>5. CASE cb' = [Current EXCEPT !.requests = @ + 1]
  <2>1. /\ cb'.state = Current.state /\ cb'.expiry = Current.expiry
        /\ cb'.generation = Current.generation
    BY <1>2, <1>5
  <2> QED BY <1>3, <2>1 DEF Lasting
<1>6. ASSUME NEW r \in Reqs, NEW o \in {"ok", "failed"}, cb' = Settle(r, o) PROVE Goal
  <2> DEFINE b == Current
             c == [b EXCEPT !.successes = @ + 1, !.failures = 0]
             d == [b EXCEPT !.failures = @ + 1, !.successes = 0]
  <2>1. \/ cb' = b
        \/ cb' = c \/ cb' = NewGeneration("closed", b.generation + 1, now)
        \/ b.state # "half-open" /\ cb' = d
        \/ cb' = NewGeneration("open", b.generation + 1, now)
    BY <1>6 DEF Settle, Succeed, Fail
  <2>2. b.generation + 1 \in Nat \ {0}
    BY <1>2
  <2>3. /\ c.state = b.state /\ c.expiry = b.expiry /\ c.generation = b.generation
        /\ d.state = b.state /\ d.expiry = b.expiry /\ d.generation = b.generation
    BY <1>2
  <2> HIDE DEF b, c, d
  <2>4. Stays(b)
    BY <1>3 DEF b
  <2> QED BY <1>1, <2>1, <2>2, <2>3, <2>4 DEF Lasting
<1>7. UNCHANGED vars => cb' = cb
  BY DEF vars
<1>8. ASSUME NEW r \in Reqs,
             Enter(r) \/ EnterDone(r) \/ Send(r) \/ Receive(r) \/ Cancel(r) \/ Tick
      PROVE  cb' = cb
  BY <1>8 DEF Enter, EnterDone, Send, Receive, Cancel, Tick
<1>9. ASSUME NEW r \in Reqs, Refuse(r) \/ State PROVE cb' = Current
  BY <1>9 DEF Refuse, State
<1>10. ASSUME NEW r \in Reqs, Admit(r) PROVE cb' = [Current EXCEPT !.requests = @ + 1]
  BY <1>10 DEF Admit
<1>11. ASSUME NEW r \in Reqs, NEW o \in {"ok", "failed"}, End(r, o) \/ Panic(r)
       PROVE  \E u \in {"ok", "failed"} : cb' = Settle(r, u)
  BY <1>11 DEF End, Panic
<1>12. (State => cb' = Current) /\ (Tick => cb' = cb)
  BY DEF State, Tick
<1> HIDE DEF Goal
<1>13. CASE Next
  <2>1. (\E r \in Reqs : \/ Enter(r) \/ EnterDone(r) \/ Admit(r) \/ Refuse(r)
                         \/ \E o \in {"ok", "failed"} : End(r, o)
                         \/ Panic(r) \/ Send(r) \/ Receive(r) \/ Cancel(r))
          \/ State \/ Tick
    BY <1>13, Zenon DEF Next
  <2> QED BY <1>4, <1>5, <1>6, <1>8, <1>9, <1>10, <1>11, <1>12, <2>1
<1> QED BY <1>4, <1>7, <1>13

\* The requests on record are those of a half-open breaker, each an attempt its
\* call has made; a first attempt among them is a trial call's.
OnRecord ==
  /\ load # {} => cb.state = "half-open"
  /\ \A r \in Reqs : /\ caller[r] = "new" \/ call[r] = "spawned" => attempts[r] = 0
                     /\ \A i \in Int : <<r, i>> \in load => i <= attempts[r]
                     /\ <<r, 1>> \in load => began[r] = cb.generation

LInv == IInv /\ HInv /\ Lasting /\ load \subseteq Reqs \X (1..(RetryMax + 1)) /\ OnRecord

\* A call is let through once, after it has been spawned, and neither that nor
\* its entry is ever undone.
LEMMA BeganOnce ==
  ASSUME IInv, [Next]_vars, NEW r \in Reqs, call[r] # "spawned"
  PROVE  began'[r] = began[r]
<1>1. UNCHANGED began \/ \E q \in Reqs : Admit(q)
  BY DEF Next, vars, Enter, EnterDone, Refuse, End, Panic, Send, Receive, Cancel, State, Tick
<1>2. ASSUME NEW q \in Reqs, Admit(q) PROVE began'[r] = began[r]
  <2>1. q # r
    BY <1>2 DEF Admit
  <2> QED BY <1>2, <2>1 DEF Admit, IInv, TypeOK
<1> QED BY <1>1, <1>2

LEMMA NotBack ==
  ASSUME IInv, [Next]_vars, NEW r \in Reqs, caller'[r] = "new" \/ call'[r] = "spawned"
  PROVE  caller[r] = "new" \/ call[r] = "spawned"
<1> USE DEF IInv, TypeOK
<1>1. ASSUME NEW q \in Reqs,
             Enter(q) \/ EnterDone(q) \/ Receive(q) \/ Cancel(q)
      PROVE  caller[r] = "new" \/ call[r] = "spawned"
  BY <1>1 DEF Enter, EnterDone, Receive, Cancel
<1>2. ASSUME NEW q \in Reqs, NEW o \in {"ok", "failed"},
             Admit(q) \/ Refuse(q) \/ End(q, o) \/ Panic(q) \/ Send(q)
      PROVE  caller[r] = "new" \/ call[r] = "spawned"
  BY <1>2 DEF Admit, Refuse, End, Panic, Send
<1>3. ASSUME State \/ Tick \/ UNCHANGED vars
      PROVE  caller[r] = "new" \/ call[r] = "spawned"
  BY <1>3 DEF State, Tick, vars
<1> QED BY <1>1, <1>2, <1>3 DEF Next

LEMMA LInitial == HInit => LInv
<1> SUFFICES ASSUME HInit PROVE LInv
  OBVIOUS
<1>1. IInv /\ HInv
  BY TypeInit, HInitial DEF HInit
<1>2. cb.state = "closed"
  BY DEF HInit, Init, NewGeneration
<1> QED BY <1>1, <1>2 DEF HInit, Init, LInv, Lasting, OnRecord

\* A request goes out with the first attempt of a call that is let through, or
\* with a later one of a call that waits.
LEMMA AttemptsMade ==
  ASSUME HInv, ClientStep \/ UNCHANGED hvars
  PROVE  \A r \in Reqs :
           \/ attempts'[r] = attempts[r]
           \/ Admit(r) /\ attempts'[r] = 1
           \/ attempts[r] \in 1..RetryMax /\ attempts'[r] = attempts[r] + 1
              /\ UNCHANGED vars
<1> USE DEF HInv, HttpTypes
<1>1. ASSUME UNCHANGED http PROVE UNCHANGED attempts
  BY <1>1 DEF http
<1>2. ASSUME NEW r \in Reqs, ContextEnds(r) \/ Do(r) \/ DoDone(r) \/ Leave(r)
      PROVE  UNCHANGED attempts
  BY <1>1, <1>2 DEF ContextEnds, Do, DoDone, Leave
<1>3. ASSUME NEW r \in Reqs, Works(r), attempts' # attempts
      PROVE  FirstAttempt(r) \/ NextAttempt(r)
  BY <1>1, <1>3 DEF Works, Unreadable, Again, GiveUp, Finish, Overrun
<1>4. ASSUME attempts' # attempts
      PROVE  \E r \in Reqs : FirstAttempt(r) \/ NextAttempt(r)
  BY <1>1, <1>2, <1>3, <1>4 DEF ClientStep, hvars, http
<1>5. CASE UNCHANGED attempts
  BY <1>5
<1>6. ASSUME NEW r \in Reqs, FirstAttempt(r)
      PROVE  Admit(r) /\ attempts'[r] = 1 /\ \A q \in Reqs : q # r => attempts'[q] = attempts[q]
  BY <1>6 DEF FirstAttempt
<1>7. ASSUME NEW r \in Reqs, NextAttempt(r)
      PROVE  /\ attempts[r] \in 1..RetryMax /\ attempts'[r] = attempts[r] + 1
             /\ UNCHANGED vars /\ \A q \in Reqs : q # r => attempts'[q] = attempts[q]
  BY <1>7 DEF NextAttempt, Attempting
<1> QED BY <1>4, <1>5, <1>6, <1>7

LEMMA LStep == LInv /\ [HNext]_<<hvars, load>> => LInv'
<1> SUFFICES ASSUME LInv, [HNext]_<<hvars, load>> PROVE LInv'
  OBVIOUS
<1>1. [ClientStep]_hvars /\ [Next]_vars
  BY StepRefines DEF HNext
<1>2. IInv' /\ HInv' /\ Lasting'
  BY <1>1, Step, HStep, LastingStep DEF LInv, HInv
<1>3. CASE UNCHANGED <<hvars, load>>
  BY <1>2, <1>3 DEF LInv, OnRecord, hvars, vars, http
<1>4. CASE HNext
  <2>1. \A r \in Reqs :
          \/ attempts'[r] = attempts[r]
          \/ Admit(r) /\ attempts'[r] = 1
          \/ attempts[r] \in 1..RetryMax /\ attempts'[r] = attempts[r] + 1 /\ UNCHANGED vars
    BY <1>4, AttemptsMade DEF HNext, LInv
  <2>2. attempts \in [Reqs -> 0..(RetryMax + 1)] /\ attempts' \in [Reqs -> 0..(RetryMax + 1)]
    BY <1>2 DEF LInv, HInv, HttpTypes
  <2>3. /\ cb'.state # "half-open" => load' = {}
        /\ load' \subseteq load \cup NewAttempts
        /\ cb.state # "half-open" => load' \subseteq NewAttempts
    BY <1>4 DEF HNext, Account
  <2>4. \A r \in Reqs, i \in Int :
          <<r, i>> \in NewAttempts => i = attempts'[r] /\ attempts'[r] # attempts[r]
    BY DEF NewAttempts
  <2>5. NewAttempts \subseteq Reqs \X (1..(RetryMax + 1))
    <3>1. \A r \in Reqs : attempts'[r] # attempts[r] => attempts'[r] \in 1..(RetryMax + 1)
      BY <2>1, <2>2
    <3> QED BY <3>1 DEF NewAttempts
  <2>6. load' \subseteq Reqs \X (1..(RetryMax + 1))
    BY <2>3, <2>5 DEF LInv
  <2>7. \A r \in Reqs : attempts[r] <= attempts'[r] \/ (Admit(r) /\ attempts[r] = 0)
    <3>1. \A r \in Reqs : Admit(r) => attempts[r] = 0
      BY DEF Admit, LInv, OnRecord
    <3> QED BY <2>1, <2>2, <3>1
  <2>8. ASSUME NEW r \in Reqs, NEW i \in Int, <<r, i>> \in load' PROVE i <= attempts'[r]
    <3>1. attempts[r] <= attempts'[r]
      BY <2>1, <2>2, <2>7
    <3>2. i <= attempts[r] \/ i = attempts'[r]
      BY <2>3, <2>4, <2>8 DEF LInv, OnRecord
    <3> QED BY <2>2, <3>1, <3>2
  <2>9. ASSUME NEW r \in Reqs, <<r, 1>> \in load' PROVE began'[r] = cb'.generation
    <3>1. CASE <<r, 1>> \in NewAttempts
      <4>1. attempts'[r] = 1 /\ attempts[r] # 1
        BY <2>4, <3>1
      <4>2. Admit(r)
        BY <2>1, <2>2, <4>1
      <4> QED BY <1>2, <4>2 DEF Admit, LInv, IInv, TypeOK, Breaker
    <3>2. CASE <<r, 1>> \notin NewAttempts
      <4>1. <<r, 1>> \in load /\ cb.state = "half-open" /\ cb'.state = "half-open"
        BY <2>3, <2>9, <3>2
      <4>2. began[r] = cb.generation /\ attempts[r] >= 1
        BY <2>2, <4>1 DEF LInv, OnRecord
      <4>3. cb'.generation = cb.generation
        BY <1>1, <4>1, LastingStep DEF LInv
      <4>4. call[r] # "spawned"
        <5>1. call[r] = "spawned" => attempts[r] = 0
          BY DEF LInv, OnRecord
        <5> QED BY <2>2, <4>2, <5>1
      <4>5. began'[r] = began[r]
        BY <1>1, <4>4, BeganOnce DEF LInv
      <4> QED BY <4>2, <4>3, <4>5
    <3> QED BY <3>1, <3>2
  <2>10. ASSUME NEW r \in Reqs, caller'[r] = "new" \/ call'[r] = "spawned"
         PROVE  attempts'[r] = 0
    <3>1. caller[r] = "new" \/ call[r] = "spawned"
      BY <1>1, <2>10, NotBack DEF LInv
    <3>2. attempts[r] = 0
      BY <3>1 DEF LInv, OnRecord
    <3>3. ~Admit(r)
      BY <2>10, <1>2 DEF Admit, LInv, IInv, TypeOK, Stages
    <3> QED BY <2>1, <3>2, <3>3
  <2>11. OnRecord'
    BY <2>3, <2>8, <2>9, <2>10 DEF OnRecord
  <2> QED BY <1>2, <2>6, <2>11 DEF LInv
<1> QED BY <1>3, <1>4

LEMMA LInductive == HSpec => []LInv
BY LInitial, LStep, PTL DEF HSpec

\* Every variable of the client and of its breaker keeps its type.
THEOREM HttpTypeCorrect == HSpec => []HttpTypeOK
<1>1. LInv => HttpTypeOK
  BY DEF LInv, IInv, HInv, HttpTypes, HttpTypeOK
<1> QED BY <1>1, LInductive, PTL

\* Half-open, the breaker lets MaxRequests calls through, none makes more than
\* RetryMax + 1 attempts, and a call that it let through before has made its
\* first one before.
THEOREM TrialLoadBounded == HSpec => []TrialLoad
<1>1. LInv => TrialLoad
  <2> SUFFICES ASSUME LInv, cb.state = "half-open"
               PROVE  Cardinality(load) <=
                        MaxRequests * (RetryMax + 1) + Cardinality(Late) * RetryMax
    BY DEF TrialLoad
  <2> DEFINE all == Begun(cb.generation)
             tries == 1..(RetryMax + 1)
             retries == 2..(RetryMax + 1)
  <2>1. /\ IsFiniteSet(all) /\ Cardinality(all) \in Nat
        /\ IsFiniteSet(Late) /\ Cardinality(Late) \in Nat
    BY Counting DEF Begun, Late
  <2>2. IsFiniteSet(tries) /\ Cardinality(tries) = RetryMax + 1
    <3>1. Cardinality(tries) = IF 1 <= RetryMax + 1 THEN (RetryMax + 1) - 1 + 1 ELSE 0
      BY FS_Interval
    <3> QED BY <3>1, FS_Interval
  <2>3. IsFiniteSet(retries) /\ Cardinality(retries) = RetryMax
    <3>1. Cardinality(retries) = IF 2 <= RetryMax + 1 THEN (RetryMax + 1) - 2 + 1 ELSE 0
      BY FS_Interval
    <3> QED BY <3>1, FS_Interval
  <2>4. /\ IsFiniteSet(all \X tries)
        /\ Cardinality(all \X tries) = Cardinality(all) * (RetryMax + 1)
    BY <2>1, <2>2, FS_Product
  <2>5. /\ IsFiniteSet(Late \X retries)
        /\ Cardinality(Late \X retries) = Cardinality(Late) * RetryMax
    BY <2>1, <2>3, FS_Product
  <2>6. load \subseteq (all \X tries) \cup (Late \X retries)
    <3> SUFFICES ASSUME NEW r \in Reqs, NEW i \in tries, <<r, i>> \in load
                 PROVE  <<r, i>> \in (all \X tries) \cup (Late \X retries)
      BY DEF LInv
    <3>1. CASE began[r] = cb.generation
      BY <3>1 DEF Begun
    <3>2. CASE began[r] # cb.generation
      <4>1. r \in Late
        BY <3>2 DEF Late
      <4>2. i # 1
        BY <3>2 DEF LInv, OnRecord
      <4> QED BY <4>1, <4>2
    <3> QED BY <3>1, <3>2
  <2>7. /\ Cardinality(load) \in Nat
        /\ Cardinality(load) <= Cardinality(all) * (RetryMax + 1) + Cardinality(Late) * RetryMax
    <3> HIDE DEF all, tries, retries
    <3> DEFINE A == all \X tries
               B == Late \X retries
    <3> HIDE DEF A, B
    <3>1. IsFiniteSet(A) /\ IsFiniteSet(B) /\ IsFiniteSet(A \cap B) /\ IsFiniteSet(A \cup B)
      BY <2>4, <2>5, FS_Subset, FS_Union DEF A, B
    <3>2. Cardinality(A \cup B) = Cardinality(A) + Cardinality(B) - Cardinality(A \cap B)
      BY <3>1, FS_Union
    <3>3. /\ Cardinality(A) \in Nat /\ Cardinality(B) \in Nat
          /\ Cardinality(A \cap B) \in Nat /\ Cardinality(A \cup B) \in Nat
      BY <3>1, FS_CardinalityType
    <3>4. load \subseteq A \cup B
      BY <2>6 DEF A, B
    <3>5. IsFiniteSet(load) /\ Cardinality(load) <= Cardinality(A \cup B)
      BY <3>1, <3>4, FS_Subset
    <3>6. Cardinality(load) \in Nat
      BY <3>5, FS_CardinalityType
    <3>7. Cardinality(load) <= Cardinality(A) + Cardinality(B)
      BY <3>2, <3>3, <3>5, <3>6
    <3> QED BY <2>4, <2>5, <3>6, <3>7 DEF A, B
  <2>8. Cardinality(all) <= MaxRequests
    BY DEF LInv, IInv, Counted
  <2>9. /\ Cardinality(all) * (RetryMax + 1) \in Nat
        /\ MaxRequests * (RetryMax + 1) \in Nat
        /\ Cardinality(all) * (RetryMax + 1) <= MaxRequests * (RetryMax + 1)
    <3>1. MaxRequests \in Nat /\ RetryMax + 1 \in Nat
      BY LimitsAssumption
    <3> HIDE DEF all
    <3> QED BY <2>1, <2>8, <3>1, TimesMonotone
  <2>10. Cardinality(Late) * RetryMax \in Nat
    BY <2>1, TimesMonotone
  <2> DEFINE few == Cardinality(all) * (RetryMax + 1)
             most == MaxRequests * (RetryMax + 1)
             more == Cardinality(Late) * RetryMax
  <2>11. /\ few \in Nat /\ most \in Nat /\ more \in Nat /\ few <= most
         /\ Cardinality(load) \in Nat /\ Cardinality(load) <= few + more
    BY <2>7, <2>9, <2>10
  <2> HIDE DEF all, tries, retries, few, most, more
  <2>12. Cardinality(load) <= most + more
    BY <2>11
  <2> QED BY <2>12 DEF most, more
<1> QED BY <1>1, LInductive, PTL
=============================================================================
