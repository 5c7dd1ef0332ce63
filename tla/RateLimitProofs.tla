--------------------------- MODULE RateLimitProofs ---------------------------
(***************************************************************************)
(* Proofs about RateLimit, for every number of gateways and requests,      *)
(* every rate, every window length and every delay of up to a window.      *)
(***************************************************************************)
EXTENDS RateLimit, FiniteSetTheorems, TLAPS

\* A time lies in the window its quotient names, and quotients keep order.
LEMMA DivWindow ==
  ASSUME NEW w \in Nat \ {0}, NEW t \in Nat
  PROVE  /\ t \div w \in Nat
         /\ (t \div w) * w <= t
         /\ t < (t \div w) * w + w
  OBVIOUS

LEMMA DivMonotone ==
  ASSUME NEW w \in Nat \ {0}, NEW t \in Nat, NEW m \in Nat, t <= m
  PROVE  t \div w <= m \div w
<1> DEFINE q == t \div w
           p == m \div w
<1>1. q \in Nat /\ p \in Nat /\ q * w <= t /\ m < p * w + w
  BY DivWindow
<1> HIDE DEF q, p
<1>2. q * w < (p + 1) * w
  BY <1>1
<1>3. ~(p + 1 <= q)
  BY <1>1, <1>2
<1> QED BY <1>1, <1>3 DEF q, p

\* The parts of the invariant.  A counter is dead when the second window after
\* its own has begun: nothing can be waiting to increment it any more.
Dead(k) == now >= (k[2] + 2) * WindowLen

SinceOK == \A r \in Reqs : /\ since[r] <= now
                           /\ pc[r] = "count" => now <= since[r] + MaxDelay

\* No key expires before it is dead.
TTLOK == \A k \in Keys : ttl[k] # NoTTL => ttl[k] >= (k[2] + 2) * WindowLen

\* What was let through is still in the counter for as long as it matters.
CounterOK == \A k \in Keys : Cardinality(passed[k]) <= counter[k] \/ Dead(k)

FiniteOK == \A k \in Keys : IsFiniteSet(passed[k])

IInv == TypeOK /\ SinceOK /\ TTLOK /\ FiniteOK /\ CounterOK /\ WindowBudget

USE RequestAssumption, RateAssumption, TimeAssumption, DelayAssumption

\* The key a request names exists in the model.
LEMMA KeyType ==
  ASSUME TypeOK, NEW r \in Reqs
  PROVE  /\ Key(r) \in Keys
         /\ Key(r)[1] = tier[r]
         /\ Key(r)[2] = since[r] \div WindowLen
<1>1. since[r] \in 0..MaxTime /\ tier[r] \in Tiers
  BY DEF TypeOK
<1>2. since[r] \div WindowLen \in Windows
  BY <1>1, DivWindow, DivMonotone DEF Windows
<1> QED BY <1>1, <1>2 DEF Key, Keys

\* Taking a token keeps the bucket and the request in their types.
LEMMA AnswerType ==
  ASSUME TypeOK, NEW r \in Reqs, NEW ok \in BOOLEAN, Answer(r, ok)
  PROVE  /\ pc' \in [Reqs -> {"new", "check", "count", "expire",
                              "served", "refused", "dropped"}]
         /\ tier' \in [Reqs -> Tiers]
         /\ since' \in [Reqs -> 0..MaxTime]
         /\ retries' \in [Reqs -> 0..MaxRetries]
<1>1. 0 \in 0..MaxTime /\ 0 \in 0..MaxRetries
  OBVIOUS
<1>2. since' \in [Reqs -> 0..MaxTime] /\ retries' \in [Reqs -> 0..MaxRetries]
  BY <1>1 DEF TypeOK, Answer
<1>3. tier' \in [Reqs -> Tiers]
  BY DEF TypeOK, Answer, Tiers
<1>4. pc' \in [Reqs -> {"new", "check", "count", "expire", "served", "refused", "dropped"}]
  BY DEF TypeOK, Answer
<1> QED BY <1>2, <1>3, <1>4

LEMMA TokenType ==
  ASSUME TypeOK, NEW r \in Reqs, TakeToken(r)
  PROVE  /\ pc' \in [Reqs -> {"new", "check", "count", "expire",
                              "served", "refused", "dropped"}]
         /\ tier' \in [Reqs -> Tiers]
         /\ since' \in [Reqs -> 0..MaxTime]
         /\ retries' \in [Reqs -> 0..MaxRetries]
         /\ bucket' \in [Gateways \X Tiers -> 0..Burst]
<1> DEFINE b  == <<At[r], tier[r]>>
           ok == bucket[b] > 0
<1>1. b \in Gateways \X Tiers
  BY DEF TypeOK
<1>2. bucket[b] \in 0..Burst /\ ok \in BOOLEAN
  BY <1>1 DEF TypeOK
<1>3. /\ Answer(r, ok)
      /\ bucket' = [bucket EXCEPT ![b] = IF ok THEN @ - 1 ELSE 0]
  BY DEF TakeToken
<1>4. bucket' \in [Gateways \X Tiers -> 0..Burst]
  BY <1>1, <1>2, <1>3 DEF TypeOK
<1> HIDE DEF ok
<1> QED BY <1>2, <1>3, <1>4, AnswerType

LEMMA TypeInit == Init => TypeOK
<1>1. \A t \in Tiers : BucketSize(t) \in 0..Burst
  BY DEF BucketSize
<1>2. Init => bucket \in [Gateways \X Tiers -> 0..Burst]
  BY <1>1 DEF Init
<1>3. 0 \in 0..MaxTime /\ 0 \in 0..MaxRetries /\ 0 \in Nat
  OBVIOUS
<1> QED BY <1>2, <1>3 DEF Init, TypeOK, Tiers

LEMMA TypeStep == TypeOK /\ [Next]_vars => TypeOK'
<1> SUFFICES ASSUME TypeOK, [Next]_vars PROVE TypeOK'
  OBVIOUS
<1> USE DEF redis, local
<1>1. ASSUME NEW r \in Reqs, Arrive(r) PROVE TypeOK'
  BY <1>1 DEF Arrive, TypeOK
<1>2. ASSUME NEW r \in Reqs, AllowLocal(r) PROVE TypeOK'
  BY <1>2, TokenType DEF AllowLocal, TypeOK
<1>3. ASSUME NEW r \in Reqs, NameKey(r) PROVE TypeOK'
  BY <1>3 DEF NameKey, TypeOK
<1>4. ASSUME NEW r \in Reqs, Incr(r) PROVE TypeOK'
  <2> DEFINE k == Key(r)
             n == counter[k] + 1
  <2>1. k \in Keys
    BY KeyType
  <2> HIDE DEF k
  <2>2. n \in Nat /\ Within(n, tier[r]) \in BOOLEAN
    BY <2>1 DEF TypeOK, Within
  <2>3. counter' \in [Keys -> Nat] /\ passed' \in [Keys -> SUBSET Reqs]
    BY <1>4, <2>1, <2>2 DEF Incr, First, TypeOK, k
  <2>4. CASE n = 1
    BY <1>4, <2>3, <2>4 DEF Incr, First, TypeOK, k
  <2>5. CASE n # 1
    <3>1. Answer(r, Within(n, tier[r]))
      BY <1>4, <2>5 DEF Incr, First, k
    <3> QED BY <1>4, <2>2, <2>3, <3>1, AnswerType DEF Incr, TypeOK
  <2> QED BY <2>4, <2>5
<1>5. ASSUME NEW r \in Reqs, IncrLost(r) PROVE TypeOK'
  <2>1. Key(r) \in Keys
    BY KeyType
  <2> QED BY <1>5, <2>1 DEF IncrLost, TypeOK
<1>6. ASSUME NEW r \in Reqs, IncrFails(r) PROVE TypeOK'
  BY <1>6, TokenType DEF IncrFails, TypeOK
<1>7. ASSUME NEW r \in Reqs, Expire(r) PROVE TypeOK'
  <2>1. Key(r) \in Keys /\ now + TTL \in 0..(MaxTime + TTL)
    BY KeyType DEF TypeOK, TTL
  <2>2. Within(1, tier[r]) \in BOOLEAN
    BY DEF Within
  <2> QED BY <1>7, <2>1, <2>2, AnswerType DEF Expire, TypeOK
<1>8. ASSUME NEW r \in Reqs, ExpireFails(r) PROVE TypeOK'
  <2>1. Key(r) \in Keys
    BY KeyType
  <2>2. Within(1, tier[r]) \in BOOLEAN
    BY DEF Within
  <2> QED BY <1>8, <2>1, <2>2, AnswerType DEF ExpireFails, TypeOK
<1>9. ASSUME NEW g \in Gateways, Crash(g) PROVE TypeOK'
  <2>1. \A t \in Tiers : BucketSize(t) \in 0..Burst
    BY DEF BucketSize
  <2>2. bucket' \in [Gateways \X Tiers -> 0..Burst]
    BY <1>9, <2>1 DEF Crash, TypeOK
  <2>3. faulted' \subseteq Keys
    BY <1>9, KeyType DEF Crash, TypeOK
  <2> QED BY <1>9, <2>2, <2>3 DEF Crash, TypeOK
<1>10. CASE Tick
  <2>1. \A n \in 0..Burst, t \in Tiers : Refill(n, t) \in 0..Burst
    BY DEF Refill, BucketSize
  <2>2. bucket' \in [Gateways \X Tiers -> 0..Burst]
    BY <1>10, <2>1 DEF Tick, TypeOK
  <2> QED BY <1>10, <2>2 DEF Tick, TypeOK
<1>11. CASE UNCHANGED vars
  BY <1>11 DEF vars, TypeOK
<1> QED
  BY <1>1, <1>2, <1>3, <1>4, <1>5, <1>6, <1>7, <1>8, <1>9, <1>10, <1>11 DEF Next

\* The values never leave their types: every key that a request names is one
\* of the finitely many windows, and no bucket holds more than a burst.
THEOREM TypeCorrect == Spec => []TypeOK
BY TypeInit, TypeStep, PTL DEF Spec
-----------------------------------------------------------------------------
\* While a request waits to increment a counter the counter is not dead.
LEMMA WaitingAlive ==
  ASSUME TypeOK, SinceOK, NEW r \in Reqs, pc[r] = "count"
  PROVE  ~Dead(Key(r))
<1> DEFINE q == since[r] \div WindowLen
<1>1. since[r] \in Nat /\ now \in Nat /\ now <= since[r] + MaxDelay
  BY DEF TypeOK, SinceOK
<1>2. q \in Nat /\ since[r] < q * WindowLen + WindowLen
  BY <1>1, DivWindow
<1>3. Key(r)[2] = q
  BY KeyType
<1> HIDE DEF q
<1>4. (q + 2) * WindowLen = q * WindowLen + 2 * WindowLen
  BY <1>2
<1> QED BY <1>1, <1>2, <1>3, <1>4 DEF Dead

\* What the bookkeeping of a check may do to the time it was named.
SinceMoves(r) ==
  \/ since'[r] = since[r] /\ (pc'[r] = "count" => pc[r] = "count")
  \/ since'[r] = now
  \/ since'[r] = 0 /\ pc'[r] # "count"

LEMMA AnswerMoves ==
  ASSUME TypeOK, NEW r \in Reqs, NEW ok \in BOOLEAN, Answer(r, ok)
  PROVE  \A q \in Reqs : SinceMoves(q)
BY DEF TypeOK, Answer, SinceMoves

LEMMA TokenMoves ==
  ASSUME TypeOK, NEW r \in Reqs, TakeToken(r)
  PROVE  \A q \in Reqs : SinceMoves(q)
<1> DEFINE ok == bucket[<<At[r], tier[r]>>] > 0
<1>1. <<At[r], tier[r]>> \in Gateways \X Tiers
  BY DEF TypeOK
<1>2. ok \in BOOLEAN
  BY <1>1 DEF TypeOK
<1>3. Answer(r, ok)
  BY DEF TakeToken
<1> HIDE DEF ok
<1> QED BY <1>2, <1>3, AnswerMoves

LEMMA SinceStep ==
  ASSUME IInv, TypeOK', now' = now, \A r \in Reqs : SinceMoves(r)
  PROVE  SinceOK'
<1> SUFFICES ASSUME NEW r \in Reqs
             PROVE  /\ since'[r] <= now
                    /\ pc'[r] = "count" => now <= since'[r] + MaxDelay
  BY DEF SinceOK
<1> QED BY DEF IInv, TypeOK, SinceOK, SinceMoves

\* Steps that change no counter and no expiry.
LEMMA RequestStep ==
  ASSUME IInv, TypeOK', UNCHANGED <<counter, ttl, passed, now>>,
         \A r \in Reqs : SinceMoves(r)
  PROVE  IInv'
<1>1. SinceOK'
  BY SinceStep
<1>2. TTLOK' /\ FiniteOK' /\ CounterOK' /\ WindowBudget'
  BY DEF IInv, TTLOK, FiniteOK, CounterOK, WindowBudget, Dead, Limit
<1> QED BY <1>1, <1>2 DEF IInv

\* The counter is alive, so it has counted everything that was let through.
LEMMA IncrStep ==
  ASSUME IInv, TypeOK', NEW r \in Reqs, Incr(r)
  PROVE  IInv'
<1> DEFINE k == Key(r)
           n == counter[k] + 1
<1>1. k \in Keys /\ k[1] = tier[r] /\ ~Dead(k)
  BY KeyType, WaitingAlive DEF IInv, Incr
<1> HIDE DEF k
<1>2. /\ counter' = [counter EXCEPT ![k] = n]
      /\ passed' = [passed EXCEPT ![k] = IF Within(n, tier[r]) THEN @ \cup {r} ELSE @]
      /\ UNCHANGED <<ttl, now>>
  BY DEF Incr, First, k
<1>3. \A q \in Reqs : SinceMoves(q)
  <2>1. CASE n = 1
    BY <2>1 DEF Incr, First, k, SinceMoves, IInv, TypeOK
  <2>2. CASE n # 1
    <3>1. Answer(r, Within(n, tier[r])) /\ Within(n, tier[r]) \in BOOLEAN
      BY <2>2 DEF Incr, First, k, Within
    <3> QED BY <3>1, AnswerMoves DEF IInv
  <2> QED BY <2>1, <2>2
<1>4. SinceOK'
  BY <1>2, <1>3, SinceStep
<1>5. TTLOK'
  BY <1>2 DEF IInv, TTLOK
<1> DEFINE m == Cardinality(passed[k])
<1>6. IsFiniteSet(passed[k]) /\ m <= counter[k] /\ counter[k] \in Nat /\ m \in Nat
  BY <1>1, FS_CardinalityType DEF IInv, FiniteOK, CounterOK, TypeOK
<1>7. /\ IsFiniteSet(passed'[k])
      /\ Cardinality(passed'[k]) <= counter'[k]
      /\ Cardinality(passed'[k]) <= Limit(tier[r])
  <2>1. counter'[k] = counter[k] + 1
    BY <1>1, <1>2 DEF IInv, TypeOK
  <2>2. Limit(tier[r]) \in Nat /\ m <= Limit(tier[r])
    BY <1>1 DEF IInv, TypeOK, Limit, WindowBudget
  <2>3. CASE Within(n, tier[r])
    <3>1. passed'[k] = passed[k] \cup {r}
      BY <1>1, <1>2, <2>3 DEF IInv, TypeOK
    <3>2. IsFiniteSet(passed'[k]) /\ Cardinality(passed'[k]) \in {m, m + 1}
      BY <1>6, <3>1, FS_AddElement
    <3>3. counter[k] + 1 <= Limit(tier[r])
      BY <2>3 DEF Within
    <3> QED BY <1>6, <2>1, <2>2, <3>2, <3>3
  <2>4. CASE ~Within(n, tier[r])
    <3>1. passed'[k] = passed[k]
      BY <1>1, <1>2, <2>4 DEF IInv, TypeOK
    <3> QED BY <1>6, <2>1, <2>2, <3>1
  <2> QED BY <2>3, <2>4
<1>8. CounterOK'
  BY <1>2, <1>7 DEF IInv, TypeOK, CounterOK, Dead
<1>9. WindowBudget'
  BY <1>1, <1>2, <1>7 DEF IInv, TypeOK, WindowBudget, Limit
<1>10. FiniteOK'
  BY <1>2, <1>7 DEF IInv, TypeOK, FiniteOK
<1> QED BY <1>4, <1>5, <1>8, <1>9, <1>10 DEF IInv

LEMMA IncrLostStep ==
  ASSUME IInv, TypeOK', NEW r \in Reqs, IncrLost(r)
  PROVE  IInv'
<1>1. SinceOK'
  BY SinceStep DEF IncrLost, SinceMoves
<1>2. TTLOK' /\ FiniteOK' /\ WindowBudget'
  BY DEF IncrLost, IInv, TTLOK, FiniteOK, WindowBudget, Limit
<1>3. CounterOK'
  <2> SUFFICES ASSUME NEW k \in Keys PROVE Cardinality(passed[k]) <= counter'[k] \/ Dead(k)
    BY DEF CounterOK, IncrLost, Dead
  <2>1. counter'[k] >= counter[k] /\ counter[k] \in Nat /\ counter'[k] \in Nat
    BY DEF IncrLost, IInv, TypeOK
  <2>2. Cardinality(passed[k]) \in Nat
    BY FS_CardinalityType DEF IInv, FiniteOK
  <2> QED BY <2>1, <2>2 DEF IInv, CounterOK
<1> QED BY <1>1, <1>2, <1>3 DEF IInv

\* Two windows from now end no earlier than two windows from the key's own.
LEMMA ExpireStep ==
  ASSUME IInv, TypeOK', NEW r \in Reqs, Expire(r)
  PROVE  IInv'
<1>1. SinceOK'
  <2>1. Within(1, tier[r]) \in BOOLEAN
    BY DEF Within
  <2> QED BY <2>1, AnswerMoves, SinceStep DEF Expire, IInv
<1>2. TTLOK'
  <2> DEFINE q == since[r] \div WindowLen
  <2>1. Key(r) \in Keys /\ Key(r)[2] = q
    BY KeyType DEF IInv
  <2>2. q \in Nat /\ q * WindowLen <= since[r] /\ since[r] <= now /\ since[r] \in Nat
    <3>1. since[r] \in Nat /\ since[r] <= now
      BY DEF IInv, TypeOK, SinceOK
    <3> QED BY <3>1, DivWindow
  <2> HIDE DEF q
  <2>3. (q + 2) * WindowLen = q * WindowLen + 2 * WindowLen
    BY <2>2
  <2>4. now + TTL >= (q + 2) * WindowLen
    BY <2>2, <2>3 DEF TTL, IInv, TypeOK
  <2> QED BY <2>1, <2>4 DEF Expire, IInv, TypeOK, TTLOK
<1>3. FiniteOK' /\ CounterOK' /\ WindowBudget'
  BY DEF Expire, IInv, FiniteOK, CounterOK, WindowBudget, Dead, Limit
<1> QED BY <1>1, <1>2, <1>3 DEF IInv

\* Only dead counters expire, and no waiting request outlasts its delay.
LEMMA TickStep ==
  ASSUME IInv, TypeOK', Tick
  PROVE  IInv'
<1>0. now \in Nat /\ now' = now + 1
  BY DEF Tick, IInv, TypeOK
<1>1. SinceOK'
  <2> SUFFICES ASSUME NEW r \in Reqs
               PROVE  /\ since[r] <= now + 1
                      /\ pc[r] = "count" => now + 1 <= since[r] + MaxDelay
    BY DEF SinceOK, Tick
  <2> QED BY DEF Tick, IInv, TypeOK, SinceOK
<1>2. TTLOK'
  BY DEF Tick, IInv, TTLOK
<1>3. CounterOK'
  <2> SUFFICES ASSUME NEW k \in Keys PROVE Cardinality(passed[k]) <= counter'[k] \/ Dead(k)'
    BY DEF CounterOK, Tick
  <2>0. (k[2] + 2) * WindowLen \in Int
    BY DEF Keys, Windows
  <2>1. CASE Expired(k, now + 1)
    BY <1>0, <2>0, <2>1 DEF Expired, IInv, TTLOK, TypeOK, Dead
  <2>2. CASE ~Expired(k, now + 1)
    BY <1>0, <2>0, <2>2 DEF Tick, IInv, CounterOK, Dead
  <2> QED BY <2>1, <2>2
<1>4. FiniteOK' /\ WindowBudget'
  BY DEF Tick, IInv, FiniteOK, WindowBudget, Limit
<1> QED BY <1>1, <1>2, <1>3, <1>4 DEF IInv

LEMMA IInvInit == Init => IInv
<1> SUFFICES ASSUME Init PROVE IInv
  OBVIOUS
<1>1. TypeOK
  BY TypeInit
<1>2. SinceOK /\ TTLOK /\ FiniteOK /\ CounterOK
  BY FS_EmptySet DEF Init, SinceOK, TTLOK, FiniteOK, CounterOK
<1>3. \A k \in Keys : Limit(k[1]) \in Nat
  BY DEF Limit, Keys
<1>4. WindowBudget
  BY <1>3, FS_EmptySet DEF Init, WindowBudget
<1> QED BY <1>1, <1>2, <1>4 DEF IInv

LEMMA IInvStep == IInv /\ [Next]_vars => IInv'
<1> SUFFICES ASSUME IInv, [Next]_vars PROVE IInv'
  OBVIOUS
<1>0. TypeOK /\ TypeOK'
  BY TypeStep DEF IInv
<1> USE DEF redis, local
<1>1. ASSUME NEW r \in Reqs, Arrive(r) PROVE IInv'
  BY <1>0, <1>1, RequestStep DEF Arrive, SinceMoves, TypeOK
<1>2. ASSUME NEW r \in Reqs, AllowLocal(r) PROVE IInv'
  BY <1>0, <1>2, TokenMoves, RequestStep DEF AllowLocal
<1>3. ASSUME NEW r \in Reqs, NameKey(r) PROVE IInv'
  BY <1>0, <1>3, RequestStep DEF NameKey, SinceMoves, TypeOK
<1>4. ASSUME NEW r \in Reqs, Incr(r) PROVE IInv'
  BY <1>0, <1>4, IncrStep
<1>5. ASSUME NEW r \in Reqs, IncrLost(r) PROVE IInv'
  BY <1>0, <1>5, IncrLostStep
<1>6. ASSUME NEW r \in Reqs, IncrFails(r) PROVE IInv'
  BY <1>0, <1>6, TokenMoves, RequestStep DEF IncrFails
<1>7. ASSUME NEW r \in Reqs, Expire(r) PROVE IInv'
  BY <1>0, <1>7, ExpireStep
<1>8. ASSUME NEW r \in Reqs, ExpireFails(r) PROVE IInv'
  <2>1. Within(1, tier[r]) \in BOOLEAN
    BY DEF Within
  <2> QED BY <1>0, <1>8, <2>1, AnswerMoves, RequestStep DEF ExpireFails
<1>9. ASSUME NEW g \in Gateways, Crash(g) PROVE IInv'
  BY <1>0, <1>9, RequestStep DEF Crash, SinceMoves, TypeOK
<1>10. CASE Tick
  BY <1>0, <1>10, TickStep
<1>11. CASE UNCHANGED vars
  BY <1>0, <1>11, RequestStep DEF vars, SinceMoves
<1> QED
  BY <1>1, <1>2, <1>3, <1>4, <1>5, <1>6, <1>7, <1>8, <1>9, <1>10, <1>11 DEF Next

\* No window lets more through than its limit, over all gateways, however the
\* checks, the clock, the key expiries, crashes and lost replies interleave,
\* as long as a check waits for its increment no longer than a window.
THEOREM Budget == Spec => []WindowBudget
<1>1. IInv => WindowBudget
  BY DEF IInv
<1> QED BY IInvInit, IInvStep, <1>1, PTL DEF Spec
-----------------------------------------------------------------------------
\* A step in which every request about to set an expiry stays so, and no
\* counter appears or loses its expiry.
LEMMA LeakQuiet ==
  ASSUME OnlyFaultsLeak, counter' = counter, ttl' = ttl, faulted \subseteq faulted',
         \A r \in Reqs : pc[r] = "expire" =>
           \/ pc'[r] = "expire" /\ Key(r)' = Key(r)
           \/ Key(r) \in faulted'
  PROVE  OnlyFaultsLeak'
BY DEF OnlyFaultsLeak

LEMMA AnswerOthers ==
  ASSUME TypeOK, NEW r \in Reqs, NEW ok, Answer(r, ok),
         NEW q \in Reqs, q # r, pc[q] = "expire"
  PROVE  pc'[q] = "expire" /\ Key(q)' = Key(q)
<1>1. pc'[q] = pc[q] /\ tier'[q] = tier[q] /\ since'[q] = since[q]
  BY DEF Answer, TypeOK
<1> QED BY <1>1 DEF Key

LEMMA LeakIncr ==
  ASSUME TypeOK, OnlyFaultsLeak, NEW r \in Reqs, Incr(r)
  PROVE  OnlyFaultsLeak'
<1> DEFINE k == Key(r)
           n == counter[k] + 1
<1>1. k \in Keys
  BY KeyType
<1>2. counter[k] \in Nat
  BY <1>1 DEF TypeOK
<1>3. /\ counter' = [counter EXCEPT ![k] = n]
      /\ UNCHANGED <<ttl, faulted>>
  BY DEF Incr
<1>4. ASSUME NEW q \in Reqs, q # r, pc[q] = "expire"
      PROVE  pc'[q] = "expire" /\ Key(q)' = Key(q)
  <2>1. CASE n = 1
    BY <1>4, <2>1 DEF Incr, First, TypeOK, Key
  <2>2. CASE n # 1
    BY <1>4, <2>2, AnswerOthers DEF Incr, First
  <2> QED BY <2>1, <2>2
<1>5. pc[r] = "count"
  BY DEF Incr
<1>6. n = 1 => pc'[r] = "expire" /\ Key(r)' = k
  BY DEF Incr, First, TypeOK, Key
<1> SUFFICES ASSUME NEW j \in Keys, counter'[j] > 0, ttl'[j] = NoTTL, j \notin faulted'
             PROVE  \E q \in Reqs : pc'[q] = "expire" /\ Key(q)' = j
  BY DEF OnlyFaultsLeak
<1> HIDE DEF k
<1>7. CASE j = k /\ n = 1
  BY <1>6, <1>7
<1>8. CASE ~(j = k /\ n = 1)
  <2>1. counter[j] > 0
    BY <1>1, <1>2, <1>3, <1>8 DEF TypeOK
  <2>2. PICK q \in Reqs : pc[q] = "expire" /\ Key(q) = j
    BY <1>3, <2>1 DEF OnlyFaultsLeak
  <2> QED BY <1>4, <1>5, <2>2
<1> QED BY <1>7, <1>8

LEMMA LeakStep == TypeOK /\ OnlyFaultsLeak /\ [Next]_vars => OnlyFaultsLeak'
<1> SUFFICES ASSUME TypeOK, OnlyFaultsLeak, [Next]_vars PROVE OnlyFaultsLeak'
  OBVIOUS
<1> USE DEF redis, local
<1>1. ASSUME NEW r \in Reqs, Arrive(r) PROVE OnlyFaultsLeak'
  BY <1>1, LeakQuiet DEF Arrive, TypeOK, Key
<1>2. ASSUME NEW r \in Reqs, AllowLocal(r) PROVE OnlyFaultsLeak'
  BY <1>2, AnswerOthers, LeakQuiet DEF AllowLocal, TakeToken
<1>3. ASSUME NEW r \in Reqs, NameKey(r) PROVE OnlyFaultsLeak'
  BY <1>3, LeakQuiet DEF NameKey, TypeOK, Key
<1>4. ASSUME NEW r \in Reqs, Incr(r) PROVE OnlyFaultsLeak'
  BY <1>4, LeakIncr
<1>5. ASSUME NEW r \in Reqs, IncrLost(r) PROVE OnlyFaultsLeak'
  <2> SUFFICES ASSUME NEW j \in Keys, counter'[j] > 0, ttl[j] = NoTTL, j \notin faulted'
               PROVE  \E q \in Reqs : pc'[q] = "expire" /\ Key(q)' = j
    BY <1>5 DEF OnlyFaultsLeak, IncrLost
  <2>1. counter[j] > 0 /\ j \notin faulted
    BY <1>5, KeyType DEF IncrLost, TypeOK
  <2>2. PICK q \in Reqs : pc[q] = "expire" /\ Key(q) = j
    BY <2>1 DEF OnlyFaultsLeak
  <2> QED BY <1>5, <2>2 DEF IncrLost, Key
<1>6. ASSUME NEW r \in Reqs, IncrFails(r) PROVE OnlyFaultsLeak'
  BY <1>6, AnswerOthers, LeakQuiet DEF IncrFails, TakeToken
<1>7. ASSUME NEW r \in Reqs, Expire(r) PROVE OnlyFaultsLeak'
  <2> SUFFICES ASSUME NEW j \in Keys, counter[j] > 0, ttl'[j] = NoTTL, j \notin faulted
               PROVE  \E q \in Reqs : pc'[q] = "expire" /\ Key(q)' = j
    BY <1>7 DEF OnlyFaultsLeak, Expire
  <2>1. ttl[j] = NoTTL /\ j # Key(r)
    <3>1. now + TTL # NoTTL
      BY DEF TypeOK, TTL, NoTTL
    <3> QED BY <1>7, <3>1 DEF Expire, TypeOK
  <2>2. PICK q \in Reqs : pc[q] = "expire" /\ Key(q) = j
    BY <2>1 DEF OnlyFaultsLeak
  <2> QED BY <1>7, <2>1, <2>2, AnswerOthers DEF Expire
<1>8. ASSUME NEW r \in Reqs, ExpireFails(r) PROVE OnlyFaultsLeak'
  BY <1>8, AnswerOthers, LeakQuiet DEF ExpireFails
<1>9. ASSUME NEW g \in Gateways, Crash(g) PROVE OnlyFaultsLeak'
  BY <1>9, LeakQuiet DEF Crash, Key, TypeOK, InFlight
<1>10. CASE Tick
  BY <1>10 DEF Tick, OnlyFaultsLeak, Key, Expired, TypeOK
<1>11. CASE UNCHANGED vars
  BY <1>11 DEF vars, OnlyFaultsLeak, Key
<1> QED
  BY <1>1, <1>2, <1>3, <1>4, <1>5, <1>6, <1>7, <1>8, <1>9, <1>10, <1>11 DEF Next

\* A counter without an expiry has a request about to set it, or a fault came
\* between its first increment and that call: no interleaving alone leaks one.
THEOREM NoLeak == Spec => []OnlyFaultsLeak
<1>1. Init => OnlyFaultsLeak
  BY DEF Init, OnlyFaultsLeak
<1> QED BY <1>1, TypeCorrect, LeakStep, PTL DEF Spec
-----------------------------------------------------------------------------
\* What a gateway has let through uncounted, and what its bucket still holds,
\* came from its starts and from the rate; and who sets an expiry has been counted.
Earned(g, t) == starts[g] * BucketSize(t) + Rate[t] * now

BucketsOK ==
  \A g \in Gateways, t \in Tiers :
    /\ IsFiniteSet(Uncounted(g, t))
    /\ Cardinality(Uncounted(g, t)) + bucket[<<g, t>>] <= Earned(g, t)

ExpireOK ==
  \A r \in Reqs : pc[r] = "expire" /\ Within(1, tier[r]) => r \in passed[Key(r)]

LEMMA BucketNat ==
  ASSUME NEW t \in Tiers
  PROVE  BucketSize(t) \in Nat /\ Rate[t] \in Nat
BY DEF BucketSize, Tiers

LEMMA EarnedType ==
  ASSUME TypeOK, NEW g \in Gateways, NEW t \in Tiers
  PROVE  Earned(g, t) \in Nat
<1>1. starts[g] \in Nat /\ now \in Nat
  BY DEF TypeOK
<1> QED BY <1>1, BucketNat DEF Earned

\* An answer clears nobody but its request, and only for the tier that was checked.
LEMMA AnswerClears ==
  ASSUME TypeOK, NEW r \in Reqs, NEW ok \in BOOLEAN, Answer(r, ok),
         NEW q \in Reqs, NEW t \in Tiers, Cleared(q, t)'
  PROVE  Cleared(q, t) \/ (ok /\ q = r /\ t = tier[r])
BY DEF TypeOK, Answer, Cleared, Tiers

\* Who was counted stays counted.
LEMMA CountedStays ==
  ASSUME NEW g \in Gateways, NEW t \in Tiers, \A k \in Keys : passed[k] \subseteq passed'[k],
         \A q \in Reqs : Cleared(q, t)' => Cleared(q, t) \/ \E k \in Keys : k[1] = t /\ q \in passed'[k]
  PROVE  Uncounted(g, t)' \subseteq Uncounted(g, t)
BY DEF Uncounted

LEMMA QuietBudget ==
  ASSUME TypeOK, BucketsOK, UNCHANGED <<local, now>>,
         \A g \in Gateways, t \in Tiers : Uncounted(g, t)' \subseteq Uncounted(g, t)
  PROVE  BucketsOK'
<1> SUFFICES ASSUME NEW g \in Gateways, NEW t \in Tiers
             PROVE  /\ IsFiniteSet(Uncounted(g, t)')
                    /\ Cardinality(Uncounted(g, t)') + bucket'[<<g, t>>] <= Earned(g, t)'
  BY DEF BucketsOK
<1> DEFINE U == Uncounted(g, t)
           V == Uncounted(g, t)'
<1>1. IsFiniteSet(U) /\ V \in SUBSET U /\ Cardinality(U) + bucket[<<g, t>>] <= Earned(g, t)
  BY DEF BucketsOK
<1> HIDE DEF U, V
<1>2. IsFiniteSet(V) /\ Cardinality(V) <= Cardinality(U)
  BY <1>1, FS_Subset
<1>3. Cardinality(U) \in Nat /\ Cardinality(V) \in Nat
  BY <1>1, <1>2, FS_CardinalityType
<1>4. bucket[<<g, t>>] \in Nat /\ bucket' = bucket
  BY DEF TypeOK, local
<1>5. Earned(g, t)' = Earned(g, t) /\ Earned(g, t) \in Nat
  BY EarnedType DEF Earned, BucketSize, local
<1> QED BY <1>1, <1>2, <1>3, <1>4, <1>5 DEF V

\* A token that is taken is one request let through.
LEMMA TokenBudget ==
  ASSUME TypeOK, BucketsOK, NEW r \in Reqs, TakeToken(r), UNCHANGED <<passed, starts, now>>
  PROVE  BucketsOK'
<1> DEFINE c  == <<At[r], tier[r]>>
           ok == bucket[c] > 0
<1>1. c \in Gateways \X Tiers /\ ok \in BOOLEAN
  BY DEF TypeOK
<1>2. Answer(r, ok) /\ bucket' = [bucket EXCEPT ![c] = IF ok THEN @ - 1 ELSE 0]
  BY DEF TakeToken
<1> SUFFICES ASSUME NEW g \in Gateways, NEW t \in Tiers
             PROVE  /\ IsFiniteSet(Uncounted(g, t)')
                    /\ Cardinality(Uncounted(g, t)') + bucket'[<<g, t>>] <= Earned(g, t)'
  BY DEF BucketsOK
<1> DEFINE U == Uncounted(g, t)
           V == Uncounted(g, t)'
           b == bucket[<<g, t>>]
<1>3. \A q \in Reqs : Cleared(q, t)' => Cleared(q, t) \/ (ok /\ q = r /\ t = tier[r])
  BY <1>1, <1>2, AnswerClears
<1>4. IsFiniteSet(U) /\ Cardinality(U) + b <= Earned(g, t)
  BY DEF BucketsOK
<1>5. Earned(g, t)' = Earned(g, t) /\ Earned(g, t) \in Nat
  BY EarnedType DEF Earned, BucketSize
<1>6. b \in Nat /\ Cardinality(U) \in Nat
  BY <1>4, FS_CardinalityType DEF TypeOK
<1>7. CASE ok /\ <<g, t>> = c
  <2>1. V \in SUBSET (U \cup {r})
    BY <1>3 DEF Uncounted
  <2>2. bucket'[<<g, t>>] = b - 1 /\ b > 0
    BY <1>1, <1>2, <1>7 DEF TypeOK
  <2> HIDE DEF U, V, b
  <2>3. IsFiniteSet(U \cup {r}) /\ Cardinality(U \cup {r}) \in {Cardinality(U), Cardinality(U) + 1}
    BY <1>4, FS_AddElement
  <2>4. IsFiniteSet(V) /\ Cardinality(V) <= Cardinality(U \cup {r})
    BY <2>1, <2>3, FS_Subset
  <2>5. Cardinality(V) \in Nat
    BY <2>4, FS_CardinalityType
  <2> QED BY <1>4, <1>5, <1>6, <2>2, <2>3, <2>4, <2>5 DEF V
<1>8. CASE ~(ok /\ <<g, t>> = c)
  <2>1. V \in SUBSET U
    BY <1>3, <1>8 DEF Uncounted
  <2>2. bucket'[<<g, t>>] = b
    BY <1>1, <1>2, <1>8 DEF TypeOK
  <2> HIDE DEF U, V, b
  <2>3. IsFiniteSet(V) /\ Cardinality(V) <= Cardinality(U)
    BY <1>4, <2>1, FS_Subset
  <2>4. Cardinality(V) \in Nat
    BY <2>3, FS_CardinalityType
  <2> QED BY <1>4, <1>5, <1>6, <2>2, <2>3, <2>4 DEF V
<1> QED BY <1>7, <1>8

\* A gateway that starts again has earned a bucketful in each tier.
LEMMA CrashBudget ==
  ASSUME TypeOK, BucketsOK, NEW h \in Gateways, Crash(h)
  PROVE  BucketsOK'
<1> SUFFICES ASSUME NEW g \in Gateways, NEW t \in Tiers
             PROVE  /\ IsFiniteSet(Uncounted(g, t)')
                    /\ Cardinality(Uncounted(g, t)') + bucket'[<<g, t>>] <= Earned(g, t)'
  BY DEF BucketsOK
<1> DEFINE U == Uncounted(g, t)
           V == Uncounted(g, t)'
           b == bucket[<<g, t>>]
           z == BucketSize(t)
           m == starts[g]
           e == Rate[t] * now
<1>1. /\ now' = now /\ passed' = passed /\ tier' = tier
      /\ starts' = [starts EXCEPT ![h] = @ + 1]
      /\ bucket'[<<g, t>>] = IF g = h THEN z ELSE b
      /\ \A q \in Reqs : pc'[q] = "served" => pc[q] = "served"
  BY DEF Crash
<1>2. V \in SUBSET U
  BY <1>1, CountedStays DEF Cleared
<1>3. IsFiniteSet(U) /\ Cardinality(U) + b <= m * z + e
  BY DEF BucketsOK, Earned
<1>4. b \in Nat /\ z \in Nat /\ m \in Nat /\ e \in Nat
  <2>1. now \in Nat /\ Rate[t] \in Nat
    BY BucketNat DEF TypeOK
  <2> QED BY <2>1, BucketNat DEF TypeOK
<1>5. Earned(g, t)' = starts'[g] * z + e
  BY <1>1 DEF Earned, BucketSize
<1>6. starts'[g] = IF g = h THEN m + 1 ELSE m
  BY <1>1 DEF TypeOK
<1> HIDE DEF U, V, b, z, m, e
<1>7. IsFiniteSet(V) /\ Cardinality(V) <= Cardinality(U)
  BY <1>2, <1>3, FS_Subset
<1>8. Cardinality(U) \in Nat /\ Cardinality(V) \in Nat
  BY <1>3, <1>7, FS_CardinalityType
<1>9. (m + 1) * z = m * z + z /\ m * z \in Nat
  BY <1>4
<1> QED BY <1>1, <1>3, <1>4, <1>5, <1>6, <1>7, <1>8, <1>9 DEF V

\* A tick adds to a bucket no more than it earns.
LEMMA TickBudget ==
  ASSUME TypeOK, BucketsOK, Tick
  PROVE  BucketsOK'
<1> SUFFICES ASSUME NEW g \in Gateways, NEW t \in Tiers
             PROVE  /\ IsFiniteSet(Uncounted(g, t)')
                    /\ Cardinality(Uncounted(g, t)') + bucket'[<<g, t>>] <= Earned(g, t)'
  BY DEF BucketsOK
<1> DEFINE U == Uncounted(g, t)
           v == Rate[t]
           b == bucket[<<g, t>>]
           a == starts[g] * BucketSize(t)
<1>1. now' = now + 1 /\ starts' = starts /\ bucket'[<<g, t>>] = Refill(b, t)
  BY DEF Tick
<1>2. Uncounted(g, t)' = U
  BY DEF Tick, Uncounted, Cleared
<1>3. IsFiniteSet(U) /\ Cardinality(U) + b <= a + v * now
  BY DEF BucketsOK, Earned
<1>4. v \in Nat /\ now \in Nat /\ b \in Nat /\ BucketSize(t) \in Nat /\ starts[g] \in Nat
  BY BucketNat DEF TypeOK
<1>5. bucket'[<<g, t>>] <= b + v /\ bucket'[<<g, t>>] \in Nat
  BY <1>1, <1>4 DEF Refill
<1>6. Earned(g, t)' = a + v * (now + 1)
  BY <1>1 DEF Earned, BucketSize
<1>7. a \in Nat
  BY <1>4
<1> HIDE DEF U, v, b, a
<1>8. Cardinality(U) \in Nat
  BY <1>3, FS_CardinalityType
<1>9. v * (now + 1) = v * now + v /\ v * now \in Nat
  BY <1>4
<1> QED BY <1>2, <1>3, <1>4, <1>5, <1>6, <1>7, <1>8, <1>9

\* What Incr has counted it clears, now or when the expiry has been set.
LEMMA IncrBudget ==
  ASSUME TypeOK, ExpireOK, BucketsOK, NEW r \in Reqs, Incr(r)
  PROVE  ExpireOK' /\ BucketsOK'
<1> DEFINE k  == Key(r)
           n  == counter[k] + 1
           ok == Within(n, tier[r])
<1>1. k \in Keys /\ k[1] = tier[r] /\ ok \in BOOLEAN
  BY KeyType DEF Within
<1>2. /\ passed' = [passed EXCEPT ![k] = IF ok THEN @ \cup {r} ELSE @]
      /\ UNCHANGED <<local, now>>
      /\ pc[r] = "count"
  BY DEF Incr
<1>3. CASE n = 1
  <2>1. pc' = [pc EXCEPT ![r] = "expire"] /\ UNCHANGED <<tier, since>>
    BY <1>3 DEF Incr, First
  <2>2. \A q \in Reqs : Key(q)' = Key(q)
    BY <2>1 DEF Key
  <2>3. ExpireOK'
    BY <1>1, <1>2, <1>3, <2>1, <2>2 DEF ExpireOK, TypeOK, Within, Limit
  <2>4. \A q \in Reqs, t \in Tiers : Cleared(q, t)' => Cleared(q, t)
    BY <1>2, <2>1 DEF Cleared, TypeOK
  <2> HIDE DEF k, n, ok
  <2>5. \A j \in Keys : passed[j] \subseteq passed'[j]
    BY <1>1, <1>2 DEF TypeOK
  <2> QED BY <1>2, <2>3, <2>4, <2>5, CountedStays, QuietBudget
<1>4. CASE n # 1
  <2>1. Answer(r, ok)
    BY <1>4 DEF Incr, First
  <2>2. ExpireOK'
    <3> SUFFICES ASSUME NEW q \in Reqs, pc'[q] = "expire", Within(1, tier[q])'
                 PROVE  (q \in passed[Key(q)])'
      BY DEF ExpireOK
    <3>1. q # r
      BY <2>1 DEF Answer, TypeOK
    <3>2. pc[q] = "expire" /\ tier'[q] = tier[q] /\ since'[q] = since[q]
      BY <2>1, <3>1 DEF Answer, TypeOK
    <3>3. q \in passed[Key(q)] /\ Key(q)' = Key(q)
      <4>1. Within(1, tier[q])
        BY <3>2 DEF Within, Limit
      <4> QED BY <3>2, <4>1 DEF ExpireOK, Key
    <3> HIDE DEF k, n, ok
    <3> QED BY <1>1, <1>2, <3>3, KeyType DEF TypeOK
  <2> HIDE DEF k, n, ok
  <2>3. ok => r \in passed'[k]
    BY <1>1, <1>2 DEF TypeOK
  <2>4. \A q \in Reqs, t \in Tiers :
          Cleared(q, t)' => Cleared(q, t) \/ \E j \in Keys : j[1] = t /\ q \in passed'[j]
    BY <1>1, <2>1, <2>3, AnswerClears
  <2>5. \A j \in Keys : passed[j] \subseteq passed'[j]
    BY <1>1, <1>2 DEF TypeOK
  <2> QED BY <1>2, <2>2, <2>4, <2>5, CountedStays, QuietBudget
<1> QED BY <1>3, <1>4

\* The request that sets the expiry was counted before.
LEMMA ExpireBudget ==
  ASSUME TypeOK, ExpireOK, BucketsOK, NEW r \in Reqs, Expire(r) \/ ExpireFails(r)
  PROVE  ExpireOK' /\ BucketsOK'
<1>1. /\ pc[r] = "expire" /\ Answer(r, Within(1, tier[r]))
      /\ UNCHANGED <<passed, local, now>> /\ Within(1, tier[r]) \in BOOLEAN
  BY DEF Expire, ExpireFails, Within
<1>2. Key(r) \in Keys /\ Key(r)[1] = tier[r]
  BY KeyType
<1>3. Within(1, tier[r]) => r \in passed'[Key(r)]
  BY <1>1 DEF ExpireOK
<1>4. \A q \in Reqs, t \in Tiers :
        Cleared(q, t)' => Cleared(q, t) \/ \E j \in Keys : j[1] = t /\ q \in passed'[j]
  BY <1>1, <1>2, <1>3, AnswerClears
<1>5. BucketsOK'
  BY <1>1, <1>4, CountedStays, QuietBudget
<1>6. ExpireOK'
  <2> SUFFICES ASSUME NEW q \in Reqs, pc'[q] = "expire", Within(1, tier[q])'
               PROVE  (q \in passed[Key(q)])'
    BY DEF ExpireOK
  <2>1. q # r
    BY <1>1 DEF Answer, TypeOK
  <2>2. pc[q] = "expire" /\ tier'[q] = tier[q] /\ since'[q] = since[q]
    BY <1>1, <2>1 DEF Answer, TypeOK
  <2>3. Within(1, tier[q]) /\ Key(q)' = Key(q)
    BY <2>2 DEF Within, Limit, Key
  <2> QED BY <1>1, <2>2, <2>3 DEF ExpireOK
<1> QED BY <1>5, <1>6

LEMMA TokenExpire ==
  ASSUME TypeOK, ExpireOK, NEW r \in Reqs, TakeToken(r), passed' = passed
  PROVE  ExpireOK'
BY DEF TakeToken, Answer, ExpireOK, TypeOK, Key, Within, Limit

LEMMA BudgetStep ==
  TypeOK /\ ExpireOK /\ BucketsOK /\ [Next]_vars => ExpireOK' /\ BucketsOK'
<1> SUFFICES ASSUME TypeOK, ExpireOK, BucketsOK, [Next]_vars PROVE ExpireOK' /\ BucketsOK'
  OBVIOUS
<1>1. ASSUME NEW r \in Reqs, Arrive(r) \/ NameKey(r) \/ IncrLost(r)
      PROVE  ExpireOK' /\ BucketsOK'
  <2>1. /\ UNCHANGED <<passed, local, now, tier>>
        /\ pc[r] # "expire" /\ pc'[r] # "expire"
        /\ pc' \in {pc, [pc EXCEPT ![r] = "check"], [pc EXCEPT ![r] = "count"]}
        /\ since' \in {since, [since EXCEPT ![r] = now]}
    BY <1>1 DEF Arrive, NameKey, IncrLost, redis, TypeOK
  <2>2. ExpireOK'
    BY <2>1 DEF ExpireOK, TypeOK, Key, Within, Limit
  <2>3. \A q \in Reqs, t \in Tiers : Cleared(q, t)' => Cleared(q, t)
    BY <2>1 DEF Cleared, TypeOK
  <2> QED BY <2>1, <2>2, <2>3, CountedStays, QuietBudget
<1>2. ASSUME NEW r \in Reqs, AllowLocal(r) \/ IncrFails(r) PROVE ExpireOK' /\ BucketsOK'
  <2>1. TakeToken(r) /\ UNCHANGED <<passed, starts, now>>
    BY <1>2 DEF AllowLocal, IncrFails, redis
  <2> QED BY <2>1, TokenBudget, TokenExpire
<1>3. ASSUME NEW r \in Reqs, Incr(r) PROVE ExpireOK' /\ BucketsOK'
  BY <1>3, IncrBudget
<1>4. ASSUME NEW r \in Reqs, Expire(r) \/ ExpireFails(r) PROVE ExpireOK' /\ BucketsOK'
  BY <1>4, ExpireBudget
<1>5. ASSUME NEW g \in Gateways, Crash(g) PROVE ExpireOK' /\ BucketsOK'
  <2>1. ExpireOK'
    BY <1>5 DEF Crash, ExpireOK, TypeOK, Key, InFlight, Within, Limit
  <2> QED BY <1>5, <2>1, CrashBudget
<1>6. CASE Tick
  <2>1. ExpireOK'
    BY <1>6 DEF Tick, ExpireOK, Key, Within, Limit
  <2> QED BY <1>6, <2>1, TickBudget
<1>7. CASE UNCHANGED vars
  <2>1. ExpireOK'
    BY <1>7 DEF vars, redis, ExpireOK, Key, Within, Limit
  <2>2. \A q \in Reqs, t \in Tiers : Cleared(q, t)' => Cleared(q, t)
    BY <1>7 DEF vars, Cleared
  <2> QED BY <1>7, <2>1, <2>2, CountedStays, QuietBudget DEF vars, redis
<1> QED BY <1>1, <1>2, <1>3, <1>4, <1>5, <1>6, <1>7 DEF Next

\* However Redis fails and gateways restart, a gateway lets through, outside of the
\* windows' budgets, no more than the rate and one bucketful for every start.
THEOREM Fallback == Spec => []FallbackBudget
<1>1. Init => ExpireOK /\ BucketsOK
  <2> SUFFICES ASSUME Init, NEW g \in Gateways, NEW t \in Tiers
               PROVE  /\ IsFiniteSet(Uncounted(g, t))
                      /\ Cardinality(Uncounted(g, t)) + bucket[<<g, t>>] <= Earned(g, t)
    BY DEF Init, ExpireOK, BucketsOK
  <2>1. Uncounted(g, t) = {}
    BY DEF Init, Uncounted, Cleared
  <2>2. bucket[<<g, t>>] = BucketSize(t) /\ starts[g] = 1 /\ now = 0
    BY DEF Init
  <2>3. BucketSize(t) \in Nat /\ Rate[t] \in Nat
    BY BucketNat
  <2>4. Earned(g, t) = BucketSize(t)
    BY <2>2, <2>3 DEF Earned
  <2> QED BY <2>1, <2>2, <2>3, <2>4, FS_EmptySet
<1>2. TypeOK /\ BucketsOK => FallbackBudget
  <2> SUFFICES ASSUME TypeOK, BucketsOK, NEW g \in Gateways, NEW t \in Tiers
               PROVE  Cardinality(Uncounted(g, t)) <= Earned(g, t)
    BY DEF FallbackBudget, Earned
  <2>1. /\ IsFiniteSet(Uncounted(g, t)) /\ bucket[<<g, t>>] \in Nat
        /\ Cardinality(Uncounted(g, t)) + bucket[<<g, t>>] <= Earned(g, t)
    BY DEF TypeOK, BucketsOK
  <2>2. Cardinality(Uncounted(g, t)) \in Nat
    BY <2>1, FS_CardinalityType
  <2> QED BY <2>1, <2>2, EarnedType
<1> QED BY <1>1, <1>2, TypeCorrect, BudgetStep, PTL DEF Spec
=============================================================================
