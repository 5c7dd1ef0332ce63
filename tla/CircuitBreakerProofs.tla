------------------------- MODULE CircuitBreakerProofs -------------------------
(***************************************************************************)
(* Proofs about CircuitBreaker, for every number of uses, every threshold  *)
(* and every timing.                                                       *)
(***************************************************************************)
EXTENDS CircuitBreaker, FiniteSetTheorems, TLAPS

Begun(g)    == {r \in Reqs : began[r] = g}
Ended(g, o) == {r \in Reqs : began[r] = g /\ result[r] = o}

\* The counts of b are counts of calls that began in its generation, and only
\* so many of them were let through while half-open.  No success of a half-open
\* breaker is forgotten, and a failure would have opened it.
Counted(b) ==
  /\ b.requests = Cardinality(Begun(b.generation))
  /\ b.failures <= Cardinality(Ended(b.generation, "failed"))
  /\ b.successes <= Cardinality(Ended(b.generation, "ok"))
  /\ b.state = "half-open" => b.requests <= MaxRequests
  /\ b.state = "open" => b.requests = 0
  /\ b.state = "half-open" =>
       /\ b.successes = Cardinality(Ended(b.generation, "ok"))
       /\ b.successes < MaxRequests
       /\ Ended(b.generation, "failed") = {}

Stages ==
  \A r \in Reqs : /\ began[r] <= cb.generation
                  /\ caller[r] = "new" => call[r] = "none"
                  /\ call[r] \in {"none", "spawned"} => began[r] = 0
                  /\ call[r] \in {"none", "spawned", "running"} => result[r] = "none"
                  /\ began[r] # 0 /\ call[r] # "running" => result[r] \in {"ok", "failed"}

IInv == TypeOK /\ Stages /\ Counted(cb)

USE ReqsAssumption, LimitsAssumption, TimeAssumption

LEMMA Counting ==
  ASSUME NEW S, S \subseteq Reqs
  PROVE  IsFiniteSet(S) /\ Cardinality(S) \in Nat
BY FS_Subset, FS_CardinalityType

\* What a new generation is, for every state it may start in.
LEMMA NewType ==
  ASSUME NEW s \in {"closed", "half-open", "open"}, NEW g \in Nat \ {0},
         NEW t \in 0..MaxTime
  PROVE  /\ NewGeneration(s, g, t) \in Breaker
         /\ NewGeneration(s, g, t).state = s
         /\ NewGeneration(s, g, t).generation = g
         /\ NewGeneration(s, g, t).requests = 0
         /\ NewGeneration(s, g, t).successes = 0
         /\ NewGeneration(s, g, t).failures = 0
<1>1. CASE s = "closed"
  BY <1>1 DEF NewGeneration, Breaker
<1>2. CASE s = "open"
  BY <1>2 DEF NewGeneration, Breaker
<1>3. CASE s = "half-open"
  BY <1>3 DEF NewGeneration, Breaker
<1> QED BY <1>1, <1>2, <1>3

\* No call has begun in a generation that is still to come.
LEMMA NewCounted ==
  ASSUME TypeOK, Stages, NEW s \in {"closed", "half-open", "open"}
  PROVE  /\ Counted(NewGeneration(s, cb.generation + 1, now))
         /\ UNCHANGED began /\ cb' = NewGeneration(s, cb.generation + 1, now)
              => Counted(cb)'
<1> DEFINE g == cb.generation + 1
           n == NewGeneration(s, g, now)
<1>1. cb.generation \in Nat \ {0} /\ g \in Nat \ {0} /\ now \in 0..MaxTime
  BY DEF TypeOK, Breaker
<1>2. \A r \in Reqs : began[r] # g
  BY <1>1 DEF Stages, TypeOK
<1>3. Begun(g) = {} /\ Ended(g, "ok") = {} /\ Ended(g, "failed") = {}
  BY <1>2 DEF Begun, Ended
<1>4. n.generation = g /\ n.requests = 0 /\ n.successes = 0 /\ n.failures = 0
  BY <1>1, NewType
<1> HIDE DEF n, g
<1>5. Counted(n)
  BY <1>3, <1>4, FS_EmptySet DEF Counted
<1>6. ASSUME UNCHANGED began, cb' = n PROVE Counted(cb)'
  <2>1. \A r \in Reqs : began'[r] # cb'.generation
    BY <1>2, <1>4, <1>6
  <2>2. /\ Begun(cb.generation)' = {}
        /\ Ended(cb.generation, "ok")' = {} /\ Ended(cb.generation, "failed")' = {}
    BY <2>1 DEF Begun, Ended
  <2> QED BY <1>4, <1>6, <2>2, FS_EmptySet DEF Counted
<1> QED BY <1>5, <1>6 DEF n, g

\* Bringing the breaker up to date leaves it alone or starts a generation.
LEMMA CurrentOK ==
  ASSUME IInv
  PROVE  /\ Current \in Breaker
         /\ Counted(Current)
         /\ Current = cb \/ /\ Current.generation = cb.generation + 1
                            /\ Current.state = cb.state \/
                                 (cb.state = "open" /\ Current.state = "half-open")
<1>1. cb \in Breaker /\ cb.generation \in Nat \ {0} /\ now \in 0..MaxTime
  BY DEF IInv, TypeOK, Breaker
<1>2. CASE cb.expiry # NoExpiry /\ cb.expiry < now
  <2> DEFINE s == IF cb.state = "open" THEN "half-open" ELSE cb.state
  <2>1. s \in {"closed", "half-open", "open"}
    BY <1>1 DEF Breaker
  <2>2. Current = NewGeneration(s, cb.generation + 1, now)
    BY <1>2 DEF Current
  <2> HIDE DEF s
  <2>3. /\ Current \in Breaker
        /\ Current.generation = cb.generation + 1
        /\ Current.state = s
    BY <1>1, <2>1, <2>2, NewType
  <2>4. Counted(Current)
    BY <2>1, <2>2, NewCounted DEF IInv
  <2> QED BY <2>3, <2>4 DEF s
<1>3. CASE ~(cb.expiry # NoExpiry /\ cb.expiry < now)
  BY <1>1, <1>3 DEF Current, IInv
<1> QED BY <1>2, <1>3

\* A result counts among the calls of the generation it began in.
LEMMA EndedGrows ==
  ASSUME IInv, NEW r \in Reqs, NEW o \in {"ok", "failed"},
         call[r] = "running", began[r] = cb.generation,
         result' = [result EXCEPT ![r] = o], UNCHANGED began
  PROVE  /\ Cardinality(Ended(cb.generation, o)) + 1 = Cardinality(Evidence(o))
         /\ \A p \in {"ok", "failed"} \ {o} : Evidence(p) = Ended(cb.generation, p)
         /\ r \in Evidence(o)
<1>1. result[r] = "none" /\ result \in [Reqs -> {"none", "ok", "failed", "refused"}]
  BY DEF IInv, Stages, TypeOK
<1>2. Evidence(o) = Ended(cb.generation, o) \cup {r} /\ r \notin Ended(cb.generation, o)
  BY <1>1 DEF Evidence, Ended
<1>3. IsFiniteSet(Ended(cb.generation, o))
  BY Counting DEF Ended
<1>4. Cardinality(Evidence(o)) = Cardinality(Ended(cb.generation, o)) + 1
  BY <1>2, <1>3, FS_AddElement
<1>5. \A p \in {"ok", "failed"} \ {o} : Evidence(p) = Ended(cb.generation, p)
  BY <1>1 DEF Evidence, Ended
<1>6. Cardinality(Ended(cb.generation, o)) \in Nat
  BY Counting DEF Ended
<1> QED BY <1>2, <1>4, <1>5, <1>6

\* The breaker may change its state from b to s: the calls that have ended by
\* now are the reason, or its time has come to be half-open.
Because(b, s) ==
  \/ b.state = "closed" /\ s = "open" /\ Cardinality(Evidence("failed")) >= Threshold
  \/ b.state = "half-open" /\ s = "open" /\ Evidence("failed") # {}
  \/ b.state = "half-open" /\ s = "closed" /\ Cardinality(Evidence("ok")) >= MaxRequests
  \/ b.state = "open" /\ s = "half-open"

\* What a result does to the breaker, whatever generation it belongs to.
LEMMA SettleOK ==
  ASSUME IInv, NEW r \in Reqs, NEW o \in {"ok", "failed"}, call[r] = "running",
         result' = [result EXCEPT ![r] = o], UNCHANGED began,
         cb' = Settle(r, o)
  PROVE  /\ cb' \in Breaker
         /\ Counted(cb)'
         /\ cb'.generation >= cb.generation
         /\ cb'.state = cb.state \/ Because(cb, cb'.state)
<1> DEFINE b == Current
           g == cb.generation
<1>1. /\ cb \in Breaker /\ g \in Nat \ {0} /\ now \in 0..MaxTime
      /\ began[r] \in Nat /\ began[r] <= g
  BY DEF IInv, TypeOK, Breaker, Stages
<1>2. result \in [Reqs -> {"none", "ok", "failed", "refused"}]
  BY DEF IInv, TypeOK
<1>3. CASE began[r] # b.generation
  <2>1. cb' = b
    BY <1>3 DEF Settle
  <2>2. /\ Begun(cb.generation)' = Begun(b.generation)
        /\ Ended(cb.generation, "ok")' = Ended(b.generation, "ok")
        /\ Ended(cb.generation, "failed")' = Ended(b.generation, "failed")
    BY <1>2, <1>3, <2>1 DEF Begun, Ended
  <2>3. Counted(cb)'
    BY <2>1, <2>2, CurrentOK DEF Counted
  <2> HIDE DEF b
  <2> QED BY <1>1, <2>1, <2>3, CurrentOK DEF Because, b
<1>4. CASE began[r] = b.generation
  <2>1. b = cb /\ began[r] = g
    BY <1>1, <1>4, CurrentOK
  <2>2. /\ Cardinality(Ended(g, o)) + 1 = Cardinality(Evidence(o))
        /\ \A p \in {"ok", "failed"} \ {o} : Evidence(p) = Ended(g, p)
        /\ r \in Evidence(o)
    BY <2>1, EndedGrows
  <2>3. /\ Cardinality(Ended(g, "ok")) \in Nat /\ Cardinality(Ended(g, "failed")) \in Nat
        /\ Cardinality(Evidence("ok")) \in Nat /\ Cardinality(Evidence("failed")) \in Nat
    BY Counting DEF Ended, Evidence
  <2>4. /\ cb.requests = Cardinality(Begun(g))
        /\ cb.failures <= Cardinality(Ended(g, "failed"))
        /\ cb.successes <= Cardinality(Ended(g, "ok"))
        /\ cb.state = "half-open" => cb.requests <= MaxRequests
        /\ cb.state # "open"
        /\ cb.state = "half-open" => /\ cb.successes = Cardinality(Ended(g, "ok"))
                                     /\ Ended(g, "failed") = {}
    <3>1. Begun(g) # {}
      BY <2>1 DEF Begun
    <3>2. Cardinality(Begun(g)) # 0
      BY <3>1, Counting, FS_EmptySet DEF Begun
    <3> QED BY <3>2 DEF IInv, Counted
  <2> DEFINE c == IF o = "ok" THEN [cb EXCEPT !.successes = @ + 1, !.failures = 0]
                              ELSE [cb EXCEPT !.failures = @ + 1, !.successes = 0]
  <2>5. /\ c \in Breaker
        /\ c.state = cb.state /\ c.generation = g /\ c.requests = cb.requests
        /\ c.failures <= Cardinality(Evidence("failed"))
        /\ c.successes <= Cardinality(Evidence("ok"))
        /\ c.failures \in Nat /\ c.successes \in Nat
        /\ cb.state = "half-open" /\ o = "ok" =>
             /\ c.successes = Cardinality(Evidence("ok"))
             /\ Evidence("failed") = {}
    <3>1. cb.successes \in Nat /\ cb.failures \in Nat
      BY <1>1 DEF Breaker
    <3>2. CASE o = "ok"
      <4>1. PICK m \in Nat : m = cb.successes + 1
        BY <3>1
      <4>2. c = [cb EXCEPT !.successes = m, !.failures = 0]
        BY <3>2, <4>1
      <4> HIDE DEF c
      <4>3. /\ c \in Breaker
            /\ c.state = cb.state /\ c.generation = cb.generation /\ c.requests = cb.requests
            /\ c.successes = cb.successes + 1 /\ c.failures = 0
        BY <1>1, <4>1, <4>2 DEF Breaker
      <4>4. /\ Cardinality(Evidence("ok")) = Cardinality(Ended(g, "ok")) + 1
            /\ Evidence("failed") = Ended(g, "failed")
        BY <2>2, <3>2
      <4>5. /\ c.failures <= Cardinality(Evidence("failed"))
            /\ c.successes <= Cardinality(Evidence("ok"))
            /\ c.failures \in Nat /\ c.successes \in Nat
        BY <2>3, <2>4, <3>1, <4>3, <4>4
      <4>6. cb.state = "half-open" => /\ c.successes = Cardinality(Evidence("ok"))
                                      /\ Evidence("failed") = {}
        BY <2>4, <4>3, <4>4
      <4> QED BY <4>3, <4>5, <4>6
    <3>3. CASE o = "failed"
      <4>1. PICK m \in Nat : m = cb.failures + 1
        BY <3>1
      <4>2. c = [cb EXCEPT !.successes = 0, !.failures = m]
        BY <3>3, <4>1
      <4> HIDE DEF c
      <4>3. /\ c \in Breaker
            /\ c.state = cb.state /\ c.generation = cb.generation /\ c.requests = cb.requests
            /\ c.successes = 0 /\ c.failures = cb.failures + 1
        BY <1>1, <4>1, <4>2 DEF Breaker
      <4>4. /\ Cardinality(Evidence("failed")) = Cardinality(Ended(g, "failed")) + 1
            /\ Cardinality(Evidence("ok")) = Cardinality(Ended(g, "ok"))
        BY <2>2, <3>3
      <4> QED BY <2>3, <2>4, <3>1, <3>3, <4>3, <4>4
    <3> QED BY <3>2, <3>3
  <2> HIDE DEF c
  <2>6. ASSUME cb' = c, cb.state = "half-open" => o = "ok" /\ c.successes < MaxRequests
        PROVE  /\ cb' \in Breaker
               /\ Counted(cb)'
               /\ cb'.generation >= cb.generation
               /\ cb'.state = cb.state \/ Because(cb, cb'.state)
    <3>1. /\ Begun(cb.generation)' = Begun(g)
          /\ Ended(cb.generation, "ok")' = Evidence("ok")
          /\ Ended(cb.generation, "failed")' = Evidence("failed")
      BY <2>5, <2>6 DEF Begun, Ended, Evidence
    <3>2. Counted(cb)'
      BY <2>4, <2>5, <2>6, <3>1 DEF Counted
    <3> QED BY <1>1, <2>5, <2>6, <3>2
  <2>7. ASSUME NEW s \in {"closed", "open"}, cb' = NewGeneration(s, g + 1, now),
               Because(cb, s)
        PROVE  /\ cb' \in Breaker
               /\ Counted(cb)'
               /\ cb'.generation >= cb.generation
               /\ cb'.state = cb.state \/ Because(cb, cb'.state)
    <3>1. g + 1 \in Nat \ {0}
      BY <1>1
    <3>2. cb' \in Breaker /\ cb'.generation = g + 1 /\ cb'.state = s
      BY <1>1, <2>7, <3>1, NewType
    <3>3. Counted(cb)'
      BY <2>7, NewCounted DEF IInv
    <3> QED BY <1>1, <2>7, <3>2, <3>3
  <2>8. CASE o = "ok"
    <3>1. cb' = IF cb.state = "half-open" /\ c.successes >= MaxRequests
                THEN NewGeneration("closed", g + 1, now) ELSE c
      BY <2>1, <2>8, <1>4 DEF Settle, Succeed, c
    <3>2. CASE cb.state = "half-open" /\ c.successes >= MaxRequests
      <4>1. Cardinality(Evidence("ok")) >= MaxRequests
        BY <2>3, <2>5, <3>2
      <4> QED BY <2>7, <3>1, <3>2, <4>1 DEF Because
    <3>3. CASE ~(cb.state = "half-open" /\ c.successes >= MaxRequests)
      BY <2>5, <2>6, <2>8, <3>1, <3>3
    <3> QED BY <3>2, <3>3
  <2>9. CASE o = "failed"
    <3>1. cb' = IF cb.state = "half-open" \/ Trips(c)
                THEN NewGeneration("open", g + 1, now) ELSE c
      BY <2>1, <2>9, <1>4 DEF Settle, Fail, c
    <3>2. CASE cb.state = "half-open" \/ Trips(c)
      <4>1. cb.state = "half-open" => Evidence("failed") # {}
        BY <2>2, <2>9
      <4>2. Trips(c) => Cardinality(Evidence("failed")) >= Threshold
        BY <2>3, <2>5 DEF Trips
      <4>3. Because(cb, "open")
        BY <1>1, <2>4, <3>2, <4>1, <4>2 DEF Because, Breaker
      <4> QED BY <2>7, <3>1, <3>2, <4>3
    <3>3. CASE ~(cb.state = "half-open" \/ Trips(c))
      BY <2>6, <3>1, <3>3
    <3> QED BY <3>2, <3>3
  <2> QED BY <2>8, <2>9
<1> QED BY <1>3, <1>4

LEMMA TypeInit == Init => IInv
<1> SUFFICES ASSUME Init PROVE IInv
  OBVIOUS
<1>1. cb \in Breaker /\ cb = NewGeneration("closed", 1, 0)
  BY NewType DEF Init
<1>2. TypeOK
  BY <1>1 DEF Init, TypeOK
<1>3. Begun(1) = {} /\ Ended(1, "ok") = {} /\ Ended(1, "failed") = {}
  BY DEF Init, Begun, Ended
<1>4. /\ cb.generation = 1 /\ cb.state = "closed"
      /\ cb.requests = 0 /\ cb.successes = 0 /\ cb.failures = 0
  BY <1>1, NewType
<1> QED BY <1>2, <1>3, <1>4, FS_EmptySet DEF IInv, Init, Stages, Counted

\* A call is let through: the counts stay right, the half-open breaker full at
\* most.
LEMMA AdmitOK ==
  ASSUME IInv, NEW r \in Reqs, Admit(r)
  PROVE  /\ IInv'
         /\ cb'.state = cb.state \/ Because(cb, cb'.state)
<1> DEFINE b == Current
<1>1. /\ b \in Breaker /\ Counted(b) /\ b.generation >= cb.generation
      /\ b.state = cb.state \/ (cb.state = "open" /\ b.state = "half-open")
  BY CurrentOK DEF IInv, TypeOK, Breaker
<1>2. cb' = [b EXCEPT !.requests = @ + 1] /\ Admits(b)
  BY DEF Admit
<1>3. call[r] = "spawned" /\ began[r] = 0 /\ result[r] = "none"
  BY DEF Admit, IInv, Stages
<1>4. began' = [began EXCEPT ![r] = b.generation] /\ UNCHANGED result
  BY DEF Admit
<1> HIDE DEF b
<1>5. b.requests \in Nat /\ b.generation \in Nat \ {0}
  BY <1>1 DEF Breaker
<1>6. PICK m \in Nat : m = b.requests + 1
  BY <1>5
<1>7. /\ cb' \in Breaker
      /\ cb'.requests = b.requests + 1
      /\ cb'.state = b.state /\ cb'.generation = b.generation
      /\ cb'.successes = b.successes /\ cb'.failures = b.failures
  <2>1. cb' = [b EXCEPT !.requests = m]
    BY <1>2, <1>6
  <2> QED BY <1>1, <1>6, <2>1 DEF Breaker
<1>8. Cardinality(Begun(cb.generation)') = Cardinality(Begun(b.generation)) + 1
  <2>1. Begun(cb.generation)' = Begun(b.generation) \cup {r}
    BY <1>3, <1>4, <1>7 DEF Begun, IInv, TypeOK
  <2>2. r \notin Begun(b.generation)
    BY <1>3, <1>5 DEF Begun
  <2>3. IsFiniteSet(Begun(b.generation))
    BY Counting DEF Begun
  <2> QED BY <2>1, <2>2, <2>3, FS_AddElement
<1>9. \A o \in {"ok", "failed"} :
        Ended(cb.generation, o)' = Ended(b.generation, o)
  BY <1>3, <1>4, <1>7 DEF Ended, IInv, TypeOK
<1>10. Counted(cb)'
  BY <1>1, <1>2, <1>5, <1>7, <1>8, <1>9 DEF Counted, Admits
<1>11. Stages'
  BY <1>1, <1>4, <1>5, <1>7 DEF IInv, TypeOK, Breaker, Stages, Admit
<1>12. TypeOK'
  BY <1>4, <1>5, <1>7 DEF IInv, TypeOK, Admit
<1> QED BY <1>1, <1>7, <1>10, <1>11, <1>12 DEF IInv, Because

\* A step that only brings the breaker up to date, if that.
LEMMA CurrentStep ==
  ASSUME IInv, cb' \in {cb, Current}, UNCHANGED began,
         \A r \in Reqs, o \in {"ok", "failed"} : result'[r] = o <=> result[r] = o
  PROVE  /\ cb' \in Breaker
         /\ Counted(cb)'
         /\ cb'.generation >= cb.generation
         /\ cb'.state = cb.state \/ Because(cb, cb'.state)
<1>1. /\ cb' \in Breaker /\ Counted(cb') /\ cb'.generation >= cb.generation
      /\ cb'.state = cb.state \/ (cb.state = "open" /\ cb'.state = "half-open")
  BY CurrentOK DEF IInv, TypeOK, Breaker
<1>2. /\ Begun(cb.generation)' = Begun(cb'.generation)
      /\ \A o \in {"ok", "failed"} : Ended(cb.generation, o)' = Ended(cb'.generation, o)
  BY DEF Begun, Ended
<1> QED BY <1>1, <1>2 DEF Counted, Because

\* The end of a call, whether it returns or panics.
LEMMA EndStep ==
  ASSUME IInv, NEW r \in Reqs, NEW o \in {"ok", "failed"}, NEW c \in {"sending", "done"},
         call[r] = "running", cb' = Settle(r, o), UNCHANGED <<caller, began, now>>,
         call' = [call EXCEPT ![r] = c], result' = [result EXCEPT ![r] = o],
         up' \in BOOLEAN
  PROVE  /\ IInv'
         /\ cb'.state = cb.state \/ Because(cb, cb'.state)
<1>1. /\ cb' \in Breaker /\ Counted(cb)' /\ cb'.generation >= cb.generation
      /\ cb'.state = cb.state \/ Because(cb, cb'.state)
  BY SettleOK
<1>2. TypeOK'
  BY <1>1 DEF IInv, TypeOK
<1>3. Stages'
  BY <1>1 DEF IInv, TypeOK, Stages, Breaker
<1> QED BY <1>1, <1>2, <1>3 DEF IInv

\* The steps that leave the breaker and the results alone.
LEMMA QuietStep ==
  ASSUME IInv, UNCHANGED <<cb, began, result>>, TypeOK', Stages'
  PROVE  /\ IInv'
         /\ cb'.state = cb.state \/ Because(cb, cb'.state)
BY CurrentStep DEF IInv

LEMMA Step ==
  IInv /\ [Next]_vars => /\ IInv'
                         /\ cb'.state = cb.state \/ Because(cb, cb'.state)
<1> SUFFICES ASSUME IInv, [Next]_vars
             PROVE  /\ IInv'
                    /\ cb'.state = cb.state \/ Because(cb, cb'.state)
  OBVIOUS
<1> DEFINE Goal == IInv' /\ (cb'.state = cb.state \/ Because(cb, cb'.state))
<1>1. ASSUME NEW r \in Reqs, Enter(r) PROVE Goal
  <2>1. TypeOK' /\ Stages'
    BY <1>1 DEF Enter, IInv, TypeOK, Stages
  <2> QED BY <1>1, <2>1, QuietStep DEF Enter
<1>2. ASSUME NEW r \in Reqs, EnterDone(r) PROVE Goal
  <2>1. TypeOK' /\ Stages'
    BY <1>2 DEF EnterDone, IInv, TypeOK, Stages
  <2> QED BY <1>2, <2>1, QuietStep DEF EnterDone
<1>3. ASSUME NEW r \in Reqs, Admit(r) PROVE Goal
  BY <1>3, AdmitOK
<1>4. ASSUME NEW r \in Reqs, Refuse(r) PROVE Goal
  <2>1. \A q \in Reqs, o \in {"ok", "failed"} : result'[q] = o <=> result[q] = o
    BY <1>4 DEF Refuse, IInv, TypeOK, Stages
  <2>2. /\ cb' \in Breaker /\ Counted(cb)' /\ cb'.generation >= cb.generation
        /\ cb'.state = cb.state \/ Because(cb, cb'.state)
    BY <1>4, <2>1, CurrentStep DEF Refuse
  <2>3. TypeOK' /\ Stages'
    BY <1>4, <2>2 DEF Refuse, IInv, TypeOK, Stages, Breaker
  <2> QED BY <2>2, <2>3 DEF IInv
<1>5. ASSUME NEW r \in Reqs, NEW o \in {"ok", "failed"}, End(r, o) PROVE Goal
  <2>1. up' \in BOOLEAN
    BY <1>5 DEF End, IInv, TypeOK
  <2> QED BY <1>5, <2>1, EndStep DEF End
<1>6. ASSUME NEW r \in Reqs, Panic(r) PROVE Goal
  BY <1>6, EndStep DEF Panic
<1>7. ASSUME NEW r \in Reqs, Send(r) PROVE Goal
  <2>1. TypeOK' /\ Stages'
    BY <1>7 DEF Send, IInv, TypeOK, Stages
  <2> QED BY <1>7, <2>1, QuietStep DEF Send
<1>8. ASSUME NEW r \in Reqs, Receive(r) PROVE Goal
  <2>1. TypeOK' /\ Stages'
    BY <1>8 DEF Receive, IInv, TypeOK, Stages
  <2> QED BY <1>8, <2>1, QuietStep DEF Receive
<1>9. ASSUME NEW r \in Reqs, Cancel(r) PROVE Goal
  <2>1. TypeOK' /\ Stages'
    BY <1>9 DEF Cancel, IInv, TypeOK, Stages
  <2> QED BY <1>9, <2>1, QuietStep DEF Cancel
<1>10. CASE State
  <2>1. /\ cb' \in Breaker /\ Counted(cb)' /\ cb'.generation >= cb.generation
        /\ cb'.state = cb.state \/ Because(cb, cb'.state)
    BY <1>10, CurrentStep DEF State
  <2>2. TypeOK' /\ Stages'
    BY <1>10, <2>1 DEF State, IInv, TypeOK, Stages, Breaker
  <2> QED BY <2>1, <2>2 DEF IInv
<1>11. CASE Tick
  <2>1. TypeOK' /\ Stages'
    BY <1>11 DEF Tick, IInv, TypeOK, Stages
  <2> QED BY <1>11, <2>1, QuietStep DEF Tick
<1>12. CASE UNCHANGED vars
  <2>1. TypeOK' /\ Stages'
    BY <1>12 DEF vars, IInv, TypeOK, Stages
  <2> QED BY <1>12, <2>1, QuietStep DEF vars
<1>13. CASE Next
  <2>1. (\E r \in Reqs : \/ Enter(r) \/ EnterDone(r) \/ Admit(r) \/ Refuse(r)
                         \/ \E o \in {"ok", "failed"} : End(r, o)
                         \/ Panic(r) \/ Send(r) \/ Receive(r) \/ Cancel(r))
          \/ State \/ Tick
    BY <1>13, Zenon DEF Next
  <2> QED BY <1>1, <1>2, <1>3, <1>4, <1>5, <1>6, <1>7, <1>8, <1>9, <1>10, <1>11, <2>1
<1> QED BY <1>12, <1>13

LEMMA Inductive == Spec => []IInv
<1>1. IInv /\ [Next]_vars => IInv'
  BY Step
<1> QED BY <1>1, TypeInit, PTL DEF Spec

\* Every variable keeps its type.
THEOREM TypeCorrect == Spec => []TypeOK
<1>1. IInv => TypeOK
  BY DEF IInv
<1> QED BY <1>1, Inductive, PTL

\* Every place of a half-open breaker is held by a running call or by a
\* success, and there are no more than MaxRequests of them.
LEMMA PlacesHeld == IInv => TrialsBounded
<1> SUFFICES ASSUME IInv, cb.state = "half-open"
             PROVE  /\ cb.requests <= MaxRequests
                    /\ cb.requests = Cardinality(Trials) + cb.successes
                    /\ cb.successes < MaxRequests
  BY DEF TrialsBounded
<1> DEFINE g  == cb.generation
           ok == Ended(g, "ok")
<1>1. /\ cb.requests = Cardinality(Begun(g)) /\ cb.requests <= MaxRequests
      /\ cb.successes = Cardinality(ok) /\ cb.successes < MaxRequests
      /\ Ended(g, "failed") = {}
  BY DEF IInv, Counted
<1>2. Begun(g) = Trials \cup ok
  <2>1. g # 0
    BY DEF IInv, TypeOK, Breaker
  <2>2. \A r \in Begun(g) : call[r] = "running" \/ result[r] = "ok"
    BY <1>1, <2>1 DEF IInv, Stages, Begun, Ended
  <2> QED BY <2>2 DEF Begun, Trials, Ended
<1>3. Trials \cap ok = {}
  BY DEF IInv, Stages, Trials, Ended
<1>4. IsFiniteSet(Trials) /\ IsFiniteSet(ok) /\ IsFiniteSet(Trials \cap ok)
  BY Counting DEF Trials, Ended
<1>5. Cardinality(Trials \cup ok) =
        Cardinality(Trials) + Cardinality(ok) - Cardinality(Trials \cap ok)
  BY <1>4, FS_Union
<1>6. Cardinality(Trials \cap ok) = 0 /\ Cardinality(Trials) \in Nat /\ Cardinality(ok) \in Nat
  BY <1>3, <1>4, FS_EmptySet, FS_CardinalityType
<1> HIDE DEF ok, g
<1> QED BY <1>1, <1>2, <1>5, <1>6

\* Half-open, the breaker lets MaxRequests calls through and no more, and loses
\* no place to a caller that has left, to a call that panicked or to a late
\* result of an earlier generation.
THEOREM TrialLimit == Spec => []TrialsBounded
BY PlacesHeld, Inductive, PTL

\* The breaker opens and closes for what calls of the present generation did,
\* whatever late results of earlier ones arrive, and however many callers have
\* left.
THEOREM ForCause == Spec => ChangesForCause
<1> DEFINE Cause ==
      /\ cb.state = "closed" /\ cb'.state # "closed" =>
           cb'.state = "open" /\ Cardinality(Evidence("failed")) >= Threshold
      /\ cb.state = "half-open" /\ cb'.state = "open" => Evidence("failed") # {}
      /\ cb.state = "half-open" /\ cb'.state = "closed" =>
           Cardinality(Evidence("ok")) >= MaxRequests
      /\ cb.state = "open" => cb'.state # "closed"
<1>1. IInv /\ [Next]_vars => [Cause]_vars
  <2> SUFFICES ASSUME IInv, [Next]_vars PROVE Cause
    OBVIOUS
  <2>1. cb'.state = cb.state \/ Because(cb, cb'.state)
    BY Step
  <2> QED BY <2>1 DEF Because
<1>2. Spec => [][Cause]_vars
  BY <1>1, Inductive, PTL DEF Spec
<1> QED BY <1>2 DEF ChangesForCause
=============================================================================
