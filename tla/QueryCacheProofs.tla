--------------------------- MODULE QueryCacheProofs ---------------------------
(***************************************************************************)
(* Proofs about QueryCache, for every number of callers, every TTL and any *)
(* number of changes.                                                      *)
(***************************************************************************)
EXTENDS QueryCache, TLAPS

USE TTLAssumption, DataAssumption

\* Neither Redis nor a store on its way holds anything older than the fence,
\* nor anything that the data have not been yet.
Fenced ==
  /\ fence <= source
  /\ entry # None => entry \in fence..source
  /\ \A w \in Workers : pc[w] = "storing" => read[w] \in fence..source

IInv == TypeOK /\ Fenced

\* Only a default that is negative can reach Redis as an expiration that is not
\* positive.
LEMMA TTLKnown ==
  ASSUME NEW t \in TTLs
  PROVE  CacheTTL(t) \in Int /\ (CacheTTL(t) > 0 \/ DefaultTTL < 0)
BY DEF CacheTTL

LEMMA InitIInv == Init => IInv
BY DEF Init, IInv, TypeOK, Fenced, Versions, None, NoTTL

\* What Redis holds after a store that began after the fence.
LEMMA PutIInv ==
  ASSUME IInv, NEW w \in Workers, pc[w] = "storing", Put(w)
  PROVE  /\ entry' \in Versions
         /\ left' \in Nat \cup {NoTTL} /\ (left' = NoTTL => DefaultTTL < 0)
         /\ entry' \in fence..source
<1>1. ttl[w] \in TTLs /\ read[w] \in fence..source /\ read[w] \in Versions
  BY DEF IInv, TypeOK, Fenced
<1>2. CacheTTL(ttl[w]) \in Int /\ (CacheTTL(ttl[w]) > 0 \/ DefaultTTL < 0)
  BY <1>1, TTLKnown
<1> QED BY <1>1, <1>2 DEF Put, NoTTL

\* The invariant is kept, one step of the proof per action.
LEMMA NextIInv == IInv /\ [Next]_vars => IInv'
<1> SUFFICES ASSUME IInv, [Next]_vars PROVE IInv'
  OBVIOUS
<1> USE DEF IInv, TypeOK, Fenced, redis, NoTTL
<1>1. ASSUME NEW w \in Workers, Call(w) PROVE IInv'
  BY <1>1 DEF Call
<1>2. ASSUME NEW w \in Workers, Hit(w) PROVE IInv'
  BY <1>2 DEF Hit
<1>3. ASSUME NEW w \in Workers, Miss(w) PROVE IInv'
  BY <1>3 DEF Miss
<1>4. ASSUME NEW w \in Workers, Query(w) PROVE IInv'
  <2>1. TypeOK'
    BY <1>4 DEF Query
  <2>2. Fenced'
    BY <1>4 DEF Query, Versions
  <2> QED BY <2>1, <2>2
<1>5. ASSUME NEW w \in Workers, QueryFails(w) PROVE IInv'
  BY <1>5 DEF QueryFails
<1>6. ASSUME NEW w \in Workers, Store(w) PROVE IInv'
  <2>1. /\ entry' \in Versions /\ entry' \in fence..source
        /\ left' \in Nat \cup {NoTTL} /\ (left' = NoTTL => DefaultTTL < 0)
    BY <1>6, PutIInv DEF Store
  <2> QED BY <1>6, <2>1 DEF Store
<1>7. ASSUME NEW w \in Workers, StoreLost(w) PROVE IInv'
  <2>1. /\ entry' \in Versions /\ entry' \in fence..source
        /\ left' \in Nat \cup {NoTTL} /\ (left' = NoTTL => DefaultTTL < 0)
    BY <1>7, PutIInv DEF StoreLost
  <2> QED BY <1>7, <2>1 DEF StoreLost
<1>8. ASSUME NEW w \in Workers, StoreFails(w) PROVE IInv'
  BY <1>8 DEF StoreFails
<1>9. ASSUME NEW w \in Workers, Crash(w) PROVE IInv'
  BY <1>9 DEF Crash
<1>10. ASSUME Invalidate PROVE IInv'
  <2>1. CASE Races
    BY <1>10, <2>1 DEF Invalidate
  <2>2. CASE ~Races
    <3>1. \A w \in Workers : pc[w] = "storing" => read[w] \in source..source
      BY <2>2 DEF Races, Versions
    <3> QED BY <1>10, <2>2, <3>1 DEF Invalidate, Versions
  <2> QED BY <2>1, <2>2
<1>11. ASSUME InvalidateFails PROVE IInv'
  BY <1>11 DEF InvalidateFails
<1>12. ASSUME Change PROVE IInv'
  BY <1>12 DEF Change, Versions
<1>13. ASSUME Tick PROVE IInv'
  BY <1>13 DEF Tick
<1>14. ASSUME UNCHANGED vars PROVE IInv'
  BY <1>14 DEF vars
<1> QED BY <1>1, <1>2, <1>3, <1>4, <1>5, <1>6, <1>7, <1>8, <1>9, <1>10, <1>11,
           <1>12, <1>13, <1>14 DEF Next

\* A caller is answered by the query, with what the data are, or from Redis.
LEMMA NextAnswers ==
  IInv /\ [Next]_vars =>
    \A w \in Workers : answer'[w] # answer[w] /\ answer'[w] # None => answer'[w] >= fence
<1> SUFFICES ASSUME IInv, [Next]_vars, NEW w \in Workers,
                    answer'[w] # answer[w], answer'[w] # None
             PROVE  answer'[w] >= fence
  OBVIOUS
<1> USE DEF IInv, TypeOK, Fenced
<1>1. \E v \in Workers : Call(v) \/ Hit(v) \/ Query(v)
  BY DEF Next, vars, Miss, QueryFails, Store, StoreLost, StoreFails, Crash,
         Invalidate, InvalidateFails, Change, Tick
<1>2. CASE \E v \in Workers : Call(v)
  BY <1>2 DEF Call
<1>3. CASE \E v \in Workers : Hit(v)
  BY <1>3 DEF Hit, Versions
<1>4. CASE \E v \in Workers : Query(v)
  BY <1>4 DEF Query, Versions
<1> QED BY <1>1, <1>2, <1>3, <1>4

LEMMA Inductive == Spec => []IInv
<1>1. Init => IInv
  BY InitIInv
<1>2. IInv /\ [Next]_vars => IInv'
  BY NextIInv
<1> QED BY <1>1, <1>2, PTL DEF Spec

\* Every variable keeps its type; in particular no key is ever without an
\* expiry, whatever ttl the callers of CacheWrapper pass, unless the default TTL
\* is negative, which nothing forbids.
THEOREM TypeCorrect == Spec => []TypeOK
<1>1. IInv => TypeOK
  BY DEF IInv
<1> QED BY <1>1, Inductive, PTL

\* Nobody is answered from before the last acknowledged invalidation that
\* raced with no store.
THEOREM Invalidated == Spec => AnswersInvalidated
<1>1. IInv /\ [Next]_vars =>
        [\A w \in Workers :
           answer'[w] # answer[w] /\ answer'[w] # None => answer'[w] >= fence]_vars
  BY NextAnswers
<1> QED BY <1>1, Inductive, PTL DEF Spec, AnswersInvalidated
=============================================================================
