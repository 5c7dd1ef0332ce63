--------------------------- MODULE ApiKeyAuthProofs ---------------------------
(***************************************************************************)
(* Proofs about ApiKeyAuth, for every number of keys, requests, scopes and *)
(* changes of the map.                                                     *)
(***************************************************************************)
EXTENDS ApiKeyAuth, TLAPS

\* What a request has found so far, it found among the values there were.
Justified(r) ==
  /\ pc[r] = "new" => cred[r] = None
  /\ pc[r] \in {"authenticated"} \cup Looking => cred[r] \in Keys /\ keys[cred[r]] \in held[r]
  /\ pc[r] \in {"authenticated", "scoping", "served"} =>
       <<r, "validating">> \in raced \/ \E k \in held[r] \ {None} : k.exp >= came[r]
  /\ pc[r] = "served" =>
       <<r, "scoping">> \in raced \/ \E k \in held[r] \ {None} : Required \subseteq k.scopes
  /\ came[r] <= now

IInv == TypeOK /\ (\A r \in Reqs : Justified(r)) /\ RefusedForCause

USE BoundsAssumption, NoneAssumption, NotAKey

LEMMA Initial == Init => IInv
BY DEF Init, IInv, TypeOK, Justified, RefusedForCause, Looking, Over, Value, Never

\* Without a race a lookup finds what the map holds, and has held.
LEMMA FoundHeld ==
  ASSUME IInv, NEW r \in Reqs, pc[r] \in Looking, <<r, pc[r]>> \notin raced,
         NEW k \in Found(r)
  PROVE  k \in held[r] /\ k \in Value
BY DEF IInv, TypeOK, Justified, Found, Racing

\* What a step does not touch of a request's history stays justified.
LEMMA Kept ==
  ASSUME IInv, NEW r \in Reqs, UNCHANGED <<keys, cred, came, held, raced, now>>,
         NEW q \in Reqs, q # r,
         NEW s \in {"authenticated"} \cup Looking \cup Over,
         pc' = [pc EXCEPT ![r] = s]
  PROVE  Justified(q)'
<1>1. pc'[q] = pc[q]
  BY DEF IInv, TypeOK
<1> QED BY <1>1 DEF IInv, Justified

LEMMA LeaveOK ==
  ASSUME IInv, NEW r \in Reqs, NEW s \in {"authenticated"} \cup Over,
         pc[r] \in Looking, Leave(r, s),
         s = "authenticated" =>
           <<r, "validating">> \in raced \/ \E k \in held[r] \ {None} : k.exp >= came[r],
         s = "served" =>
           /\ pc[r] = "scoping"
           /\ <<r, "scoping">> \in raced \/ \E k \in held[r] \ {None} : Required \subseteq k.scopes,
         s = "unauthorized" /\ <<r, "validating">> \notin raced =>
           \E k \in held[r] : k = None \/ k.exp < now,
         s = "forbidden" /\ <<r, "scoping">> \notin raced =>
           \E k \in held[r] : k = None \/ ~(Required \subseteq k.scopes)
  PROVE  IInv'
<1>1. TypeOK'
  BY DEF IInv, TypeOK, Leave, Over
<1>2. ASSUME NEW q \in Reqs PROVE Justified(q)'
  <2>1. CASE q = r
    BY <2>1 DEF IInv, TypeOK, Leave, Justified, Over, Looking
  <2>2. CASE q # r
    BY <2>2, Kept DEF Leave
  <2> QED BY <2>1, <2>2
<1>3. RefusedForCause'
  BY DEF IInv, TypeOK, Leave, RefusedForCause, Over
<1> QED BY <1>1, <1>2, <1>3 DEF IInv

LEMMA ChangeOK ==
  ASSUME IInv, NEW k \in Keys, NEW v \in Value, changes < MaxChanges, Change(k, v)
  PROVE  IInv'
<1>1. TypeOK'
  BY DEF IInv, TypeOK, Change
<1>2. \A q \in Reqs : held[q] \subseteq held'[q]
  BY DEF IInv, TypeOK, Change
<1>3. ASSUME NEW q \in Reqs PROVE Justified(q)'
  <2>2. raced \subseteq raced'
    BY DEF Change
  <2>3. pc[q] \in {"authenticated"} \cup Looking =>
          cred[q] \in Keys /\ keys'[cred[q]] \in held'[q]
    BY DEF IInv, TypeOK, Justified, Change, Looking, Over
  <2>4. UNCHANGED <<pc, cred, now, came>>
    BY DEF Change
  <2>5. \A a \in held[q] \ {None} : a \in held'[q] \ {None}
    BY <1>2
  <2> HIDE DEF Change
  <2> QED BY <2>2, <2>3, <2>4, <2>5 DEF IInv, Justified
<1>4. RefusedForCause'
  <2>1. raced \subseteq raced'
    BY DEF Change
  <2> QED BY <1>2, <2>1 DEF IInv, RefusedForCause, Change
<1> QED BY <1>1, <1>3, <1>4 DEF IInv

LEMMA Step == IInv /\ [Next]_vars => IInv'
<1> SUFFICES ASSUME IInv, [Next]_vars PROVE IInv'
  OBVIOUS
<1>1. ASSUME NEW r \in Reqs, NEW h \in Headers, Arrive(r, h) PROVE IInv'
  <2> DEFINE k == extractAPIKey(h)
  <2>1. k \in Keys
    BY <1>1 DEF Headers, extractAPIKey, Arrive
  <2> HIDE DEF k
  <2>2. keys[k] \in Value
    BY <2>1 DEF IInv, TypeOK
  <2>3. /\ pc[r] = "new"
        /\ pc' = [pc EXCEPT ![r] = "validating"]
        /\ cred' = [cred EXCEPT ![r] = k]
        /\ held' = [held EXCEPT ![r] = {keys[k]}]
        /\ came' = [came EXCEPT ![r] = now]
        /\ UNCHANGED <<up, keys, now, changes, raced>>
    BY <1>1 DEF Arrive, k
  <2>4. TypeOK'
    BY <2>1, <2>2, <2>3 DEF IInv, TypeOK, Looking
  <2>5. ASSUME NEW q \in Reqs PROVE Justified(q)'
    <3>1. CASE q = r
      BY <2>1, <2>3, <3>1 DEF IInv, TypeOK, Justified
    <3>2. CASE q # r
      BY <2>3, <3>2 DEF IInv, TypeOK, Justified
    <3> QED BY <3>1, <3>2
  <2>6. RefusedForCause'
    BY <2>3 DEF IInv, TypeOK, RefusedForCause
  <2> QED BY <2>4, <2>5, <2>6 DEF IInv
<1>2. ASSUME NEW r \in Reqs, NEW h \in Headers, ArriveBare(r, h) PROVE IInv'
  <2>1. TypeOK'
    BY <1>2 DEF ArriveBare, IInv, TypeOK, Over
  <2>2. \A q \in Reqs : Justified(q)'
    BY <1>2 DEF ArriveBare, IInv, TypeOK, Justified, Looking
  <2>3. RefusedForCause'
    BY <1>2 DEF ArriveBare, IInv, TypeOK, RefusedForCause, Justified
  <2> QED BY <2>1, <2>2, <2>3 DEF IInv
<1>3. ASSUME NEW r \in Reqs, Authenticate(r) PROVE IInv'
  <2>1. PICK k \in Found(r) : k # None /\ ~Expired(k)
    BY <1>3 DEF Authenticate, Unexpired
  <2>2. pc[r] = "validating" /\ (<<r, "validating">> \notin raced => k \in held[r] /\ k \in APIKey)
    BY <1>3, <2>1, FoundHeld DEF Authenticate, Looking, Value
  <2>3. <<r, "validating">> \in raced \/ \E a \in held[r] \ {None} : a.exp >= came[r]
    <3>1. came[r] <= now /\ now \in 0..MaxTime /\ came[r] \in 0..MaxTime
      BY DEF IInv, TypeOK, Justified
    <3>2. k \in APIKey => k.exp >= came[r]
      BY <2>1, <3>1 DEF Expired, APIKey, Never
    <3> QED BY <2>1, <2>2, <3>2
  <2> QED BY <1>3, <2>3, LeaveOK DEF Authenticate, Looking
<1>4. ASSUME NEW r \in Reqs, Unauthorized(r) PROVE IInv'
  <2>1. PICK k \in Found(r) : k = None \/ Expired(k)
    BY <1>4 DEF Unauthorized, Unexpired
  <2>2. <<r, "validating">> \notin raced => \E a \in held[r] : a = None \/ a.exp < now
    <3>1. <<r, "validating">> \notin raced => k \in held[r] /\ k \in Value
      BY <1>4, <2>1, FoundHeld DEF Unauthorized, Looking
    <3> QED BY <2>1, <3>1 DEF Expired, Value, APIKey, Never, IInv, TypeOK
  <2> QED BY <1>4, <2>2, LeaveOK DEF Unauthorized, Looking, Over
<1>5. ASSUME NEW r \in Reqs, Scope(r) PROVE IInv'
  <2> DEFINE v == keys[cred[r]]
  <2>1. v \in held[r] /\ held[r] \subseteq Value
    BY <1>5 DEF Scope, IInv, TypeOK, Justified
  <2> HIDE DEF v
  <2>2. /\ pc[r] = "authenticated"
        /\ pc' = [pc EXCEPT ![r] = "scoping"]
        /\ UNCHANGED <<up, keys, cred, now, changes, came, held, raced>>
    BY <1>5 DEF Scope, v
  <2>3. TypeOK'
    BY <2>1, <2>2 DEF IInv, TypeOK, Looking
  <2>4. ASSUME NEW q \in Reqs PROVE Justified(q)'
    BY <2>1, <2>2 DEF IInv, TypeOK, Justified, Looking
  <2>5. RefusedForCause'
    BY <2>2 DEF IInv, TypeOK, RefusedForCause
  <2> QED BY <2>3, <2>4, <2>5 DEF IInv
<1>6. ASSUME NEW r \in Reqs, Serve(r) PROVE IInv'
  <2>1. PICK k \in Found(r) : k # None /\ Required \subseteq k.scopes
    BY <1>6 DEF Serve, Scoped, hasScopes
  <2>2. <<r, "scoping">> \in raced \/ \E h \in held[r] \ {None} : Required \subseteq h.scopes
    BY <1>6, <2>1, FoundHeld DEF Serve, Looking
  <2> QED BY <1>6, <2>2, LeaveOK DEF Serve, Looking, Over
<1>7. ASSUME NEW r \in Reqs, Forbid(r) PROVE IInv'
  <2>1. PICK k \in Found(r) : k = None \/ ~(Required \subseteq k.scopes)
    BY <1>7 DEF Forbid, Scoped, hasScopes
  <2>2. <<r, "scoping">> \notin raced => k \in held[r]
    BY <1>7, FoundHeld DEF Forbid, Looking
  <2> QED BY <1>7, <2>1, <2>2, LeaveOK DEF Forbid, Looking, Over
<1>8. ASSUME NEW r \in Reqs, Fatal(r) PROVE IInv'
  BY <1>8 DEF Fatal, IInv, TypeOK, Justified, RefusedForCause
<1>9. ASSUME NEW k \in Keys, NEW v \in APIKey, AddKey(k, v) PROVE IInv'
  BY <1>9, ChangeOK DEF AddKey, Value
<1>10. ASSUME NEW k \in Keys, RemoveKey(k) PROVE IInv'
  BY <1>10, ChangeOK DEF RemoveKey, Value
<1>11. CASE Tick
  <2>1. TypeOK'
    BY <1>11 DEF Tick, IInv, TypeOK
  <2>2. \A r \in Reqs : Justified(r)'
    <3>1. now' >= now /\ UNCHANGED <<keys, pc, cred, came, held, raced>>
      BY <1>11 DEF Tick, IInv, TypeOK
    <3>2. ASSUME NEW r \in Reqs PROVE came[r] <= now /\ came[r] \in Nat
      <4>1. came \in [Reqs -> 0..MaxTime] /\ Justified(r)
        BY DEF IInv, TypeOK
      <4> QED BY <4>1 DEF Justified
    <3>3. now \in Nat /\ now' = now + 1
      BY <1>11 DEF Tick, IInv, TypeOK
    <3>4. \A r \in Reqs : came[r] <= now'
      BY <3>2, <3>3
    <3> QED BY <3>1, <3>4 DEF IInv, Justified
  <2>3. RefusedForCause'
    <3>1. \A r \in Reqs : \A k \in held[r] : k = None \/ k \in APIKey
      BY DEF IInv, TypeOK, Value
    <3> QED BY <1>11, <3>1 DEF Tick, IInv, TypeOK, RefusedForCause, APIKey, Never
  <2> QED BY <2>1, <2>2, <2>3 DEF IInv
<1>12. CASE UNCHANGED vars
  BY <1>12 DEF vars, IInv, TypeOK, Justified, RefusedForCause
<1> QED BY <1>1, <1>2, <1>3, <1>4, <1>5, <1>6, <1>7, <1>8, <1>9, <1>10, <1>11, <1>12 DEF Next

LEMMA Inductive == Spec => []IInv
<1>1. IInv /\ [Next]_vars => IInv'
  BY Step
<1>2. Init => IInv
  BY Initial
<1> QED BY <1>1, <1>2, PTL DEF Spec

\* Every variable keeps its type.
THEOREM KeyTypeCorrect == Spec => []TypeOK
<1>1. IInv => TypeOK
  BY DEF IInv
<1> QED BY <1>1, Inductive, PTL

\* Whoever is served had a key that had not expired, and one with the scopes,
\* unless the lookup that asked for that was in a race; the two lookups may have
\* found different keys.
THEOREM ServedHeld == Spec => []ServedByHeld
<1>1. IInv => ServedByHeld
  BY DEF IInv, Justified, ServedByHeld
<1> QED BY <1>1, Inductive, PTL

\* Whoever is refused, by a lookup that was in no race, had a key that was
\* missing or fell short.
THEOREM RefusedCaused == Spec => []RefusedForCause
<1>1. IInv => RefusedForCause
  BY DEF IInv
<1> QED BY <1>1, Inductive, PTL
=============================================================================
