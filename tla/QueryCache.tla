------------------------------ MODULE QueryCache ------------------------------
(***************************************************************************)
(* The query cache (internal/cache/query_cache.go) for one query: the      *)
(* goroutines that call CacheWrapper, the key of the query in Redis, and   *)
(* the data behind the query, which others change.                         *)
(*                                                                         *)
(* A result is stored by a goroutine of its own after the caller has it.   *)
(* Until that store has reached Redis an invalidation may come and be      *)
(* undone by it.  The properties say how far callers may rely on           *)
(* Invalidate, and on the TTL, in spite of that.                           *)
(***************************************************************************)
EXTENDS Integers

CONSTANTS
  Workers,     \* calls of CacheWrapper under way at the same time
  DefaultTTL,  \* in ticks
  TTLs,        \* the ttl arguments
  MaxVersion,  \* bound on the changes of the data
  Nulls        \* the versions in which the query has no result

Versions == 0..MaxVersion

\* NewQueryCache replaces a DefaultTTL of 0 by five minutes, and nothing else.
ASSUME TTLAssumption  == DefaultTTL \in Int \ {0} /\ TTLs \subseteq Int
ASSUME DataAssumption == MaxVersion \in Nat

VARIABLES
  source,  \* the version of the data
  entry,   \* Redis: the version whose result is under the key, None if no key
  left,    \* Redis: what is left of the key's life, NoTTL if it has no expiry
  pc,      \* "idle", "asking", "querying", "storing"
  ttl,     \* the ttl argument of the call
  read,    \* the version whose result the query brought
  answer,  \* the version whose result the caller got, None before or after an error
  fence    \* history: the data at the last invalidation that raced with no store

redis == <<entry, left>>
vars  == <<source, redis, pc, ttl, read, answer, fence>>

None  == -1
NoTTL == -1

TypeOK ==
  /\ source \in Versions
  /\ entry \in {None} \cup Versions
  /\ left \in Nat \cup {NoTTL}
  /\ left = NoTTL => DefaultTTL < 0
  /\ pc \in [Workers -> {"idle", "asking", "querying", "storing"}]
  /\ ttl \in [Workers -> TTLs]
  /\ read \in [Workers -> Versions]
  /\ answer \in [Workers -> {None} \cup Versions]
  /\ fence \in Versions

\* Set; the faulty version hands on the argument as it is.
CacheTTLRaw(t) == t
CacheTTL(t)    == IF t > 0 THEN t ELSE DefaultTTL

Init ==
  /\ source = 0
  /\ entry = None
  /\ left = 0
  /\ pc = [w \in Workers |-> "idle"]
  /\ ttl \in [Workers -> TTLs]
  /\ read = [w \in Workers |-> 0]
  /\ answer = [w \in Workers |-> None]
  /\ fence = 0
-----------------------------------------------------------------------------
\* CacheWrapper is called.
Call(w) ==
  /\ pc[w] = "idle"
  /\ pc' = [pc EXCEPT ![w] = "asking"]
  /\ \E t \in TTLs : ttl' = [ttl EXCEPT ![w] = t]
  /\ answer' = [answer EXCEPT ![w] = None]
  /\ UNCHANGED <<source, redis, read, fence>>

\* hit && result != nil
Hit(w) ==
  /\ pc[w] = "asking"
  /\ entry \notin {None} \cup Nulls
  /\ pc' = [pc EXCEPT ![w] = "idle"]
  /\ answer' = [answer EXCEPT ![w] = entry]
  /\ UNCHANGED <<source, redis, ttl, read, fence>>

\* No key, or a result that is null; and an error of Redis counts as a miss
\* whatever it holds.
Miss(w) ==
  /\ pc[w] = "asking"
  /\ pc' = [pc EXCEPT ![w] = "querying"]
  /\ UNCHANGED <<source, redis, ttl, read, answer, fence>>

\* The query reads the data; its caller is answered and the store is started.
Query(w) ==
  /\ pc[w] = "querying"
  /\ pc' = [pc EXCEPT ![w] = "storing"]
  /\ read' = [read EXCEPT ![w] = source]
  /\ answer' = [answer EXCEPT ![w] = source]
  /\ UNCHANGED <<source, redis, ttl, fence>>

\* A faulty QueryFails: it answers, and stores, what it has from before.
QueryFailsOld(w) ==
  /\ pc[w] = "querying"
  /\ pc' = [pc EXCEPT ![w] = "storing"]
  /\ answer' = [answer EXCEPT ![w] = read[w]]
  /\ UNCHANGED <<source, redis, ttl, read, fence>>

QueryFails(w) ==
  /\ pc[w] = "querying"
  /\ pc' = [pc EXCEPT ![w] = "idle"]
  /\ UNCHANGED <<source, redis, ttl, read, answer, fence>>

\* Redis sets the key; the client library makes no expiration of one that is not
\* positive (-1 nanosecond, which keeps the one there is, is left out).
Put(w) ==
  LET t == CacheTTL(ttl[w])
  IN  entry' = read[w] /\ left' = IF t > 0 THEN t ELSE NoTTL

Store(w) ==
  /\ pc[w] = "storing"
  /\ Put(w)
  /\ pc' = [pc EXCEPT ![w] = "idle"]
  /\ UNCHANGED <<source, ttl, read, answer, fence>>

\* The reply is lost: the client library sends the SET again.
StoreLost(w) ==
  /\ pc[w] = "storing"
  /\ Put(w)
  /\ UNCHANGED <<source, pc, ttl, read, answer, fence>>

\* The error is printed.  A worker is "storing" until its last SET has been
\* carried out or is lost, even if the goroutine no longer waits for it.
StoreFails(w) ==
  /\ pc[w] = "storing"
  /\ pc' = [pc EXCEPT ![w] = "idle"]
  /\ UNCHANGED <<source, redis, ttl, read, answer, fence>>

\* A store on its way may undo an invalidation.
Races == \E w \in Workers : pc[w] = "storing" /\ read[w] < source

Invalidate ==
  /\ entry' = None /\ left' = 0
  /\ fence' = IF Races THEN fence ELSE source
  /\ UNCHANGED <<source, pc, ttl, read, answer>>

\* The caller gets an error; the key may be gone all the same.
InvalidateFails ==
  /\ \/ entry' = None /\ left' = 0
     \/ UNCHANGED redis
  /\ UNCHANGED <<source, pc, ttl, read, answer, fence>>

\* The gateway of worker w ends, its callers and its stores with it.
Crash(w) ==
  /\ pc[w] # "idle"
  /\ pc' = [pc EXCEPT ![w] = "idle"]
  /\ UNCHANGED <<source, redis, ttl, read, answer, fence>>

\* Somebody changes the data.
Change ==
  /\ source < MaxVersion
  /\ source' = source + 1
  /\ UNCHANGED <<redis, pc, ttl, read, answer, fence>>

Tick ==
  /\ left > 0
  /\ left' = left - 1
  /\ entry' = IF left = 1 THEN None ELSE entry
  /\ UNCHANGED <<source, pc, ttl, read, answer, fence>>

Next ==
  \/ \E w \in Workers : \/ Call(w)
                        \/ Hit(w)
                        \/ Miss(w)
                        \/ Query(w)
                        \/ QueryFails(w)
                        \/ Store(w)
                        \/ StoreLost(w)
                        \/ StoreFails(w)
                        \/ Crash(w)
  \/ Invalidate
  \/ InvalidateFails
  \/ Change
  \/ Tick

\* Time passes, and a store ends: each of its attempts has a timeout.
Spec ==
  /\ Init /\ [][Next]_vars
  /\ WF_vars(Tick)
  /\ \A w \in Workers : WF_vars(Store(w) \/ StoreFails(w))
-----------------------------------------------------------------------------
\* Nobody is answered from before the last acknowledged invalidation that no
\* store was racing with: neither from the cache nor by the query.
AnswersInvalidated ==
  [][\A w \in Workers :
        answer'[w] # answer[w] /\ answer'[w] # None => answer'[w] >= fence]_vars

\* Whatever was raced, lost or never invalidated: with a default TTL that is not
\* negative the cache ends up, for good, with the result of the data or with none
\* once they no longer change.
SettlesFresh == DefaultTTL > 0 => <>[](entry \in {None, source})
=============================================================================
