------------------------------ MODULE ApiKeyAuth ------------------------------
(***************************************************************************)
(* API keys (internal/auth): a request passes Middleware, which looks its  *)
(* key up and tests its expiry, and RequireScopes, which looks it up once  *)
(* more and tests its scopes.  AddKey and RemoveKey change the map of the  *)
(* keys without a lock while requests range over it: an iteration that a   *)
(* change falls into is a data race.                                       *)
(***************************************************************************)
EXTENDS Integers, FiniteSets

CONSTANTS
  Keys,        \* key values in use
  Scopes, Required,
  Reqs,        \* requests
  MaxTime,     \* bound on the clock
  MaxChanges,  \* bound on AddKey and RemoveKey
  None         \* no key

ASSUME ScopesAssumption == Required \subseteq Scopes
ASSUME BoundsAssumption == MaxTime \in Nat /\ MaxChanges \in Nat
ASSUME NoneAssumption   == None \notin Keys

Never == MaxTime + 1   \* the expiry of a key that has none

APIKey == [exp : 0..Never, scopes : SUBSET Scopes]

ASSUME NotAKey == None \notin APIKey

VARIABLES
  up,       \* the process is alive
  keys,     \* what the map holds for a key value: an APIKey or None
  pc,       \* where a request is
  cred,     \* the key value it carries, or None
  raced,    \* requests, with which of their two iterations a change fell into
  now, changes,
  came, held  \* history: when a request came, and what the map has held for its
              \* key value since

vars == <<up, keys, pc, cred, now, changes, came, held, raced>>

Looking == {"validating", "scoping"}
Over    == {"served", "unauthorized", "forbidden"}
Value   == APIKey \cup {None}

TypeOK ==
  /\ up \in BOOLEAN
  /\ keys \in [Keys -> Value]
  /\ pc \in [Reqs -> {"new", "authenticated"} \cup Looking \cup Over]
  /\ cred \in [Reqs -> Keys \cup {None}]
  /\ raced \subseteq Reqs \X Looking
  /\ now \in 0..MaxTime /\ changes \in 0..MaxChanges
  /\ came \in [Reqs -> 0..MaxTime] /\ held \in [Reqs -> SUBSET Value]
-----------------------------------------------------------------------------
\* Where a request may carry its key: a "Bearer " may have nothing after it.
Headers == [key : Keys \cup {None}, bearer : Keys \cup {None, "empty"},
            query : Keys \cup {None}]

extractAPIKey(h) ==
  IF h.key # None THEN h.key
  ELSE IF h.bearer = "empty" THEN None
       ELSE IF h.bearer # None THEN h.bearer ELSE h.query

\* A faulty Expired: the second of the expiry counts as after it.
ExpiredEarly(k) == k.exp # Never /\ now >= k.exp

Expired(k) == k.exp # Never /\ now > k.exp

\* A faulty hasScopes: one of the scopes will do.
hasSomeScope(k) == Required \cap k.scopes # {}

hasScopes(k) == Required \subseteq k.scopes

Racing(r) == <<r, pc[r]>> \in raced

\* What an iteration may find that raced with a change: the copy of an entry is
\* not atomic, and its slot may be given to another key meanwhile, so that the
\* text of one key comes with the fields of others, whole or in part; or nothing.
Torn == Value

\* validateAPIKey, at the end of its iteration.
Found(r) == IF Racing(r) THEN Torn ELSE {keys[cred[r]]}

Unexpired(r) == {k \in Found(r) \ {None} : ~Expired(k)}
Scoped(r)    == {k \in Found(r) \ {None} : hasScopes(k)}

Init ==
  /\ up = TRUE
  /\ keys \in [Keys -> Value]
  /\ pc = [r \in Reqs |-> "new"]
  /\ cred = [r \in Reqs |-> None]
  /\ raced = {}
  /\ now = 0 /\ changes = 0
  /\ came = [r \in Reqs |-> 0]
  /\ held = [r \in Reqs |-> {}]
-----------------------------------------------------------------------------
\* Middleware with a key: the request begins to range over the map.
Arrive(r, h) ==
  /\ up
  /\ pc[r] = "new"
  /\ LET k == extractAPIKey(h)
     IN  /\ k # None
         /\ cred' = [cred EXCEPT ![r] = k]
         /\ held' = [held EXCEPT ![r] = {keys[k]}]
  /\ pc' = [pc EXCEPT ![r] = "validating"]
  /\ came' = [came EXCEPT ![r] = now]
  /\ UNCHANGED <<up, keys, now, changes, raced>>

ArriveBare(r, h) ==
  /\ up
  /\ pc[r] = "new"
  /\ extractAPIKey(h) = None
  /\ pc' = [pc EXCEPT ![r] = "unauthorized"]
  /\ UNCHANGED <<up, keys, cred, now, changes, came, held, raced>>

\* The request leaves its iteration for s.
Leave(r, s) ==
  /\ pc' = [pc EXCEPT ![r] = s]
  /\ UNCHANGED <<up, keys, cred, now, changes, came, held, raced>>

Authenticate(r) ==
  /\ up
  /\ pc[r] = "validating"
  /\ Unexpired(r) # {}
  /\ Leave(r, "authenticated")

\* An invalid key, or one that has expired.
Unauthorized(r) ==
  /\ up
  /\ pc[r] = "validating"
  /\ Found(r) \ Unexpired(r) # {}
  /\ Leave(r, "unauthorized")

\* RequireScopes looks the key up once more.
Scope(r) ==
  /\ up
  /\ pc[r] = "authenticated"
  /\ pc' = [pc EXCEPT ![r] = "scoping"]
  /\ UNCHANGED <<up, keys, cred, now, changes, came, held, raced>>

Serve(r) ==
  /\ up
  /\ pc[r] = "scoping"
  /\ Scoped(r) # {}
  /\ Leave(r, "served")

Forbid(r) ==
  /\ up
  /\ pc[r] = "scoping"
  /\ Found(r) \ Scoped(r) # {}
  /\ Leave(r, "forbidden")

\* The race ends the process: the runtime notices it, or a torn value does not
\* point into memory.
Fatal(r) ==
  /\ up
  /\ Racing(r)
  /\ up' = FALSE
  /\ UNCHANGED <<keys, pc, cred, now, changes, came, held, raced>>

\* The map holds v for k from now on; whoever ranges over it is in a race.
Change(k, v) ==
  /\ keys' = [keys EXCEPT ![k] = v]
  /\ raced' = raced \cup {<<r, pc[r]>> : r \in {q \in Reqs : pc[q] \in Looking}}
  /\ held' = [r \in Reqs |-> IF cred[r] = k /\ pc[r] \notin Over
                             THEN held[r] \cup {v} ELSE held[r]]
  /\ changes' = changes + 1
  /\ UNCHANGED <<up, pc, cred, now, came>>

\* An enabled key; AddKey with a disabled one does nothing.
AddKey(k, v) ==
  /\ up /\ changes < MaxChanges
  /\ Change(k, v)

\* A faulty RemoveKey: the entry is emptied and stays.
RemoveKeyEmpty(k) ==
  /\ up /\ changes < MaxChanges
  /\ Change(k, [scopes |-> {}])

RemoveKey(k) ==
  /\ up /\ changes < MaxChanges
  /\ Change(k, None)

Tick ==
  /\ up /\ now < MaxTime
  /\ now' = now + 1
  /\ UNCHANGED <<up, keys, pc, cred, changes, came, held, raced>>

Next ==
  \/ \E r \in Reqs : \/ \E h \in Headers : Arrive(r, h) \/ ArriveBare(r, h)
                     \/ Authenticate(r)
                     \/ Unauthorized(r)
                     \/ Scope(r)
                     \/ Serve(r)
                     \/ Forbid(r)
                     \/ Fatal(r)
  \/ \E k \in Keys : (\E v \in APIKey : AddKey(k, v)) \/ RemoveKey(k)
  \/ Tick

Spec == Init /\ [][Next]_vars
-----------------------------------------------------------------------------
\* A request is served only if the map has held its key since it came, not
\* expired at one time and with all the scopes at one time: whatever was removed,
\* replaced or expired between the two lookups, and it need not have been the same
\* time.  Of a lookup that was in a race nothing is promised: it may let through
\* anybody.
ServedByHeld ==
  \A r \in Reqs :
    pc[r] = "served" =>
      /\ <<r, "validating">> \in raced \/ \E k \in held[r] \ {None} : k.exp >= came[r]
      /\ <<r, "scoping">> \in raced \/ \E k \in held[r] \ {None} : Required \subseteq k.scopes

\* A request is refused by a lookup that was in no race only if at some time since
\* it came its key was missing or fell short of what that lookup is for.
RefusedForCause ==
  \A r \in Reqs :
    cred[r] # None =>
      /\ pc[r] = "unauthorized" /\ <<r, "validating">> \notin raced =>
           \E k \in held[r] : k = None \/ k.exp < now
      /\ pc[r] = "forbidden" /\ <<r, "scoping">> \notin raced =>
           \E k \in held[r] : k = None \/ ~(Required \subseteq k.scopes)
=============================================================================
