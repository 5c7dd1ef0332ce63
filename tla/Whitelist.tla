------------------------------ MODULE Whitelist ------------------------------
(***************************************************************************)
(* The whitelist manager of the gateway (internal/whitelist/manager.go):   *)
(* a whitelist and a blacklist in memory, a Traefik configuration file     *)
(* that the whitelist is written to after every change and read back from  *)
(* when the process starts, and one mutex around every operation.          *)
(*                                                                         *)
(* The mutex makes operations atomic to one another, but not to the file:  *)
(* os.WriteFile truncates, then writes, and either step may fail or be cut *)
(* short by the end of the process.  A change of the whitelist is          *)
(* therefore three steps here: the change in memory, the open that         *)
(* truncates, and the write.                                               *)
(***************************************************************************)
EXTENDS Integers

CONSTANTS
  Patterns,      \* the texts an entry may hold: addresses, CIDR ranges, junk
  Items,         \* the items a sourceRange may list: a text and which copy of it
  Valid,         \* those that validateIPOrCIDR accepts
  Addrs,         \* the addresses IsAllowed may be asked about
  Covers,        \* the addresses a pattern matches (ipMatches)
  Cuts,          \* what is left of a pattern whose text is cut short
  MaxTime,       \* bound on the clock
  Expiries       \* expiry times that requests to the whitelist name

Never == MaxTime + 1   \* the expiry of an entry without ExpiresAt

ASSUME ClockAssumption    == MaxTime \in Nat
ASSUME PatternAssumption  == Valid \subseteq Patterns
ASSUME ItemsAssumption    == /\ Items \subseteq [ip : Patterns, copy : Nat \ {0}]
                             /\ \A p \in Patterns : [ip |-> p, copy |-> 1] \in Items
ASSUME CoversAssumption   == Covers \in [Patterns -> SUBSET Addrs]
ASSUME CutsAssumption     == Cuts \in [Patterns -> SUBSET Patterns]
ASSUME ExpiriesAssumption == Expiries \subseteq 0..Never

VARIABLES
  up,         \* "down", "up", or "absent": running without a manager
  whitelist,  \* Manager.whitelist
  blacklist,  \* Manager.blacklist
  file,       \* the file at traefikConfigPath
  op,         \* the update holding the mutex, "none" when it is free
  pending,    \* the entries that update adds or removes
  target,     \* the sourceRange it has computed
  opened,     \* it has opened, and so truncated, the file
  verdict,    \* what the last step answered, if it was an IsAllowed
  now         \* the wall clock

\* History: what the callers have been told, and how the file came to be.
VARIABLES
  granted,    \* adds acknowledged (or cut off by a crash), not yet revoked
  acked,      \* adds acknowledged and not asked to be removed since
  lost,       \* patterns of acked that a restart did not find in a torn file
  reloaded,   \* patterns read back from the file and not added again since
  strays,     \* patterns read from a torn file that nobody was granted
  stale,      \* the last update left the file behind the memory
  torn        \* the last write of the file was not completed

mutex   == <<op, pending, target, opened>>
history == <<granted, acked, lost, reloaded, strays, stale, torn>>
vars    == <<up, whitelist, blacklist, file, mutex, verdict, now, history>>

\* A list in the code may hold one text several times; copy tells the entries
\* of one text apart, and their order is left out.
Entry == {[ip |-> i.ip, exp |-> x, copy |-> i.copy] : i \in Items, x \in 0..Never}
File  == [kind : {"missing", "ok", "corrupt"}, items : SUBSET Items]

\* A faulty Permanent: an expiry beyond the one that means never.
PermanentBeyond(i) == [ip |-> i.ip, exp |-> Never + 1, copy |-> i.copy]

Permanent(i)  == [ip |-> i.ip, exp |-> Never, copy |-> i.copy]
IPs(es)       == {e.ip : e \in es}
Listing(es)   == {[ip |-> e.ip, copy |-> e.copy] : e \in es}
Expired(e)    == now > e.exp
Live(es)      == {e \in es : ~Expired(e)}
Written(items) == [kind |-> "ok", items |-> items]
NoVerdict     == [addr |-> "none", allowed |-> FALSE]

\* What the file may hold when the write of items stops part of the way: text
\* that does not parse, or some of the list, its last item perhaps cut, and
\* then perhaps to a text that the list has already.
CutItems(items) == {c \in Items : \E i \in items : c.ip \in Cuts[i.ip]}

Partial(items) ==
  {[kind |-> "corrupt", items |-> {}]}
    \cup {Written(s) : s \in SUBSET items}
    \cup UNION {{Written(s \cup {c}) : c \in CutItems(items \ s)} : s \in SUBSET items}

TypeOK ==
  /\ up \in {"down", "up", "absent"}
  /\ whitelist \subseteq Entry
  /\ blacklist \subseteq Patterns
  /\ file \in File
  /\ op \in {"none", "add", "remove", "cleanup"}
  /\ pending \subseteq Entry
  /\ target \subseteq Items
  /\ opened \in BOOLEAN
  /\ verdict \in [addr : Addrs \cup {"none"}, allowed : BOOLEAN]
  /\ now \in 0..MaxTime
  /\ granted \subseteq Entry
  /\ acked \subseteq Entry
  /\ lost \subseteq Patterns
  /\ reloaded \subseteq Patterns
  /\ strays \subseteq Patterns
  /\ stale \in BOOLEAN
  /\ torn \in BOOLEAN
-----------------------------------------------------------------------------
\* The program is not running; the file is whatever an operator left there,
\* and what it lists counts as granted for good.
Init ==
  /\ up = "down"
  /\ whitelist = {} /\ blacklist = {}
  /\ file \in {[kind |-> k, items |-> {}] : k \in {"missing", "corrupt"}}
               \cup {Written(s) : s \in SUBSET Items}
  /\ op = "none" /\ pending = {} /\ target = {} /\ opened = FALSE
  /\ verdict = NoVerdict
  /\ now = 0
  /\ granted = {Permanent(i) : i \in file.items}
  /\ acked = granted
  /\ lost = {} /\ reloaded = {} /\ strays = {}
  /\ stale = FALSE /\ torn = FALSE

\* The manager exists and no update holds the mutex.
Idle == up = "up" /\ op = "none"

\* A faulty Fresh: the search for a duplicate is forgotten.
FreshAlways(ip) == TRUE
Fresh(ip) == \A e \in whitelist : e.ip # ip

\* The first half of an update: the list in memory becomes list, and the
\* sourceRange for the file is computed from it, without expired entries.
BeginUpdate(kind, entries, list) ==
  /\ op' = kind
  /\ pending' = entries
  /\ whitelist' = list
  /\ target' = Listing(Live(list))
  /\ opened' = FALSE
  /\ verdict' = NoVerdict

EndUpdate ==
  /\ op' = "none" /\ pending' = {} /\ target' = {} /\ opened' = FALSE
  /\ verdict' = NoVerdict

\* A request refused before any change (an invalid or a duplicate address, a
\* removal of an unknown one) leaves no trace, and is no step.
AddToWhitelist(ip, exp) ==
  /\ Idle
  /\ ip \in Valid
  /\ Fresh(ip)
  /\ LET e == [ip |-> ip, exp |-> exp, copy |-> 1]
     IN  BeginUpdate("add", {e}, whitelist \cup {e})
  /\ UNCHANGED <<up, blacklist, file, now, history>>

RemoveFromWhitelist(ip) ==
  /\ Idle
  /\ ~Fresh(ip)
  /\ LET gone == {e \in whitelist : e.ip = ip}
     IN  BeginUpdate("remove", gone, whitelist \ gone)
  /\ acked' = {e \in acked : e.ip # ip}
  /\ lost' = lost \ {ip}
  /\ UNCHANGED <<up, blacklist, file, now, granted, reloaded, strays, stale, torn>>

\* A faulty CleanupExpired: the two branches of its loop are swapped.
CleanupSwapped ==
  /\ Idle
  /\ Live(whitelist) # whitelist
  /\ BeginUpdate("cleanup", Live(whitelist), whitelist \ Live(whitelist))
  /\ UNCHANGED <<up, blacklist, file, now, history>>

\* With nothing expired the call returns 0 and writes nothing.
CleanupExpired ==
  /\ Idle
  /\ Live(whitelist) # whitelist
  /\ BeginUpdate("cleanup", whitelist \ Live(whitelist), Live(whitelist))
  /\ UNCHANGED <<up, blacklist, file, now, history>>

\* os.WriteFile opens with O_TRUNC; an empty file parses as an empty list.
OpenFile ==
  /\ op # "none" /\ ~opened
  /\ opened' = TRUE
  /\ file' = Written({})
  /\ verdict' = NoVerdict
  /\ UNCHANGED <<up, whitelist, blacklist, op, pending, target, now, history>>

\* A faulty AfterError: no caller takes its change back.
AfterErrorKeep == whitelist

\* What each caller of updateTraefikConfig does with its error: the add takes
\* its entry back, the removal and the cleanup keep the list they made.
AfterError == IF op = "add" THEN whitelist \ pending ELSE whitelist

OpenFails ==
  /\ op # "none" /\ ~opened
  /\ whitelist' = AfterError
  /\ stale' = (stale \/ op # "add")
  /\ EndUpdate
  /\ UNCHANGED <<up, blacklist, file, now, granted, acked, lost, reloaded, strays, torn>>

WriteFails ==
  /\ op # "none" /\ opened
  /\ file' \in Partial(target)
  /\ whitelist' = AfterError
  /\ stale' = TRUE /\ torn' = TRUE
  /\ EndUpdate
  /\ UNCHANGED <<up, blacklist, now, granted, acked, lost, reloaded, strays>>

Revoke(es, gone)   == {e \in es : e.ip \notin IPs(gone)}
Supersede(es, new) == Revoke(es, new) \cup new

WriteAll ==
  /\ op # "none" /\ opened
  /\ file' = Written(target)
  /\ stale' = FALSE /\ torn' = FALSE
  /\ CASE op = "add"     -> /\ granted' = Supersede(granted, pending)
                            /\ acked' = Supersede(acked, pending)
                            /\ lost' = lost \ IPs(pending)
                            /\ reloaded' = reloaded \ IPs(pending)
                            /\ strays' = strays \ IPs(pending)
       [] op = "remove"  -> /\ granted' = Revoke(granted, pending)
                            /\ reloaded' = reloaded \ IPs(pending)
                            /\ strays' = strays \ IPs(pending)
                            /\ UNCHANGED <<acked, lost>>
       [] op = "cleanup" -> UNCHANGED <<granted, acked, lost, reloaded, strays>>
  /\ EndUpdate
  /\ UNCHANGED <<up, whitelist, blacklist, now>>
-----------------------------------------------------------------------------
\* The blacklist lives in memory alone.  An expiry that the request names
\* (whitelist.proto) is dropped by the handler.
AddToBlacklist(ip) ==
  /\ Idle
  /\ ip \in Valid \ blacklist
  /\ blacklist' = blacklist \cup {ip}
  /\ verdict' = NoVerdict
  /\ UNCHANGED <<up, whitelist, file, mutex, now, history>>

RemoveFromBlacklist(ip) ==
  /\ Idle
  /\ ip \in blacklist
  /\ blacklist' = blacklist \ {ip}
  /\ verdict' = NoVerdict
  /\ UNCHANGED <<up, whitelist, file, mutex, now, history>>

Matches(a, p) == a \in Covers[p]

\* A faulty Listed and a faulty Allowed: an expired entry still counts, and
\* the blacklist does not.
ListedEver(a)       == \E e \in whitelist : Matches(a, e.ip)
AllowedIfListed(a)  == \E e \in Live(whitelist) : Matches(a, e.ip)

Blocked(a) == \E p \in blacklist : Matches(a, p)
Listed(a)  == \E e \in Live(whitelist) : Matches(a, e.ip)
Allowed(a) == ~Blocked(a) /\ Listed(a)

\* An unparsable address is one that no pattern covers.
IsAllowed(a) ==
  /\ Idle
  /\ verdict' = [addr |-> a, allowed |-> Allowed(a)]
  /\ UNCHANGED <<up, whitelist, blacklist, file, mutex, now, history>>
-----------------------------------------------------------------------------
\* The process ends, orderly or not.  An update cut off has changed nothing in
\* the file before its open, and may have written any part of it after.
Crash ==
  /\ up # "down"
  /\ up' = "down"
  /\ whitelist' = {} /\ blacklist' = {}
  /\ IF opened THEN /\ file' \in Partial(target)
                    /\ torn' = (file' # Written(target))
               ELSE UNCHANGED <<file, torn>>
  /\ granted' = IF op = "add" THEN granted \cup pending ELSE granted
  /\ reloaded' = {} /\ stale' = FALSE
  /\ EndUpdate
  /\ UNCHANGED <<now, acked, lost, strays>>

\* What is read back has no expiry and is not validated, and repeats stay.
\* After an incomplete write the list may miss what was acknowledged (lost) and
\* hold what nobody was granted (strays).
Start ==
  /\ up = "down"
  /\ file.kind # "corrupt"
  /\ up' = "up"
  /\ whitelist' = {Permanent(i) : i \in file.items}
  /\ reloaded' = IPs(file.items)
  /\ IF torn THEN /\ lost' = lost \cup (IPs(acked) \ IPs(file.items))
                  /\ strays' = IPs(file.items) \ IPs(granted)
             ELSE UNCHANGED <<lost, strays>>
  /\ torn' = FALSE
  /\ verdict' = NoVerdict
  /\ UNCHANGED <<blacklist, file, mutex, now, granted, acked, stale>>

\* NewManager fails on a file that it cannot parse or read; the gateway goes
\* on without the service.
StartFails ==
  /\ up = "down"
  /\ file.kind # "missing"
  /\ up' = "absent"
  /\ verdict' = NoVerdict
  /\ UNCHANGED <<whitelist, blacklist, file, mutex, now, history>>

Tick ==
  /\ now < MaxTime
  /\ now' = now + 1
  /\ verdict' = NoVerdict
  /\ UNCHANGED <<up, whitelist, blacklist, file, mutex, history>>

Next ==
  \/ \E ip \in Patterns, exp \in Expiries : AddToWhitelist(ip, exp)
  \/ \E ip \in Patterns : RemoveFromWhitelist(ip)
  \/ CleanupExpired
  \/ OpenFile
  \/ OpenFails
  \/ WriteFails
  \/ WriteAll
  \/ \E ip \in Patterns : AddToBlacklist(ip)
  \/ \E ip \in Patterns : RemoveFromBlacklist(ip)
  \/ \E a \in Addrs : IsAllowed(a)
  \/ Crash
  \/ Start
  \/ StartFails
  \/ Tick

Spec == Init /\ [][Next]_vars
-----------------------------------------------------------------------------
\* The list holds a text twice only when the file it was loaded from does, and
\* then for good: an add never makes a second entry of a text, so that what its
\* rollback takes off the list is its own entry alone.
RepeatsFromFile ==
  \A e, f \in whitelist : e.ip = f.ip /\ e # f =>
    e.exp = Never /\ f.exp = Never /\ e.ip \in reloaded

\* Between updates, and unless the last one failed to reach it, the file
\* Traefik would read holds every live entry of the memory, repeats and all, and
\* nothing that is not in memory: a later successful write repairs what a
\* failed one left.
FileMatchesMemory ==
  Idle /\ ~stale => /\ file.kind # "corrupt"
                    /\ Listing(Live(whitelist)) \subseteq file.items
                    /\ file.items \subseteq Listing(whitelist)

\* An acknowledged add is in force until its expiry or until someone asks to
\* remove it, across failed updates of other entries and across restarts, with
\* one exception: a restart that reads a file whose last write was cut off, be
\* it the write of another entry, loses for good what that file does not list.
\* A failed update loses nothing for as long as the process runs, and a restart
\* loses nothing once a later write has completed.
DurableGrant ==
  Idle => \A g \in Live(acked) : g.ip \in IPs(Live(whitelist)) \cup lost

\* An address is let in only by a pattern somebody was granted and nobody
\* successfully revoked, which is unexpired or came back from the file; or, after
\* a restart that read a file cut off in its write, by a text of that file that
\* nobody was granted: a failed add's, or what a cut has left of a longer text.
AllowOnlyGranted ==
  Idle => \A a \in Addrs : Allowed(a) =>
            \/ \E g \in granted : Matches(a, g.ip) /\ (~Expired(g) \/ g.ip \in reloaded)
            \/ \E p \in strays : Matches(a, p)

\* The grants that no restart has lost.
Kept == {g \in acked : g.ip \notin lost}

\* The manager keeps the promise of AccessList: an add takes effect when its
\* file write succeeds and leaves no trace in memory when it fails, a removal
\* takes effect at once, and no answer comes from a half-made change.
Promise == INSTANCE AccessList WITH
  running <- up,
  allow   <- IF op = "add" THEN whitelist \ pending ELSE whitelist,
  deny    <- blacklist,
  acked   <- Kept,
  safe    <- up # "down" \/ ~torn,
  answer  <- verdict,
  clock   <- now

KeepsPromise == Promise!Spec

\* What whitelist.proto says of expires_at, "Optional expiration": once a
\* temporary entry has expired the address is no longer let in by it.  (What a
\* cut-off write has left in the file without a grant is another matter.)
ExpiryHonoured ==
  Idle => \A a \in Addrs : Allowed(a) =>
            \/ \E g \in granted : Matches(a, g.ip) /\ ~Expired(g)
            \/ \E p \in strays : Matches(a, p)
=============================================================================
