----------------------------- MODULE AccessList -----------------------------
(***************************************************************************)
(* What the whitelist manager promises its callers: one list of allowed    *)
(* patterns and one of denied ones, each request atomic, an answer always  *)
(* from the current lists, and acknowledged grants that outlive a restart  *)
(* unless the record of them was broken before it: then some are lost, and *)
(* the list that the restart begins with is any.                           *)
(***************************************************************************)
EXTENDS Integers

CONSTANTS Patterns, Items, Valid, Addrs, Covers, MaxTime, Expiries

Never == MaxTime + 1

VARIABLES
  running,  \* "down", "up" or "absent"
  allow,    \* the allowed entries
  deny,     \* the denied patterns
  acked,    \* grants acknowledged, not revoked and not lost
  safe,     \* the record that the next boot reads is whole
  answer,   \* what the last step answered, if it was a question
  clock

vars == <<running, allow, deny, acked, safe, answer, clock>>

Permanent(i) == [ip |-> i.ip, exp |-> Never, copy |-> i.copy]
IPs(es)      == {e.ip : e \in es}
Live(es)     == {e \in es : clock <= e.exp}
NoAnswer     == [addr |-> "none", allowed |-> FALSE]

Init ==
  /\ running = "down"
  /\ allow = {} /\ deny = {}
  /\ acked \in {{Permanent(i) : i \in s} : s \in SUBSET Items}
  /\ safe = TRUE
  /\ answer = NoAnswer
  /\ clock = 0

Grant(ip, exp) ==
  /\ running = "up"
  /\ ip \in Valid \ IPs(allow)
  /\ allow' = allow \cup {[ip |-> ip, exp |-> exp, copy |-> 1]}
  /\ acked' = {e \in acked : e.ip # ip} \cup {[ip |-> ip, exp |-> exp, copy |-> 1]}
  /\ answer' = NoAnswer
  /\ UNCHANGED <<running, deny, safe, clock>>

\* A removal is in force at once, whatever the caller is told later.
Revoke(ip) ==
  /\ running = "up"
  /\ ip \in IPs(allow)
  /\ allow' = {e \in allow : e.ip # ip}
  /\ acked' = {e \in acked : e.ip # ip}
  /\ answer' = NoAnswer
  /\ UNCHANGED <<running, deny, safe, clock>>

Purge ==
  /\ running = "up"
  /\ allow' = Live(allow)
  /\ answer' = NoAnswer
  /\ UNCHANGED <<running, deny, acked, safe, clock>>

\* One pattern is put on or taken off the list of denied ones.
Deny(ip) ==
  /\ running = "up"
  /\ \/ ip \in Valid \ deny /\ deny' = deny \cup {ip}
     \/ ip \in deny /\ deny' = deny \ {ip}
  /\ answer' = NoAnswer
  /\ UNCHANGED <<running, allow, acked, safe, clock>>

Ask(a) ==
  /\ running = "up"
  /\ answer' = [addr |-> a,
                allowed |-> /\ \A p \in deny : a \notin Covers[p]
                            /\ \E e \in Live(allow) : a \in Covers[e.ip]]
  /\ UNCHANGED <<running, allow, deny, acked, safe, clock>>

\* Work inside a request that nobody can observe.
Internal ==
  /\ answer' = NoAnswer
  /\ UNCHANGED <<running, allow, deny, acked, safe, clock>>

Stop ==
  /\ running # "down"
  /\ running' = "down"
  /\ allow' = {} /\ deny' = {}
  /\ safe' \in BOOLEAN
  /\ answer' = NoAnswer
  /\ UNCHANGED <<acked, clock>>

Boot ==
  /\ running = "down"
  /\ running' = "up"
  /\ allow' \in {{Permanent(i) : i \in s} : s \in SUBSET Items}
  /\ IF safe THEN /\ acked' = acked
                  /\ IPs(Live(acked)) \subseteq IPs(allow')
             ELSE acked' \in SUBSET acked
  /\ safe' = TRUE
  /\ answer' = NoAnswer
  /\ UNCHANGED <<deny, clock>>

BootFails ==
  /\ running = "down"
  /\ running' = "absent"
  /\ safe' = TRUE
  /\ answer' = NoAnswer
  /\ UNCHANGED <<allow, deny, acked, clock>>

Tick ==
  /\ clock' = clock + 1
  /\ answer' = NoAnswer
  /\ UNCHANGED <<running, allow, deny, acked, safe>>

Next ==
  \/ \E ip \in Patterns : \/ \E exp \in Expiries : Grant(ip, exp)
                          \/ Revoke(ip)
                          \/ Deny(ip)
  \/ \E a \in Addrs : Ask(a)
  \/ Purge \/ Internal \/ Stop \/ Boot \/ BootFails \/ Tick

Spec == Init /\ [][Next]_vars
=============================================================================
