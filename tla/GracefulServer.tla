---------------------------- MODULE GracefulServer ----------------------------
(***************************************************************************)
(* What the gateway promises those who connect to it, whatever goroutines  *)
(* it is made of: its doors close one after the other, requests first and  *)
(* calls after them; a client is closed when no call runs; what was taken  *)
(* is answered, and is lost only in the end of the process.  A call cannot *)
(* be lost in an orderly end, a request can.                               *)
(***************************************************************************)

CONSTANTS RestReqs, Calls, Clients

VARIABLES
  phase,   \* "open", "draining", "stopping", "closing", "stopped" or "dead"
  web,     \* the requests
  rpc,     \* the calls
  closed   \* the clients that are closed

vars == <<phase, web, rpc, closed>>

Up == phase \notin {"stopped", "dead"}

Init ==
  /\ phase = "open"
  /\ web = [r \in RestReqs |-> "new"]
  /\ rpc = [c \in Calls |-> "new"]
  /\ closed = {}

Accept(r) ==
  /\ phase = "open"
  /\ web[r] = "new"
  /\ \E s \in {"running", "limited"} : web' = [web EXCEPT ![r] = s]
  /\ UNCHANGED <<phase, rpc, closed>>

Respond(r) ==
  /\ Up
  /\ web[r] = "running"
  /\ \E s \in {"answered", "limited"} : web' = [web EXCEPT ![r] = s]
  /\ UNCHANGED <<phase, rpc, closed>>

Call(c) ==
  /\ phase \in {"open", "draining"}
  /\ rpc[c] = "new"
  /\ \E s \in {"running", "unimplemented"} : rpc' = [rpc EXCEPT ![c] = s]
  /\ UNCHANGED <<phase, web, closed>>

Answer(c) ==
  /\ Up
  /\ rpc[c] = "running"
  /\ rpc' = [rpc EXCEPT ![c] = "answered"]
  /\ UNCHANGED <<phase, web, closed>>

Drain == phase = "open" /\ phase' = "draining" /\ UNCHANGED <<web, rpc, closed>>

Stop == phase = "draining" /\ phase' = "stopping" /\ UNCHANGED <<web, rpc, closed>>

Stopped ==
  /\ phase = "stopping"
  /\ \A c \in Calls : rpc[c] # "running"
  /\ phase' = "closing"
  /\ UNCHANGED <<web, rpc, closed>>

Close(x) ==
  /\ phase = "closing"
  /\ closed' = closed \cup {x}
  /\ UNCHANGED <<phase, web, rpc>>

\* The end takes what still runs with it.
End ==
  /\ Up
  /\ phase' \in {"dead"} \cup IF phase = "closing" THEN {"stopped"} ELSE {}
  /\ web' = [r \in RestReqs |-> IF web[r] = "running" THEN "lost" ELSE web[r]]
  /\ rpc' = [c \in Calls |-> IF rpc[c] = "running" THEN "lost" ELSE rpc[c]]
  /\ UNCHANGED closed

Next ==
  \/ \E r \in RestReqs : Accept(r) \/ Respond(r)
  \/ \E c \in Calls : Call(c) \/ Answer(c)
  \/ \E x \in Clients : Close(x)
  \/ Drain \/ Stop \/ Stopped \/ End

Spec == Init /\ [][Next]_vars
=============================================================================
