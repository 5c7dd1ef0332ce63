-------------------------- MODULE AuditedOperations --------------------------
(***************************************************************************)
(* What the Docker service promises of an operation on a container.  It is *)
(* done on its own container or not at all, perhaps after everyone has     *)
(* given it up.  It is logged after it is done and at most once, and what  *)
(* is logged may leave a record or none; records stay.  Success is told of *)
(* what is logged, failure of what is not, and what was told is final.     *)
(* Containers also stop and start by themselves.                           *)
(***************************************************************************)

CONSTANTS
  Calls, Containers,
  Operations,  \* what a call may ask for: records with a method and a name
  NoRequest

VARIABLES
  up,      \* whether there is anyone to record and to tell
  wanted,  \* the operation of each call
  done,    \* the calls whose operation is done, those that are logged, and those
  logged,  \* with a record
  audit,
  told,    \* "nothing", "success" or "failure"
  box      \* "running" or "stopped"

vars == <<up, wanted, done, logged, audit, told, box>>

Init ==
  /\ up = TRUE
  /\ wanted = [c \in Calls |-> NoRequest]
  /\ done = {} /\ logged = {} /\ audit = {}
  /\ told = [c \in Calls |-> "nothing"]
  /\ box \in [Containers -> {"running", "stopped"}]

Want(c, q) ==
  /\ up
  /\ wanted[c] = NoRequest
  /\ wanted' = [wanted EXCEPT ![c] = q]
  /\ UNCHANGED <<up, done, logged, audit, told, box>>

Effect(q) == IF q.method = "StopContainer" THEN "stopped" ELSE "running"

Do(c) ==
  /\ wanted[c] \in Operations
  /\ c \notin done
  /\ done' = done \cup {c}
  /\ box' = [box EXCEPT ![wanted[c].name] = Effect(wanted[c])]
  /\ UNCHANGED <<up, wanted, logged, audit, told>>

Record(c) ==
  /\ up
  /\ c \in done \ logged
  /\ told[c] = "nothing"
  /\ logged' = logged \cup {c}
  /\ audit' \in {audit, audit \cup {c}}
  /\ UNCHANGED <<up, wanted, done, told, box>>

Tell(c) ==
  /\ up
  /\ wanted[c] \in Operations
  /\ told[c] = "nothing"
  /\ told' = [told EXCEPT ![c] = IF c \in logged THEN "success" ELSE "failure"]
  /\ UNCHANGED <<up, wanted, done, logged, audit, box>>

Change(k) ==
  /\ \E s \in {"running", "stopped"} : box' = [box EXCEPT ![k] = s]
  /\ UNCHANGED <<up, wanted, done, logged, audit, told>>

Die == up /\ up' = FALSE /\ UNCHANGED <<wanted, done, logged, audit, told, box>>

Next ==
  \/ \E c \in Calls : \/ \E q \in Operations : Want(c, q)
                      \/ Do(c)
                      \/ Record(c)
                      \/ Tell(c)
  \/ \E k \in Containers : Change(k)
  \/ Die

Spec == Init /\ [][Next]_vars
=============================================================================
