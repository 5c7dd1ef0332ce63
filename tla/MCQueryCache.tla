----------------------------- MODULE MCQueryCache -----------------------------
(***************************************************************************)
(* Two callers at a time and three changes of the data, the second of      *)
(* which leaves the query without a result.                                *)
(***************************************************************************)
EXTENDS QueryCache

CONSTANTS w1, w2

MCWorkers == {w1, w2}
MCTTLs    == {0, 1}
MCNulls   == {2}
=============================================================================
