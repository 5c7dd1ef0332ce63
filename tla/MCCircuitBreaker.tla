--------------------------- MODULE MCCircuitBreaker ---------------------------
(***************************************************************************)
(* Five uses of a breaker: two failures open it, two trials close it, and  *)
(* one call may report to it from an earlier generation.                   *)
(***************************************************************************)
EXTENDS CircuitBreaker, TLC

CONSTANTS r1, r2, r3, r4, r5

MCReqs   == {r1, r2, r3, r4, r5}
Symmetry == Permutations(MCReqs)
=============================================================================
