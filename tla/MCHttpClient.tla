---------------------------- MODULE MCHttpClient ----------------------------
(***************************************************************************)
(* Two calls over a breaker that one failure opens and one trial closes,   *)
(* with two retries each: the one may go on retrying while the other is    *)
(* refused, is on trial, or has closed the breaker again.                  *)
(***************************************************************************)
EXTENDS HttpClient

CONSTANTS r1, r2

MCReqs == {r1, r2}
Afters == {0, 5}
=============================================================================
