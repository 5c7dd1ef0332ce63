---------------------------- MODULE MCApiKeyAuth ----------------------------
(***************************************************************************)
(* Two key values, two scopes, both required, and three changes of the     *)
(* map: one may fall into either lookup and one between them, whether of   *)
(* the request's key or of the other.  Requests only read what they share, *)
(* so one is enough.                                                       *)
(***************************************************************************)
EXTENDS ApiKeyAuth, TLC

CONSTANTS k1, k2, r1, s1, s2

MCKeys   == {k1, k2}
MCReqs   == {r1}
MCScopes == {s1, s2}
Symmetry == Permutations(MCKeys) \cup Permutations(MCScopes)
=============================================================================
