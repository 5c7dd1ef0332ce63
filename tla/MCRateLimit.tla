----------------------------- MODULE MCRateLimit -----------------------------
(***************************************************************************)
(* Two gateways, three requests for a budget of one per window of one      *)
(* tick; the clock runs to the expiry of the first window's key.           *)
(***************************************************************************)
EXTENDS RateLimit

CONSTANTS g1, g2, r1, r2, r3

MCGateways  == {g1, g2}
MCReqs      == {r1, r2, r3}
MCAdminReqs == {r3}
MCAt        == [r \in MCReqs |-> IF r = r1 THEN g1 ELSE g2]
MCRate      == [t \in Tiers |-> 1]
=============================================================================
