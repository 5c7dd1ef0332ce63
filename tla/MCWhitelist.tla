----------------------------- MODULE MCWhitelist -----------------------------
(***************************************************************************)
(* A small instance of Whitelist: a host inside a network, and the text    *)
(* left of either when the file is cut.  Cutting "10.0.0.1/24" may leave   *)
(* "10.0.0.1", a valid entry that covers less, and one that the list may   *)
(* hold already: the host may be in it twice.  A cut that leaves no valid  *)
(* text is left to the second instance, with a longer clock.               *)
(***************************************************************************)
EXTENDS Whitelist

MCPatterns == {"host", "net"}
MCItems    == {[ip |-> p, copy |-> 1] : p \in MCPatterns} \cup {[ip |-> "host", copy |-> 2]}
MCValid    == MCPatterns
MCAddrs    == {"a", "b"}
MCCovers   == [p \in MCPatterns |-> IF p = "host" THEN {"a"} ELSE {"a", "b"}]
MCCuts     == [p \in MCPatterns |-> IF p = "net" THEN {"host"} ELSE {}]

\* A single address, for runs with a longer clock.
LonePatterns == {"host", "junk"}
LoneItems    == {[ip |-> p, copy |-> 1] : p \in LonePatterns}
LoneValid    == {"host"}
LoneAddrs    == {"a"}
LoneCovers   == [p \in LonePatterns |-> IF p = "host" THEN {"a"} ELSE {}]
LoneCuts     == [p \in LonePatterns |-> IF p = "host" THEN {"junk"} ELSE {}]
LoneExpiries == 0..Never

MCExpiries == {0, Never}
=============================================================================
