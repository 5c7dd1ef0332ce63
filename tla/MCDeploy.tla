------------------------------- MODULE MCDeploy -------------------------------
(***************************************************************************)
(* Two pushes.  The first starts both workflows, the second one of them    *)
(* and the script.  For two of them nothing need fail to leave the older   *)
(* gateway running.                                                        *)
(***************************************************************************)
EXTENDS Deploy

CONSTANTS cd1, vps1, cd2, script

MCRuns  == {cd1, vps1, cd2, script}
TwoRuns == {vps1, script}
MCOf    == [r \in Runs |-> IF r \in {cd1, cd2} THEN "pull" ELSE "build"]
MCAfter == [r \in Runs |-> IF r \in {cd1, vps1} THEN 1 ELSE 2]
=============================================================================
