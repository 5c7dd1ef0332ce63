------------------------------ MODULE MCGateway ------------------------------
(***************************************************************************)
(* Two gRPC calls and one REST request.  The calls may be two operations   *)
(* on one container, an operation between the samples of the other's       *)
(* statistics, or a check of the databases.                                *)
(***************************************************************************)
EXTENDS Gateway, TLC

CONSTANTS c1, c2, r1, n8n

MCCalls      == {c1, c2}
MCRestReqs   == {r1}
MCContainers == {n8n}
MCWirings    == {{"docker", "redis", "whitelist"}, {"docker"}}
AllWired     == {{"docker", "redis", "whitelist"}}
Symmetry     == Permutations(MCCalls)
Everything   == AllRequests
Up           == {"up"}
Operating ==
  {q \in Everything : q.method \in {"StopContainer", "RestartContainer", "GetContainerStats",
                                     "GetContainer"}}
AllPostgres  == {"up", "down", "hung"}
AllRedis     == {"up", "down"}
Nothing      == {}
OneCall      == {c1}
Checks ==
  HealthRequests \cup ReflectionRequests
    \cup {q \in Everything : q.method \in {"GetWhitelist", "ListImages"}}
=============================================================================
