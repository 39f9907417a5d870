----------------------------- MODULE MCGateway -----------------------------
(* Two tool servers, one of which has no name of its own, and the loop      *)
(* beside one client that asks for discoveries, again and again.            *)
EXTENDS Gateway

CONSTANTS c1, c2

MCContainers == {c1, c2}

MCLabels ==
  [c \in MCContainers |->
     [enable |-> TRUE, name |-> IF c = c1 THEN "tools" ELSE NoName,
      transport |-> IF c = c1 THEN "" ELSE "stdio"]]

\* c1 is given a free port at every start, c2 has none.
MCMapping == [c \in MCContainers |-> IF c = c1 THEN {8080, 8081} ELSE {Unmapped}]
=============================================================================
