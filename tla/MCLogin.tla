------------------------------- MODULE MCLogin -------------------------------
(* A user with a lobby login and a game login, and another one in the lobby, *)
(* each on a host of its own.                                                *)
EXTENDS Login

CONSTANTS l1, l2, g1, u1, u2, h1, h2, p1

UserOfChannel == [c \in {l1, g1, l2} |-> IF c = l2 THEN u2 ELSE u1]
HostOfChannel == [c \in {l1, g1, l2} |-> IF c = l2 THEN h2 ELSE h1]
=============================================================================
