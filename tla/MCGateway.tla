----------------------------- MODULE MCGateway -----------------------------
(* Three connections for two seats; the first and the last are of one account,  *)
(* one with a current client and one with an older client.                      *)
EXTENDS Gateway

CONSTANTS c1, c2, c3, a1, a2

MCAccountOf == [c \in Connections |-> IF c = c2 THEN a2 ELSE a1]
=============================================================================
