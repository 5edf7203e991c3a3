------------------------- MODULE MCFleetDeployments -------------------------
(* Instances of FleetDeployments for TLC. *)
EXTENDS FleetDeployments

CONSTANTS d1, d2, h1, h2, p1, p2

MCOrder == [d \in Deployments |-> IF d = d1 THEN <<h1, h2>> ELSE <<h1>>]
=============================================================================
