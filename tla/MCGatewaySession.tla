-------------------------- MODULE MCGatewaySession --------------------------
(* A small instance of GatewaySession. *)
EXTENDS GatewaySession, TLC

CONSTANT MaxSessions    \* bound on the sessions the platform begins

Bounded == issued <= MaxSessions

Alike == Permutations(Procs)
=============================================================================
