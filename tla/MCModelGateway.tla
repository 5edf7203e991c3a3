--------------------------- MODULE MCModelGateway ---------------------------
(* A small instance of ModelGateway. *)
EXTENDS ModelGateway, TLC

CONSTANTS
    qwen, cloud,        \* the profiles; qwen may be the local one
    MaxRevision         \* bound on the commands to the local model, times two

MCRoute == [p \in Profiles |->
    IF p = qwen THEN <<qwen, cloud>> ELSE <<cloud, qwen>>]

MCFits == {Profiles, {cloud}}

Bounded == revision =< MaxRevision /\ generation =< 2
=============================================================================
