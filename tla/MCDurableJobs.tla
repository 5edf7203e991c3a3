--------------------------- MODULE MCDurableJobs ---------------------------
(* Instances of DurableJobs for TLC. *)
EXTENDS DurableJobs

CONSTANTS j1, j2, w1, w2

MCAttempts == [j \in Jobs |-> IF j = j1 THEN 2 ELSE 1]
MCScope == [j \in Jobs |-> "lane"]
MCConcurrency == [w \in Workers |-> IF w = w1 THEN 2 ELSE 1]
MCPriority == [j \in Jobs |-> IF j = j1 THEN 1 ELSE 2]
=============================================================================
