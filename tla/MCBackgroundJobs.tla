-------------------------- MODULE MCBackgroundJobs --------------------------
(* Instances of BackgroundJobs for TLC. *)
EXTENDS BackgroundJobs

CONSTANTS w1, w2

MCAttempts == [j \in Jobs |-> 1]
MCScope == [j \in Jobs |-> "lane"]
MCConcurrency == [w \in Workers |-> 3]
MCPriority == [j \in Jobs |-> 1]
=============================================================================
