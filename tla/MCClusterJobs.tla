--------------------------- MODULE MCClusterJobs ---------------------------
(* Two workers that each lend themselves under one grant, a borrowed job that *)
(* inspects an artifact at a cost, and a preview of the owner's own.          *)
EXTENDS ClusterJobs

MCJobs == {"inspect", "preview"}
MCPreviews == {"preview"}
MCInspections == {"inspect"}
MCNeedsGrant == {"inspect"}
MCDeadline == [j \in MCJobs |-> IF j = "preview" THEN 1 ELSE 2]
MCTtl == [j \in MCJobs |-> 1]
MCPinned == [j \in MCJobs |-> IF j = "preview" THEN "w1" ELSE None]
MCNeed == [j \in MCJobs |-> 1]
MCCost == [j \in MCJobs |-> IF j = "inspect" THEN 1 ELSE 0]
MCGrants == {"g1", "g2"}
MCWorkers == {"w1", "w2"}
MCCapacity == [w \in MCWorkers |-> IF w = "w1" THEN 1 ELSE 2]
MCLender == [g \in MCGrants |-> IF g = "g1" THEN "w1" ELSE "w2"]
MCGrantUntil == [g \in MCGrants |-> IF g = "g1" THEN 1 ELSE 2]
MCGrantUnits == [g \in MCGrants |-> 1]
MCBudget == [g \in MCGrants |-> 1]
=============================================================================
