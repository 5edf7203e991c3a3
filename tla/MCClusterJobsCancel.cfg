CONSTANTS
    Jobs <- MCJobs
    Workers <- MCWorkers
    Grants <- MCGrants
    None = None
    Previews <- MCPreviews
    Inspections <- MCInspections
    NeedsGrant <- MCNeedsGrant
    Deadline <- MCDeadline
    Ttl <- MCTtl
    Pinned <- MCPinned
    Need <- MCNeed
    Cost <- MCCost
    Capacity <- MCCapacity
    Lender <- MCLender
    GrantUntil <- MCGrantUntil
    GrantUnits <- MCGrantUnits
    Budget <- MCBudget
    Concurrency = 2
    Lease = 1
    MaxClock = 2
    MaxFaults = 1
SPECIFICATION Spec
CHECK_DEADLOCK FALSE
PROPERTIES CancellationEnds
