SPECIFICATION FairBackSpec
CONSTANTS
    w1 = w1
    w2 = w2
    NoWorker = NoWorker
    Jobs = {1}
    Workers = {w1, w2}
    MaxAttempts <- MCAttempts
    Resume = {}
    Scope <- MCScope
    Priority <- MCPriority
    PerScope = 3
    Concurrency <- MCConcurrency
    Lease = 1
    Delay = 0
    MaxFaults = 2
    MaxActive = 1
    Page = 1
INVARIANTS OneEngineRun NoFalseSuccess
PROPERTIES ReportReturned CancelledJobStops
CHECK_DEADLOCK FALSE
