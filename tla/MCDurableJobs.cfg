SPECIFICATION FairSpec
CONSTANTS
    j1 = j1
    j2 = j2
    w1 = w1
    w2 = w2
    NoWorker = NoWorker
    Jobs = {j1, j2}
    Workers = {w1, w2}
    MaxAttempts <- MCAttempts
    Resume = {j2}
    Scope <- MCScope
    Priority <- MCPriority
    PerScope = 1
    Concurrency <- MCConcurrency
    Lease = 2
    Delay = 1
    MaxFaults = 2
INVARIANTS TypeOK NoStrandedJob AttemptAccounting OneHolder WorkerScopeLimit
PROPERTIES ImplementsFencedQueue TerminalIsFinal EnqueuedIsSettled LostHandlerStops
