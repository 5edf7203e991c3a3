SPECIFICATION Spec
CONSTANTS
    p1 = p1
    p2 = p2
    NoProc = NoProc
    Deliveries = {1, 2}
    Ephemeral = {2}
    Procs = {p1, p2}
    PassiveLimit = 1
    MaxMsgs = 1
    MaxFaults = 2
SYMMETRY ProcSymmetry
INVARIANTS TypeOK AtMostOnce TruthfulOutcome TraceableRepliesCounted
PROPERTY ImplementsOutbox
