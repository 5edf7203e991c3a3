SPECIFICATION Spec
CONSTANTS
    p1 = p1
    p2 = p2
    NoProc = NoProc
    Deliveries = {1, 2}
    Ephemeral = {1, 2}
    Procs = {p1, p2}
    PassiveLimit = 2
    MaxMsgs = 2
    MaxFaults = 2
SYMMETRY ProcSymmetry
INVARIANT PassiveSeqFresh
