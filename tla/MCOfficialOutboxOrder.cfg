SPECIFICATION Spec
CONSTANTS
    p1 = p1
    p2 = p2
    NoProc = NoProc
    Deliveries = {1, 2}
    Ephemeral = {}
    Procs = {p1, p2}
    PassiveLimit = 1
    MaxMsgs = 1
    MaxFaults = 2
SYMMETRY ProcSymmetry
INVARIANT PartsInOrder
