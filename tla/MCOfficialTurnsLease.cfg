SPECIFICATION Spec
CONSTANTS
    m1 = m1
    m2 = m2
    p1 = p1
    p2 = p2
    None = None
    Messages <- MCMessages
    Procs <- MCProcs
    MaxFaults = 2
PROPERTIES LeaseContendedAgain
CHECK_DEADLOCK FALSE
