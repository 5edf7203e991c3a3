SPECIFICATION Spec
CONSTANTS
    Procs = {p1, p2}
    Numbers = {1, 2, 3}
    MaxSessions = 2
CONSTRAINT Bounded
SYMMETRY Alike
INVARIANTS
    TypeOK
    AcknowledgedIsStored
    ResumesCovered
    NeverAhead
PROPERTY
    DurableAdvances
