SPECIFICATION Spec
CONSTANTS
    Operations <- MCOperations
    Runners = {r1}
    Nobody = Nobody
    Guardians = {g1, g2}
    Repairing = {}
    Checkers = {c1, c2}
    Threshold = 2
    MaxActions = 1
    MaxFailures = 2
CONSTRAINT
    OneStays
SYMMETRY MCSymmetry
INVARIANTS
    ConstantsOK
    TypeOK
    RepairsCounted
    OneRepairAtATime
    OnlyConfirmedSent
    FailuresReported
PROPERTIES
    SentOnce
    CommittedInTime
    StopsStay
