SPECIFICATION Spec
CONSTANTS
    Operations <- MCOperations
    Runners = {r1}
    Nobody = Nobody
    Guardians = {g1}
    Repairing = {g1}
    Checkers = {c1}
    Threshold = 1
    MaxActions = 2
    MaxFailures = 1
CONSTRAINT
    OverSsh
SYMMETRY MCSymmetry
INVARIANTS
    ConstantsOK
    TypeOK
    RepairsCounted
    OneRepairAtATime
    OnlyConfirmedSent
    FailuresReported
PROPERTIES
    SentOnce
    CommittedInTime
    StopsStay
