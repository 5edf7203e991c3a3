SPECIFICATION Spec
CONSTANTS
    Operations <- MCOperations
    Runners = {r1, r2}
    Nobody = Nobody
    Guardians = {g1}
    Repairing = {g1}
    Checkers = {c1}
    Threshold = 1
    MaxActions = 1
    MaxFailures = 1
CONSTRAINT
    Calm
SYMMETRY MCSymmetry
INVARIANTS
    ConstantsOK
    TypeOK
    RepairsCounted
    OneRepairAtATime
    OnlyConfirmedSent
    FailuresReported
PROPERTIES
    SentOnce
    CommittedInTime
    StopsStay
