SPECIFICATION FairSpec
CONSTANTS
    o1 = o1
    o2 = o2
    r1 = r1
    r2 = r2
    Nobody = Nobody
    Operations = {o1}
    JobIds = {o1}
    Runners = {r1, r2}
    MaxBoots = 2
    MaxFaults = 2
INVARIANTS TypeOK SubmittedOnce OutcomeTruthful
PROPERTY OperationsSettle
CHECK_DEADLOCK FALSE
