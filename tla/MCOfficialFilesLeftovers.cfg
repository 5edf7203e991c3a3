SPECIFICATION FairSpec
CONSTANTS
    a1 = a1
    a2 = a2
    c1 = c1
    k1 = k1
    k2 = k2
    Artifacts = {a1, a2}
    Contents = {c1}
    Sha <- MCSha
    Calls = {k1}
    Jobs = {k1}
    SessionLoss = FALSE
    MaxEpochs = 2
CHECK_DEADLOCK FALSE
PROPERTY
    LeftoversGo
