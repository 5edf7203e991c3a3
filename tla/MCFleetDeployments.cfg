SPECIFICATION FairFleetSpec
CONSTANTS
    d1 = d1
    d2 = d2
    h1 = h1
    h2 = h2
    p1 = p1
    p2 = p2
    Nobody = Nobody
    NoPreview = NoPreview
    Base = Base
    Deployments = {d1, d2}
    Hosts = {h1, h2}
    Deployers = {p1, p2}
    Order <- MCOrder
    OpsBacked = {}
    RollsBack = {d1}
    Flaky = {h2}
    MaxTrouble = 1
INVARIANTS FleetTypeOK HostRowsTruthful
PROPERTIES PreviewRespected EndedIsFinal DeploymentsSettle
CHECK_DEADLOCK FALSE
