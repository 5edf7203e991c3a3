SPECIFICATION GatewaySpec
CONSTANTS
    qwen = qwen
    cloud = cloud
    Calls = {o1, c1, c2}
    Ocr = {o1}
    Streams = {c1}
    Profiles = {qwen, cloud}
    Route <- MCRoute
    Fits <- MCFits
    NoBreaker = {}
    Local = {}
    FailureThreshold = 2
    MaxTokens = 2
    DailyLimit = 2
    Uses = {2, 3}
    MaxRevision = 2
CONSTRAINT Bounded
CHECK_DEADLOCK FALSE
INVARIANTS
    GatewayConstantsOK
    GatewayTypeOK
    NoDeadProbe
    NothingFree
    BudgetKept
    QuotaKept
    GateFollowsCommand
