SPECIFICATION GatewaySpec
CONSTANTS
    qwen = qwen
    cloud = cloud
    Calls = {c1, c2}
    Ocr = {}
    Streams = {c1}
    Profiles = {qwen, cloud}
    Route <- MCRoute
    Fits <- MCFits
    NoBreaker = {}
    Local = {qwen}
    FailureThreshold = 1
    MaxTokens = 2
    DailyLimit = 0
    Uses = {}
    MaxRevision = 2
CONSTRAINT Bounded
CHECK_DEADLOCK FALSE
INVARIANTS
    GatewayConstantsOK
    GatewayTypeOK
    NoDeadProbe
    NothingFree
    BudgetKept
    QuotaKept
    GateFollowsCommand
