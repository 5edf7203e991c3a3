SPECIFICATION FairSpec
CONSTANTS
    qwen = qwen
    cloud = cloud
    Calls = {o1, c1}
    Ocr = {o1}
    Streams = {c1}
    Profiles = {qwen, cloud}
    Route <- MCRoute
    Fits <- MCFits
    NoBreaker = {}
    Local = {}
    FailureThreshold = 1
    MaxTokens = 1
    DailyLimit = 1
    Uses = {1}
    MaxRevision = 0
CHECK_DEADLOCK FALSE
PROPERTIES
    ProbesEnd
    CallsEnd
