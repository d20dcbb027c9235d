CONSTANTS
    c1 = c1
    c2 = c2
    Prefixes = {"p", "q"}
    MaxLeases = 2
    MaxCrashes = 1
    MaxSockets = 2
    MaxCalls = 2
    Capacity = 2
    LocalNames = {"app", "laptop", "proxy"}
    DeepNames = {"deep"}
    ExternalNames = {"x", "y", "ads"}
    Builtins = {"proxy"}
    Hosts = {"laptop"}
    Blocked = {"ads"}
    Wildcard = "*"
    FileRecords <- NoRecords
    WildcardIp = FALSE
    CacheSize = 1
    MaxQueries = 1
    MaxPending = 2
    MaxChanges = 2
    ImportantRetries = 2
    Saturation = 3
CHECK_DEADLOCK FALSE
SPECIFICATION SumSpec
INVARIANTS PartsTypeOK AnswersAreRight PrefixIsFollowed NoGhostConnection RestartPolicy
PROPERTIES NetworkSettles HostSettles CancelEnds
