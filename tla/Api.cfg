CONSTANTS
    h1 = h1
    NoHost = NoHost
    Edge = "edge"
    Api = "api"
    Ids = {"id"}
    MaxChanges = 1
    MaxCrashes = 1
    Jobs = {"j1", "j2", "j3"}
    MaxCancels = 2
    Hosts = {h1}
    MaxCalls = 2
    MaxPublished = 1
    MaxRestarts = 1
CHECK_DEADLOCK FALSE
SPECIFICATION SumSpec
INVARIANTS PartsTypeOK AccountsHold 
PROPERTIES GoneStaysGone ApiSettles
