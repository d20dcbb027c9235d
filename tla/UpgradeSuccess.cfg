CONSTANTS
    Hosts = {h1}
    NoHost = NoHost
    MaxCalls = 2
    MaxPublished = 1
    MaxRestarts = 1
CHECK_DEADLOCK FALSE
SPECIFICATION UpgradesSpec
INVARIANTS SuccessMeansUpgraded
