CONSTANTS
    a1 = a1
    a2 = a2
    a3 = a3
    b1 = b1
    b2 = b2
    c1 = c1
    c2 = c2
    w1 = w1
    w2 = w2
    w3 = w3
    Slugs = {a1, a2, a3}
    BasePort = 1
    MaxPort = 2
    Clients = {c1, c2}
    NoSlug = noSlug
    DiskFails = FALSE
    Serial = TRUE
    EdgeFails = TRUE
    Users = {c1, c2}
    Boot = boot
    Watchers = {w1, w2, w3}
    NoTask = noTask
    Operations = {"start", "stop", "restart", "ship", "update"}
    MaxRestarts = 1
    MaxOrphans = 1
    Reboots = TRUE
    Timeouts = FALSE
    Calls = {c1, c2}
    Artefacts = {"bin", "web", "server"}
    Optional = {"server"}
    MaxBuilds = 2
    MaxFailures = 1
CHECK_DEADLOCK FALSE
SPECIFICATION SumSpec
SYMMETRY Symmetry
INVARIANTS PartsTypeOK RowOwnsPort NothingLeftBehind  RestIsTrue
  
