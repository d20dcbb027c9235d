CONSTANTS
    c1 = c1
    c2 = c2
    w1 = w1
    w2 = w2
    w3 = w3
    Users = {c1}
    Boot = boot
    Watchers = {w1, w2}
    NoTask = noTask
    Operations = {"start", "stop"}
    MaxRestarts = 1
    MaxOrphans = 1
    Reboots = FALSE
    Timeouts = FALSE
SPECIFICATION SupervisorSpec
SYMMETRY ActorSymmetry
PROPERTIES StopSuppressesRespawn
