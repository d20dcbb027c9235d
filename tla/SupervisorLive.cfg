CONSTANTS
    c1 = c1
    c2 = c2
    w1 = w1
    w2 = w2
    w3 = w3
    Users = {c1}
    Boot = boot
    Watchers = {w1}
    NoTask = noTask
    Operations = {"stop", "ship", "update"}
    MaxRestarts = 1
    MaxOrphans = 1
    Reboots = TRUE
    Timeouts = TRUE
SPECIFICATION FairSpec
PROPERTIES CallsReturn CrashesHeal StopReapsWatchers
