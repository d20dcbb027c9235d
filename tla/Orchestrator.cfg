CONSTANTS
    a1 = a1
    a2 = a2
    a3 = a3
    a4 = a4
    c1 = c1
    c2 = c2
    Slugs = {a1, a2, a3, a4}
    BasePort = 1
    MaxPort = 3
    DiskFails = TRUE
    Callers = {c1, c2}
    MaxRuns = 2
    NumRepos = 2
    MaxJobs = 2
    Patient = TRUE
    TimesOut = TRUE
CHECK_DEADLOCK FALSE
SPECIFICATION SumSpec
INVARIANTS PartsTypeOK NoSharedPort ShownIsTrue
PROPERTIES PortsAreStable
