CONSTANTS
    MaxSockets = 2
    MaxCalls = 2
    Capacity = 1
CHECK_DEADLOCK FALSE
SPECIFICATION HostSpec
INVARIANTS NeverStuck
