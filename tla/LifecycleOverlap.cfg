CONSTANTS
    Slugs = {a1, a2}
    BasePort = 1
    MaxPort = 2
    Clients = {c1, c2}
    NoSlug = noSlug
    DiskFails = FALSE
    Serial = FALSE
    EdgeFails = FALSE
SPECIFICATION Spec
INVARIANTS RowOwnsPort
