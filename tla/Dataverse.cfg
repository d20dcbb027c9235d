CONSTANTS
    c1 = c1
    c2 = c2
    t1 = t1
    t2 = t2
    Clients = {c1, c2}
    MaxVersion = 2
    Editors = {c1, c2}
    TableNames = {t1, t2}
    Columns = {"k1"}
    MaxChanges = 2
    MaxCuts = 1
    MaxFailures = 1
    Requests = {c1, c2}
    Tool = "tool"
    Slugs = {t1, t2}
    MaxMinted = 3
    MaxDeaths = 1
    Callers = {c1, c2}
    DocEntries = {"entry"}
    MaxTexts = 2
    MaxDiagrams = 1
    MaxFaults = 1
    Tables = {t1, t2}
    MaxRows = 2
    MaxRuns = 2
    MaxBreaks = 2
    MaxAdded = 1
CHECK_DEADLOCK FALSE
SPECIFICATION SumSpec
SYMMETRY Symmetry
INVARIANTS PartsTypeOK AuditIsTrue  MigrationHolds  QueriesAreMeant DocsHold
PROPERTIES Implements BootKeepsDocs
