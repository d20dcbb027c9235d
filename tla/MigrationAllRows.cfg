CONSTANTS
    Tables = {t1, t2}
    MaxRows = 2
    MaxRuns = 2
    MaxBreaks = 2
    MaxAdded = 1
CHECK_DEADLOCK FALSE
SPECIFICATION MigrationSpec
INVARIANTS SuccessMeansAllRows
