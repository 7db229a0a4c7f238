SPECIFICATION LiveSpec
CONSTANTS
    Producers = {"python", "rust"}
    Cores = {"core 1", "core 2"}
    NoCore = "none"
    Tables = {"table 1", "table 2"}
    NoTable = "none"
    MaxEdits = 1
INVARIANT NobodyLeft
PROPERTIES KeepsPromise PreflightEnds TroubleEnds
CHECK_DEADLOCK FALSE
