SPECIFICATION LiveSpec
CONSTANTS
    GateFiles = {"policy", "receipt", "bundle"}
    MaxKills = 2
    MaxLosses = 2
    MaxEdits = 2
    KillsAndLosses = FALSE
INVARIANTS OnlyArchivedDestroyed ArchiveBeforeAuthority OutputsUnderAuthority Resumable
PROPERTY EventuallyComplete
CHECK_DEADLOCK FALSE
