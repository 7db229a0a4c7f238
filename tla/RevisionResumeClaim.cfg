SPECIFICATION Spec
CONSTANTS
    GateFiles = {"policy", "receipt", "bundle"}
    MaxKills = 1
    MaxLosses = 1
    MaxEdits = 0
    KillsAndLosses = TRUE
INVARIANT Resumable
CHECK_DEADLOCK FALSE
