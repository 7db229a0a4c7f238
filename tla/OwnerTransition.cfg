CONSTANTS
  MaxRuns = 2
  MaxFaults = 1
  MaxKills = 2
  MaxEdits = 1
SPECIFICATION Spec
INVARIANTS
  AuthorityLast
  CleanEnd
  EditsKept
CHECK_DEADLOCK FALSE
