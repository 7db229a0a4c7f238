CONSTANTS
  MaxFaults = 2
  MaxKills = 2
  MaxEdits = 2
SPECIFICATION Spec
INVARIANTS
  AuthorityLast
  AllOrNothing
  OnlyOwnRemoved
CHECK_DEADLOCK FALSE
