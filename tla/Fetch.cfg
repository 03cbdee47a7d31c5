SPECIFICATION FetchSpec
CONSTANTS
  Deadline = 11
  CallTimeout = 4
  Attempts = 2
  Jitters = {0, 1}
  RetryAfters = {0, 2, 3}
  RetryAfterCap = 2
  RereadDelay = 1
  RereadMin = 2
INVARIANTS
  LeadErrorWins
  OutageToldAsOutage
PROPERTIES
  DeadlineCutsNoWait
CHECK_DEADLOCK FALSE
