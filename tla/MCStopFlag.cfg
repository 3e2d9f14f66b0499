CONSTANTS
  MaxStarts = 4
SPECIFICATION FairSpec
CHECK_DEADLOCK FALSE
INVARIANTS
  NewestRuns
PROPERTIES
  StopEndsAll
