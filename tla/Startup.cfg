CONSTANTS
  NRWPAIRS = 1
  Backlog = 2
  MaxLives = 3
  MaxRuns = 3
SPECIFICATION FairSpec
INVARIANTS TypeOK HeardOrEnding
PROPERTIES ReachedProcessesEnd
CHECK_DEADLOCK FALSE
