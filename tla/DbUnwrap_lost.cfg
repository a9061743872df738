CONSTANTS
  MAXFRAMENUM = 3
  MaxFrames = 4
SPECIFICATION Spec
INVARIANTS NothingLost
CHECK_DEADLOCK FALSE
