CONSTANTS
  MAXFRAMENUM = 3
  MaxFrames = 5
SPECIFICATION Spec
INVARIANTS TypeOK ScanFindsJumps DumpIsCutAtWrap OutputInTime
CHECK_DEADLOCK FALSE
