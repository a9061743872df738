CONSTANTS
  NBufs = 2
  PktsPerBuf = 2
  MAXFRAMENUM = 2
  RawSize = 2
  MaxPackets = 8
SPECIFICATION Spec
INVARIANTS TypeOK DumpEndsInRecording UnloggedDumpIsInTime
PROPERTIES UsesBlock
CHECK_DEADLOCK FALSE
