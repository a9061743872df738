CONSTANTS
  Pairs = {p1}
  NBufs = 2
  PktsPerBuf = 1
  IpcErrors = {}
  MaxUnread = 2
  WriterBytes <- RequestsAndEvents
  ReaderBytes <- Requests
SPECIFICATION FairSpec
INVARIANTS TypeOK BlockDiscipline NoStaleCommand StopIsFinal ReaderObeys FollowsRequests
PROPERTIES UsesBlock WriterQuitsUnlessFull ReaderQuitsUnlessEmpty WriterUnblocks RecordingDrains
CHECK_DEADLOCK FALSE
