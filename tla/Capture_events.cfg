CONSTANTS
  Pairs = {p1}
  NBufs = 1
  PktsPerBuf = 1
  IpcErrors = {}
  MaxUnread = 2
  WriterBytes <- StartsAndEvents
  ReaderBytes <- Requests
SPECIFICATION Spec
INVARIANTS EventsAreIgnored
CHECK_DEADLOCK FALSE
