CONSTANTS
  NRWPAIRS = 1
  Pairs <- OnePair
  NBufs = 1
  PktsPerBuf = 2
  IpcErrors = {"open", "close"}
  MaxUnread = 3
  MaxDocs = 2
  MessengerCrashes = TRUE
  LongSleeps = FALSE
  WriterBytes <- SentToWriters
  ReaderBytes <- SentToReaders
SPECIFICATION SysFairSpec
INVARIANTS SysTypeOK WriterObeys QuietWhenIdle NoDumpUntriggered
PROPERTIES ImplementsCapture RecordingEnds
CHECK_DEADLOCK FALSE
