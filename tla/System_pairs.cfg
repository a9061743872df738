CONSTANTS
  NRWPAIRS = 2
  Pairs <- TwoPairs
  NBufs = 1
  PktsPerBuf = 1
  IpcErrors = {"write", "read"}
  MaxUnread = 2
  MaxDocs = 1
  MessengerCrashes = FALSE
  LongSleeps = TRUE
  WriterBytes <- SentToWriters
  ReaderBytes <- SentToReaders
SPECIFICATION SysSpec
INVARIANTS ClosedBlockEnds NobodyQuits QuietWhenIdle DumpPerTrigger
CHECK_DEADLOCK FALSE
