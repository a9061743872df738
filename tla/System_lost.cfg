CONSTANTS
  NRWPAIRS = 1
  Pairs <- OnePair
  NBufs = 1
  PktsPerBuf = 2
  IpcErrors = {}
  MaxUnread = 3
  MaxDocs = 1
  MessengerCrashes = TRUE
  LongSleeps = FALSE
  WriterBytes <- SentToWriters
  ReaderBytes <- SentToReaders
SPECIFICATION SysFairSpec
PROPERTIES LostMessengerQuits
CHECK_DEADLOCK FALSE
