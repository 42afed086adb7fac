SPECIFICATION FairSpec
CONSTANTS
  MessageSize = 7
  BufSize = 7
  Capacity = 3
  Delims = {3, 8}
  WriterKinds = {"sync", "async", "once"}
  ReaderKinds = {"sync", "async", "once", "delim"}
INVARIANTS
  BufferIsStream
  ReaderGetsAll
  FailedReaderWasShort
PROPERTY
  BothEnd
CHECK_DEADLOCK FALSE
