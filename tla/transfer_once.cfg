SPECIFICATION FairSpec
CONSTANTS
  MessageSize = 5
  BufSize = 7
  Capacity = 3
  Delims = {6}
  WriterKinds = {"once"}
  ReaderKinds = {"once"}
INVARIANT
  SuccessIsAll
CHECK_DEADLOCK FALSE
