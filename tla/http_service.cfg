SPECIFICATION FairSpec
CONSTANTS
  Conns = {c1, c2}
  Requests <- PathRequests
  MayReset = TRUE
INVARIANTS
  ResponseIsRight
  DeleteIsLast
PROPERTY
  FinishesUnlessTerminated
CHECK_DEADLOCK FALSE
