SPECIFICATION FairSpec
CONSTANTS
  Requests = {r1, r2}
  Users = {u1, u2}
  MayReset = TRUE
  NoRequest = NoRequest
INVARIANTS
  HttpVerdictFaithful
  CallbackIsLast
  HttpCloseCompletesAll
PROPERTIES
  NoOperationAfterCancel
  HttpAnsweredUnlessTerminated
  HttpCloseReturns
CHECK_DEADLOCK FALSE
