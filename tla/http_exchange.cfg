SPECIFICATION FairSpec
CONSTANTS
  Exchanges = {r1}
  Users = {u1}
  Resources <- SomeResources
  Capacity = 2
  MayStop = TRUE
  NoRequest = NoRequest
INVARIANTS
  CompletedIsWhole
  HeaderlessIsEof
  AskedIsAnswered
  ThrowHasCause
PROPERTY
  ExchangeEnds
CHECK_DEADLOCK FALSE
