SPECIFICATION FairSpec
CONSTANTS
  Clients = {c1, c2}
  Kinds = {"iterative", "tls", "parallel", "shutdown"}
  Programs = {"request", "cancel", "silent"}
INVARIANTS
  ResponseIsWhole
  OneLateClient
  ContextOutlivesThreads
  ConnectHandledOnce
PROPERTIES
  ClientsEnd
  StopReturns
CHECK_DEADLOCK FALSE
