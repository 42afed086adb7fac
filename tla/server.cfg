SPECIFICATION FairSpec
CONSTANTS
  c1 = c1  c2 = c2  t1 = t1  t2 = t2
  Conns = {c1, c2}
  Talkers = {c1}
  IoThreads = {t1, t2}
  NoConn = NoConn
INVARIANTS
  OneAcceptChain
  NoUseAfterDelete
  LivingServiceIsInHand
  OneLateAccept
PROPERTIES
  StopReturns
  TalkersAreServed
CHECK_DEADLOCK FALSE
