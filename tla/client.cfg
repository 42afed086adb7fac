SPECIFICATION FairSpec
CONSTANTS
  s1 = s1  s2 = s2  t1 = t1  t2 = t2  u1 = u1  u2 = u2
  Sessions = {s1, s2}
  Ids = {1, 2}
  IdOf <- UniqueIds
  IoThreads = {t1, t2}
  Users = {u1, u2}
  MaxCancels = 2
  NoSession = NoSession
  NoThread = NoThread
INVARIANTS
  NoFlagRace
  FinishedIsReleased
  ActiveIsCancellable
  LockCycleNeedsTwoCancels
  CloseCompletesAll
PROPERTIES
  AnsweredUnlessDeadlocked
  CloseReturns
  ImplementsRequest
CHECK_DEADLOCK FALSE
