SPECIFICATION SilentPeerSpec
CONSTANTS
  s1 = s1  s2 = s2  t1 = t1  t2 = t2  u1 = u1  u2 = u2
  Sessions = {s1}
  Ids = {1}
  IdOf <- OneId
  IoThreads = {t1}
  Users = {u1}
  MaxCancels = 1
  NoSession = NoSession
  NoThread = NoThread
PROPERTY
  CancelEndsRequest
CHECK_DEADLOCK FALSE
