SPECIFICATION FairSpec
CONSTANTS
  NumServers = 2
  Strangers = {x}
  Lengths = {4, 9}
  ShutdownThrows = {TRUE, FALSE}
INVARIANT
  OnlyFirstIsAsked
PROPERTY
  EndsUnlessLost
CHECK_DEADLOCK FALSE
