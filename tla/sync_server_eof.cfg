SPECIFICATION FairSpec
CONSTANTS
  Clients = {c1}
  Kinds = {"shutdown"}
  Programs = {"request"}
INVARIANT
  EofIsWhole
CHECK_DEADLOCK FALSE
