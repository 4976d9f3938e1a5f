\* Two servers that overlap, one of which may miss its heartbeats, and an operator's refresh.
CONSTANTS
  PRs = {p1}
  Servers = {s1, s2}
  Operators = {o1}
  NoOne = NoOne
  Overlap = TRUE
  Pausing = {s1}
  LateCrash = TRUE
  MaxRev = 1
  MaxGen = 1
  Deliveries = {}
SPECIFICATION FairSpec
PROPERTIES
  FirstInventory
\* All processes can die, and nothing starts them again.
CHECK_DEADLOCK FALSE
