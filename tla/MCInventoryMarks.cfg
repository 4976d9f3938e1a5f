\* One server, one pull request and two deliveries, whose handlers cross.
CONSTANTS
  PRs = {p1}
  Servers = {s1}
  Operators = {}
  NoOne = NoOne
  Overlap = FALSE
  Pausing = {}
  LateCrash = FALSE
  MaxRev = 1
  MaxGen = 2
  Deliveries = {d1, d2}
SPECIFICATION Spec
SYMMETRY Symmetry
INVARIANTS
  NoLostChange
\* All processes can die, and nothing starts them again.
CHECK_DEADLOCK FALSE
