\* One server; the pull request changes under the scans and refreshes.
CONSTANTS
  PRs = {p1}
  Servers = {s1}
  Operators = {}
  NoOne = NoOne
  Overlap = FALSE
  Pausing = {}
  LateCrash = TRUE
  MaxRev = 2
  MaxGen = 2
  Deliveries = {d1}
SPECIFICATION Spec
INVARIANTS
  CurrentRowsIndexed
PROPERTIES
  OnlyIndexingMakesCurrent
\* All processes can die, and nothing starts them again.
CHECK_DEADLOCK FALSE
