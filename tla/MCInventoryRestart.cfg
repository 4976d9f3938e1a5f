\* A server dies at any moment but between commit and completion; the next takes over.
CONSTANTS
  PRs = {p1}
  Servers = {s1, s2}
  Operators = {}
  NoOne = NoOne
  Overlap = FALSE
  Pausing = {}
  LateCrash = FALSE
  MaxRev = 1
  MaxGen = 2
  Deliveries = {d1}
SPECIFICATION Spec
SYMMETRY Symmetry
VIEW Living
INVARIANTS
  TypeOK
  NoLostChange
PROPERTIES
  Published
\* All processes can die, and nothing starts them again.
CHECK_DEADLOCK FALSE
