CONSTANTS
  Repos = {r1, r2}
  Names = {n1, n2, n3}
  Workers = {w1}
  Reader = reader
  NoOne = NoOne
  MaxRows = 3
  MaxEvents = 2
  MaxReads = 1
  MaxRenames = 2
SPECIFICATION Spec
SYMMETRY Symmetry
INVARIANTS
  TypeOK
  NamesSettle
  JobsFollowRenames
  PolicyKept
CHECK_DEADLOCK FALSE
