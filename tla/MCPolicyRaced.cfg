CONSTANTS
  Repos = {r1, r2}
  Names = {n1, n2, n3}
  Workers = {w1}
  Reader = reader
  NoOne = NoOne
  MaxRows = 3
  MaxEvents = 2
  MaxReads = 1
  MaxRenames = 1
SPECIFICATION Spec
SYMMETRY Symmetry
PROPERTY PolicyIsDurable
CHECK_DEADLOCK FALSE
