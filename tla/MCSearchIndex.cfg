CONSTANTS
  i1 = i1
  c1 = c1
  Issues = {i1}
  Comments = {c1}
  Parent <- MCParent
  Workers = {w1, w2}
  Rebuilders = {r1}
  MaxVersion = 2
  MaxEvents = 2
  MaxFailures = 1
  MaxRebuilds = 1
SPECIFICATION Spec
SYMMETRY Symmetry
INVARIANTS
  DocumentsFollowRows
  CompleteCoversRows
PROPERTIES
  NothingVanishes
CHECK_DEADLOCK FALSE
