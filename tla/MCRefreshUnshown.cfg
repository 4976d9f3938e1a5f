\* A request that commits between the count and the commit of another's completion.
CONSTANTS
  PRs = {p1, p2}
  Servers = {s1}
  NoOne = NoOne
  Overlap = FALSE
  MaxAttempts = 2
  MaxChanges = 1
  Deliveries = {d1, d2}
SPECIFICATION Spec
INVARIANTS
  PendingShown
CHECK_DEADLOCK FALSE
