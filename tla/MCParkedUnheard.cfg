\* A request that arrives during the last attempt of an earlier one.
CONSTANTS
  PRs = {p1}
  Servers = {s1}
  NoOne = NoOne
  Overlap = FALSE
  MaxAttempts = 2
  MaxChanges = 1
  Deliveries = {d1}
SPECIFICATION Spec
PROPERTIES
  ParkedAfterAttempts
CHECK_DEADLOCK FALSE
