\* Two servers, one after the other or at once, and two attempts instead of five.
CONSTANTS
  PRs = {p1}
  Servers = {s1, s2}
  NoOne = NoOne
  Overlap = TRUE
  MaxAttempts = 2
  MaxChanges = 1
  Deliveries = {d1}
SPECIFICATION FairSpec
INVARIANTS
  TypeOK
  WorkIsShown
PROPERTIES
  Settled
\* All servers can die, and nothing starts them again.
CHECK_DEADLOCK FALSE
