\* Two pull requests, whose requests and completions cross, and two servers that overlap.
CONSTANTS
  PRs = {p1, p2}
  Servers = {s1, s2}
  NoOne = NoOne
  Overlap = TRUE
  MaxAttempts = 2
  MaxChanges = 1
  Deliveries = {d1}
SPECIFICATION Spec
SYMMETRY Symmetry
INVARIANTS
  WorkIsShown
\* All servers can die, and nothing starts them again.
CHECK_DEADLOCK FALSE
