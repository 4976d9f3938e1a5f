CONSTANTS
  p1 = p1
  p2 = p2
  i1 = i1
  i2 = i2
  c1 = c1
  c2 = c2
  c3 = c3
  Pulls = {p1, p2}
  Indexers = {i1, i2}
  CommitsOf <- MCCommitsOf
  Parents <- MCParents
  Diffs <- MCDiffs
  MaxFailures = 1
  PullMaxFiles = 3
  PullMaxLines = 10
  FileMaxBytes = 3
  FileMaxLines = 4
  Commit <- MCCommit
  Merge <- MCMerge
SPECIFICATION Spec
INVARIANTS
  SnapshotsHaveCommits
  ServedIsShown
  DetailWithinBudget
  PatchesUnderTheirFiles
PROPERTIES
  RefsAdvance
  IndexingEnds
CHECK_DEADLOCK FALSE
