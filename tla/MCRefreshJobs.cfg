\* A server is replaced by the next; two commands, which may race each other.
CONSTANTS
  MaxJobs = 2
  Servers = {s1, s2}
  NoJob = NoJob
  Overlap = FALSE
  MaxAttempts = 3
SPECIFICATION FairJobsSpec
INVARIANTS
  AttemptsRemain
PROPERTIES
  OutcomeStands
  JobsEnd
\* All servers can die, and nothing starts them again.
CHECK_DEADLOCK FALSE
