\* Two changes of an issue, a comment or a pull request, or pushes; one River worker, one
\* crash, one object read by a syncer, and a delivery old enough to be cleaned up.
CONSTANTS
  Events = {"issue", "issue_comment", "pull_request", "push"}
  MaxEvents = 2
  Workers = {w1}
  MaxAttempts = 2
  MaxCrashes = 1
  MaxSyncs = 1
  Aging = {1}
SPECIFICATION FairSpec
INVARIANTS
  TypeOK
  JobForEachDelivery
  FollowUpsRecorded
  NeverBehind
  InOrderSettles
PROPERTIES
  DeliveriesSettle
\* GitHub may have nothing more to say.
CHECK_DEADLOCK FALSE
