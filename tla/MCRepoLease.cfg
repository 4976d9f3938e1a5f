\* One time unit is 200ms: the interval and staleness bounds are the code's own.
CONSTANTS
  Workers = {w1, w2}
  NoOwner = NoOwner
  LeaseTTL = 6
  MinInterval = 1
  MaxInterval = 50
  MinStale = 5
  MaxClock = 11
SPECIFICATION FairSpec
INVARIANTS
  OneConfirmedHolder
  TestsAgree
PROPERTIES
  LostPassStops
  Contract
CHECK_DEADLOCK FALSE
