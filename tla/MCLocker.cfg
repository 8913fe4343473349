SPECIFICATION FairSpec
CONSTANTS
  Clients = {c1, c2, c3}
  Free = Free
  Orphan = Orphan
  TTL = 3
  MaxRetry = 1
  RedisFails = TRUE
  Crashes = TRUE
INVARIANTS
  TypeOK
  LeaseExclusive
PROPERTIES
  OrphanExpires
  WaitEnds
