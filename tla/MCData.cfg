SPECIFICATION DataSpec
CONSTANTS
  Ids = {1, 2}
  SyncPageSize = 1
  MaxTime = 2
  MaxSent = 3
  Windows <- SyncWindows
  Procs = {q1, q2}
  TTL = 2
  LocalTTL = 2
  MaxVersion = 2
  Appends = {a1, a2}
  ItemKeys = {k1}
  NoItemKey = NoItemKey
  Lifetime = 2
  Fields = {f1, f2}
  HashLife = 2
  MaxSets = 3
  Requests = {r1, r2, r3}
  Contents = {a, b}
  NoObject = NoObject
  NoPrint = NoPrint
  NoRequest = NoRequest
  Rows = {1, 2, 3, 4, 5}
  Columns = {"a", "b"}
  Cell <- PagingCell
  Asks <- PagingAsks
  PageSize = 3
CHECK_DEADLOCK FALSE
INVARIANTS
  PartsTypeOK
  SyncHeals
  StaleBounded
  ListHolds
  HashReads
  CheckedOnce
  PagesExact
