SPECIFICATION GormCacheSpec
CONSTANTS
  Procs = {p1, p2}
  CacheKeys = {k1, k2}
  Values = {v1, v2}
  NoValue = NoValue
INVARIANTS
  SetIsRead
