SPECIFICATION LiveSpec
CONSTANTS
  N = 3
  NilSteps = {2}
  NTables = 2
  Rows = {1, 2}
  Batch = 1
  BufferSize = 2
  MaxSent = 4
  Filters = {{1, 2, 3, 4}, {1, 3}}
  Consumers = {c1, c2, c3}
  MaxItems = 4
  Receivers = {r1, r2}
  Producers = {p1, p2}
  Pumps = {s1}
  NoReceiver = NoReceiver
  Buf = 2
  MaxMsgs = 4
  Liberties = {}
CHECK_DEADLOCK FALSE
INVARIANTS
  PartsTypeOK
  StepsAccounted
  CleanupExact
  ParquetExact
  NoLostWakeup
  NoPanic
PROPERTIES
  LoopsEnd
  CloseReleasesAll
  ImplementsBroadcast
  CloseEndsHandlers
