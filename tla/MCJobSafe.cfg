SPECIFICATION JobSpec
CONSTANTS
  Nodes = {n1, n2, n3}
  NoKey = NoKey
  Gone = Gone
  Cli = Cli
  Interval = 3
  TTL = 8
  MaxDelay = 1
  PauseLen = 9
  Faults = {"crash"}
  Period = 4
SYMMETRY NodeSymmetry
INVARIANTS
  AtMostOneLeader
  LeaderHoldsKey
  OncePerFiring
  OnlyLeaderExecutes
PROPERTIES
  RenewsOwnKeyOnly
