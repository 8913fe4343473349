SPECIFICATION HealSpec
CONSTANTS
  Nodes = {n1, n2}
  NoKey = NoKey
  Gone = Gone
  Cli = Cli
  Interval = 3
  TTL = 10
  MaxDelay = 2
  PauseLen = 20
  Faults = {"redis", "crash", "stop", "cli"}
INVARIANTS
  PauseStopsLeader
PROPERTIES
  Failover
  SplitBrainHeals
