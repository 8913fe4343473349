SPECIFICATION Spec
CONSTANTS
  Nodes = {n1, n2}
  NoKey = NoKey
  Gone = Gone
  Cli = Cli
  Interval = 3
  TTL = 10
  MaxDelay = 0
  PauseLen = 12
  Faults = {"redis"}
INVARIANTS
  AtMostOneLeader
