SPECIFICATION Spec
CONSTANTS
  Clients = {c1, c2}
  NoMutex = NoMutex
INVARIANTS
  Exclusive
