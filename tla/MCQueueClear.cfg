SPECIFICATION QueueFairSpec
CONSTANTS
  Consumers = {c1, c2}
  MaxItems = 3
PROPERTIES
  ClearReleasesPop
