CONSTANTS
  NumHosts = 3
  ImageCounts <- MCImageCounts
  Powers <- MCPowers
  Times <- MCTimes
  INT32_MAX = 8
SPECIFICATION Spec
INVARIANTS
  SmallWorkloadsAreDefined
  SmallestMaximumStack
  LeastEnergy
  NeverWorseThanOneHost
PROPERTIES
  PlacesEveryImageOnce
CHECK_DEADLOCK FALSE
