CONSTANTS
  Clients = {"c"}
  ClientMaxImages = 2
  MaxKept = 1
  Threads = {"rpc1", "rpc2"}
  Nets = {"a", "b"}
  Modes = {"LowPower"}
  Platforms = {"p"}
  Selections <- MCSelections
  Images = {"i", "j"}
  MaxImages = 1
  LayerKinds <- MCLayerKinds
  DifficultLayers <- MCDifficultLayers
  MayFail = TRUE
  OutlivesResourceException = TRUE
SPECIFICATION FairCommunicatorSpec
CHECK_DEADLOCK FALSE
INVARIANTS
  OneClientIsSafe
  RepliesBelongToImages
PROPERTIES
  ClientImplementsComputationHost
  ClientCallEnds
