CONSTANTS
  Clients = {"before", "after"}
  ClientMaxImages = 1
  MaxKept = 1
  Threads = {"rpc1", "rpc2"}
  Nets = {"a"}
  Modes = {"LowPower"}
  Platforms = {"p"}
  Selections <- MCSelections
  Images = {"i", "j"}
  MaxImages = 1
  LayerKinds <- MCLayerKinds
  DifficultLayers <- MCDifficultLayers
  MayFail = FALSE
  OutlivesResourceException = TRUE
SPECIFICATION CommunicatorSpec
CHECK_DEADLOCK FALSE
INVARIANTS
  RepliesBelongToImages
