CONSTANTS
  Threads = {"worker"}
  Nets = {"a", "b"}
  Modes = {"LowPower", "HighPower"}
  Platforms = {"p", "q"}
  Selections <- MCAnySelections
  Images = {"i", "j"}
  MaxImages = 2
  LayerKinds <- MCLayerKinds
  DifficultLayers <- MCDifficultLayers
  MayFail = TRUE
  OutlivesResourceException = FALSE
SPECIFICATION Spec
CHECK_DEADLOCK FALSE
INVARIANTS
  LayersReadTheImageAtHand
  LayersRunWhereSelected
  UndefinedOnlyAfterFailure
  OutputsFreed
PROPERTIES
  ImplementsComputationHost
