CONSTANTS
  Threads = {"worker"}
  Nets = {"a", "b"}
  Modes = {"LowPower"}
  Platforms = {"p", "q"}
  Selections <- MCSelections
  Images = {"i", "j"}
  MaxImages = 1
  LayerKinds <- MCLayerKinds
  DifficultLayers <- MCDifficultLayers
  MayFail = TRUE
  OutlivesResourceException = FALSE
SPECIFICATION Spec
CHECK_DEADLOCK FALSE
INVARIANTS
  NeverUndefined
