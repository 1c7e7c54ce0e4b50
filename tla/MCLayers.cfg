CONSTANTS
  TS = 2
  WPT = 2
  WIDTH = 2
  LayerSet <- MCLayerSet
SPECIFICATION LayersSpec
INVARIANTS
  OutputIsTheLayers
  TilesAreCurrent
  OutputFits
