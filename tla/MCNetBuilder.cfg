CONSTANTS
  Directories <- MCDirectories
  WeightFiles <- MCWeightFiles
  Groups <- MCGroups
  LastLayer <- MCLastLayer
  IntLimit = 128
SPECIFICATION Spec
INVARIANTS
  BuiltAsDescribed
  DifficultyIsPositive
  OfferedNetsCanBeOpened
