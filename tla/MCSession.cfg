CONSTANTS
  Paths = {1, 2}
  Pictures <- MCPictures
  NoPicture <- MCNoPicture
  Disks <- MCDisks
  TopX = 2
  Outputs <- MCOutputs
  Labels <- MCLabels
  HostData <- MCHostData
  AllWork = 100
  IntLimit = 45
  WattSecond = 10
  PlatformsOf <- MCPlatformsOf
  Descriptions <- MCDescriptions
  Times <- MCTimes
  MaxChanges = 1
SPECIFICATION SessionSpec
INVARIANTS
  ButtonSaysWhatItDoes
  RequestIsTheSelection
  PageShowsTheRequest
  DetailsAddUp
  CrashesAreExplained
PROPERTY ImplementsClassification
