CONSTANTS
  Selections <- MCSelections
  Nets <- MCNets
  MayFail = TRUE
SPECIFICATION Spec
CHECK_DEADLOCK FALSE
INVARIANTS
  BestInItsMode
  DistributionIsWorkPlaced
  BothPlatformsWork
