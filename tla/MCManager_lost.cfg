CONSTANTS
  LocalPlatforms <- MCLocalPlatforms
  FpgaPlatforms <- MCFpgaPlatforms
  MaxImages = 2
SPECIFICATION Spec
INVARIANTS
  FailedHostDeleted
