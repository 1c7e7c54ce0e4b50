CONSTANTS
  LocalPlatforms <- MCLocalPlatforms
  FpgaPlatforms <- MCFpgaPlatforms
  MaxImages = 3
SPECIFICATION FairSpec
INVARIANTS
  ResultIsComplete
  ResultIffNoFailure
  OfferedPlatformsExist
  HostsUseSelectedPlatforms
PROPERTIES
  ImplementsClassification
  OnlyFailedHostsErased
  ClassificationEnds
