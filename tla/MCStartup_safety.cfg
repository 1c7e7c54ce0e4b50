CONSTANTS
  NetLists <- MCNetLists
  ServerHasAddress = TRUE
  ServerMayVanish = TRUE
SPECIFICATION Spec
CHECK_DEADLOCK FALSE
INVARIANTS
  OneListPerHost
  NoCommonNetLost
  ExactForOneMissingNet
  WindowFitsHosts
