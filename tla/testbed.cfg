SPECIFICATION FairSpec
CONSTANTS
  a = a  b = b
  Services <- TwoServices
  Order <- OrderAB
  Configs <- AllConfigs
  Safety = a
  Guarded <- OnlyB
  Startup <- StartNothing
  Requests <- SomeRequests
  Stalling <- OnlyB
  MaxLaunches = 1
  NoService = NoService
INVARIANTS ConfigCheckExact
PROPERTIES StoppedLaunchesNothing
