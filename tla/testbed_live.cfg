SPECIFICATION FairSpec
CONSTANTS
  a = a  b = b
  Services <- TwoServices
  Order <- OrderAB
  Configs <- Chain
  Safety = a
  Guarded <- NoOne
  Startup <- StartB
  Requests <- NoRequest
  Stalling <- NoOne
  MaxLaunches = 1
  NoService = NoService
PROPERTIES DependentsFirst CrashNoticed ShutdownCompletes
