SPECIFICATION ProxyFairSpec
CONSTANTS
  Calls <- EveryCall
  MaxLaunches = 2
  MaxFrames = 11
INVARIANTS Consistent ReachesLatest
PROPERTIES Reconnects
CHECK_DEADLOCK FALSE
