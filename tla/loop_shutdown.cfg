SPECIFICATION FairSpec
CONSTANTS
  t1 = t1  t2 = t2
  Threads <- TwoThreads
  Kinds <- Tracing
  MaxMessages = 2
  MaxConnections = 2
PROPERTIES ShutDownReturns
