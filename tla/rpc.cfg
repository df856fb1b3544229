SPECIFICATION FairSpec
CONSTANTS
  t1 = t1  t2 = t2  c1 = c1
  Threads <- TwoThreads
  Clients <- OneClient
  ClientOf <- Shared
  Failing <- Second
  MaxRequests = 2
  MaxSockets = 2
  MaxStarts = 2
INVARIANT ExclusiveUse
PROPERTIES StopReturns ImplementsRemoteCalls
CHECK_DEADLOCK FALSE
