SPECIFICATION FairSpec
CONSTANTS
  t1 = t1  t2 = t2
  Threads <- TwoThreads
  Kinds <- BothKinds
  MaxMessages = 4
  MaxConnections = 2
INVARIANTS SentInOrder NoLogEntryLost
PROPERTIES QueueServed
