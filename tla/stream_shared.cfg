\* Two writers and a reader: submissions that overlap and finish out of order,
\* in the smallest buffer, where every frame but the first evicts another.
SPECIFICATION FairSpec
CONSTANTS
  w1 = w1  w2 = w2  r1 = r1
  Writers  <- TwoWriters
  Killable <- NoOne
  Readers  <- OneReader
  Capacity = 1
  MaxFrames = 2
  Nobody = Nobody
INVARIANT NoLostWakeup
PROPERTIES Delivery
