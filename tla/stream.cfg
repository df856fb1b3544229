\* One writer and one reader: three slots and five frames, so that every slot is
\* overwritten, also after UpdateParameters changed the number of slots.
\* The writer may be killed, also while it owns the mutex: then nothing may be left to do.
SPECIFICATION Spec
CONSTANTS
  w1 = w1  w2 = w2  r1 = r1
  Writers  <- OneWriter
  Killable <- OneWriter
  Readers  <- OneReader
  Capacity = 3
  MaxFrames = 5
  Nobody = Nobody
INVARIANTS AvailableIntact ReadValidated
PROPERTIES SkipsOnlyEvicted ImplementsRollingLog
CHECK_DEADLOCK FALSE
