--------------------------- MODULE DataStreamProofs ---------------------------
(***************************************************************************)
(* Proofs about DataStream and its refinement of RollingLog, for any number *)
(* of readers, slots and frames.                                           *)
(***************************************************************************)
EXTENDS DataStreamRefinement, TLAPS

-----------------------------------------------------------------------------
(* Slots                                                                   *)

LEMMA ModRange ==
  ASSUME NEW a \in Nat, NEW n \in Nat \ {0}
  PROVE  a % n \in 0 .. n - 1
  BY SMT

\* Whatever the number of frames is, a slot lies in the allocated memory.
LEMMA SlotInMemory ==
  ASSUME TypeOK, NEW a \in Nat
  PROVE  a % numFrames \in 0 .. Capacity - 1
  <1>1. /\ numFrames \in Nat \ {0}
        /\ numFrames <= Capacity
        /\ Capacity \in Nat
    BY CapacityAssumption, SMT DEF TypeOK
  <1>2. a % numFrames \in 0 .. numFrames - 1
    BY <1>1, ModRange
  <1> QED
    BY <1>1, <1>2, SMT

\* The ids of one window of n frames lie in different slots.
LEMMA ModDistinct ==
  ASSUME NEW a \in Nat, NEW b \in Nat, NEW n \in Nat \ {0}, a < b, b < a + n
  PROVE  a % n # b % n
  <1> DEFINE p == a \div n
             q == b \div n
  <1>1. /\ a = n * p + (a % n) /\ p \in Nat
        /\ b = n * q + (b % n) /\ q \in Nat
    BY SMT
  <1>2. SUFFICES ASSUME a % n = b % n PROVE FALSE
    OBVIOUS
  <1>3. a % n \in Nat
    BY ModRange, SMT
  <1> HIDE DEF p, q
  <1>4. n * p < n * q /\ n * q < n * p + n
    BY <1>1, <1>2, <1>3, SMT
  <1>5. p < q
    BY <1>1, <1>4, SMT
  <1>6. q < p + 1
    BY <1>1, <1>4, SMT
  <1> QED
    BY <1>1, <1>5, <1>6, SMT

-----------------------------------------------------------------------------
(* Type correctness                                                        *)

LEMMA TypeInit == Init => TypeOK
  BY CapacityAssumption DEF Init, TypeOK, WriterPC, ReaderPC, Modes, NoFrame

\* The writers' steps preserve the type invariant.
LEMMA TypeWriter ==
  ASSUME TypeOK, NEW w \in Writers, WriterStep(w)
  PROVE  TypeOK'
  <1> USE DEF TypeOK, WriterMoves, WriterPC, header, reader, object
  <1>1. CASE RequestNewFrame(w)
    BY <1>1 DEF RequestNewFrame
  <1>2. CASE CheckFull(w)
    BY <1>2 DEF CheckFull
  <1>3. CASE EvictOldest(w)
    BY <1>3 DEF EvictOldest
  <1>4. CASE TakeFrameId(w)
    <2>1. nextRequestId % numFrames \in 0 .. Capacity - 1
      BY SlotInMemory
    <2> QED
      BY <1>4, <2>1 DEF TakeFrameId
  <1>5. CASE BeginCopy(w)
    BY <1>5 DEF BeginCopy
  <1>6. CASE EndCopy(w)
    BY <1>6 DEF EndCopy
  <1>7. CASE LockToSubmit(w)
    BY <1>7 DEF LockToSubmit
  <1>8. CASE Publish(w)
    <2>1. Larger(lastId, wid[w] + 1) \in Nat
      BY DEF Larger
    <2> QED
      BY <1>8, <2>1 DEF Publish
  <1>9. CASE Signal(w)
    BY <1>9 DEF Signal, ReaderPC
  <1>10. CASE EndSubmit(w)
    BY <1>10, CapacityAssumption DEF EndSubmit
  <1>11. CASE UpdateParameters(w)
    BY <1>11 DEF UpdateParameters
  <1>12. CASE SetParameters(w)
    BY <1>12 DEF SetParameters
  <1>13. CASE Kill(w)
    BY <1>13 DEF Kill
  <1> QED
    BY <1>1, <1>2, <1>3, <1>4, <1>5, <1>6, <1>7, <1>8, <1>9, <1>10, <1>11,
       <1>12, <1>13 DEF WriterStep, Submits

\* The readers' steps preserve the type invariant.
LEMMA TypeReader ==
  ASSUME TypeOK, NEW r \in Readers, ReaderStep(r)
  PROVE  TypeOK'
  <1> USE DEF TypeOK, ReaderMoves, ReaderPC, header, writer, object
  <1>1. CASE Open(r)
    BY <1>1 DEF Open
  <1>2. CASE SetBufferHandlingMode(r)
    BY <1>2 DEF SetBufferHandlingMode, reader
  <1>3. ASSUME NEW kind \in {"next", "frame"}, NEW id \in Nat, NEW m \in BOOLEAN,
               EnterGetFrame(r, kind, id, m)
        PROVE  TypeOK'
    BY <1>3 DEF EnterGetFrame
  <1>4. Newest \in Nat /\ NextFrameId(r) \in Nat
    BY DEF Newest, NextFrameId, Larger
  <1>5. CASE GetNextFrame(r)
    BY <1>3, <1>4, <1>5 DEF GetNextFrame
  <1>6. CASE GetFrame(r)
    <2>1. PICK id \in 0 .. MaxFrames, m \in BOOLEAN : EnterGetFrame(r, "frame", id, m)
      BY <1>6 DEF GetFrame
    <2>2. id \in Nat
      BY <2>1, FramesAssumption
    <2> QED
      BY <1>3, <2>1, <2>2
  <1>7. CASE GetLatestFrame(r)
    BY <1>3, <1>4, <1>7 DEF GetLatestFrame
  <1>8. CASE LoadFirst(r)
    BY <1>8 DEF LoadFirst
  <1>9. CASE LoadLast(r)
    BY <1>9 DEF LoadLast
  <1>10. CASE WillFrameBeAvailable(r)
    BY <1>10 DEF WillFrameBeAvailable
  <1>11. CASE LockToWait(r)
    BY <1>11 DEF LockToWait
  <1>12. CASE WaitSucceeds(r)
    BY <1>12 DEF WaitSucceeds
  <1>13. CASE WaitContinues(r)
    BY <1>13 DEF WaitContinues
  <1>14. CASE Block(r)
    BY <1>14 DEF Block
  <1>15. CASE WaitTimesOut(r)
    BY <1>15 DEF WaitTimesOut
  <1>16. CASE Relock(r)
    BY <1>16 DEF Relock
  <1>17. CASE GiveUp(r)
    BY <1>17 DEF GiveUp
  <1>18. CASE Return(r)
    <2>1. rid[r] % numFrames \in 0 .. Capacity - 1
      BY SlotInMemory
    <2> QED
      BY <1>18, <2>1 DEF Return
  <1>19. CASE UseFrame(r)
    BY <1>19, CapacityAssumption DEF UseFrame
  <1> QED
    BY <1>1, <1>2, <1>5, <1>6, <1>7, <1>8, <1>9, <1>10, <1>11, <1>12, <1>13,
       <1>14, <1>15, <1>16, <1>17, <1>18, <1>19 DEF ReaderStep, Gets

LEMMA TypeStep == TypeOK /\ [Next]_vars => TypeOK'
  <1> SUFFICES ASSUME TypeOK, [Next]_vars PROVE TypeOK'
    OBVIOUS
  <1>1. CASE UNCHANGED vars
    BY <1>1 DEF TypeOK, vars, header, writer, reader, object
  <1>2. CASE Next
    BY <1>2, TypeWriter, TypeReader DEF Next
  <1> QED
    BY <1>1, <1>2

\* Every variable keeps its type, whatever the writers do.
THEOREM TypeCorrect == Spec => []TypeOK
  BY TypeInit, TypeStep, PTL DEF Spec

-----------------------------------------------------------------------------
(* The rolling buffer, with one writer                                     *)

LEMMA WindowInit == SingleWriter /\ Init => WindowInv
  BY CapacityAssumption
  DEF Init, WindowInv, WindowBounded, AvailableIntact, WriterInv, ReaderInv

\* The slot of the frame being written is not the slot of an available frame.
LEMMA WrittenSlotFree ==
  ASSUME TypeOK, NEW id \in firstId .. lastId - 1, lastId - firstId < numFrames
  PROVE  id % numFrames # lastId % numFrames
  <1>1. /\ id \in Nat /\ lastId \in Nat /\ numFrames \in Nat \ {0}
        /\ id < lastId /\ lastId < id + numFrames
    BY CapacityAssumption, SMT DEF TypeOK
  <1> QED
    BY <1>1, ModDistinct

\* The steps of the only writer preserve the invariant.
LEMMA WindowWriter ==
  ASSUME SingleWriter, TypeOK, TypeOK', WindowInv, NEW w \in Writers, WriterStep(w)
  PROVE  WindowInv'
  <1>0. SUFFICES ASSUME NEW r
                 PROVE  /\ WindowBounded' /\ AvailableIntact' /\ WriterInv(w)'
                        /\ r \in Readers => ReaderInv(r)'
    <2>1. \A v \in Writers : v = w
      BY DEF SingleWriter
    <2> QED
      BY <2>1 DEF WindowInv
  <1>a. /\ WindowBounded /\ AvailableIntact /\ WriterInv(w)
        /\ r \in Readers => ReaderInv(r)
    BY DEF WindowInv
  <1> USE DEF WriterMoves, header, reader, object
  <1>1. CASE RequestNewFrame(w)
    BY <1>a, <1>1
    DEF TypeOK, RequestNewFrame, WindowBounded, AvailableIntact, WriterInv, ReaderInv
  <1>2. CASE CheckFull(w)
    BY <1>a, <1>2
    DEF TypeOK, CheckFull, IsFull, WindowBounded, AvailableIntact, WriterInv, ReaderInv
  <1>3. CASE EvictOldest(w)
    <2>1. AvailableIntact'
      BY <1>a, <1>3 DEF TypeOK, EvictOldest, AvailableIntact
    <2>2. WindowBounded' /\ WriterInv(w)'
      BY <1>a, <1>3 DEF TypeOK, EvictOldest, WindowBounded, WriterInv
    <2>3. r \in Readers => ReaderInv(r)'
      BY <1>a, <1>3 DEF TypeOK, EvictOldest, ReaderInv
    <2> QED
      BY <2>1, <2>2, <2>3
  <1>4. CASE TakeFrameId(w)
    BY <1>a, <1>4
    DEF TypeOK, TakeFrameId, WindowBounded, AvailableIntact, WriterInv, ReaderInv
  <1>5. CASE BeginCopy(w)
    <2>1. UNCHANGED header /\ lastId - firstId < numFrames /\ wloc[w] = lastId % numFrames
      BY <1>a, <1>5 DEF BeginCopy, WriterInv
    <2>2. AvailableIntact'
      <3> SUFFICES ASSUME NEW id \in firstId .. lastId - 1
                   PROVE  slot'[id % numFrames] = id
        BY <2>1 DEF AvailableIntact
      <3>1. id % numFrames # wloc[w] /\ slot[id % numFrames] = id
        BY <1>a, <2>1, WrittenSlotFree DEF AvailableIntact
      <3>a. id \in Nat
        BY SMT DEF TypeOK
      <3>2. id % numFrames \in 0 .. Capacity - 1
        BY <3>a, SlotInMemory
      <3> QED
        BY <1>5, <3>1, <3>2 DEF TypeOK, BeginCopy
    <2> QED
      BY <1>a, <1>5, <2>2 DEF TypeOK, BeginCopy, WindowBounded, WriterInv, ReaderInv
  <1>6. CASE EndCopy(w)
    <2>1. UNCHANGED header /\ lastId - firstId < numFrames /\ wloc[w] = lastId % numFrames
      BY <1>a, <1>6 DEF EndCopy, WriterInv
    <2>2. AvailableIntact'
      <3> SUFFICES ASSUME NEW id \in firstId .. lastId - 1
                   PROVE  slot'[id % numFrames] = id
        BY <2>1 DEF AvailableIntact
      <3>1. id % numFrames # wloc[w] /\ slot[id % numFrames] = id
        BY <1>a, <2>1, WrittenSlotFree DEF AvailableIntact
      <3>a. id \in Nat
        BY SMT DEF TypeOK
      <3>2. id % numFrames \in 0 .. Capacity - 1
        BY <3>a, SlotInMemory
      <3> QED
        BY <1>6, <3>1, <3>2 DEF TypeOK, EndCopy
    <2> QED
      BY <1>a, <1>6, <2>2 DEF TypeOK, EndCopy, WindowBounded, WriterInv, ReaderInv
  <1>7. CASE LockToSubmit(w)
    BY <1>a, <1>7
    DEF TypeOK, LockToSubmit, WindowBounded, AvailableIntact, WriterInv, ReaderInv
  <1>8. CASE Publish(w)
    <2>1. lastId' = lastId + 1 /\ wid[w] = lastId /\ slot[lastId % numFrames] = lastId
      BY <1>a, <1>8 DEF TypeOK, Publish, Larger, WriterInv
    <2>2. AvailableIntact'
      BY <1>a, <1>8, <2>1 DEF TypeOK, Publish, AvailableIntact
    <2> QED
      BY <1>a, <1>8, <2>1, <2>2 DEF TypeOK, Publish, WindowBounded, WriterInv, ReaderInv
  <1>9. CASE Signal(w)
    <2>1. r \in Readers => rpc'[r] = IF rpc[r] = "wait" THEN "woken" ELSE rpc[r]
      BY <1>9 DEF Signal
    <2> QED
      BY <1>a, <1>9, <2>1
      DEF TypeOK, Signal, WindowBounded, AvailableIntact, WriterInv, ReaderInv
  <1>10. CASE EndSubmit(w)
    BY <1>a, <1>10
    DEF TypeOK, EndSubmit, WindowBounded, AvailableIntact, WriterInv, ReaderInv
  <1>11. CASE UpdateParameters(w)
    BY <1>a, <1>11
    DEF TypeOK, UpdateParameters, WindowBounded, AvailableIntact, WriterInv, ReaderInv
  <1>12. CASE SetParameters(w)
    <2>1. firstId = lastId /\ UNCHANGED <<firstId, lastId, slot>>
      BY <1>a, <1>12 DEF SetParameters, WriterInv
    <2>a. lastId \in Nat /\ numFrames' \in Nat
      BY SMT DEF TypeOK
    <2>b. WindowBounded'
      BY <2>1, <2>a DEF WindowBounded
    <2>c. AvailableIntact'
      BY <2>1, <2>a DEF AvailableIntact
    <2>3. WriterInv(w)'
      BY <1>a, <1>12 DEF TypeOK, SetParameters, WriterInv
    <2>4. r \in Readers => ReaderInv(r)'
      BY <1>a, <1>12, <2>1 DEF TypeOK, SetParameters, ReaderInv
    <2> QED
      BY <2>b, <2>c, <2>3, <2>4
  <1>13. CASE Kill(w)
    BY <1>a, <1>13
    DEF TypeOK, Kill, WindowBounded, AvailableIntact, WriterInv, ReaderInv
  <1> QED
    BY <1>1, <1>2, <1>3, <1>4, <1>5, <1>6, <1>7, <1>8, <1>9, <1>10, <1>11,
       <1>12, <1>13 DEF WriterStep, Submits

\* The readers change neither the header nor the buffer; what a reader holds is
\* judged by the header at that time.
LEMMA WindowReader ==
  ASSUME TypeOK, TypeOK', WindowInv, NEW r \in Readers, ReaderStep(r)
  PROVE  WindowInv'
  <1>0. UNCHANGED <<header, slot, writer>>
    BY DEF ReaderStep, Gets, Open, SetBufferHandlingMode, GetNextFrame, GetFrame,
           GetLatestFrame, EnterGetFrame, LoadFirst, LoadLast, WillFrameBeAvailable,
           LockToWait, WaitSucceeds, WaitContinues, Block, WaitTimesOut, Relock,
           GiveUp, Return, UseFrame, writer
  <1>1. WindowBounded' /\ AvailableIntact' /\ \A w \in Writers : WriterInv(w)'
    BY <1>0 DEF WindowInv, WindowBounded, AvailableIntact, WriterInv, header, writer
  <1>2. ASSUME NEW q \in Readers PROVE ReaderInv(q)'
    <2>a. ReaderInv(q) /\ AvailableIntact
      BY DEF WindowInv
    <2> USE DEF ReaderMoves, header, reader, object
    <2>1. CASE Open(r)
      BY <1>0, <2>a, <2>1 DEF TypeOK, Open, ReaderInv
    <2>2. CASE SetBufferHandlingMode(r)
      BY <1>0, <2>a, <2>2 DEF TypeOK, SetBufferHandlingMode, ReaderInv
    <2>3. ASSUME NEW kind, NEW id, NEW m, EnterGetFrame(r, kind, id, m)
          PROVE  ReaderInv(q)'
      BY <1>0, <2>a, <2>3 DEF TypeOK, EnterGetFrame, ReaderInv
    <2>4. CASE GetNextFrame(r) \/ GetFrame(r) \/ GetLatestFrame(r)
      BY <2>3, <2>4 DEF GetNextFrame, GetFrame, GetLatestFrame
    <2>5. CASE LoadFirst(r)
      BY <1>0, <2>a, <2>5 DEF TypeOK, LoadFirst, ReaderInv
    <2>6. CASE LoadLast(r)
      BY <1>0, <2>a, <2>6 DEF TypeOK, LoadLast, ReaderInv
    <2>7. CASE WillFrameBeAvailable(r)
      BY <1>0, <2>a, <2>7 DEF TypeOK, WillFrameBeAvailable, ReaderInv
    <2>8. CASE LockToWait(r)
      BY <1>0, <2>a, <2>8 DEF TypeOK, LockToWait, ReaderInv
    <2>9. CASE WaitSucceeds(r)
      BY <1>0, <2>a, <2>9 DEF TypeOK, WaitSucceeds, ReaderInv
    <2>10. CASE WaitContinues(r)
      BY <1>0, <2>a, <2>10 DEF TypeOK, WaitContinues, ReaderInv
    <2>11. CASE Block(r)
      BY <1>0, <2>a, <2>11 DEF TypeOK, Block, ReaderInv
    <2>12. CASE WaitTimesOut(r)
      BY <1>0, <2>a, <2>12 DEF TypeOK, WaitTimesOut, ReaderInv
    <2>13. CASE Relock(r)
      BY <1>0, <2>a, <2>13 DEF TypeOK, Relock, ReaderInv
    <2>14. CASE GiveUp(r)
      BY <1>0, <2>a, <2>14 DEF TypeOK, GiveUp, ReaderInv
    <2>15. CASE Return(r)
      BY <1>0, <2>a, <2>15 DEF TypeOK, Return, ReaderInv
    <2>16. CASE UseFrame(r)
      <3>1. CASE q # r
        BY <1>0, <2>a, <2>16, <3>1 DEF TypeOK, UseFrame, ReaderInv
      <3>2. CASE q = r
        <4>1. rid[r] >= firstId => slot[loc[r]] = rid[r]
          BY <2>a, <2>16, <3>2 DEF TypeOK, UseFrame, ReaderInv, AvailableIntact
        <4> QED
          BY <1>0, <2>a, <2>16, <3>2, <4>1 DEF TypeOK, UseFrame, ReaderInv
      <3> QED
        BY <3>1, <3>2
    <2> QED
      BY <2>1, <2>2, <2>4, <2>5, <2>6, <2>7, <2>8, <2>9, <2>10, <2>11, <2>12,
         <2>13, <2>14, <2>15, <2>16 DEF ReaderStep, Gets
  <1> QED
    BY <1>1, <1>2 DEF WindowInv

LEMMA WindowStep ==
  SingleWriter /\ TypeOK /\ TypeOK' /\ WindowInv /\ [Next]_vars => WindowInv'
  <1> SUFFICES ASSUME SingleWriter, TypeOK, TypeOK', WindowInv, [Next]_vars
               PROVE  WindowInv'
    OBVIOUS
  <1>1. CASE UNCHANGED vars
    BY <1>1 DEF WindowInv, WindowBounded, AvailableIntact, WriterInv, ReaderInv,
                vars, header, writer, reader, object
  <1>2. CASE Next
    BY <1>2, WindowWriter, WindowReader DEF Next
  <1> QED
    BY <1>1, <1>2

LEMMA WindowInvariance ==
  ASSUME SingleWriter
  PROVE  Spec => []WindowInv
  <1>1. Init => WindowInv
    BY WindowInit
  <1>2. TypeOK /\ TypeOK' /\ WindowInv /\ [Next]_vars => WindowInv'
    BY WindowStep
  <1> QED
    BY <1>1, <1>2, TypeCorrect, PTL DEF Spec

\* With one writer, the buffer rolls: however many frames it holds and however it is
\* resized, no available frame is overwritten, and none is missing from its slot
\* (RequestNewFrame, SubmitData).
THEOREM RollingBuffer ==
  ASSUME SingleWriter
  PROVE  Spec => [](WindowBounded /\ AvailableIntact)
  <1>1. WindowInv => WindowBounded /\ AvailableIntact
    BY DEF WindowInv
  <1> QED
    BY <1>1, WindowInvariance, PTL

\* With one writer, a frame whose id is still available after its data were used was used
\* whole, however long the reader took: IsFrameAvailable after the use tells a torn read.
THEOREM ReadsValidated ==
  ASSUME SingleWriter
  PROVE  Spec => []ReadValidated
  <1>1. WindowInv => ReadValidated
    BY DEF WindowInv, ReaderInv, ReadValidated
  <1> QED
    BY <1>1, WindowInvariance, PTL

-----------------------------------------------------------------------------
(* The mutex and the condition variable, with any number of writers        *)

LEMMA MutexInit == Init => MutexInv
  BY DEF Init, MutexInv, Owning, Holding, NoLostWakeup

\* Only the owner of the mutex changes m_LastId, so what a reader that owns it has
\* checked stays true until it blocks.
LEMMA MutexWriter ==
  ASSUME TypeOK, MutexInv, Killable = {}, NEW w \in Writers, WriterStep(w)
  PROVE  MutexInv'
  <1> USE ThreadsAssumption
      DEF WriterMoves, Owning, Holding, NoLostWakeup, MutexInv, TypeOK
  <1>1. CASE RequestNewFrame(w)
    BY <1>1 DEF RequestNewFrame, header, reader
  <1>2. CASE CheckFull(w)
    BY <1>2 DEF CheckFull, header, reader
  <1>3. CASE EvictOldest(w)
    BY <1>3 DEF EvictOldest, reader
  <1>4. CASE TakeFrameId(w)
    BY <1>4 DEF TakeFrameId, reader
  <1>5. CASE BeginCopy(w)
    BY <1>5 DEF BeginCopy, header, reader
  <1>6. CASE EndCopy(w)
    BY <1>6 DEF EndCopy, header, reader
  <1>7. CASE LockToSubmit(w)
    BY <1>7 DEF LockToSubmit, header, reader
  <1>8. CASE Publish(w)
    <2>1. mutex = w /\ wpc'[w] = "signal" /\ UNCHANGED <<mutex, rpc, rid>>
      BY <1>8 DEF Publish, reader
    <2>2. \A r \in Readers : rpc[r] \notin {"cond", "block"}
      BY <2>1
    <2> QED
      BY <1>8, <2>1, <2>2 DEF Publish
  <1>9. CASE Signal(w)
    <2>1. \A r \in Readers :
            /\ rpc'[r] # "wait"
            /\ rpc'[r] \in {"cond", "block"} => rpc[r] = rpc'[r]
      BY <1>9 DEF Signal
    <2> QED
      BY <1>9, <2>1 DEF Signal, header
  <1>10. CASE EndSubmit(w)
    <2>1. mutex = w
      BY <1>10 DEF EndSubmit
    <2> QED
      BY <1>10, <2>1 DEF EndSubmit, header, reader
  <1>11. CASE UpdateParameters(w)
    BY <1>11 DEF UpdateParameters, reader
  <1>12. CASE SetParameters(w)
    BY <1>12 DEF SetParameters, reader
  <1>13. CASE Kill(w)
    BY <1>13 DEF Kill
  <1> QED
    BY <1>1, <1>2, <1>3, <1>4, <1>5, <1>6, <1>7, <1>8, <1>9, <1>10, <1>11,
       <1>12, <1>13 DEF WriterStep, Submits

LEMMA MutexReader ==
  ASSUME TypeOK, MutexInv, NEW r \in Readers, ReaderStep(r)
  PROVE  MutexInv'
  <1> USE ThreadsAssumption
      DEF ReaderMoves, Owning, Holding, NoLostWakeup, MutexInv, TypeOK, header,
          writer
  <1>1. CASE Open(r)
    BY <1>1 DEF Open
  <1>2. CASE SetBufferHandlingMode(r)
    BY <1>2 DEF SetBufferHandlingMode, reader
  <1>3. ASSUME NEW kind, NEW id, NEW m, EnterGetFrame(r, kind, id, m)
        PROVE  MutexInv'
    BY <1>3 DEF EnterGetFrame, Idle
  <1>4. CASE GetNextFrame(r) \/ GetFrame(r) \/ GetLatestFrame(r)
    BY <1>3, <1>4 DEF GetNextFrame, GetFrame, GetLatestFrame
  <1>5. CASE LoadFirst(r)
    BY <1>5 DEF LoadFirst
  <1>6. CASE LoadLast(r)
    BY <1>6 DEF LoadLast
  <1>7. CASE WillFrameBeAvailable(r)
    BY <1>7 DEF WillFrameBeAvailable
  <1>8. CASE LockToWait(r)
    BY <1>8 DEF LockToWait
  <1>9. CASE WaitSucceeds(r)
    BY <1>9 DEF WaitSucceeds
  <1>10. CASE WaitContinues(r)
    BY <1>10 DEF WaitContinues
  <1>11. CASE Block(r)
    BY <1>11 DEF Block
  <1>12. CASE WaitTimesOut(r)
    BY <1>12 DEF WaitTimesOut
  <1>13. CASE Relock(r)
    BY <1>13 DEF Relock
  <1>14. CASE GiveUp(r)
    BY <1>14 DEF GiveUp
  <1>15. CASE Return(r)
    BY <1>15 DEF Return
  <1>16. CASE UseFrame(r)
    BY <1>16 DEF UseFrame
  <1> QED
    BY <1>1, <1>2, <1>4, <1>5, <1>6, <1>7, <1>8, <1>9, <1>10, <1>11, <1>12,
       <1>13, <1>14, <1>15, <1>16 DEF ReaderStep, Gets

\* While no writer is killed, no reader sleeps through the frame it waits for,
\* however many writers and readers share the stream.
THEOREM NobodySleepsThrough ==
  ASSUME Killable = {}
  PROVE  Spec => []NoLostWakeup
  <1>1. TypeOK /\ MutexInv /\ [Next]_vars => MutexInv'
    <2> SUFFICES ASSUME TypeOK, MutexInv, [Next]_vars PROVE MutexInv'
      OBVIOUS
    <2>1. CASE UNCHANGED vars
      BY <2>1 DEF MutexInv, Owning, Holding, NoLostWakeup, vars, header, writer, reader
    <2>2. CASE Next
      BY <2>2, MutexWriter, MutexReader DEF Next
    <2> QED
      BY <2>1, <2>2
  <1>2. MutexInv => NoLostWakeup
    BY DEF MutexInv
  <1> QED
    BY <1>1, <1>2, TypeCorrect, MutexInit, PTL DEF Spec

-----------------------------------------------------------------------------
(* A caller that checks afterwards, and a reader that wants every frame.   *)

\* The ids between a reader's position and the frame its call of GetNextFrame aims for
\* were evicted before the call, in the mode that wants every frame.
SkippedInv(r) ==
  (/\ call[r] = "next"
   /\ mode[r] = "oldestFirstOverwrite"
   /\ rpc[r] \notin {"closed", "idle", "have", "read"})
  => \A id \in next[r] .. rid[r] - 1 : id < firstId

\* Eviction is for ever: with one writer, m_FirstId only grows.
LEMMA EvictedForEver ==
  ASSUME SingleWriter, TypeOK, WindowInv, NEW w \in Writers, WriterStep(w)
  PROVE  firstId' \in Nat /\ firstId <= firstId'
  <1>1. firstId \in Nat /\ lastId \in Nat /\ firstId <= lastId
    BY DEF TypeOK, WindowInv, WindowBounded
  <1>2. CASE EvictOldest(w)
    BY <1>1, <1>2 DEF EvictOldest
  <1>3. CASE UpdateParameters(w)
    BY <1>1, <1>3 DEF UpdateParameters
  <1>4. CASE ~EvictOldest(w) /\ ~UpdateParameters(w)
    BY <1>1, <1>4
    DEF WriterStep, Submits, RequestNewFrame, CheckFull, TakeFrameId, BeginCopy, EndCopy,
        LockToSubmit, Publish, Signal, EndSubmit, SetParameters, Kill, header
  <1> QED
    BY <1>2, <1>3, <1>4

LEMMA SkippedWriter ==
  ASSUME SingleWriter, TypeOK, WindowInv, NEW w \in Writers, WriterStep(w),
         NEW r \in Readers, SkippedInv(r)
  PROVE  SkippedInv(r)'
  <1>1. UNCHANGED <<call, rid, next, mode>>
    BY DEF WriterStep, Submits, RequestNewFrame, CheckFull, EvictOldest, TakeFrameId,
           BeginCopy, EndCopy, LockToSubmit, Publish, Signal, EndSubmit,
           UpdateParameters, SetParameters, Kill, reader, object
  <1>2. rpc' = rpc \/ rpc' = [q \in Readers |-> IF rpc[q] = "wait" THEN "woken" ELSE rpc[q]]
    BY DEF WriterStep, Submits, RequestNewFrame, CheckFull, EvictOldest, TakeFrameId,
           BeginCopy, EndCopy, LockToSubmit, Publish, Signal, EndSubmit,
           UpdateParameters, SetParameters, Kill, reader, object
  <1>3. firstId' \in Nat /\ firstId <= firstId' /\ firstId \in Nat
    BY EvictedForEver DEF TypeOK
  <1>4. next[r] \in Nat /\ rid[r] \in Nat
    BY DEF TypeOK
  <1> QED
    BY <1>1, <1>2, <1>3, <1>4 DEF SkippedInv

\* A call fixes its aim when it begins; the mode changes only between calls.
LEMMA SkippedReader ==
  ASSUME TypeOK, NEW r \in Readers, ReaderStep(r), NEW q \in Readers, SkippedInv(q)
  PROVE  SkippedInv(q)'
  <1> USE DEF TypeOK, ReaderMoves, Idle, SkippedInv
  <1>0. firstId' = firstId
    BY DEF ReaderStep, Gets, Open, SetBufferHandlingMode, GetNextFrame, GetFrame,
           GetLatestFrame, EnterGetFrame, LoadFirst, LoadLast, WillFrameBeAvailable,
           LockToWait, WaitSucceeds, WaitContinues, Block, WaitTimesOut, Relock,
           GiveUp, Return, UseFrame, header
  <1>1. CASE Open(r)
    BY <1>0, <1>1 DEF Open
  <1>2. CASE SetBufferHandlingMode(r) \/ UseFrame(r)
    BY <1>0, <1>2 DEF SetBufferHandlingMode, UseFrame, reader, object
  <1>3. mode[r] = "oldestFirstOverwrite" =>
          \A id \in next[r] .. NextFrameId(r) - 1 : id < firstId
    BY DEF NextFrameId, Larger
  <1>4. CASE GetNextFrame(r)
    BY <1>0, <1>3, <1>4 DEF GetNextFrame, EnterGetFrame, object
  <1>5. CASE GetFrame(r) \/ GetLatestFrame(r)
    BY <1>0, <1>5 DEF GetFrame, GetLatestFrame, EnterGetFrame, object
  <1>6. CASE WaitTimesOut(r) \/ GiveUp(r)
    BY <1>0, <1>6 DEF WaitTimesOut, GiveUp, object
  <1>7. CASE LoadFirst(r) \/ LoadLast(r) \/ WillFrameBeAvailable(r)
    BY <1>0, <1>7 DEF LoadFirst, LoadLast, WillFrameBeAvailable, object
  <1>8. CASE LockToWait(r) \/ WaitSucceeds(r) \/ WaitContinues(r) \/ Block(r) \/ Relock(r)
    BY <1>0, <1>8 DEF LockToWait, WaitSucceeds, WaitContinues, Block, Relock, object
  <1>9. CASE Return(r)
    BY <1>0, <1>9 DEF Return
  <1> QED
    BY <1>1, <1>2, <1>4, <1>5, <1>6, <1>7, <1>8, <1>9 DEF ReaderStep, Gets

LEMMA SkippedStep ==
  ASSUME SingleWriter, TypeOK, WindowInv, \A r \in Readers : SkippedInv(r), [Next]_vars
  PROVE  \A r \in Readers : SkippedInv(r)'
  <1>1. CASE UNCHANGED vars
    BY <1>1 DEF SkippedInv, vars, header, reader, object
  <1>2. CASE Next
    BY <1>2, SkippedWriter, SkippedReader DEF Next
  <1> QED
    BY <1>1, <1>2

\* What a step to the id after the frame's leaves behind.
LEMMA SkippedReturn ==
  ASSUME TypeOK, \A r \in Readers : SkippedInv(r), [Next]_vars, NEW r \in Readers,
         next'[r] # next[r], rpc[r] = "fetch", mode[r] = "oldestFirstOverwrite"
  PROVE  \A id \in next[r] .. next'[r] - 2 : id < firstId
  <1>1. CASE UNCHANGED vars
    BY <1>1 DEF vars, object
  <1>2. ASSUME NEW w \in Writers, WriterStep(w) PROVE FALSE
    BY <1>2
    DEF WriterStep, Submits, RequestNewFrame, CheckFull, EvictOldest, TakeFrameId,
        BeginCopy, EndCopy, LockToSubmit, Publish, Signal, EndSubmit, UpdateParameters,
        SetParameters, Kill, object
  <1>3. ASSUME NEW q \in Readers, ReaderStep(q)
        PROVE  \A id \in next[r] .. next'[r] - 2 : id < firstId
    <2> USE DEF ReaderMoves
    <2>1. CASE Open(q)
      BY <2>1 DEF Open, TypeOK
    <2>2. CASE Return(q)
      <3>1. q = r /\ call[r] = "next" /\ next'[r] = rid[r] + 1 /\ rid[r] \in Nat
        BY <2>2 DEF Return, TypeOK
      <3> QED
        BY <3>1 DEF SkippedInv
    <2>3. CASE ~Open(q) /\ ~Return(q)
      BY <1>3, <2>3
      DEF ReaderStep, Gets, GetNextFrame, GetFrame, GetLatestFrame, EnterGetFrame,
          SetBufferHandlingMode, WaitTimesOut, GiveUp, UseFrame, LoadFirst, LoadLast,
          WillFrameBeAvailable, LockToWait, WaitSucceeds, WaitContinues, Block, Relock,
          object
    <2> QED
      BY <2>1, <2>2, <2>3
  <1> QED
    BY <1>1, <1>2, <1>3 DEF Next

\* A reader that wants every frame misses only frames that rolled out of the buffer
\* before it asked, whatever the writer does between the choice of the frame
\* (GetNextFrame's max of m_FirstId and its position) and the return.
THEOREM NothingSkipped ==
  ASSUME SingleWriter
  PROVE  Spec => SkipsOnlyEvicted
  <1> DEFINE Inv == TypeOK /\ WindowInv /\ \A r \in Readers : SkippedInv(r)
  <1>1. Init => Inv
    BY TypeInit, WindowInit DEF Init, SkippedInv
  <1>2. Inv /\ [Next]_vars => Inv'
    BY TypeStep, WindowStep, SkippedStep
  <1>3. Inv /\ [Next]_vars =>
          \A r \in Readers :
            next'[r] # next[r] /\ rpc[r] = "fetch" /\ mode[r] = "oldestFirstOverwrite"
              => \A id \in next[r] .. next'[r] - 2 : id < firstId
    BY SkippedReturn
  <1> QED
    BY <1>1, <1>2, <1>3, PTL DEF Spec, SkipsOnlyEvicted

-----------------------------------------------------------------------------
(* The rolling log: a read never takes a reader back.                      *)

LEMMA AheadWriter ==
  ASSUME TypeOK, ReaderAhead, NEW w \in Writers, WriterStep(w)
  PROVE  ReaderAhead'
  <1>1. UNCHANGED <<call, rid, next>>
    BY DEF WriterStep, Submits, RequestNewFrame, CheckFull, EvictOldest, TakeFrameId,
           BeginCopy, EndCopy, LockToSubmit, Publish, Signal, EndSubmit,
           UpdateParameters, SetParameters, Kill, reader, object
  <1>2. rpc' = rpc \/ rpc' = [r \in Readers |-> IF rpc[r] = "wait" THEN "woken" ELSE rpc[r]]
    BY DEF WriterStep, Submits, RequestNewFrame, CheckFull, EvictOldest, TakeFrameId,
           BeginCopy, EndCopy, LockToSubmit, Publish, Signal, EndSubmit,
           UpdateParameters, SetParameters, Kill, reader, object
  <1> QED
    BY <1>1, <1>2 DEF ReaderAhead

LEMMA AheadReader ==
  ASSUME TypeOK, ReaderAhead, NEW r \in Readers, ReaderStep(r)
  PROVE  ReaderAhead'
  <1> USE DEF TypeOK, ReaderMoves, Idle, ReaderAhead
  <1>1. CASE Open(r)
    BY <1>1 DEF Open
  <1>2. CASE SetBufferHandlingMode(r) \/ UseFrame(r)
    BY <1>2 DEF SetBufferHandlingMode, UseFrame, reader, object
  <1>3. NextFrameId(r) >= next[r]
    BY DEF NextFrameId, Newest, Larger
  <1>4. CASE GetNextFrame(r)
    BY <1>3, <1>4 DEF GetNextFrame, EnterGetFrame, object
  <1>5. CASE GetFrame(r) \/ GetLatestFrame(r)
    BY <1>5 DEF GetFrame, GetLatestFrame, EnterGetFrame, object
  <1>6. CASE WaitTimesOut(r) \/ GiveUp(r)
    BY <1>6 DEF WaitTimesOut, GiveUp, object
  <1>7. CASE LoadFirst(r) \/ LoadLast(r) \/ WillFrameBeAvailable(r)
    BY <1>7 DEF LoadFirst, LoadLast, WillFrameBeAvailable, object
  <1>8. CASE LockToWait(r) \/ WaitSucceeds(r) \/ WaitContinues(r) \/ Block(r) \/ Relock(r)
    BY <1>8 DEF LockToWait, WaitSucceeds, WaitContinues, Block, Relock, object
  <1>9. CASE Return(r)
    BY <1>9 DEF Return
  <1> QED
    BY <1>1, <1>2, <1>4, <1>5, <1>6, <1>7, <1>8, <1>9 DEF ReaderStep, Gets

LEMMA AheadStep == TypeOK /\ ReaderAhead /\ [Next]_vars => ReaderAhead'
  <1> SUFFICES ASSUME TypeOK, ReaderAhead, [Next]_vars PROVE ReaderAhead'
    OBVIOUS
  <1>1. CASE UNCHANGED vars
    BY <1>1 DEF ReaderAhead, vars, reader, object
  <1>2. CASE Next
    BY <1>2, AheadWriter, AheadReader DEF Next
  <1> QED
    BY <1>1, <1>2

-----------------------------------------------------------------------------
(* The steps.                                                              *)

\* The frames that are available are those that were submitted, so that the log is a
\* function of the header alone.
LEMMA LogIsWindow ==
  ASSUME AvailableIntact
  PROVE  Available = [id \in firstId .. lastId - 1 |-> id]
  BY DEF AvailableIntact, Available

\* Whatever leaves the ids, the size and the readers' positions alone leaves the log alone.
LEMMA Stutter ==
  ASSUME AvailableIntact, AvailableIntact', UNCHANGED <<header, next>>
  PROVE  UNCHANGED Log!vars
  <1>1. Available' = [id \in firstId' .. lastId' - 1 |-> id]
    BY DEF AvailableIntact, Available
  <1>2. Available' = Available
    BY <1>1, LogIsWindow DEF header
  <1> QED
    BY <1>2 DEF Log!vars, header

LEMMA RefinesInit == Init => Log!Init
  <1> SUFFICES ASSUME Init PROVE Log!Init
    OBVIOUS
  <1>1. firstId .. lastId - 1 = {} /\ 0 .. -1 = {}
    BY DEF Init
  <1>2. Available = [id \in 0 .. -1 |-> id]
    BY <1>1 DEF Available
  <1> QED
    BY <1>2 DEF Init, Log!Init

\* The writer's steps that readers can tell are an append, an eviction, the clearing and
\* the resize.
LEMMA RefinesWriter ==
  ASSUME SingleWriter, TypeOK, WindowInv, AvailableIntact', NEW w \in Writers, WriterStep(w)
  PROVE  [Log!Next]_Log!vars
  <1> USE DEF WriterMoves
  <1>a. Available = [id \in firstId .. lastId - 1 |-> id]
    BY LogIsWindow DEF WindowInv
  <1>b. Available' = [id \in firstId' .. lastId' - 1 |-> id]
    BY DEF AvailableIntact, Available
  <1>c. firstId \in Nat /\ lastId \in Nat /\ firstId <= lastId
    BY DEF TypeOK, WindowInv, WindowBounded
  <1>1. CASE EvictOldest(w)
    <2>1. lastId - firstId = numFrames
      BY <1>1 DEF EvictOldest, WindowInv, WriterInv
    <2>2. firstId' = firstId + 1 /\ UNCHANGED <<lastId, numFrames, next>>
      BY <1>1 DEF EvictOldest, object
    <2>3. Available' = [id \in firstId + 1 .. lastId - 1 |-> Available[id]]
      BY <1>a, <1>b, <1>c, <2>2
    <2> QED
      BY <2>1, <2>2, <2>3 DEF Log!Next, Log!Evict
  <1>2. CASE Publish(w)
    <2>1. wid[w] = lastId /\ lastId - firstId < numFrames
      BY <1>2 DEF Publish, WindowInv, WriterInv
    <2>2. lastId' = lastId + 1 /\ UNCHANGED <<firstId, numFrames, next>>
      BY <1>2, <1>c, <2>1 DEF Publish, Larger, object
    <2>3. Available' = [id \in firstId .. lastId |-> IF id = lastId THEN lastId ELSE Available[id]]
      BY <1>a, <1>b, <1>c, <2>2
    <2> QED
      BY <2>1, <2>2, <2>3 DEF Log!Next, Log!Append
  <1>3. CASE UpdateParameters(w)
    <2>1. firstId' = lastId /\ UNCHANGED <<lastId, numFrames, next>>
      BY <1>3 DEF UpdateParameters, object
    <2>2. Available' = [id \in lastId .. lastId - 1 |-> id]
      BY <1>b, <2>1
    <2> QED
      BY <2>1, <2>2 DEF Log!Next, Log!Clear
  <1>4. CASE SetParameters(w)
    <2>1. firstId = lastId
      BY <1>4 DEF SetParameters, WindowInv, WriterInv
    <2>2. numFrames' \in 1 .. Capacity /\ UNCHANGED <<firstId, lastId, next>>
      BY <1>4 DEF SetParameters, object
    <2>3. Available' = Available
      BY <1>a, <1>b, <2>2
    <2> QED
      BY <2>1, <2>2, <2>3 DEF Log!Next, Log!Resize
  <1>5. CASE TakeFrameId(w)
    <2>1. UNCHANGED <<firstId, lastId, numFrames, next>>
      BY <1>5 DEF TakeFrameId, object
    <2> QED
      BY <1>a, <1>b, <2>1 DEF Log!vars
  <1>6. CASE RequestNewFrame(w) \/ CheckFull(w) \/ BeginCopy(w) \/ EndCopy(w) \/ LockToSubmit(w)
    BY <1>6, Stutter DEF RequestNewFrame, CheckFull, BeginCopy, EndCopy, LockToSubmit, object,
                         WindowInv
  <1>7. CASE Signal(w) \/ EndSubmit(w) \/ Kill(w)
    BY <1>7, Stutter DEF Signal, EndSubmit, Kill, object, WindowInv
  <1> QED
    BY <1>1, <1>2, <1>3, <1>4, <1>5, <1>6, <1>7 DEF WriterStep, Submits

\* The readers' steps that move a reader are the opening of the stream and the return of
\* GetNextFrame.
LEMMA RefinesReader ==
  ASSUME TypeOK, WindowInv, ReaderAhead, AvailableIntact', NEW r \in Readers, ReaderStep(r),
         \A q \in Readers : next[q] <= lastId
  PROVE  [Log!Next]_Log!vars
  <1> USE DEF ReaderMoves
  <1>1. ASSUME UNCHANGED header, NEW id \in next[r] .. lastId, next' = [next EXCEPT ![r] = id]
        PROVE  Log!Next
    <2>1. Available' = Available
      <3>1. Available' = [i \in firstId' .. lastId' - 1 |-> i]
        BY DEF AvailableIntact, Available
      <3> QED
        BY <1>1, <3>1, LogIsWindow DEF WindowInv, header
    <2> QED
      BY <1>1, <2>1 DEF Log!Next, Log!Advance, header
  <1>2. CASE Open(r)
    <2>1. lastId \in next[r] .. lastId
      BY DEF TypeOK
    <2> QED
      BY <1>1, <1>2, <2>1 DEF Open
  <1>3. CASE Return(r)
    <2>1. rid[r] + 1 \in Nat /\ rid[r] + 1 <= lastId /\ next[r] \in Nat /\ lastId \in Nat
      BY <1>3 DEF Return, TypeOK, WindowInv, ReaderInv
    <2>2. ASSUME call[r] = "next" PROVE rid[r] + 1 \in next[r] .. lastId
      <3>1. rid[r] >= next[r] /\ rid[r] \in Nat
        BY <1>3, <2>2 DEF Return, ReaderAhead, TypeOK
      <3> QED
        BY <2>1, <3>1
    <2>3. next[r] \in next[r] .. lastId
      BY <2>1
    <2> QED
      BY <1>1, <1>3, <2>2, <2>3 DEF Return
  <1>4. CASE GetNextFrame(r) \/ GetFrame(r) \/ GetLatestFrame(r) \/ SetBufferHandlingMode(r)
    BY <1>4, Stutter DEF GetNextFrame, GetFrame, GetLatestFrame, EnterGetFrame,
                         SetBufferHandlingMode, object, WindowInv
  <1>5. CASE WaitTimesOut(r) \/ GiveUp(r) \/ UseFrame(r)
    BY <1>5, Stutter DEF WaitTimesOut, GiveUp, UseFrame, object, WindowInv
  <1>6. CASE LoadFirst(r) \/ LoadLast(r) \/ WillFrameBeAvailable(r) \/ LockToWait(r)
    BY <1>6, Stutter DEF LoadFirst, LoadLast, WillFrameBeAvailable, LockToWait, object, WindowInv
  <1>7. CASE WaitSucceeds(r) \/ WaitContinues(r) \/ Block(r) \/ Relock(r)
    BY <1>7, Stutter DEF WaitSucceeds, WaitContinues, Block, Relock, object, WindowInv
  <1> QED
    BY <1>2, <1>3, <1>4, <1>5, <1>6, <1>7 DEF ReaderStep, Gets

-----------------------------------------------------------------------------
(* The theorem.                                                            *)

\* No reader is past the last frame.
Behind == \A r \in Readers : next[r] <= lastId

LEMMA BehindStep ==
  SingleWriter /\ TypeOK /\ WindowInv /\ Behind /\ [Next]_vars => Behind'
  <1> SUFFICES ASSUME SingleWriter, TypeOK, WindowInv, Behind, [Next]_vars PROVE Behind'
    OBVIOUS
  <1>1. CASE UNCHANGED vars
    BY <1>1 DEF Behind, vars, header, object
  <1>2. ASSUME NEW w \in Writers, WriterStep(w) PROVE Behind'
    <2>1. CASE Publish(w)
      BY <2>1 DEF Publish, Larger, object, Behind, TypeOK
    <2>2. CASE ~Publish(w)
      <3>1. UNCHANGED <<next, lastId>>
        BY <1>2, <2>2
        DEF WriterStep, Submits, RequestNewFrame, CheckFull, EvictOldest, TakeFrameId,
            BeginCopy, EndCopy, LockToSubmit, Signal, EndSubmit, UpdateParameters,
            SetParameters, Kill, header, object
      <3> QED
        BY <3>1 DEF Behind
    <2> QED
      BY <2>1, <2>2
  <1>3. ASSUME NEW r \in Readers, ReaderStep(r) PROVE Behind'
    <2> USE DEF ReaderMoves, TypeOK, Behind
    <2>1. CASE Open(r)
      BY <2>1 DEF Open, header
    <2>2. CASE Return(r)
      <3>1. rid[r] + 1 <= lastId
        BY <2>2 DEF Return, WindowInv, ReaderInv
      <3> QED
        BY <2>2, <3>1 DEF Return, header
    <2>3. CASE ~Open(r) /\ ~Return(r)
      <3>1. UNCHANGED <<next, lastId>>
        BY <1>3, <2>3
        DEF ReaderStep, Gets, GetNextFrame, GetFrame, GetLatestFrame, EnterGetFrame,
            SetBufferHandlingMode, WaitTimesOut, GiveUp, UseFrame, LoadFirst, LoadLast,
            WillFrameBeAvailable, LockToWait, WaitSucceeds, WaitContinues, Block, Relock,
            header, object
      <3> QED
        BY <3>1
    <2> QED
      BY <2>1, <2>2, <2>3
  <1> QED
    BY <1>1, <1>2, <1>3 DEF Next

\* A data stream with one writer implements the rolling log: to every reader, in every
\* interleaving with the writer's accesses to shared memory (RequestNewFrame, SubmitData,
\* UpdateParameters, GetFrame), it is a log of whole frames that rolls one frame at a time.
THEOREM Implementation ==
  ASSUME SingleWriter
  PROVE  Spec => ImplementsRollingLog
  <1> DEFINE Inv == TypeOK /\ WindowInv /\ ReaderAhead /\ Behind
  <1>1. Init => Inv
    BY TypeInit, WindowInit DEF Init, ReaderAhead, Behind
  <1>2. Inv /\ [Next]_vars => Inv'
    BY TypeStep, WindowStep, AheadStep, BehindStep
  <1>3. Inv /\ Inv' /\ [Next]_vars => [Log!Next]_Log!vars
    <2> SUFFICES ASSUME Inv, Inv', [Next]_vars PROVE [Log!Next]_Log!vars
      OBVIOUS
    <2>1. AvailableIntact /\ AvailableIntact'
      BY DEF WindowInv
    <2>2. CASE UNCHANGED vars
      BY <2>1, <2>2, Stutter DEF vars, object
    <2>3. CASE Next
      BY <2>1, <2>3, RefinesWriter, RefinesReader DEF Next, Behind
    <2> QED
      BY <2>2, <2>3
  <1> QED
    BY <1>1, <1>2, <1>3, RefinesInit, PTL DEF Spec, ImplementsRollingLog, Log!Spec
==============================================================================
