------------------------------ MODULE DataStream ------------------------------
(***************************************************************************)
(* A data stream: a rolling buffer of frames in shared memory, written and *)
(* read by threads of several processes (catkit_core/DataStream.cpp) that  *)
(* share one mutex and one condition variable                              *)
(* (catkit_core/Synchronization.cpp, the POSIX build).                     *)
(*                                                                         *)
(* Every action is at most one access to shared memory, so that all        *)
(* interleavings of writers and readers are behaviours.  The header fields *)
(* m_FirstId, m_LastId and m_NextRequestId are sequentially consistent     *)
(* atomics.  The pixels of a frame are abstracted to its id: a slot holds  *)
(* the id of the frame whose data it holds completely, or NoFrame when it  *)
(* was never filled or is being overwritten.  A local variable whose scope *)
(* has ended is reset, so that states do not differ by dead values.        *)
(***************************************************************************)
EXTENDS Integers, FiniteSets

CONSTANTS
  Writers,      \* threads that submit frames
  Killable,     \* the writers that may be killed at any point
  Readers,      \* threads that read, each with a DataStream object of its own
  Capacity,     \* the number of frames the allocated shared memory holds
  MaxFrames,    \* bound: no submission starts once this many ids were given
  Nobody        \* the owner of an unlocked mutex

ASSUME ThreadsAssumption  ==
  Writers \cap Readers = {} /\ Nobody \notin Writers \cup Readers
ASSUME KillableAssumption == Killable \subseteq Writers
ASSUME CapacityAssumption == Capacity \in Nat \ {0}
ASSUME FramesAssumption   == MaxFrames \in Nat

VARIABLES
  firstId, lastId, nextRequestId, numFrames,   \* the stream header
  slot,                                        \* the frame buffer
  mutex,                                       \* the owner of the shared mutex
  wpc, wlast, wid, wloc,                       \* the writers and their locals
  rpc, call, wait, rid, loc, seen,             \* the readers' current call
  next, mode                                   \* the readers' DataStream objects

header == <<firstId, lastId, nextRequestId, numFrames>>
writer == <<wpc, wlast, wid, wloc>>
object == <<next, mode>>
reader == <<rpc, call, wait, rid, loc, seen>>
vars   == <<header, slot, mutex, writer, reader, object>>

NoFrame == -1

WriterPC == {"idle", "loadFirst", "evict", "request", "write", "copy",
             "filled", "publish", "signal", "unlock", "params", "dead"}
ReaderPC == {"closed", "idle", "first", "last", "will", "lock", "cond",
             "block", "wait", "woken", "timedOut", "fetch", "have", "read"}
Modes    == {"newestOnly", "oldestFirstOverwrite"}

\* The program points at which a thread has locked the mutex.
Owning(w)  == wpc[w] \in {"publish", "signal", "unlock"}
Holding(r) == rpc[r] \in {"cond", "block"}

TypeOK ==
  /\ firstId \in Nat /\ lastId \in Nat /\ nextRequestId \in Nat
  /\ numFrames \in 1 .. Capacity
  /\ slot  \in [0 .. Capacity - 1 -> Nat \cup {NoFrame}]
  /\ mutex \in Writers \cup Readers \cup {Nobody}
  /\ wpc   \in [Writers -> WriterPC]
  /\ wlast \in [Writers -> Nat]
  /\ wid   \in [Writers -> Nat]
  /\ wloc  \in [Writers -> 0 .. Capacity - 1]
  /\ rpc   \in [Readers -> ReaderPC]
  /\ call  \in [Readers -> {"next", "frame"}]
  /\ wait  \in [Readers -> BOOLEAN]
  /\ rid   \in [Readers -> Nat]
  /\ loc   \in [Readers -> 0 .. Capacity - 1]
  /\ seen  \in [Readers -> Nat \cup {NoFrame}]
  /\ next  \in [Readers -> Nat]
  /\ mode  \in [Readers -> Modes]

\* DataStream::Create: an empty stream that fills its allocation.
Init ==
  /\ firstId = 0 /\ lastId = 0 /\ nextRequestId = 0 /\ numFrames = Capacity
  /\ slot  = [i \in 0 .. Capacity - 1 |-> NoFrame]
  /\ mutex = Nobody
  /\ wpc   = [w \in Writers |-> "idle"]
  /\ wlast = [w \in Writers |-> 0]
  /\ wid   = [w \in Writers |-> 0]
  /\ wloc  = [w \in Writers |-> 0]
  /\ rpc   = [r \in Readers |-> "closed"]
  /\ call  = [r \in Readers |-> "next"]
  /\ wait  = [r \in Readers |-> TRUE]
  /\ rid   = [r \in Readers |-> 0]
  /\ loc   = [r \in Readers |-> 0]
  /\ seen  = [r \in Readers |-> NoFrame]
  /\ next  = [r \in Readers |-> 0]
  /\ mode  = [r \in Readers |-> "newestOnly"]

-----------------------------------------------------------------------------
(* Writers: RequestNewFrame, the copy of the data, SubmitFrame.            *)

WriterMoves(w, from, to) ==
  /\ wpc[w] = from
  /\ wpc' = [wpc EXCEPT ![w] = to]

\* SubmitData begins: RequestNewFrame loads m_LastId for its full check.
RequestNewFrame(w) ==
  /\ nextRequestId < MaxFrames
  /\ WriterMoves(w, "idle", "loadFirst")
  /\ wlast' = [wlast EXCEPT ![w] = lastId]
  /\ UNCHANGED <<header, slot, mutex, wid, wloc, reader, object>>

\* Mutant: the comparison is true only when the buffer holds one frame too many.
IsFullLate(w) == wlast[w] - firstId > numFrames

IsFull(w) == wlast[w] - firstId = numFrames

\* It loads m_FirstId and compares the difference with the buffer's size.
CheckFull(w) ==
  /\ WriterMoves(w, "loadFirst", IF IsFull(w) THEN "evict" ELSE "request")
  /\ wlast' = [wlast EXCEPT ![w] = 0]
  /\ UNCHANGED <<header, slot, mutex, wid, wloc, reader, object>>

\* The buffer was full: m_FirstId++ makes the oldest frame unavailable.
EvictOldest(w) ==
  /\ WriterMoves(w, "evict", "request")
  /\ firstId' = firstId + 1
  /\ UNCHANGED <<lastId, nextRequestId, numFrames, slot, mutex, wlast, wid,
                 wloc, reader, object>>

\* m_NextRequestId++ names the frame, which lies in the slot of its id.
TakeFrameId(w) ==
  /\ WriterMoves(w, "request", "write")
  /\ wid'  = [wid EXCEPT ![w] = nextRequestId]
  /\ wloc' = [wloc EXCEPT ![w] = nextRequestId % numFrames]
  /\ nextRequestId' = nextRequestId + 1
  /\ UNCHANGED <<firstId, lastId, numFrames, slot, mutex, wlast, reader, object>>

\* memcpy overwrites the slot, which holds no whole frame until it ends.
BeginCopy(w) ==
  /\ WriterMoves(w, "write", "copy")
  /\ slot' = [slot EXCEPT ![wloc[w]] = NoFrame]
  /\ UNCHANGED <<header, mutex, wlast, wid, wloc, reader, object>>

EndCopy(w) ==
  /\ WriterMoves(w, "copy", "filled")
  /\ slot' = [slot EXCEPT ![wloc[w]] = wid[w]]
  /\ UNCHANGED <<header, mutex, wlast, wid, wloc, reader, object>>

\* Mutant: SubmitFrame takes no lock.
LockToSubmitUnlocked(w) ==
  /\ WriterMoves(w, "filled", "publish")
  /\ UNCHANGED <<header, slot, mutex, wlast, wid, wloc, reader, object>>

\* SubmitFrame locks the mutex before it changes what readers wait for.
LockToSubmit(w) ==
  /\ mutex = Nobody
  /\ WriterMoves(w, "filled", "publish")
  /\ mutex' = w
  /\ UNCHANGED <<header, slot, wlast, wid, wloc, reader, object>>

Larger(a, b) == IF a > b THEN a ELSE b

\* The compare-and-exchange loop: m_LastId becomes id + 1, unless it is past it.
Publish(w) ==
  /\ WriterMoves(w, "publish", "signal")
  /\ lastId' = Larger(lastId, wid[w] + 1)
  /\ UNCHANGED <<firstId, nextRequestId, numFrames, slot, mutex, wlast, wid,
                 wloc, reader, object>>

\* Mutant: the condition variable is not signalled.
SignalNobody(w) ==
  /\ WriterMoves(w, "signal", "unlock")
  /\ UNCHANGED <<header, slot, mutex, wlast, wid, wloc, reader, object>>

\* pthread_cond_broadcast: every reader blocked on the condition is released.
Signal(w) ==
  /\ WriterMoves(w, "signal", "unlock")
  /\ rpc' = [r \in Readers |-> IF rpc[r] = "wait" THEN "woken" ELSE rpc[r]]
  /\ UNCHANGED <<header, slot, mutex, wlast, wid, wloc, call, wait, rid, loc,
                 seen, object>>

\* The frame rate is updated and the lock released as SubmitFrame returns.
EndSubmit(w) ==
  /\ WriterMoves(w, "unlock", "idle")
  /\ mutex' = Nobody
  /\ wid'   = [wid EXCEPT ![w] = 0]
  /\ wloc'  = [wloc EXCEPT ![w] = 0]
  /\ UNCHANGED <<header, slot, wlast, reader, object>>

\* Mutant: the available frames stay available.
UpdateParametersKeepingFrames(w) ==
  /\ WriterMoves(w, "idle", "params")
  /\ UNCHANGED <<header, slot, mutex, wlast, wid, wloc, reader, object>>

\* UpdateParameters makes all frames unavailable ...
UpdateParameters(w) ==
  /\ WriterMoves(w, "idle", "params")
  /\ firstId' = lastId
  /\ UNCHANGED <<lastId, nextRequestId, numFrames, slot, mutex, wlast, wid,
                 wloc, reader, object>>

\* ... and sets the parameters, here the number of frames that now fit.
SetParameters(w) ==
  /\ WriterMoves(w, "params", "idle")
  /\ numFrames' \in 1 .. Capacity
  /\ UNCHANGED <<firstId, lastId, nextRequestId, slot, mutex, wlast, wid, wloc,
                 reader, object>>

\* The writer's process is killed.  The mutex is not robust: it stays locked.
Kill(w) ==
  /\ w \in Killable /\ wpc[w] # "dead"
  /\ wpc' = [wpc EXCEPT ![w] = "dead"]
  /\ UNCHANGED <<header, slot, mutex, wlast, wid, wloc, reader, object>>

-----------------------------------------------------------------------------
(* Readers: GetNextFrame, GetFrame and GetLatestFrame, which all end in    *)
(* GetFrame, and the Wait it may call.                                     *)

ReaderMoves(r, from, to) ==
  /\ rpc[r] = from
  /\ rpc' = [rpc EXCEPT ![r] = to]

Idle(r) == rpc[r] \in {"idle", "read"}

\* DataStream::Open skips the frames that are already available.
Open(r) ==
  /\ ReaderMoves(r, "closed", "idle")
  /\ next' = [next EXCEPT ![r] = lastId]
  /\ UNCHANGED <<header, slot, mutex, writer, call, wait, rid, loc, seen, mode>>

SetBufferHandlingMode(r) ==
  /\ Idle(r)
  /\ \E m \in Modes : mode' = [mode EXCEPT ![r] = m]
  /\ UNCHANGED <<header, slot, mutex, writer, reader, next>>

\* GetFrame(id) is entered, with or without a time to wait.
EnterGetFrame(r, kind, id, mayWait) ==
  /\ Idle(r)
  /\ rpc'  = [rpc EXCEPT ![r] = "first"]
  /\ call' = [call EXCEPT ![r] = kind]
  /\ rid'  = [rid EXCEPT ![r] = id]
  /\ wait' = [wait EXCEPT ![r] = mayWait]
  /\ seen' = [seen EXCEPT ![r] = NoFrame]
  /\ UNCHANGED <<header, slot, mutex, writer, loc, object>>

Newest == IF lastId = 0 THEN 0 ELSE lastId - 1

\* Mutant: the buffer handling mode is ignored.
NextFrameIdNewest(r) == Larger(Newest, next[r])

\* The frame GetNextFrame aims for, by buffer handling mode.
NextFrameId(r) ==
  IF mode[r] = "newestOnly" THEN Larger(Newest, next[r])
                            ELSE Larger(firstId, next[r])

GetNextFrame(r) ==
  \E mayWait \in BOOLEAN : EnterGetFrame(r, "next", NextFrameId(r), mayWait)

\* GetFrame called with an id of the caller's choice.
GetFrame(r) ==
  \E id \in 0 .. MaxFrames, mayWait \in BOOLEAN :
    EnterGetFrame(r, "frame", id, mayWait)

\* It throws at once, and changes nothing, when no frame was ever submitted.
GetLatestFrame(r) ==
  /\ lastId # 0
  /\ EnterGetFrame(r, "frame", Newest, FALSE)

\* IsFrameAvailable loads m_FirstId ...
LoadFirst(r) ==
  /\ ReaderMoves(r, "first", IF rid[r] >= firstId THEN "last" ELSE "will")
  /\ UNCHANGED <<header, slot, mutex, writer, call, wait, rid, loc, seen, object>>

\* Mutant: the comparison with m_LastId is off by one.
LoadLastOffByOne(r) ==
  /\ ReaderMoves(r, "last", IF rid[r] <= lastId THEN "fetch" ELSE "will")
  /\ UNCHANGED <<header, slot, mutex, writer, call, wait, rid, loc, seen, object>>

\* ... and, only when the frame was not evicted, m_LastId.
LoadLast(r) ==
  /\ ReaderMoves(r, "last", IF rid[r] < lastId THEN "fetch" ELSE "will")
  /\ UNCHANGED <<header, slot, mutex, writer, call, wait, rid, loc, seen, object>>

\* WillFrameBeAvailable; GetFrame throws for an evicted frame, and for a future
\* one when it may not wait.
WillFrameBeAvailable(r) ==
  /\ ReaderMoves(r, "will", IF rid[r] >= firstId /\ wait[r] THEN "lock" ELSE "idle")
  /\ UNCHANGED <<header, slot, mutex, writer, call, wait, rid, loc, seen, object>>

LockToWait(r) ==
  /\ mutex = Nobody
  /\ ReaderMoves(r, "lock", "cond")
  /\ mutex' = r
  /\ UNCHANGED <<header, slot, writer, call, wait, rid, loc, seen, object>>

\* The frame was submitted: Wait returns and the lock is released.
WaitSucceeds(r) ==
  /\ lastId > rid[r]
  /\ ReaderMoves(r, "cond", "fetch")
  /\ mutex' = Nobody
  /\ UNCHANGED <<header, slot, writer, call, wait, rid, loc, seen, object>>

\* It was not.
WaitContinues(r) ==
  /\ lastId <= rid[r]
  /\ ReaderMoves(r, "cond", "block")
  /\ UNCHANGED <<header, slot, mutex, writer, call, wait, rid, loc, seen, object>>

\* pthread_cond_timedwait unlocks the mutex and blocks, in one step.
Block(r) ==
  /\ ReaderMoves(r, "block", "wait")
  /\ mutex' = Nobody
  /\ UNCHANGED <<header, slot, writer, call, wait, rid, loc, seen, object>>

\* The 20 ms of one timed wait have passed.
WaitTimesOut(r) ==
  /\ ReaderMoves(r, "wait", "timedOut")
  /\ UNCHANGED <<header, slot, mutex, writer, call, wait, rid, loc, seen, object>>

\* Woken or timed out, the reader locks the mutex again to look at the condition.
Relock(r) ==
  /\ mutex = Nobody
  /\ rpc[r] \in {"woken", "timedOut"}
  /\ rpc' = [rpc EXCEPT ![r] = "cond"]
  /\ mutex' = r
  /\ UNCHANGED <<header, slot, writer, call, wait, rid, loc, seen, object>>

\* It locks the mutex, and throws: the total time expired, or error_check threw.
GiveUp(r) ==
  /\ mutex = Nobody
  /\ rpc[r] \in {"woken", "timedOut"}
  /\ rpc' = [rpc EXCEPT ![r] = "idle"]
  /\ UNCHANGED <<header, slot, mutex, writer, call, wait, rid, loc, seen, object>>

\* GetFrame builds a frame that points into the buffer, without looking again at
\* the header's ids; GetNextFrame then moves on to the id after it.
Return(r) ==
  /\ ReaderMoves(r, "fetch", "have")
  /\ loc'  = [loc EXCEPT ![r] = rid[r] % numFrames]
  /\ next' = [next EXCEPT ![r] = IF call[r] = "next" THEN rid[r] + 1 ELSE @]
  /\ UNCHANGED <<header, slot, mutex, writer, call, wait, rid, seen, mode>>

\* The caller looks at the frame's data, at any later time.
UseFrame(r) ==
  /\ ReaderMoves(r, "have", "read")
  /\ seen' = [seen EXCEPT ![r] = slot[loc[r]]]
  /\ loc'  = [loc EXCEPT ![r] = 0]
  /\ UNCHANGED <<header, slot, mutex, writer, call, wait, rid, object>>

-----------------------------------------------------------------------------
Submits(w) ==
  \/ CheckFull(w) \/ EvictOldest(w) \/ TakeFrameId(w) \/ BeginCopy(w)
  \/ EndCopy(w) \/ LockToSubmit(w) \/ Publish(w) \/ Signal(w) \/ EndSubmit(w)
  \/ SetParameters(w)

WriterStep(w) ==
  RequestNewFrame(w) \/ UpdateParameters(w) \/ Kill(w) \/ Submits(w)

\* The steps of a call that are the thread's own, and not the clock's.
Gets(r) ==
  \/ LoadFirst(r) \/ LoadLast(r) \/ WillFrameBeAvailable(r) \/ LockToWait(r)
  \/ WaitSucceeds(r) \/ WaitContinues(r) \/ Block(r) \/ Relock(r) \/ Return(r)

ReaderStep(r) ==
  \/ Open(r) \/ SetBufferHandlingMode(r)
  \/ GetNextFrame(r) \/ GetFrame(r) \/ GetLatestFrame(r)
  \/ WaitTimesOut(r) \/ GiveUp(r) \/ UseFrame(r) \/ Gets(r)

Next ==
  \/ \E w \in Writers : WriterStep(w)
  \/ \E r \in Readers : ReaderStep(r)

Spec == Init /\ [][Next]_vars

\* A thread inside a submission or a call keeps running.  Nothing obliges it to
\* start one, and no clock is assumed to tick.
FairSpec ==
  /\ Spec
  /\ \A w \in Writers : WF_vars(Submits(w))
  /\ \A r \in Readers : WF_vars(Gets(r))

-----------------------------------------------------------------------------
(* Properties                                                              *)

\* The stream has one writer, as the streams a service produces have.
SingleWriter == \A v, w \in Writers : v = w

\* RequestNewFrame keeps the buffer rolling: the available ids never outnumber
\* the slots, so no two available frames share one.
WindowBounded == firstId <= lastId /\ lastId - firstId <= numFrames

\* Every frame that IsFrameAvailable calls available is in its slot, whole: it
\* is evicted before RequestNewFrame hands its slot to another frame.
AvailableIntact ==
  \A id \in firstId .. lastId - 1 : slot[id % numFrames] = id

\* A caller that finds the id of its frame still available after it used the data
\* used that frame, whole: GetFrame's lack of a second check costs nothing else.
ReadValidated ==
  \A r \in Readers : rpc[r] = "read" /\ rid[r] >= firstId => seen[r] = rid[r]

\* No reader sleeps through the frame it waits for: if the frame was submitted,
\* the writer that submitted it is about to broadcast (SubmitFrame's lock).
NoLostWakeup ==
  \A r \in Readers :
    rpc[r] = "wait" /\ lastId > rid[r] => \E w \in Writers : wpc[w] = "signal"

\* A reader that wants every frame skips only frames that are gone.
SkipsOnlyEvicted ==
  [][\A r \in Readers :
       next'[r] # next[r] /\ rpc[r] = "fetch" /\ mode[r] = "oldestFirstOverwrite"
         => \A id \in next[r] .. next'[r] - 2 : id < firstId]_vars

\* A frame submitted while a reader sleeps for it reaches that reader by the
\* broadcast alone, without the 20 ms timer.
Delivery ==
  \A r \in Readers :
    rpc[r] = "wait" /\ lastId > rid[r]
      ~> rpc[r] \in {"fetch", "have", "read", "idle"}

-----------------------------------------------------------------------------
(* The inductive invariants behind them.                                   *)

\* What one writer, alone, knows at each point of SubmitData: ids are given and
\* submitted in step, and room is made before the id is taken.
WriterInv(w) ==
  /\ wpc[w] \in {"idle", "params", "loadFirst", "evict", "request", "signal", "unlock"}
       => nextRequestId = lastId
  /\ wpc[w] = "loadFirst" => wlast[w] = lastId
  /\ wpc[w] = "params"    => firstId = lastId
  /\ wpc[w] = "evict"     => lastId - firstId = numFrames
  /\ wpc[w] \in {"request", "write", "copy", "filled", "publish"}
       => lastId - firstId < numFrames
  /\ wpc[w] \in {"write", "copy", "filled", "publish"}
       => /\ nextRequestId = lastId + 1
          /\ wid[w] = lastId
          /\ wloc[w] = wid[w] % numFrames
  /\ wpc[w] \in {"filled", "publish"} => slot[wloc[w]] = wid[w]

\* What a reader knows of the frame it got.
ReaderInv(r) ==
  /\ rpc[r] \in {"fetch", "have", "read"} => rid[r] < lastId
  /\ rpc[r] = "have" /\ rid[r] >= firstId => loc[r] = rid[r] % numFrames
  /\ rpc[r] = "read" /\ rid[r] >= firstId => seen[r] = rid[r]

WindowInv ==
  /\ WindowBounded
  /\ AvailableIntact
  /\ \A w \in Writers : WriterInv(w)
  /\ \A r \in Readers : ReaderInv(r)

\* Who owns the mutex, and what a reader that is about to block has checked.
MutexInv ==
  /\ \A w \in Writers : Owning(w) => mutex = w
  /\ \A r \in Readers : Holding(r) => mutex = r
  /\ \A r \in Readers : rpc[r] = "block" => lastId <= rid[r]
  /\ NoLostWakeup
==============================================================================
