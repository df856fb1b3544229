-------------------------- MODULE DataStreamRefinement --------------------------
(***************************************************************************)
(* A data stream with one writer implements a rolling log, one shared-memory *)
(* access at a time: a frame is appended when m_LastId is increased, and not *)
(* when its slot is taken or its data are copied.                           *)
(***************************************************************************)
EXTENDS DataStream

\* The available frames, as a reader finds them in their slots.
Available == [id \in firstId .. lastId - 1 |-> slot[id % numFrames]]

Log == INSTANCE RollingLog WITH
  MaxSize <- Capacity, first <- firstId, last <- lastId, size <- numFrames,
  log <- Available, position <- next

\* The stream behaves as a log: frames become available in order and whole, stay as
\* they are and go only to make room, and every read moves a reader forward, whatever
\* the writer is doing meanwhile in the slots (RequestNewFrame, SubmitData,
\* UpdateParameters, GetNextFrame).
ImplementsRollingLog == Log!Spec

\* The frame a call to GetNextFrame aims for is never behind the reader's position.
ReaderAhead ==
  \A r \in Readers :
    call[r] = "next" /\ rpc[r] \notin {"closed", "idle", "have", "read"} => rid[r] >= next[r]
==============================================================================
