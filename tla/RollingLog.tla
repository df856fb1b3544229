------------------------------ MODULE RollingLog ------------------------------
(***************************************************************************)
(* What a data stream promises: a log of frames, numbered from 0, of which  *)
(* the latest few are available, whole and in order.  A frame goes only to   *)
(* make room for the next one, or when the stream is resized.  Every reader  *)
(* has a position, which only moves forward, and past one frame that is in   *)
(* the log.  No threads, slots or locks: every operation is one step.        *)
(***************************************************************************)
EXTENDS Integers

CONSTANTS
  Readers,    \* those who read
  MaxSize     \* the most frames that fit

VARIABLES
  first, last,    \* the available frames are those from first to last - 1
  size,           \* the most frames that may be available, for now
  log,            \* the available frames: id |-> what was submitted with this id
  position        \* of each reader, the id after that of the frame it got last

vars == <<first, last, size, log, position>>

TypeOK ==
  /\ first \in Nat /\ last \in Nat /\ first <= last
  /\ size \in 1 .. MaxSize /\ last - first <= size
  /\ log \in [first .. last - 1 -> Nat]
  /\ position \in [Readers -> 0 .. last]

Init ==
  /\ first = 0 /\ last = 0 /\ size = MaxSize
  /\ log = [id \in 0 .. -1 |-> id]
  /\ position = [r \in Readers |-> 0]

\* The data of a frame are told apart by the number of the submission.
Append ==
  /\ last - first < size
  /\ last' = last + 1
  /\ log'  = [id \in first .. last |-> IF id = last THEN last ELSE log[id]]
  /\ UNCHANGED <<first, size, position>>

\* The oldest frame makes room.
Evict ==
  /\ last - first = size
  /\ first' = first + 1
  /\ log'   = [id \in first + 1 .. last - 1 |-> log[id]]
  /\ UNCHANGED <<last, size, position>>

\* All frames go, so that the size may change.
Clear ==
  /\ first' = last
  /\ log'   = [id \in last .. last - 1 |-> id]
  /\ UNCHANGED <<last, size, position>>

Resize ==
  /\ first = last
  /\ size' \in 1 .. MaxSize
  /\ UNCHANGED <<first, last, log, position>>

\* A reader gets a frame that was submitted and that it did not get yet, and moves past
\* it; or it begins to read, behind all frames there are.
Advance(r) ==
  /\ \E id \in position[r] .. last : position' = [position EXCEPT ![r] = id]
  /\ UNCHANGED <<first, last, size, log>>

Next == Append \/ Evict \/ Clear \/ Resize \/ \E r \in Readers : Advance(r)

Spec == Init /\ [][Next]_vars
==============================================================================
