--------------------------- MODULE MessageLoopProofs ---------------------------
(***************************************************************************)
(* Proofs about MessageLoop, for any number of threads and messages.       *)
(***************************************************************************)
EXTENDS MessageLoop, SequenceTheorems, TLAPS

-----------------------------------------------------------------------------
(* Sequences of messages                                                   *)

Message       == 1 .. MaxMessages
Increasing(m) == \A i, j \in 1 .. Len(m) : i < j => m[i] < m[j]
\* Every message of a is before every message of b.
Precedes(a, b) == \A i \in 1 .. Len(a), j \in 1 .. Len(b) : a[i] < b[j]
Within(m, n)  == \A i \in 1 .. Len(m) : m[i] <= n

\* What is taken from the front is before the rest.
LEMMA TakenInOrder ==
  ASSUME NEW q \in Seq(Message), q # <<>>, Increasing(q)
  PROVE  /\ Head(q) \in Message /\ Tail(q) \in Seq(Message)
         /\ Len(Tail(q)) = Len(q) - 1 /\ Len(q) \in Nat \ {0}
         /\ Head(q) = q[1]
         /\ \A i \in 1 .. Len(Tail(q)) : Tail(q)[i] = q[i + 1] /\ i + 1 \in 1 .. Len(q)
         /\ Increasing(Tail(q))
         /\ \A i \in 1 .. Len(Tail(q)) : Head(q) < Tail(q)[i]
  <1>1. /\ Head(q) \in Message /\ Tail(q) \in Seq(Message)
        /\ Len(Tail(q)) = Len(q) - 1 /\ Len(q) \in Nat \ {0}
        /\ Head(q) = q[1]
        /\ \A i \in 1 .. Len(Tail(q)) : Tail(q)[i] = q[i + 1]
    BY HeadTailProperties, EmptySeq
  <1>2. \A i \in 1 .. Len(Tail(q)) : i + 1 \in 1 .. Len(q)
    BY <1>1
  <1>3. Increasing(Tail(q))
    BY <1>1, <1>2 DEF Increasing
  <1>4. \A i \in 1 .. Len(Tail(q)) : Head(q) < Tail(q)[i]
    BY <1>1, <1>2 DEF Increasing
  <1> QED
    BY <1>1, <1>2, <1>3, <1>4

\* What is put at the end is after the others.
LEMMA AddedInOrder ==
  ASSUME NEW q \in Seq(Message), Increasing(q), NEW m \in Message,
         \A i \in 1 .. Len(q) : q[i] < m
  PROVE  /\ Append(q, m) \in Seq(Message) /\ Increasing(Append(q, m))
         /\ Len(Append(q, m)) = Len(q) + 1 /\ Len(q) \in Nat
         /\ \A i \in 1 .. Len(q) + 1 : Append(q, m)[i] = IF i <= Len(q) THEN q[i] ELSE m
  <1>1. /\ Append(q, m) \in Seq(Message)
        /\ Len(Append(q, m)) = Len(q) + 1 /\ Len(q) \in Nat
        /\ \A i \in 1 .. Len(q) + 1 : Append(q, m)[i] = IF i <= Len(q) THEN q[i] ELSE m
    BY AppendProperties, LenProperties
  <1>2. \A i \in 1 .. Len(q) : q[i] \in Nat
    BY ElementOfSeq, BoundsAssumption DEF Message
  <1> QED
    BY <1>1, <1>2 DEF Increasing

\* Two sequences in order, one before the other, are in order.
LEMMA JoinedInOrder ==
  ASSUME NEW a \in Seq(Message), NEW b \in Seq(Message),
         Increasing(a), Increasing(b), Precedes(a, b)
  PROVE  Increasing(a \o b)
  <1>1. /\ Len(a \o b) = Len(a) + Len(b) /\ Len(a) \in Nat /\ Len(b) \in Nat
        /\ \A i \in 1 .. Len(a) + Len(b) : (a \o b)[i] = IF i <= Len(a) THEN a[i] ELSE b[i - Len(a)]
    BY ConcatProperties, LenProperties
  <1> DEFINE c == a \o b
  <1>2. /\ Len(c) = Len(a) + Len(b)
        /\ \A i \in 1 .. Len(a) + Len(b) : c[i] = IF i <= Len(a) THEN a[i] ELSE b[i - Len(a)]
    BY <1>1
  <1> HIDE DEF c
  <1>3. ASSUME NEW i \in 1 .. Len(c), NEW j \in 1 .. Len(c), i < j
        PROVE  c[i] < c[j]
    <2>1. CASE j <= Len(a)
      BY <1>1, <1>2, <1>3, <2>1 DEF Increasing
    <2>2. CASE i <= Len(a) /\ j > Len(a)
      <3>1. j - Len(a) \in 1 .. Len(b) /\ c[j] = b[j - Len(a)] /\ c[i] = a[i] /\ i \in 1 .. Len(a)
        BY <1>1, <1>2, <1>3, <2>2
      <3> QED
        BY <3>1 DEF Precedes
    <2>3. CASE i > Len(a)
      <3>1. /\ i - Len(a) \in 1 .. Len(b) /\ c[i] = b[i - Len(a)]
            /\ j - Len(a) \in 1 .. Len(b) /\ c[j] = b[j - Len(a)]
            /\ i - Len(a) < j - Len(a)
        BY <1>1, <1>2, <1>3, <2>3
      <3> QED
        BY <3>1 DEF Increasing
    <2> QED
      BY <1>1, <1>2, <1>3, <2>1, <2>2, <2>3
  <1> QED
    BY <1>3 DEF Increasing, c

-----------------------------------------------------------------------------
(* The inductive invariant                                                 *)

\* Where the loop may be: it is gone while nothing is connected, a log forwarder is shut
\* down by its end only, and the loop goes to sleep with an empty queue.
Standing ==
  /\ ~connected => loop \in {"none", "exited"}
  /\ kind = "log" /\ owner = "idle" => ~shutDown
  /\ loop \in {"falling", "asleep"} => queue = <<>>

\* What was sent, what is in hand and what is queued are in order, one after the other.
InLine ==
  /\ Increasing(sent) /\ Increasing(queue) /\ Precedes(sent, queue)
  /\ Within(sent, added) /\ Within(queue, added) /\ inHand <= added
  /\ inHand # NoMessage =>
       /\ \A i \in 1 .. Len(sent) : sent[i] < inHand
       /\ \A i \in 1 .. Len(queue) : inHand < queue[i]

Counted ==
  kind = "log" /\ ~shutDown =>
    Len(sent) + (IF inHand = NoMessage THEN 0 ELSE 1) + Len(queue) = added

IInv == TypeOK /\ Standing /\ InLine /\ Counted

LEMMA InvInit == Init => IInv
  <1> SUFFICES ASSUME Init PROVE IInv
    OBVIOUS
  <1>1. TypeOK
    <2>1. <<>> \in Seq(1 .. MaxMessages)
      OBVIOUS
    <2>2. 0 \in 0 .. MaxMessages /\ 0 \in 0 .. MaxConnections
      BY BoundsAssumption
    <2> QED
      BY <2>1, <2>2 DEF Init, TypeOK, NoMessage
  <1>2. Standing
    BY DEF Init, Standing
  <1>3. Len(sent) = 0 /\ Len(queue) = 0
    BY DEF Init
  <1>4. InLine /\ Counted
    BY <1>3 DEF Init, InLine, Counted, Increasing, Precedes, Within, NoMessage
  <1> QED
    BY <1>1, <1>2, <1>4 DEF IInv

\* The owner, and the steps of the loop that leave the messages alone.
LEMMA InvOwner ==
  ASSUME IInv, Owner \/ Top \/ FindEmpty \/ Sleep \/ WakeSpuriously \/ FindShutDown \/ UNCHANGED vars
  PROVE  IInv'
  <1> USE DEF owning, loggers, messages, NoMessage
  <1>1. UNCHANGED <<kind, added, queue, inHand, sent>>
    BY DEF Owner, Connect, SetShutDown, NotifyAll, Join, Top, FindEmpty, Sleep, WakeSpuriously,
           FindShutDown, LoopMoves, vars
  <1>2. TypeOK'
    <2>1. TypeOK /\ Standing
      BY DEF IInv
    <2>2. CASE Connect
      <3>1. connections + 1 \in 0 .. MaxConnections
        BY <2>1, <2>2, BoundsAssumption DEF Connect, TypeOK
      <3> QED
        BY <1>1, <2>1, <2>2, <3>1 DEF Connect, TypeOK, Standing
    <2>3. CASE SetShutDown \/ NotifyAll \/ Join
      BY <1>1, <2>1, <2>3 DEF TypeOK, SetShutDown, NotifyAll, Join, Wake
    <2>4. CASE Top \/ FindEmpty \/ Sleep \/ WakeSpuriously \/ FindShutDown
      BY <1>1, <2>1, <2>4 DEF TypeOK, Top, FindEmpty, Sleep, WakeSpuriously, FindShutDown, LoopMoves
    <2>5. CASE UNCHANGED vars
      BY <2>1, <2>5 DEF TypeOK, vars
    <2> QED
      BY <2>2, <2>3, <2>4, <2>5 DEF Owner
  <1>3. Standing'
    BY DEF IInv, TypeOK, Standing, Owner, Connect, SetShutDown, NotifyAll, Join, Wake, Top, FindEmpty, Sleep,
           WakeSpuriously, FindShutDown, LoopMoves, vars
  <1>4. InLine'
    BY <1>1 DEF IInv, InLine, Increasing, Precedes, Within
  <1>5. Counted'
    <2>1. kind = "log" /\ ~shutDown' => ~shutDown
      BY DEF IInv, Standing, Owner, Connect, SetShutDown, NotifyAll, Join, Top, FindEmpty, Sleep,
             WakeSpuriously, FindShutDown, vars
    <2> QED
      BY <1>1, <2>1 DEF IInv, Counted
  <1> QED
    BY <1>2, <1>3, <1>4, <1>5 DEF IInv

\* A message is added; BeginAdd only says that one will be.
LEMMA InvAdd ==
  ASSUME IInv, NEW t \in Threads, BeginAdd(t) \/ Push(t)
  PROVE  IInv'
  <1> USE DEF owning, loggers, messages, NoMessage
  <1>1. CASE BeginAdd(t)
    BY <1>1 DEF IInv, BeginAdd, TypeOK, Standing, InLine, Increasing, Precedes, Within, Counted
  <1>2. CASE Push(t)
    <2>1. /\ queue \in Seq(Message) /\ sent \in Seq(Message) /\ added \in Nat /\ inHand \in Nat
          /\ added + 1 \in Message /\ added' = added + 1 /\ queue' = Append(queue, added + 1)
          /\ UNCHANGED <<kind, inHand, sent, owning>>
      BY <1>2, BoundsAssumption DEF IInv, TypeOK, Push, Message
    <2>2. /\ \A i \in 1 .. Len(queue) : queue[i] \in Nat /\ queue[i] <= added /\ queue[i] < added + 1
          /\ \A i \in 1 .. Len(sent) : sent[i] \in Nat /\ sent[i] <= added /\ sent[i] < added + 1
          /\ Len(sent) \in Nat
      BY <2>1, BoundsAssumption, ElementOfSeq, LenProperties DEF IInv, InLine, Within, Message
    <2>3. /\ queue' \in Seq(Message) /\ Increasing(queue')
          /\ Len(queue') = Len(queue) + 1 /\ Len(queue) \in Nat
          /\ \A i \in 1 .. Len(queue) + 1 : queue'[i] = IF i <= Len(queue) THEN queue[i] ELSE added + 1
      BY <2>1, <2>2, AddedInOrder DEF IInv, InLine
    <2>4. TypeOK'
      BY <1>2, <2>1, <2>3, BoundsAssumption DEF IInv, TypeOK, Push, Wake, Message
    <2>5. Standing'
      BY <1>2 DEF IInv, TypeOK, Standing, Push, Wake, LockHeld
    <2>6. InLine'
      BY <2>1, <2>2, <2>3 DEF IInv, InLine, Increasing, Precedes, Within
    <2>7. Counted'
      <3>1. Counted
        BY DEF IInv
      <3>2. Len(sent') = Len(sent) /\ UNCHANGED <<kind, shutDown, inHand>>
        BY <2>1
      <3>3. Len(queue') = Len(queue) + 1 /\ Len(queue) \in Nat /\ Len(sent) \in Nat
        BY <2>2, <2>3
      <3>4. added \in Nat /\ added' = added + 1
        BY <2>1
      <3> DEFINE held == IF inHand = NoMessage THEN 0 ELSE 1
      <3> SUFFICES ASSUME kind' = "log", ~shutDown'
                   PROVE  Len(sent') + held' + Len(queue') = added'
        BY DEF Counted
      <3>5. Len(sent) + held + Len(queue) = added /\ held \in Nat /\ held' = held
        BY <3>1, <3>2 DEF Counted
      <3> HIDE DEF held
      <3> QED
        BY <3>2, <3>3, <3>4, <3>5
    <2> QED
      BY <2>4, <2>5, <2>6, <2>7 DEF IInv
  <1> QED
    BY <1>1, <1>2

LEMMA InvPop ==
  ASSUME IInv, Pop
  PROVE  IInv'
  <1> USE DEF owning, loggers, messages, NoMessage
  <1>1. /\ queue \in Seq(Message) /\ queue # <<>> /\ Increasing(queue)
        /\ inHand = NoMessage /\ inHand' = Head(queue) /\ queue' = Tail(queue)
        /\ UNCHANGED <<kind, shutDown, added, sent>>
        /\ loop = "look" /\ loop' = "send"
    BY DEF IInv, TypeOK, InLine, Pop, LoopMoves, Message
  <1>2. /\ inHand' \in Message /\ queue' \in Seq(Message)
        /\ Len(queue') = Len(queue) - 1 /\ Len(queue) \in Nat \ {0} /\ inHand' = queue[1]
        /\ \A i \in 1 .. Len(queue') : queue'[i] = queue[i + 1] /\ i + 1 \in 1 .. Len(queue)
        /\ Increasing(queue')
        /\ \A i \in 1 .. Len(queue') : inHand' < queue'[i]
    BY <1>1, TakenInOrder
  <1>3. inHand' \in Nat \ {0}
    BY <1>2, BoundsAssumption DEF Message
  <1>4. TypeOK'
    BY <1>1, <1>2, <1>3, BoundsAssumption DEF IInv, TypeOK, Pop, Message
  <1>5. Standing'
    BY <1>1 DEF IInv, Standing, Pop
  <1>6. InLine'
    BY <1>1, <1>2, <1>3 DEF IInv, InLine, Increasing, Precedes, Within
  <1>7. Counted'
    <2>1. Len(sent) \in Nat
      BY LenProperties DEF IInv, TypeOK
    <2> QED
      BY <1>1, <1>2, <1>3, <2>1 DEF IInv, Counted
  <1> QED
    BY <1>4, <1>5, <1>6, <1>7 DEF IInv

\* A message is sent, or given up: that is not before a log forwarder shuts down.
LEMMA InvSend ==
  ASSUME IInv, SendSucceeds \/ SendTimesOut
  PROVE  IInv'
  <1> USE DEF owning, loggers, messages, NoMessage
  <1>1. /\ sent \in Seq(Message) /\ inHand \in Message /\ inHand # NoMessage /\ inHand' = NoMessage
        /\ loop' = "top" /\ UNCHANGED <<kind, adding, added, queue, owning>>
        /\ added \in Nat
    BY DEF IInv, TypeOK, SendSucceeds, SendTimesOut, LoopMoves, Message
  <1>2. Standing'
    BY <1>1 DEF IInv, Standing, SendSucceeds, SendTimesOut, LoopMoves, TypeOK
  <1>3. CASE SendSucceeds
    <2>1. sent' = Append(sent, inHand)
      BY <1>3 DEF SendSucceeds
    <2>2. \A i \in 1 .. Len(sent) : sent[i] < inHand
      BY <1>1 DEF IInv, InLine
    <2>3. /\ sent' \in Seq(Message) /\ Increasing(sent')
          /\ Len(sent') = Len(sent) + 1 /\ Len(sent) \in Nat
          /\ \A i \in 1 .. Len(sent) + 1 : sent'[i] = IF i <= Len(sent) THEN sent[i] ELSE inHand
      BY <1>1, <2>1, <2>2, AddedInOrder DEF IInv, InLine
    <2>4. TypeOK'
      BY <1>1, <2>3, BoundsAssumption DEF IInv, TypeOK, Message
    <2>5. InLine'
      BY <1>1, <2>3 DEF IInv, InLine, Increasing, Precedes, Within
    <2>6. Counted'
      <3>1. Len(queue) \in Nat
        BY LenProperties DEF IInv, TypeOK
      <3> QED
        BY <1>1, <2>3, <3>1 DEF IInv, Counted
    <2> QED
      BY <1>2, <2>4, <2>5, <2>6 DEF IInv
  <1>4. CASE SendTimesOut
    <2>1. sent' = sent
      BY <1>4 DEF SendTimesOut
    <2>2. TypeOK'
      BY <1>1, <2>1, BoundsAssumption DEF IInv, TypeOK
    <2>3. InLine'
      BY <1>1, <2>1 DEF IInv, InLine, Increasing, Precedes, Within
    <2>4. Counted'
      BY <1>4 DEF SendTimesOut, SendsAgain, Counted
    <2> QED
      BY <1>2, <2>2, <2>3, <2>4 DEF IInv
  <1> QED
    BY <1>3, <1>4

LEMMA InvNext == IInv /\ [Next]_vars => IInv'
  BY InvOwner, InvAdd, InvPop, InvSend DEF Next, Loop, Ended

LEMMA Invariance == Spec => []IInv
  BY InvInit, InvNext, PTL DEF Spec

-----------------------------------------------------------------------------
\* The type invariant of the queue, its loop and its owner.
THEOREM TypeCorrect == Spec => []TypeOK
  BY Invariance, PTL DEF IInv

\* Messages are sent once, and in the order in which they were added, whatever times out and
\* however often the tracing proxy is disconnected with messages in its queue.
THEOREM InOrder == Spec => []SentInOrder
  <1>1. IInv => SentInOrder
    <2> SUFFICES ASSUME IInv PROVE SentInOrder
      OBVIOUS
    <2>1. sent \in Seq(Message) /\ queue \in Seq(Message) /\ inHand \in Nat
      BY BoundsAssumption DEF IInv, TypeOK, Message
    <2>2. CASE inHand = NoMessage
      <3>1. Handled = sent \o queue
        BY <2>1, <2>2, ConcatEmptySeq DEF Handled, Held
      <3>2. Handled \in Seq(Message) /\ Increasing(Handled)
        BY <2>1, <3>1, JoinedInOrder, ConcatProperties DEF IInv, InLine
      <3> QED
        BY <3>2, LenProperties DEF SentInOrder, Increasing
    <2>3. CASE inHand # NoMessage
      <3> DEFINE front == Append(sent, inHand)
      <3>1. inHand \in Message
        BY <2>3 DEF IInv, TypeOK, Message, NoMessage
      <3>2. \A i \in 1 .. Len(sent) : sent[i] < inHand
        BY <2>3 DEF IInv, InLine
      <3>3. /\ front \in Seq(Message) /\ Increasing(front)
            /\ Len(front) = Len(sent) + 1 /\ Len(sent) \in Nat
            /\ \A i \in 1 .. Len(sent) + 1 : front[i] = IF i <= Len(sent) THEN sent[i] ELSE inHand
        BY <2>1, <3>1, <3>2, AddedInOrder DEF IInv, InLine
      <3>4. Handled = front \o queue
        BY <2>1, <2>3, <3>1, AppendIsConcat DEF Handled, Held
      <3> HIDE DEF front
      <3>5. Precedes(front, queue)
        BY <2>3, <3>3 DEF IInv, InLine, Precedes
      <3>6. Handled \in Seq(Message) /\ Increasing(Handled)
        BY <2>1, <3>3, <3>4, <3>5, JoinedInOrder, ConcatProperties DEF IInv, InLine
      <3> QED
        BY <3>6, LenProperties DEF SentInOrder, Increasing
    <2> QED
      BY <2>2, <2>3
  <1> QED
    BY <1>1, Invariance, PTL

\* A log forwarder that is not shutting down loses nothing, however often sending times out.
THEOREM NothingLost == Spec => []NoLogEntryLost
  <1>1. IInv => NoLogEntryLost
    <2> SUFFICES ASSUME IInv PROVE NoLogEntryLost
      OBVIOUS
    <2>1. sent \in Seq(Message) /\ queue \in Seq(Message) /\ Held \in Seq(Message)
      <3>1. inHand # NoMessage => inHand \in Message
        BY BoundsAssumption DEF IInv, TypeOK, Message, NoMessage
      <3>2. Held \in Seq(Message)
        BY <3>1 DEF Held
      <3> QED
        BY <3>2 DEF IInv, TypeOK, Message
    <2>2. Len(Held) = IF inHand = NoMessage THEN 0 ELSE 1
      BY DEF Held
    <2>3. sent \o Held \in Seq(Message) /\ Len(sent \o Held) = Len(sent) + Len(Held)
      BY <2>1, ConcatProperties
    <2>4. Len(Handled) = Len(sent \o Held) + Len(queue)
      BY <2>1, <2>3, ConcatProperties DEF Handled
    <2> QED
      BY <2>2, <2>3, <2>4 DEF IInv, Counted, NoLogEntryLost
  <1> QED
    BY <1>1, Invariance, PTL

\* The loop does not sleep while a message is in the queue: the mutex that it holds from its
\* look at the queue until it sleeps keeps out the threads that add messages.
THEOREM AwakeForMessages == Spec => [](loop = "asleep" => queue = <<>>)
  <1>1. IInv => (loop = "asleep" => queue = <<>>)
    BY DEF IInv, Standing
  <1> QED
    BY <1>1, Invariance, PTL
================================================================================
