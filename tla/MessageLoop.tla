------------------------------ MODULE MessageLoop ------------------------------
(***************************************************************************)
(* The two queues that a process empties in a thread of its own: the       *)
(* LogForwarder (catkit_core/LogForwarder.cpp) and the TracingProxy        *)
(* (catkit_core/Tracing.cpp).  Threads add messages under a mutex; the     *)
(* message loop waits for them on a condition variable and sends them to a *)
(* collector; the owner connects, and shuts the loop down and joins it.    *)
(* Both are the same but for three things: only the tracing proxy can be   *)
(* connected again, checks that it is connected before it adds a message,  *)
(* and, its condition being the opposite, gives up a message when sending  *)
(* it times out unless it is shutting down.                                *)
(***************************************************************************)
EXTENDS Integers, Sequences, SequencesExt

CONSTANTS
  Threads,          \* the threads that add messages
  Kinds,            \* which of "log" and "trace" to consider
  MaxMessages,      \* bound: messages added
  MaxConnections    \* bound: how often the tracing proxy is connected

ASSUME KindsAssumption  == Kinds \subseteq {"log", "trace"}
ASSUME BoundsAssumption == MaxMessages \in Nat /\ MaxConnections \in Nat \ {0}

VARIABLES
  kind,             \* "log": a LogForwarder, "trace": the TracingProxy
  queue,            \* m_LogMessages, m_TraceMessages: messages are numbered
  shutDown,         \* m_ShutDown
  connected,        \* m_IsConnected
  adding,           \* the threads that saw connected, and are to add a message
  loop, inHand,     \* where the message loop is, and the message it has popped
  owner,            \* what the thread that connects and disconnects does
  added, sent,      \* how many messages were added; the messages sent, in order
  connections       \* how often Connect was called

owning   == <<shutDown, connected, owner, connections>>
loggers  == <<kind, adding, added>>
messages == <<queue, inHand, sent>>
vars     == <<owning, loggers, messages, loop>>

NoMessage == 0

\* std::condition_variable::wait releases the mutex and sleeps in one step; the
\* loop holds the mutex from its look at the queue until then.
LockHeld == loop = "falling"

TypeOK ==
  /\ kind \in Kinds
  /\ queue \in Seq(1 .. MaxMessages) /\ sent \in Seq(1 .. MaxMessages)
  /\ shutDown \in BOOLEAN /\ connected \in BOOLEAN
  /\ adding \subseteq Threads
  /\ loop \in {"none", "top", "look", "falling", "asleep", "send", "exited"}
  /\ inHand \in 0 .. MaxMessages /\ (inHand # NoMessage <=> loop = "send")
  /\ owner \in {"idle", "notify", "join", "destroyed"}
  /\ added \in 0 .. MaxMessages /\ connections \in 0 .. MaxConnections

Init ==
  /\ kind \in Kinds
  /\ queue = <<>> /\ sent = <<>>
  /\ shutDown = FALSE /\ connected = FALSE
  /\ adding = {}
  /\ loop = "none" /\ inHand = NoMessage
  /\ owner = "idle"
  /\ added = 0 /\ connections = 0

-----------------------------------------------------------------------------
(* The owner.                                                              *)

\* Connect: a LogForwarder is connected once, the tracing proxy after Disconnect.
Connect ==
  /\ owner = "idle" /\ ~connected
  /\ connections < IF kind = "log" THEN 1 ELSE MaxConnections
  /\ connections' = connections + 1
  /\ shutDown' = FALSE /\ connected' = TRUE
  /\ loop' = "top"
  /\ UNCHANGED <<owner, loggers, messages>>

\* Disconnect, or the destructor of a LogForwarder.
SetShutDown ==
  /\ owner = "idle"
  /\ owner' = "notify" /\ shutDown' = TRUE
  /\ UNCHANGED <<connected, loop, connections, loggers, messages>>

Wake == loop' = IF loop = "asleep" THEN "look" ELSE loop

\* notify_all, without the mutex.
NotifyAll ==
  /\ owner = "notify"
  /\ owner' = "join" /\ Wake
  /\ UNCHANGED <<shutDown, connected, connections, loggers, messages>>

Join ==
  /\ owner = "join" /\ loop \in {"none", "exited"}
  /\ owner' = IF kind = "log" THEN "destroyed" ELSE "idle"
  /\ connected' = FALSE
  /\ UNCHANGED <<shutDown, loop, connections, loggers, messages>>

-----------------------------------------------------------------------------
(* AddLogEntry, and AddTraceEvent.                                         *)

\* A trace event is added only when the proxy is connected.
BeginAdd(t) ==
  /\ t \notin adding /\ added < MaxMessages /\ owner # "destroyed"
  /\ kind = "trace" => connected
  /\ adding' = adding \cup {t}
  /\ UNCHANGED <<kind, loop, added, owning, messages>>

\* Mutant: the message is added, and the loop notified, without the mutex.
PushUnlocked(t) ==
  /\ t \in adding /\ added < MaxMessages
  /\ adding' = adding \ {t}
  /\ added' = added + 1
  /\ queue' = Append(queue, added + 1) /\ Wake
  /\ UNCHANGED <<kind, inHand, sent, owning>>

\* The message is pushed and the loop notified, under the mutex.
Push(t) ==
  /\ t \in adding /\ ~LockHeld /\ added < MaxMessages
  /\ adding' = adding \ {t}
  /\ added' = added + 1
  /\ queue' = Append(queue, added + 1) /\ Wake
  /\ UNCHANGED <<kind, inHand, sent, owning>>

-----------------------------------------------------------------------------
(* MessageLoop.                                                            *)

LoopMoves(from, to) == loop = from /\ loop' = to

Top ==
  /\ LoopMoves("top", IF shutDown THEN "exited" ELSE "look")
  /\ UNCHANGED <<owning, loggers, messages>>

\* With the mutex: the queue is empty, so the loop is going to wait.
FindEmpty ==
  /\ queue = <<>> /\ ~shutDown
  /\ LoopMoves("look", "falling")
  /\ UNCHANGED <<owning, loggers, messages>>

Sleep ==
  /\ LoopMoves("falling", "asleep")
  /\ UNCHANGED <<owning, loggers, messages>>

\* A condition variable may wake without a reason.
WakeSpuriously ==
  /\ LoopMoves("asleep", "look")
  /\ UNCHANGED <<owning, loggers, messages>>

FindShutDown ==
  /\ shutDown
  /\ LoopMoves("look", "exited")
  /\ UNCHANGED <<owning, loggers, messages>>

\* Mutant: the message stays at the front of the queue.
PopKeeping ==
  /\ queue # <<>> /\ ~shutDown
  /\ LoopMoves("look", "send")
  /\ inHand' = Head(queue)
  /\ UNCHANGED <<queue, sent, owning, loggers>>

Pop ==
  /\ queue # <<>> /\ ~shutDown
  /\ LoopMoves("look", "send")
  /\ inHand' = Head(queue) /\ queue' = Tail(queue)
  /\ UNCHANGED <<sent, owning, loggers>>

SendSucceeds ==
  /\ LoopMoves("send", "top")
  /\ sent' = Append(sent, inHand) /\ inHand' = NoMessage
  /\ UNCHANGED <<queue, owning, loggers>>

\* Mutant: the log forwarder's condition is the tracing proxy's.
SendsAgainWhenShutDown == shutDown

\* Nobody took the message within 10 ms: whether it is sent again.
SendsAgain == IF kind = "log" THEN ~shutDown ELSE shutDown

SendTimesOut ==
  /\ loop = "send" /\ ~SendsAgain
  /\ LoopMoves("send", "top")
  /\ inHand' = NoMessage
  /\ UNCHANGED <<queue, sent, owning, loggers>>

Loop ==
  \/ Top \/ FindEmpty \/ Sleep \/ FindShutDown \/ Pop \/ SendTimesOut

-----------------------------------------------------------------------------
\* A LogForwarder is gone, or nobody has anything left to add or to connect.
Ended ==
  /\ owner = "destroyed" \/ added = MaxMessages
  /\ UNCHANGED vars

Owner == Connect \/ SetShutDown \/ NotifyAll \/ Join
Next ==
  \/ Owner \/ Loop \/ SendSucceeds \/ WakeSpuriously
  \/ \E t \in Threads : BeginAdd(t) \/ Push(t)
  \/ Ended

Spec == Init /\ [][Next]_vars

\* The loop and the calls of the owner run; a collector that listens takes what is
\* sent to it again and again.  Nobody need add, connect or disconnect anything.
FairSpec ==
  /\ Spec
  /\ WF_vars(Loop) /\ WF_vars(NotifyAll) /\ WF_vars(Join)
  /\ SF_vars(SendSucceeds)
  /\ \A t \in Threads : WF_vars(Push(t))

-----------------------------------------------------------------------------
(* Properties                                                              *)

Held == IF inHand = NoMessage THEN <<>> ELSE <<inHand>>
Handled == sent \o Held \o queue

\* No message is sent twice, or before one that was added earlier.
SentInOrder == \A i, j \in DOMAIN Handled : i < j => Handled[i] < Handled[j]

\* While the log forwarder is not shutting down, no log entry is lost, however often
\* sending times out.
NoLogEntryLost == kind = "log" /\ ~shutDown => Len(Handled) = added

\* A message that was added does not wait for ever for a loop that sleeps: it is
\* taken out of the queue, unless the loop is shut down.
QueueServed ==
  \A m \in 1 .. MaxMessages :
    (\E i \in DOMAIN queue : queue[i] = m) /\ connected
      ~> shutDown \/ \A i \in DOMAIN queue : queue[i] # m

\* "Wait for the thread to exit": the owner does not wait for ever.
ShutDownReturns == owner = "join" ~> owner # "join"
==============================================================================
