---------------------------------- MODULE Rpc ----------------------------------
(***************************************************************************)
(* Requests: the server of the testbed and of each service                 *)
(* (catkit_core/Server.cpp), and the client with its pool of sockets       *)
(* (catkit_core/Client.cpp).  The server handles one request at a time in  *)
(* a thread of its own.  A client takes a socket from its pool, or makes   *)
(* one, sends, waits with a timeout, and gives the socket back: taking is  *)
(* under the client's mutex, giving back is not.  The server is stopped    *)
(* and started again by its owner, or its process is killed and another    *)
(* one uses the same port, as the testbed's does.                          *)
(*                                                                         *)
(* ZeroMQ is external.  A REQ socket numbers its requests and drops what   *)
(* does not answer the latest one; one connection keeps the order.         *)
(***************************************************************************)
EXTENDS Integers, Sequences, SequencesExt, FiniteSets

CONSTANTS
  Threads,          \* the threads that make requests
  Clients,          \* the Client objects
  ClientOf,         \* the client that a thread uses
  Failing,          \* the requests whose handler throws, or has no handler
  MaxRequests,      \* bound: requests made
  MaxSockets,       \* bound: sockets made
  MaxStarts         \* bound: how often the server is started

ASSUME RpcAssumption ==
  /\ ClientOf \in [Threads -> Clients]
  /\ MaxRequests \in Nat /\ MaxSockets \in Nat /\ MaxStarts \in Nat

VARIABLES
  server,           \* where the server thread is; "off": m_IsRunning is false
  stopping,         \* m_ShouldShutDown
  owner,            \* "joining": somebody is in Stop
  starts,           \* how often the server was started
  inHand,           \* the request that the server thread has received
  done,             \* the requests that were handled, in order
  toServer,         \* requests on their way, for each socket
  toClient,         \* replies on their way, for each socket
  current,          \* the number of the latest request of each socket
  pool,             \* m_Sockets of each client
  created,          \* how many sockets were made
  made,             \* how many requests were made
  pc,               \* where each thread is
  hold,             \* the socket it has
  call,             \* the number of its request
  reply,            \* what MakeRequest returns or throws
  size              \* the size of the stack that its emplace has read

serverVars == <<server, stopping, owner, starts, inHand, done>>
netVars    == <<toServer, toClient, current>>
threadVars == <<pool, created, made, pc, hold, call, reply, size>>
vars       == <<serverVars, netVars, threadVars>>

Sockets   == 1 .. MaxSockets
Numbers   == 1 .. MaxRequests
NoSocket  == 0
NoNumber  == 0
Request   == [id : Numbers, by : Threads, via : Sockets]
Result(n) == IF n \in Failing THEN "ERROR" ELSE "OK"
Reply     == [id : Numbers, type : {"OK", "ERROR"}]
TimedOut  == [id |-> NoNumber, type |-> "timeout"]

HasSocket == {"pop", "send", "wait", "release", "emplace"}

TypeOK ==
  /\ server \in {"off", "top", "receive", "handle", "reply"}
  /\ stopping \in BOOLEAN /\ owner \in {"idle", "joining"}
  /\ starts \in 0 .. MaxStarts
  /\ IF server \in {"handle", "reply"} THEN inHand \in Request ELSE inHand = <<>>
  /\ done \in Seq(Request)
  /\ toServer \in [Sockets -> Seq(Request)]
  /\ toClient \in [Sockets -> Seq(Reply)]
  /\ current \in [Sockets -> Numbers \cup {NoNumber}]
  /\ pool \in [Clients -> Seq(Sockets \cup {NoSocket})]
  /\ created \in 0 .. MaxSockets /\ made \in 0 .. MaxRequests
  /\ pc \in [Threads -> HasSocket \cup {"idle"}]
  /\ hold \in [Threads -> Sockets \cup {NoSocket}]
  /\ call \in [Threads -> Numbers \cup {NoNumber}]
  /\ reply \in [Threads -> Reply \cup {TimedOut}]
  /\ size \in [Threads -> Nat]
  /\ \A t \in Threads : pc[t] = "idle" => hold[t] = NoSocket

Init ==
  /\ server = "off" /\ stopping = FALSE /\ owner = "idle" /\ starts = 0
  /\ inHand = <<>> /\ done = <<>>
  /\ toServer = [s \in Sockets |-> <<>>] /\ toClient = [s \in Sockets |-> <<>>]
  /\ current = [s \in Sockets |-> NoNumber]
  /\ pool = [c \in Clients |-> <<>>] /\ created = 0 /\ made = 0
  /\ pc = [t \in Threads |-> "idle"] /\ hold = [t \in Threads |-> NoSocket]
  /\ call = [t \in Threads |-> NoNumber] /\ reply = [t \in Threads |-> TimedOut]
  /\ size = [t \in Threads |-> 0]

-----------------------------------------------------------------------------
(* The server thread, RunInternal.                                         *)

ServerMoves(from, to) == server = from /\ server' = to

\* The connections of a server that ends: what it has received and not read is lost,
\* and so is, with a linger of 0, what it has not got rid of.  A request that is still
\* at its client's side goes to whoever listens on the port next.
Disconnected ==
  \E read, sent \in [Sockets -> 0 .. MaxRequests] :
    /\ \A s \in Sockets : read[s] <= Len(toServer[s]) /\ sent[s] <= Len(toClient[s])
    /\ toServer' = [s \in Sockets |-> SubSeq(toServer[s], read[s] + 1, Len(toServer[s]))]
    /\ toClient' = [s \in Sockets |-> SubSeq(toClient[s], 1, sent[s])]

LoopTop ==
  /\ ~stopping /\ ServerMoves("top", "receive")
  /\ UNCHANGED <<stopping, owner, starts, inHand, done, netVars, threadVars>>

LoopEnds ==
  /\ stopping /\ ServerMoves("top", "off")
  /\ Disconnected
  /\ UNCHANGED <<stopping, owner, starts, inHand, done, current, threadVars>>

\* The ROUTER socket takes the next request of any connection.
ReceiveRequest(s) ==
  /\ toServer[s] # <<>> /\ ServerMoves("receive", "handle")
  /\ inHand' = Head(toServer[s])
  /\ toServer' = [toServer EXCEPT ![s] = Tail(@)]
  /\ UNCHANGED <<stopping, owner, starts, done, toClient, current, threadVars>>

\* Mutant: the socket has no receive timeout.
ReceiveForEver ==
  /\ server = "receive"
  /\ UNCHANGED vars

\* Nothing has arrived for 20 ms.
ReceiveTimesOut ==
  /\ ServerMoves("receive", "top")
  /\ UNCHANGED <<stopping, owner, starts, inHand, done, netVars, threadVars>>

Handle ==
  /\ ServerMoves("handle", "reply")
  /\ done' = Append(done, inHand)
  /\ UNCHANGED <<stopping, owner, starts, inHand, netVars, threadVars>>

\* The request's identity, its socket, and its number go back with the reply.
SendReply ==
  /\ ServerMoves("reply", "top")
  /\ toClient' = [toClient EXCEPT ![inHand.via] =
                    Append(@, [id |-> inHand.id, type |-> Result(inHand.id)])]
  /\ inHand' = <<>>
  /\ UNCHANGED <<stopping, owner, starts, done, toServer, current, threadVars>>

-----------------------------------------------------------------------------
(* The owner of the server, and its process.                               *)

Start ==
  /\ owner = "idle" /\ starts < MaxStarts
  /\ ServerMoves("off", "top")
  /\ stopping' = FALSE /\ starts' = starts + 1
  /\ UNCHANGED <<owner, inHand, done, netVars, threadVars>>

Stop ==
  /\ owner = "idle" /\ server # "off"
  /\ owner' = "joining" /\ stopping' = TRUE
  /\ UNCHANGED <<server, starts, inHand, done, netVars, threadVars>>

Join ==
  /\ owner = "joining" /\ server = "off"
  /\ owner' = "idle"
  /\ UNCHANGED <<server, stopping, starts, inHand, done, netVars, threadVars>>

\* The process of the server is killed, wherever it is.
Kill ==
  /\ server # "off"
  /\ server' = "off" /\ owner' = "idle" /\ inHand' = <<>>
  /\ Disconnected
  /\ UNCHANGED <<stopping, starts, done, current, threadVars>>

-----------------------------------------------------------------------------
(* The client, MakeRequest.                                                *)

ThreadMoves(t, from, to) == pc[t] = from /\ pc' = [pc EXCEPT ![t] = to]

\* GetSocket holds the mutex from its look at the stack until it has popped.
Locked(c) == \E t \in Threads : ClientOf[t] = c /\ pc[t] = "pop"

NewSocket(t) ==
  /\ created < MaxSockets
  /\ created' = created + 1
  /\ hold' = [hold EXCEPT ![t] = created + 1]
  /\ ThreadMoves(t, "idle", "send")

\* Mutant: the pointer stays in the pool while the socket is used.
TopSocket(t) ==
  LET c == ClientOf[t] IN
  /\ made < MaxRequests
  /\ \/ /\ pool[c] = <<>> /\ NewSocket(t)
     \/ /\ pool[c] # <<>>
        /\ hold' = [hold EXCEPT ![t] = Last(pool[c])]
        /\ ThreadMoves(t, "idle", "send")
        /\ UNCHANGED created
  /\ UNCHANGED <<serverVars, netVars, pool, made, call, reply, size>>

\* GetSocket, up to top().release(), which leaves a null pointer on top.  Using a null
\* pointer is undefined, and nothing is said of a client that has got one.
GetSocket(t) ==
  LET c == ClientOf[t] IN
  /\ made < MaxRequests /\ ~Locked(c)
  /\ \/ /\ pool[c] = <<>> /\ NewSocket(t)
        /\ UNCHANGED pool
     \/ /\ pool[c] # <<>> /\ Last(pool[c]) # NoSocket
        /\ hold' = [hold EXCEPT ![t] = Last(pool[c])]
        /\ pool' = [pool EXCEPT ![c][Len(pool[c])] = NoSocket]
        /\ ThreadMoves(t, "idle", "pop")
        /\ UNCHANGED created
  /\ UNCHANGED <<serverVars, netVars, made, call, reply, size>>

\* pop(), which removes whatever is on top by now.
Pop(t) ==
  /\ ThreadMoves(t, "pop", "send")
  /\ pool' = [pool EXCEPT ![ClientOf[t]] = Front(@)]
  /\ UNCHANGED <<serverVars, netVars, created, made, hold, call, reply, size>>

\* A new request drops the replies to earlier ones that have arrived.
Send(t) ==
  /\ made < MaxRequests /\ ThreadMoves(t, "send", "wait")
  /\ made' = made + 1 /\ call' = [call EXCEPT ![t] = made']
  /\ current' = [current EXCEPT ![hold[t]] = made']
  /\ toServer' = [toServer EXCEPT ![hold[t]] =
                    Append(@, [id |-> made', by |-> t, via |-> hold[t]])]
  /\ \E arrived \in 0 .. Len(toClient[hold[t]]) :
       toClient' = [toClient EXCEPT ![hold[t]] = SubSeq(@, arrived + 1, Len(@))]
  /\ UNCHANGED <<serverVars, pool, created, hold, reply, size>>

\* Mutant: replies are not matched with requests.
ReceiveAnything(t) ==
  /\ ThreadMoves(t, "wait", "release") /\ toClient[hold[t]] # <<>>
  /\ reply' = [reply EXCEPT ![t] = Head(toClient[hold[t]])]
  /\ toClient' = [toClient EXCEPT ![hold[t]] = Tail(@)]
  /\ UNCHANGED <<serverVars, toServer, current, pool, created, made, hold, call, size>>

\* The socket drops what does not answer its latest request.
Receive(t) ==
  LET s == hold[t] answer == Head(toClient[s]) IN
  /\ pc[t] = "wait" /\ toClient[s] # <<>>
  /\ IF answer.id = current[s]
     THEN /\ reply' = [reply EXCEPT ![t] = answer]
          /\ ThreadMoves(t, "wait", "release")
     ELSE UNCHANGED <<reply, pc>>
  /\ toClient' = [toClient EXCEPT ![s] = Tail(@)]
  /\ UNCHANGED <<serverVars, toServer, current, pool, created, made, hold, call, size>>

\* Mutant: the request is sent again.
TimeOutSendsAgain(t) ==
  /\ pc[t] = "wait" /\ Len(toServer[hold[t]]) < MaxRequests
  /\ toServer' = [toServer EXCEPT ![hold[t]] =
                    Append(@, [id |-> call[t], by |-> t, via |-> hold[t]])]
  /\ UNCHANGED <<serverVars, toClient, current, threadVars>>

\* 60 seconds have passed; a reply may be on its way.
TimeOut(t) ==
  /\ ThreadMoves(t, "wait", "release")
  /\ reply' = [reply EXCEPT ![t] = TimedOut]
  /\ UNCHANGED <<serverVars, netVars, pool, created, made, hold, call, size>>

\* The deleter of the pointer to the socket puts it back, without the mutex: it reads
\* the size of the stack, and writes the element and the size.
BeginRelease(t) ==
  /\ ThreadMoves(t, "release", "emplace")
  /\ size' = [size EXCEPT ![t] = Len(pool[ClientOf[t]])]
  /\ UNCHANGED <<serverVars, netVars, pool, created, made, hold, call, reply>>

Emplaced(stack, n, s) ==
  [i \in 1 .. n + 1 |-> IF i = n + 1 THEN s ELSE IF i <= Len(stack) THEN stack[i] ELSE NoSocket]

EndRelease(t) ==
  LET c == ClientOf[t] IN
  /\ ThreadMoves(t, "emplace", "idle")
  /\ pool' = [pool EXCEPT ![c] = Emplaced(@, size[t], hold[t])]
  /\ hold' = [hold EXCEPT ![t] = NoSocket]
  /\ UNCHANGED <<serverVars, netVars, created, made, call, reply, size>>

-----------------------------------------------------------------------------
ServerThread == LoopTop \/ LoopEnds \/ (\E s \in Sockets : ReceiveRequest(s))
                \/ ReceiveTimesOut \/ Handle \/ SendReply

Returns(t) == Pop(t) \/ Send(t) \/ Receive(t) \/ TimeOut(t) \/ BeginRelease(t) \/ EndRelease(t)

Next ==
  \/ ServerThread
  \/ Start \/ Stop \/ Join \/ Kill
  \/ \E t \in Threads : GetSocket(t) \/ Returns(t)

Spec == Init /\ [][Next]_vars

\* The threads run and handlers return.  A timeout is what the clock gives: receiving for
\* 20 ms, and waiting for a reply for 60 s, ends.  Nobody need make a request or stop the server.
FairSpec ==
  /\ Spec
  /\ WF_vars(ServerThread) /\ WF_vars(Join)
  /\ \A t \in Threads : WF_vars(Returns(t))

-----------------------------------------------------------------------------
Answered(t) == pc[t] \in {"release", "emplace"} /\ reply[t] # TimedOut

\* What MakeRequest returns, or throws as the server's error, is the outcome of this very
\* request, which was handled; also after a timeout on the same socket, and by a server
\* that was started again.  "If, after this time, the server still sends the reply, it will
\* be ignored" (docs/protocol.rst).
ReplyIsOwn ==
  \A t \in Threads : Answered(t) =>
    /\ reply[t].id = call[t] /\ reply[t].type = Result(call[t])
    /\ \E d \in ToSet(done) : d.id = call[t] /\ d.by = t

\* "During a request, the socket is exclusively used for that request" (docs/protocol.rst).
ExclusiveUse ==
  \A t, u \in Threads : t # u /\ hold[t] # NoSocket => hold[t] # hold[u]

\* Stop, which joins the server thread, returns, whatever clients send.
StopReturns == owner = "joining" ~> owner = "idle"

-----------------------------------------------------------------------------
(* What a document says and the code does not do.                          *)

\* "After the request is finished, the used socket is automatically returned to the socket
\* pool" (docs/protocol.rst): every socket is used by a thread or is in a pool.  Two threads
\* that give their sockets back at the same time lose one of them.
SocketsReturned ==
  \A s \in 1 .. created :
    \/ \E t \in Threads : hold[t] = s
    \/ \E c \in Clients : \E i \in DOMAIN pool[c] : pool[c][i] = s
================================================================================
