------------------------------ MODULE ServiceProxy ------------------------------
(***************************************************************************)
(* One ServiceProxy (catkit_core/ServiceProxy.cpp and, for assignments in  *)
(* Python, catkit2/testbed/service_proxy.py) of one thread, and the        *)
(* service it stands for.  Each call starts the service if it is closed,   *)
(* waits until it runs, connects if the state stream has another frame     *)
(* than when it last connected, and then does what it was called for.      *)
(* The service runs on, is busy, closes, fails, is killed and launched     *)
(* again between any two of these steps.                                   *)
(*                                                                         *)
(* The processes of the service are numbered by their launches; a number   *)
(* stands for the port, the server and the data streams of that process.   *)
(* The service and the testbed are as in module Testbed, reduced to what a *)
(* proxy sees.                                                             *)
(***************************************************************************)
EXTENDS Integers

CONSTANTS
  Calls,            \* the calls that the client makes
  MaxLaunches,      \* bound: launches of the service
  MaxFrames         \* bound: frames of its state stream

ASSUME ProxyAssumption ==
  /\ Calls \subseteq {"set", "linked", "stream", "stop", "assign"}
  /\ MaxLaunches \in Nat /\ MaxFrames \in Nat \ {0}

VARIABLES
  state,            \* the latest frame of the state stream,
  stamp,            \* and its time stamp
  launched,         \* how often the service was launched: its port is the last one's
  process,          \* the process that exists, or None
  serving,          \* its server thread answers within a client's timeout
  shutDown,         \* its m_ShouldShutDown
  stage, op, round, \* where the client is, in which call, after how many Starts
  target, seen,     \* locals of Connect: the service's port, and the frame's time stamp
  client,           \* m_Client: the process it sends to, or None
  names,            \* the names and stream ids: those of which process, or None
  cache,            \* m_DataStreams: those of which process, or None
  connectedAt,      \* m_TimeLastConnect
  since,            \* the last process that was known to have ended at the call
  result, from      \* how the last call ended, and which process it has reached

service   == <<state, stamp, launched, process, serving, shutDown>>
proxy     == <<client, names, cache, connectedAt>>
local     == <<op, round, target, seen, since>>
outcome   == <<result, from>>
proxyVars == <<service, proxy, local, stage, outcome>>

None   == 0
Ended  == {"CLOSED", "CRASHED", "FAIL_SAFE"}
States == Ended \cup {"INITIALIZING", "OPENING", "RUNNING", "CLOSING", "UNRESPONSIVE"}

Answers(p) == process = p /\ serving

ProxyTypeOK ==
  /\ state \in States /\ stamp \in 1 .. MaxFrames
  /\ launched \in 0 .. MaxLaunches /\ process \in {None, launched}
  /\ serving \in BOOLEAN /\ shutDown \in BOOLEAN
  /\ stage \in {"idle", "read", "ask", "wait", "connect", "info", "get_info", "after",
             "request", "undefined"}
  /\ op \in Calls \cup {"none", "set"} /\ round \in 0 .. 3
  /\ target \in 0 .. launched /\ client \in 0 .. launched /\ names \in 0 .. launched
  /\ cache \in 0 .. launched /\ from \in 0 .. launched /\ since \in 0 .. launched
  /\ seen \in 0 .. MaxFrames /\ connectedAt \in 0 .. MaxFrames
  /\ result \in {"none", "ok", "raised", "local"}

ProxyInit ==
  /\ state = "CLOSED" /\ stamp = 1
  /\ launched = 0 /\ process = None /\ serving = FALSE /\ shutDown = FALSE
  /\ stage = "idle" /\ op = "none" /\ round = 0 /\ target = None /\ seen = 0
  /\ client = None /\ names = None /\ cache = None /\ connectedAt = 0
  /\ since = None /\ result = "none" /\ from = None

-----------------------------------------------------------------------------
(* The service and the testbed.                                            *)

UpdateState(s) == state' = s /\ stamp < MaxFrames /\ stamp' = stamp + 1

\* start_service, of a service that has ended.
Launch ==
  /\ launched < MaxLaunches
  /\ launched' = launched + 1 /\ process' = launched'
  /\ serving' = FALSE /\ shutDown' = FALSE
  /\ UpdateState("INITIALIZING")

\* Somebody else has the testbed start the service.
StartedByOther ==
  /\ state \in Ended /\ Launch
  /\ UNCHANGED <<proxy, local, stage, outcome>>

Opening ==
  /\ process # None /\ state = "INITIALIZING" /\ UpdateState("OPENING")
  /\ UNCHANGED <<launched, process, serving, shutDown, proxy, local, stage, outcome>>

\* It is opened: the server is started, then the state is updated.
Runs ==
  /\ process # None /\ state = "OPENING" /\ UpdateState("RUNNING")
  /\ serving' = TRUE
  /\ UNCHANGED <<launched, process, shutDown, proxy, local, stage, outcome>>

\* The safety check fails, or open() does.
DoesNotOpen ==
  /\ process # None /\ state \in {"INITIALIZING", "OPENING"}
  /\ \E s \in {"CRASHED", "FAIL_SAFE"} : UpdateState(s)
  /\ process' = None
  /\ UNCHANGED <<launched, serving, shutDown, proxy, local, stage, outcome>>

\* A request takes long, or it is done.
Busy ==
  /\ process # None /\ state \in {"RUNNING", "UNRESPONSIVE"} /\ ~shutDown
  /\ serving' = ~serving
  /\ UNCHANGED <<state, stamp, launched, process, shutDown, proxy, local, stage, outcome>>

\* main() returns, or the service is told to stop.
StoppedByOther ==
  /\ process # None /\ state \in {"RUNNING", "UNRESPONSIVE"} /\ ~shutDown
  /\ shutDown' = TRUE
  /\ UNCHANGED <<state, stamp, launched, process, serving, proxy, local, stage, outcome>>

\* The server is stopped before the state is updated.
ServerStops ==
  /\ process # None /\ shutDown /\ serving
  /\ serving' = FALSE
  /\ UNCHANGED <<state, stamp, launched, process, shutDown, proxy, local, stage, outcome>>

Closing ==
  /\ process # None /\ shutDown /\ ~serving /\ state \in {"RUNNING", "UNRESPONSIVE"}
  /\ UpdateState("CLOSING")
  /\ UNCHANGED <<launched, process, serving, shutDown, proxy, local, stage, outcome>>

Closed ==
  /\ process # None /\ state = "CLOSING"
  /\ \E s \in Ended : UpdateState(s)
  /\ process' = None
  /\ UNCHANGED <<launched, serving, shutDown, proxy, local, stage, outcome>>

Killed ==
  /\ process # None
  /\ process' = None /\ serving' = FALSE
  /\ UNCHANGED <<state, stamp, launched, shutDown, proxy, local, stage, outcome>>

\* The testbed's monitor thread.
Monitor ==
  /\ \/ process = None /\ state \notin Ended /\ UpdateState("CRASHED")
     \/ process # None /\ state = "RUNNING" /\ UpdateState("UNRESPONSIVE")
     \/ process # None /\ state = "UNRESPONSIVE" /\ UpdateState("RUNNING")
  /\ UNCHANGED <<launched, process, serving, shutDown, proxy, local, stage, outcome>>

-----------------------------------------------------------------------------
(* How a call ends.                                                        *)

Ends(how, reached) == stage' = "idle" /\ result' = how /\ from' = reached
Raises             == Ends("raised", None)
Goes(to)           == stage' = to /\ UNCHANGED outcome

-----------------------------------------------------------------------------
(* Start.                                                                  *)

\* The last process whose end can be seen in the state stream.
LastEnded == IF state \in Ended \/ launched = 0 THEN launched ELSE launched - 1

\* Stop looks whether the service is running, and does not start it.
Call(c) ==
  /\ stage = "idle" /\ op' = c /\ round' = 1 /\ since' = LastEnded
  /\ IF c # "stop" THEN Goes("read")
     ELSE IF state = "RUNNING" THEN Goes("connect") ELSE Ends("ok", None)
  /\ UNCHANGED <<service, proxy, target, seen>>

ReadState ==
  /\ stage = "read"
  /\ \/ state = "CLOSED" /\ Goes("ask")
     \/ state \in {"INITIALIZING", "OPENING", "RUNNING"} /\ Goes("wait")
     \/ state \in {"CLOSING", "UNRESPONSIVE", "CRASHED", "FAIL_SAFE"} /\ Raises
  /\ UNCHANGED <<service, proxy, local>>

\* The testbed starts what has ended by the time it handles the request.
AskTestbed ==
  /\ stage = "ask"
  /\ IF state \in Ended THEN Launch ELSE UNCHANGED service
  /\ Goes("wait")
  /\ UNCHANGED <<proxy, local>>

\* The testbed does not answer, or start_service raises.
AskFails ==
  /\ stage = "ask" /\ Raises
  /\ UNCHANGED <<service, proxy, local>>

WaitForRunning ==
  /\ stage = "wait"
  /\ \/ state = "RUNNING" /\ Goes("connect")
     \/ state \in {"CRASHED", "FAIL_SAFE"} /\ Raises
  /\ UNCHANGED <<service, proxy, local>>

\* It takes longer than the timeout, or the caller's error check raises.
GiveUp ==
  /\ stage = "wait" /\ state # "RUNNING" /\ Raises
  /\ UNCHANGED <<service, proxy, local>>

-----------------------------------------------------------------------------
(* Connect.                                                                *)

\* Mutant: the opened data streams are kept.
DisconnectButStreams ==
  /\ client' = None /\ names' = None
  /\ UNCHANGED <<cache, connectedAt>>

\* The time of the last connection is kept.
Disconnect ==
  /\ client' = None /\ names' = None /\ cache' = None
  /\ UNCHANGED connectedAt

\* Mutant: the time of the connection is kept before there is one.
ConnectEarly ==
  /\ stage = "connect"
  /\ seen' = stamp
  /\ IF state # "RUNNING" THEN Disconnect /\ Goes("after")
     ELSE IF stamp = connectedAt THEN UNCHANGED proxy /\ Goes("after")
     ELSE /\ client' = None /\ names' = None /\ cache' = None
          /\ connectedAt' = stamp /\ Goes("info")
  /\ UNCHANGED <<service, op, round, target, since>>

\* The state is read again: when it is not running any more, the proxy disconnects and
\* nothing is raised.
Connect ==
  /\ stage = "connect"
  /\ seen' = stamp
  /\ IF state # "RUNNING" THEN Disconnect /\ Goes("after")
     ELSE IF stamp = connectedAt THEN UNCHANGED proxy /\ Goes("after")
     ELSE Disconnect /\ Goes("info")
  /\ UNCHANGED <<service, op, round, target, since>>

GetServiceInfo ==
  /\ stage = "info"
  /\ \/ /\ client' = launched /\ target' = launched /\ Goes("get_info")
     \/ UNCHANGED <<client, target>> /\ Raises
  /\ UNCHANGED <<service, names, cache, connectedAt, op, round, seen, since>>

\* get_info is answered, and the heartbeat opened, which may fail if the process has gone.
GetInfo ==
  /\ stage = "get_info" /\ Answers(target)
  /\ names' = target
  /\ connectedAt' = seen /\ Goes("after")
  /\ UNCHANGED <<service, local, client, cache>>

\* get_info is not answered in time, or the heartbeat cannot be opened.
GetInfoFails ==
  /\ stage = "get_info" /\ ~Answers(target)
  /\ names' \in {None, target}
  /\ Raises
  /\ UNCHANGED <<service, local, client, cache, connectedAt>>

-----------------------------------------------------------------------------
(* What the call is for.                                                   *)

After == stage = "after"

\* The name is looked up in what the proxy has, which may be nothing.
NotAName ==
  /\ After /\ op \in {"set", "linked", "stream"} /\ names = None
  /\ Raises
  /\ UNCHANGED <<service, proxy, local>>

\* GetProperty of a property with a data stream, which has a frame, gets that stream by
\* GetDataStream, which starts again.
Linked ==
  /\ After /\ op = "linked" /\ round = 1 /\ names # None
  /\ round' = 2 /\ Goes("read")
  /\ UNCHANGED <<service, proxy, op, target, seen, since>>

Opens == op = "stream" \/ (op = "linked" /\ round = 2)

\* GetDataStream: streams that are open are kept.
OpenStream ==
  /\ After /\ Opens /\ names # None
  /\ cache' = IF cache = None THEN names ELSE cache
  /\ Ends("ok", cache')
  /\ UNCHANGED <<service, local, client, names, connectedAt>>

\* The stream of a process that has gone may not be there any more.
OpenFails ==
  /\ After /\ Opens /\ names # None /\ cache = None /\ process # names
  /\ Raises
  /\ UNCHANGED <<service, proxy, local>>

\* SetProperty, ExecuteCommand, and Stop, which does not look at what it has.
ToRequest ==
  /\ After /\ (op = "stop" \/ (op = "set" /\ names # None))
  /\ IF client = None THEN Goes("undefined") ELSE Goes("request")
  /\ UNCHANGED <<service, proxy, local>>

\* __setattr__ looks for the name in property_names, command_names and data_stream_names, each
\* of which starts the service and connects again.  It is a property's name.
IsProperty ==
  /\ After /\ op = "assign" /\ round = 1 /\ names # None
  /\ op' = "set" /\ Goes("read")
  /\ UNCHANGED <<service, proxy, round, target, seen, since>>

NextNames ==
  /\ After /\ op = "assign" /\ round < 3 /\ (round = 1 => names = None)
  /\ round' = round + 1 /\ Goes("read")
  /\ UNCHANGED <<service, proxy, op, target, seen, since>>

\* super().__setattr__: an attribute of the Python object.
SetsAttribute ==
  /\ After /\ op = "assign" /\ round = 3
  /\ Ends("local", None)
  /\ UNCHANGED <<service, proxy, local>>

MakeRequest ==
  /\ stage = "request" /\ Answers(client)
  /\ shutDown' = (shutDown \/ op = "stop")
  /\ Ends("ok", client)
  /\ UNCHANGED <<state, stamp, launched, process, serving, proxy, local>>

\* No answer in time, or an error.
RequestFails ==
  /\ stage = "request" /\ Raises
  /\ UNCHANGED <<service, proxy, local>>

-----------------------------------------------------------------------------
Service ==
  \/ StartedByOther \/ Opening \/ Runs \/ DoesNotOpen \/ Busy \/ StoppedByOther
  \/ ServerStops \/ Closing \/ Closed \/ Killed \/ Monitor

Client ==
  \/ ReadState \/ AskTestbed \/ AskFails \/ WaitForRunning \/ GiveUp
  \/ Connect \/ GetServiceInfo \/ GetInfo \/ GetInfoFails
  \/ NotAName \/ Linked \/ OpenStream \/ OpenFails \/ ToRequest
  \/ IsProperty \/ NextNames \/ SetsAttribute \/ MakeRequest \/ RequestFails

ProxyNext == Service \/ Client \/ (\E c \in Calls : Call(c))

ProxySpec == ProxyInit /\ [][ProxyNext]_proxyVars

\* The client's thread runs; it is the loops' timeouts that end a call.  The client calls
\* again and again, and the testbed answers often enough.
ProxyFairSpec ==
  /\ ProxySpec
  /\ WF_proxyVars(Client) /\ WF_proxyVars(\E c \in Calls : Call(c))
  /\ SF_proxyVars(GetServiceInfo /\ stage' = "get_info")

-----------------------------------------------------------------------------
\* What the proxy has belongs together: the names are those of the process that the client
\* sends to, and the open streams are that process's.
OneProcess ==
  /\ names # None => client = names
  /\ cache # None => cache = names

\* When the proxy takes itself to be connected to the running service, it has its names:
\* a failure half way does not leave it without them until the service's next state.
ConnectedHasNames ==
  state = "RUNNING" /\ stamp = connectedAt => names # None

\* A call that returns has reached a process that was not known to have ended before the
\* call: no values of a data stream of an earlier launch, no command sent to its port.
ReachesLatest ==
  stage = "idle" /\ result = "ok" /\ op # "stop" => from > since

\* m_Client is there when it is used, but in Stop, which connects, does not look whether it is
\* connected, and uses the null pointer.
ClientPresent == stage = "undefined" => op = "stop"

\* What the proxy keeps from one call to the next fits together, whichever step of Connect fails
\* and whatever the service does meanwhile.
Consistent == OneProcess /\ ConnectedHasNames /\ ClientPresent

\* A service that stays up is reached: not for ever does the proxy fail half way, unless a
\* Stop has used the null pointer.
Reconnects ==
  <>[](state = "RUNNING" /\ serving /\ process # None)
    => []<>(names = process \/ stage = "undefined")

-----------------------------------------------------------------------------
(* What the code's comments say and it does not do.                        *)

\* "AttributeError: If the attribute cannot be found on this service."
\* (catkit2/testbed/service_proxy.py): no assignment ends as one to the proxy itself.
\* It does when the service closes while the name is looked up.
NoLocalAssignment == result # "local"

\* "Refusing to start a crashed service. Ask the TestbedProxy to start it."
\* (catkit_core/ServiceProxy.cpp): no call of a proxy launches it.
\* One does when the service crashes between the proxy's look at its state and the testbed's.
CrashedStaysDown ==
  [][stage = "ask" /\ stage' = "wait" /\ launched' # launched
       => state = "CLOSED"]_<<service, stage>>
================================================================================
