------------------------------- MODULE Actuator -------------------------------
(***************************************************************************)
(* A service that carries out the commands in its data streams: deformable  *)
(* mirrors, a DAQ, light sources, power supplies and switches, motors, a    *)
(* flip mount and a filter wheel.  Each stream has a thread that waits for  *)
(* its next frame and sends it to the device; a mirror gets the sum of the  *)
(* latest frames of all the streams.  Three services read their only stream *)
(* in the main thread.                                                      *)
(*                                                                         *)
(* The services differ in what their open and close do, in which order, in   *)
(* what becomes of a frame, and of an exception.  For each, two programs    *)
(* and a record say so; `kind` chooses one.                                 *)
(***************************************************************************)
EXTENDS Integers, Sequences, SequencesExt

CONSTANTS
  Kinds,            \* which services to consider
  Channels,         \* the command streams
  Source,           \* the one that turns a light source on; the one of a single stream
  Values,           \* what the streams hold; 0 is off
  Refused,          \* the value that the services that check do not accept
  MaxCommands,      \* bound: commands of clients, for each service
  MaxFailures       \* bound: calls of the device that fail

ASSUME ActuatorAssumption ==
  /\ Source \in Channels
  /\ Values \subseteq Nat /\ {0, 1, Refused} \subseteq Values
  /\ MaxFailures \in Nat

VARIABLES
  kind,
  main, todo,       \* where the main thread is, and the steps it has still to do
  failed,           \* where an exception was raised in the main thread
  stopping,         \* should_shut_down
  connected,        \* the connection to the device is open
  device,           \* what the device was told last, for each channel
  latest, fresh,    \* the latest frame of each stream, and whether its thread is to see it
  thread,           \* where the thread of each stream is
  got, unread,      \* what it is to send, and the streams it has yet to read
  surface, voltages,\* _surface and _voltages, which all threads share
  reported,         \* the latest frame of current_position, where it is looked at
  tries,            \* num_retries
  commands, failures,
  overlapped,       \* the update that began last began during another one
  lost              \* the channels whose last frame was given up

program  == <<main, todo, failed, stopping, connected>>
streams  == <<latest, fresh>>
cached   == <<surface, voltages>>
position == <<reported, tries>>
history  == <<overlapped, lost>>
vars == <<kind, program, device, streams, thread, got, unread, cached, position,
          commands, failures, history>>

None  == -1                      \* no frame
Unset == -2                      \* the attribute current_position is None
Off   == [c \in Channels |-> 0]
NotComputed == <<>>              \* _voltages is None

-----------------------------------------------------------------------------
(* The programs.  connect and disconnect the device; zero it; submit the    *)
(* configured values; start the threads, join them; set the first position. *)

BmcDmOpen       == <<"connect", "zero">>
BmcDmSimOpen    == <<"zero">>
MirrorOpen      == <<"zero", "start">>
HardwareOpen    == <<"connect", "zero", "start">>
NiDaqOpen       == <<"connect", "submit", "start">>
NiDaqSimOpen    == <<"submit", "start">>
SuperkOpen      == <<"submit", "connect", "start">>
SuperkSimOpen   == <<"submit", "start">>
MclsOpen        == <<"connect", "start", "submit">>
MclsSimOpen     == <<"start", "submit">>
PlpOpen         == <<"connect">>
PlpSimOpen      == <<>>
CldOpen         == <<"connect", "zero">>
CldSimOpen      == <<>>
SwitchOpen      == <<"start">>
SwitchSimOpen   == <<"start">>
XpsOpen         == <<"connect", "start">>
XpsSimOpen      == <<"start">>
PicomotorOpen   == <<"connect", "start">>
PicomotorSimOpen == <<"start">>
KinesisOpen     == <<"connect", "start">>
KinesisSimOpen  == <<"start">>
FlipOpen        == <<"connect", "set">>
FilterOpen      == <<"connect">>

\* What main does before and after its loop, where it does more than wait.
BmcDmMain       == [first |-> <<"start">>, last |-> <<"join">>]
BmcDmSimMain    == [first |-> <<"start">>, last |-> <<"join">>]
PlpMain         == [first |-> <<"start">>, last |-> <<>>]
PlpSimMain      == [first |-> <<"start">>, last |-> <<>>]
CldMain         == [first |-> <<"start">>, last |-> <<>>]
CldSimMain      == [first |-> <<"start">>, last |-> <<>>]
FlipMain        == [first |-> <<"start">>, last |-> <<>>]
FilterMain      == [first |-> <<"start">>, last |-> <<>>]

BmcDmClose      == <<"zero", "disconnect">>
MirrorClose     == <<"join", "zero">>
HardwareClose   == <<"join", "zero", "disconnect">>

\* Mutant: the task is closed while the threads run.
NiDaqCloseAtOnce == <<"disconnect", "join">>
NiDaqClose      == <<"join", "disconnect">>
NiDaqSimClose   == <<"join">>
SuperkClose     == <<"zero", "join", "disconnect">>
SuperkSimClose  == <<"zero", "join">>
MclsClose       == <<"zero", "join", "disconnect">>
MclsSimClose    == <<"zero", "join">>

\* Mutant: the output is turned off before the threads have ended.
PlpCloseAtOnce  == <<"zero", "join", "disconnect">>
PlpClose        == <<"join", "zero", "disconnect">>
PlpSimClose     == <<"join", "zero">>
CldClose        == <<"zero", "disconnect">>
SwitchClose     == <<"join">>
SwitchSimClose  == <<"join">>
XpsClose        == <<"join", "disconnect">>
XpsSimClose     == <<"join">>
PicomotorClose  == <<"join", "zero">>
PicomotorSimClose == <<"join">>
KinesisClose    == <<"join", "disconnect">>
KinesisSimClose == <<"join">>
FlipClose       == <<"disconnect">>
FilterClose     == <<"disconnect">>

Opening ==
  [bmc_dm |-> BmcDmOpen, bmc_dm_sim |-> BmcDmSimOpen, bmc_hardware |-> HardwareOpen,
   bmc_sim |-> MirrorOpen, ni_daq |-> NiDaqOpen, ni_daq_sim |-> NiDaqSimOpen,
   superk |-> SuperkOpen, superk_sim |-> SuperkSimOpen, mcls1 |-> MclsOpen,
   mcls1_sim |-> MclsSimOpen, plp |-> PlpOpen, plp_sim |-> PlpSimOpen, cld101x |-> CldOpen,
   cld101x_sim |-> CldSimOpen, switch |-> SwitchOpen, switch_sim |-> SwitchSimOpen,
   xps |-> XpsOpen, xps_sim |-> XpsSimOpen, picomotor |-> PicomotorOpen,
   picomotor_sim |-> PicomotorSimOpen, kinesis |-> KinesisOpen,
   kinesis_sim |-> KinesisSimOpen, mff101 |-> FlipOpen, fw102c |-> FilterOpen]

AllKinds == DOMAIN Opening
ASSUME KindsAssumption == Kinds \subseteq AllKinds /\ MaxCommands \in [AllKinds -> Nat]

Running ==
  LET does == [bmc_dm |-> BmcDmMain, bmc_dm_sim |-> BmcDmSimMain, plp |-> PlpMain,
               plp_sim |-> PlpSimMain, cld101x |-> CldMain, cld101x_sim |-> CldSimMain,
               mff101 |-> FlipMain, fw102c |-> FilterMain] IN
  [k \in AllKinds |-> IF k \in DOMAIN does THEN does[k] ELSE [first |-> <<>>, last |-> <<>>]]

Closing ==
  [bmc_dm |-> BmcDmClose, bmc_dm_sim |-> <<>>, bmc_hardware |-> HardwareClose,
   bmc_sim |-> MirrorClose, ni_daq |-> NiDaqClose, ni_daq_sim |-> NiDaqSimClose,
   superk |-> SuperkClose, superk_sim |-> SuperkSimClose, mcls1 |-> MclsClose,
   mcls1_sim |-> MclsSimClose, plp |-> PlpClose, plp_sim |-> PlpSimClose,
   cld101x |-> CldClose, cld101x_sim |-> <<>>, switch |-> SwitchClose,
   switch_sim |-> SwitchSimClose, xps |-> XpsClose, xps_sim |-> XpsSimClose,
   picomotor |-> PicomotorClose, picomotor_sim |-> PicomotorSimClose,
   kinesis |-> KinesisClose, kinesis_sim |-> KinesisSimClose, mff101 |-> FlipClose,
   fw102c |-> FilterClose]

\* What a thread does with a frame: reads the other streams, looks where the device is, or
\* sends it.  What it does when sending raises: it dies, goes on, or tries again.
BmcDmMonitor     == [first |-> "read", raises |-> "dead"]
BmcDmSimMonitor  == [first |-> "read", raises |-> "dead"]
MirrorMonitor    == [first |-> "read", raises |-> "dead"]
NiDaqMonitor     == [first |-> "read", raises |-> "dead"]
NiDaqSimMonitor  == [first |-> "read", raises |-> "dead"]
SuperkMonitor    == [first |-> "send", raises |-> "dead"]
SuperkSimMonitor == [first |-> "read", raises |-> "dead"]
MclsMonitor      == [first |-> "send", raises |-> "check"]
MclsSimMonitor   == [first |-> "read", raises |-> "dead"]
PlpMonitor       == [first |-> "send", raises |-> "check"]
PlpSimMonitor    == [first |-> "send", raises |-> "check"]
CldMonitor       == [first |-> "send", raises |-> "check"]
CldSimMonitor    == [first |-> "send", raises |-> "check"]
SwitchMonitor    == [first |-> "send", raises |-> "dead"]
SwitchSimMonitor == [first |-> "send", raises |-> "dead"]
XpsMonitor       == [first |-> "send", raises |-> "resubmit"]
XpsSimMonitor    == [first |-> "send", raises |-> "dead"]
PicomotorMonitor == [first |-> "send", raises |-> "dead"]
PicomotorSimMonitor == [first |-> "send", raises |-> "dead"]
KinesisMonitor   == [first |-> "send", raises |-> "check"]
KinesisSimMonitor == [first |-> "send", raises |-> "check"]
FlipMonitor      == [first |-> "look", raises |-> "dead"]
FilterMonitor    == [first |-> "look", raises |-> "retry"]

Monitor ==
  [bmc_dm |-> BmcDmMonitor, bmc_dm_sim |-> BmcDmSimMonitor, bmc_hardware |-> MirrorMonitor,
   bmc_sim |-> MirrorMonitor, ni_daq |-> NiDaqMonitor, ni_daq_sim |-> NiDaqSimMonitor,
   superk |-> SuperkMonitor, superk_sim |-> SuperkSimMonitor, mcls1 |-> MclsMonitor,
   mcls1_sim |-> MclsSimMonitor, plp |-> PlpMonitor, plp_sim |-> PlpSimMonitor,
   cld101x |-> CldMonitor, cld101x_sim |-> CldSimMonitor, switch |-> SwitchMonitor,
   switch_sim |-> SwitchSimMonitor, xps |-> XpsMonitor, xps_sim |-> XpsSimMonitor,
   picomotor |-> PicomotorMonitor, picomotor_sim |-> PicomotorSimMonitor,
   kinesis |-> KinesisMonitor, kinesis_sim |-> KinesisSimMonitor, mff101 |-> FlipMonitor,
   fw102c |-> FilterMonitor]

InMain    == kind \in {"cld101x", "cld101x_sim", "mff101", "fw102c"}
Streams   == IF InMain THEN {Source} ELSE Channels
Lasers    == {"superk", "superk_sim", "mcls1", "mcls1_sim"}
Combines  == Monitor[kind].first = "read"
CoAdds    == Combines /\ kind \notin Lasers
Caches    == kind \in {"bmc_hardware", "bmc_sim"}
HasDevice == "connect" \in ToSet(Opening[kind])

\* The streams that have a frame before open is called.
SubmitsInInit ==
  kind \in {"bmc_dm", "bmc_dm_sim", "bmc_hardware", "bmc_sim", "picomotor_sim"}

\* A set_position or a set_current_* that does not accept every value.
Accepts(v) ==
  v = Refused => kind \notin {"cld101x", "cld101x_sim", "kinesis", "kinesis_sim", "mff101"}

-----------------------------------------------------------------------------
States ==
  {"none", "check", "get", "read", "look", "set", "compute", "store", "load", "send",
   "report", "retry", "again", "dead", "ended"}

Gone(c) == thread[c] \in {"none", "dead", "ended"}

TypeOK ==
  /\ kind \in Kinds
  /\ main \in {"opening", "starting", "running", "ending", "ended", "closing", "closed"}
  /\ todo \in Seq({"connect", "zero", "submit", "start", "join", "disconnect", "set"})
  /\ failed \in {"no", "open", "main", "close"}
  /\ stopping \in BOOLEAN /\ connected \in BOOLEAN
  /\ device \in [Channels -> Values]
  /\ latest \in [Channels -> Values \cup {None}] /\ fresh \in [Channels -> BOOLEAN]
  /\ thread \in [Channels -> States]
  /\ got \in [Channels -> [Channels -> Values \cup {None}]]
  /\ unread \in [Channels -> SUBSET Channels]
  /\ \A c \in Channels : unread[c] # {} => thread[c] \in {"read", "dead"}
  /\ surface \in [Channels -> Values]
  /\ voltages = NotComputed \/ voltages \in [Channels -> Values]
  /\ reported \in Values \cup {None, Unset} /\ tries \in 0 .. 3
  /\ commands \in 0 .. MaxCommands[kind] /\ failures \in 0 .. MaxFailures
  /\ overlapped \in BOOLEAN /\ lost \subseteq Channels

Init ==
  /\ kind \in Kinds
  /\ main = "opening" /\ todo = Opening[kind] /\ failed = "no" /\ stopping = FALSE
  /\ connected = ~HasDevice
  /\ device = Off
  /\ latest = [c \in Channels |-> IF SubmitsInInit THEN 0 ELSE None]
  /\ fresh = [c \in Channels |-> SubmitsInInit]
  /\ thread = [c \in Channels |-> "none"]
  /\ got = [c \in Channels |-> Off] /\ unread = [c \in Channels |-> {}]
  /\ surface = Off /\ voltages = Off
  /\ reported = None /\ tries = 0
  /\ commands = 0 /\ failures = 0
  /\ overlapped = FALSE /\ lost = {}

Submit(c, v) ==
  latest' = [latest EXCEPT ![c] = v] /\ fresh' = [fresh EXCEPT ![c] = TRUE]

-----------------------------------------------------------------------------
(* The main thread.                                                        *)

\* Only the emission of a laser is set to 0.
Zeroed == IF kind \in Lasers THEN [device EXCEPT ![Source] = 0] ELSE Off

Operating(s) ==
  /\ device' = CASE s = "zero" /\ kind # "plp_sim" -> Zeroed
                 [] s = "set"                      -> [device EXCEPT ![Source] = 1]
                 [] OTHER                          -> device
  /\ reported' = IF s = "set" THEN 1 ELSE reported
  /\ connected' = ((connected \/ s = "connect") /\ s # "disconnect")
  /\ thread' = [c \in Channels |-> IF s = "start" /\ c \in Streams THEN "check" ELSE thread[c]]

DoStep ==
  /\ todo # <<>> /\ Head(todo) # "submit"
  /\ Head(todo) = "join" => \A c \in Channels : Gone(c)
  /\ Operating(Head(todo))
  /\ todo' = Tail(todo)
  /\ UNCHANGED <<kind, main, failed, stopping, streams, got, unread, cached, tries, commands,
                 failures, history>>

\* The configured values are submitted to one stream after the other, the emission first.
SubmitConfigured ==
  /\ todo # <<>> /\ Head(todo) = "submit"
  /\ \E c \in Channels :
       /\ latest[c] = None /\ (c = Source \/ latest[Source] # None)
       /\ Submit(c, 1)
       /\ todo' = IF \A d \in Channels \ {c} : latest[d] # None THEN Tail(todo) ELSE todo
  /\ UNCHANGED <<kind, main, failed, stopping, connected, device, thread, got, unread, cached,
                 position, commands, failures, history>>

Failing == failures < MaxFailures /\ failures' = failures + 1

\* A call of the device raises.  A mirror's connection is closed all the same, and close
\* is not called when open raised.  xps drops the exception, and goes on without sockets.
StepFails ==
  /\ todo # <<>> /\ Head(todo) \in {"connect", "zero", "set"}
  /\ main \in {"opening", "closing"}
  /\ kind \notin {"plp_sim", "mcls1"} \/ main = "opening"
  /\ Failing
  /\ IF kind = "xps"
     THEN todo' = Tail(todo) /\ UNCHANGED <<main, failed>>
     ELSE /\ failed' = IF main = "opening" THEN "open" ELSE "close"
          /\ LET finally == main = "closing" /\ kind \in {"bmc_dm", "bmc_hardware"} IN
             /\ todo' = IF finally THEN <<"disconnect">> ELSE <<>>
             /\ main' = IF finally THEN main ELSE "closed"
  /\ UNCHANGED <<kind, stopping, connected, device, streams, thread, got, unread, cached,
                 position, commands, history>>

AfterProgram ==
  [opening |-> "starting", starting |-> "running", ending |-> "ended", closing |-> "closed"]

EndProgram ==
  /\ todo = <<>> /\ main \in DOMAIN AfterProgram
  /\ main' = AfterProgram[main]
  /\ todo' = IF main = "opening" THEN Running[kind].first ELSE <<>>
  /\ UNCHANGED <<kind, failed, stopping, connected, device, streams, thread, got, unread,
                 cached, position, commands, failures, history>>

\* main returns when the service is to stop; where it reads the stream, when it finds so,
\* or raises.  It raises too when it cannot measure (plp, xps).
LeaveMain ==
  /\ main = "running" /\ main' = "ending" /\ todo' = Running[kind].last
  /\ \/ /\ IF InMain THEN Gone(Source) ELSE stopping
        /\ failed' = IF InMain /\ thread[Source] = "dead" THEN "main" ELSE failed
        /\ UNCHANGED failures
     \/ /\ kind \in {"plp", "xps"}
        /\ IF connected THEN Failing ELSE UNCHANGED failures
        /\ failed' = "main"
  /\ UNCHANGED <<kind, stopping, connected, device, streams, thread, got, unread, cached,
                 position, commands, history>>

\* Service::Run after main: should_shut_down is set, and close is called.
BeginClose ==
  /\ main = "ended" /\ main' = "closing"
  /\ stopping' = TRUE /\ todo' = Closing[kind]
  /\ UNCHANGED <<kind, failed, connected, device, streams, thread, got, unread, cached,
                 position, commands, failures, history>>

\* The testbed asks the service to stop.
ShutDown ==
  /\ main \in {"starting", "running"} /\ ~stopping
  /\ stopping' = TRUE
  /\ UNCHANGED <<kind, main, todo, failed, connected, device, streams, thread, got, unread,
                 cached, position, commands, failures, history>>

\* A client submits a command.
Command(c, v) ==
  /\ main \notin {"opening", "closed"} /\ commands < MaxCommands[kind]
  /\ Submit(c, v) /\ commands' = commands + 1
  /\ UNCHANGED <<kind, program, device, thread, got, unread, cached, position, failures,
                 history>>

-----------------------------------------------------------------------------
(* The threads.                                                            *)

Goes(c, from, to) == thread[c] = from /\ thread' = [thread EXCEPT ![c] = to]
Holds(c, s)       == got' = [got EXCEPT ![c] = s]

rest == <<kind, program, commands>>

\* Mutant: the loop does not look whether the service is to stop.
CheckNothing(c) ==
  /\ \/ Goes(c, "check", "get")
     \/ Goes(c, "get", "check") /\ ~fresh[c]
  /\ UNCHANGED <<rest, device, streams, got, unread, cached, position, failures, history>>

\* The loop ends when the service is to stop, and get_next_frame after 10 ms or 1 ms.
Check(c) ==
  /\ \/ Goes(c, "check", IF stopping THEN "ended" ELSE "get")
     \/ Goes(c, "get", "check") /\ ~fresh[c]
  /\ UNCHANGED <<rest, device, streams, got, unread, cached, position, failures, history>>

Busy(c) == thread[c] \in {"read", "set", "compute", "store", "load", "send"}

\* Mutant: the reader stays where it was.
TakeNothing(c) ==
  /\ fresh[c] /\ Goes(c, "get", "check")
  /\ UNCHANGED <<rest, device, streams, got, unread, cached, position, failures, history>>

\* A frame that came while the thread was elsewhere is the newest of them.
Take(c) ==
  /\ fresh[c] /\ Goes(c, "get", Monitor[kind].first)
  /\ fresh' = [fresh EXCEPT ![c] = FALSE]
  /\ Holds(c, [Off EXCEPT ![c] = latest[c]])
  /\ unread' = [unread EXCEPT ![c] = IF CoAdds THEN Channels
                                     ELSE IF Combines THEN Channels \ {c} ELSE {}]
  /\ tries' = IF kind = "fw102c" THEN 3 ELSE tries
  /\ overlapped' = IF Combines THEN \E d \in Channels \ {c} : Busy(d) ELSE overlapped
  /\ lost' = lost \ {c}
  /\ UNCHANGED <<rest, device, latest, cached, reported, failures>>

\* update_dm, and the power of a simulated laser: the latest frame of each stream, one
\* after the other.  Without a frame, get_latest_frame raises.
Read(c) ==
  \E d \in unread[c] :
    /\ thread[c] = "read"
    /\ IF latest[d] = None
       THEN Goes(c, "read", "dead") /\ UNCHANGED <<got, unread>>
       ELSE /\ Holds(c, [got[c] EXCEPT ![d] = latest[d]])
            /\ unread' = [unread EXCEPT ![c] = @ \ {d}]
            /\ thread' = [thread EXCEPT ![c] = IF unread'[c] # {} THEN "read"
                                               ELSE IF Caches THEN "set" ELSE "send"]
    /\ UNCHANGED <<rest, device, streams, cached, position, failures, history>>

\* The surface setter.
SetSurface(c) ==
  /\ Goes(c, "set", "compute")
  /\ surface' = got[c] /\ voltages' = NotComputed
  /\ UNCHANGED <<rest, device, streams, got, unread, position, failures, history>>

\* The voltages property: they are computed from the surface if they are not there,
\* stored, and read again.
ComputeVoltages(c) ==
  /\ Goes(c, "compute", IF voltages = NotComputed THEN "store" ELSE "load")
  /\ Holds(c, IF voltages = NotComputed THEN surface ELSE got[c])
  /\ UNCHANGED <<rest, device, streams, unread, cached, position, failures, history>>

StoreVoltages(c) ==
  /\ Goes(c, "store", "load")
  /\ voltages' = got[c]
  /\ UNCHANGED <<rest, device, streams, got, unread, surface, position, failures, history>>

\* Another thread may have removed them meanwhile, and None cannot be sent.
LoadVoltages(c) ==
  /\ IF voltages = NotComputed THEN Goes(c, "load", "dead") /\ UNCHANGED got
                        ELSE Goes(c, "load", "send") /\ Holds(c, voltages)
  /\ UNCHANGED <<rest, device, streams, unread, cached, position, failures, history>>

Whole(c)   == IF Combines THEN got[c] ELSE [device EXCEPT ![c] = got[c][c]]
Written(c) == IF Accepts(got[c][c]) /\ kind # "plp_sim" THEN Whole(c) ELSE device

\* A position that is reported already is not set.  The flip mount reports that it moves,
\* even if it then does not know the position.
Look(c) ==
  /\ \/ /\ reported = got[c][c]
        /\ Goes(c, "look", "check") /\ UNCHANGED reported
     \/ /\ reported # got[c][c]
        /\ Goes(c, "look", IF Accepts(got[c][c]) THEN "send" ELSE "check")
        /\ reported' = IF kind = "mff101" THEN None ELSE reported
  /\ UNCHANGED <<rest, device, streams, got, unread, cached, tries, failures, history>>

Send(c) ==
  /\ Goes(c, "send", IF Monitor[kind].first = "look" THEN "report" ELSE "check")
  /\ connected
  /\ device' = Written(c)
  /\ IF Monitor[kind].first = "look" THEN UNCHANGED got ELSE Holds(c, Off)
  /\ lost' = IF kind = "plp_sim" THEN lost \cup {c} ELSE lost
  /\ UNCHANGED <<rest, streams, unread, cached, position, failures, overlapped>>

\* current_position of the filter wheel may be an attribute that is not there any more.
Report(c) ==
  /\ IF reported = Unset
     THEN Goes(c, "report", "retry") /\ UNCHANGED reported
     ELSE Goes(c, "report", "check") /\ reported' = got[c][c]
  /\ UNCHANGED <<rest, device, streams, got, unread, cached, tries, failures, history>>

\* Mutant: the stream is left with the command that failed.
SendFailsSilently(c) ==
  /\ connected /\ Failing
  /\ Goes(c, "send", IF Monitor[kind].raises = "resubmit" THEN "check" ELSE Monitor[kind].raises)
  /\ device' \in {device, Written(c)}
  /\ lost' = IF Monitor[kind].raises = "check" THEN lost \cup {c} ELSE lost
  /\ reported' = IF kind = "fw102c" THEN Unset ELSE reported
  /\ UNCHANGED <<rest, streams, got, unread, cached, tries, overlapped>>

\* Sending raises, before the device has done what it was told or after.  xps then
\* submits the position where it is to its own command stream.
SendFails(c) ==
  /\ connected /\ Failing
  /\ Goes(c, "send", IF Monitor[kind].raises = "resubmit" THEN "check" ELSE Monitor[kind].raises)
  /\ device' \in {device, Written(c)}
  /\ IF Monitor[kind].raises = "resubmit" THEN Submit(c, device'[c]) ELSE UNCHANGED streams
  /\ lost' = IF Monitor[kind].raises = "check" THEN lost \cup {c} ELSE lost
  /\ reported' = IF kind = "fw102c" THEN Unset ELSE reported
  /\ UNCHANGED <<rest, got, unread, cached, tries, overlapped>>

\* Without sockets xps cannot tell the position either, and nothing catches that.
SendUnconnected(c) ==
  /\ ~connected /\ Goes(c, "send", "dead")
  /\ UNCHANGED <<rest, device, streams, got, unread, cached, position, failures, history>>

\* "Try setting the position a few times before giving up": the filter wheel is closed and
\* opened, which may raise.
Retry(c) ==
  /\ IF tries = 0
     THEN Goes(c, "retry", "dead") /\ UNCHANGED <<tries, failures>>
     ELSE /\ tries' = tries - 1
          /\ \/ Goes(c, "retry", "again") /\ UNCHANGED failures
             \/ Goes(c, "retry", "dead") /\ Failing
  /\ UNCHANGED <<rest, device, streams, got, unread, cached, reported, history>>

TryAgain(c) ==
  /\ Goes(c, "again", IF stopping THEN "check" ELSE "look")
  /\ UNCHANGED <<rest, device, streams, got, unread, cached, position, failures, history>>

-----------------------------------------------------------------------------
Main == DoStep \/ SubmitConfigured \/ EndProgram \/ BeginClose \/ (stopping /\ LeaveMain)

Thread(c) ==
  \/ Check(c) \/ Take(c) \/ Read(c) \/ SetSurface(c) \/ ComputeVoltages(c)
  \/ StoreVoltages(c) \/ LoadVoltages(c) \/ Look(c) \/ Send(c) \/ Report(c)
  \/ SendUnconnected(c) \/ Retry(c) \/ TryAgain(c)

Ended == main = "closed" /\ UNCHANGED vars

Next ==
  \/ DoStep \/ SubmitConfigured \/ EndProgram \/ BeginClose \/ LeaveMain
  \/ StepFails \/ ShutDown \/ Ended
  \/ \E c \in Channels : Thread(c) \/ SendFails(c)
  \/ \E c \in Streams, v \in Values : Command(c, v)

\* All the threads run.  Nothing need fail, and nobody need ask for anything.
Fairness == WF_vars(Main) /\ \A c \in Channels : WF_vars(Thread(c))

Spec == Init /\ [][Next]_vars /\ Fairness

-----------------------------------------------------------------------------
(* Properties                                                              *)

Waits(c)   == thread[c] \in {"check", "get"} /\ ~fresh[c]
Settled(c) == device[c] = latest[c] \/ ~Accepts(latest[c])

\* When a thread has nothing left to do, the device is where its stream says it is, unless
\* the command was given up because the device failed.  It is so for a mirror when all
\* the threads wait, and the last update did not begin during another one.
SettlesOnLatest ==
  main = "running" /\ ~stopping =>
    IF Combines
    THEN (\A c \in Channels : Waits(c)) /\ ~overlapped => \A c \in Channels : Settled(c)
    ELSE \A c \in Streams : Waits(c) /\ latest[c] # None /\ c \notin lost => Settled(c)

\* A mirror that was closed is flat, and a source is off, whatever was commanded in the
\* last moment.  Not so for the NKT and the MCLS1, which turn the source off before their
\* threads have ended.
OffWhenClosed ==
  main = "closed" /\ failed \notin {"open", "close"} /\ kind \notin Lasers
  /\ "zero" \in ToSet(Closing[kind])
    => device = Off

\* No thread sends to a device that is closed.  xps goes on without sockets when it could
\* not connect, and nothing stops the threads of a service whose close raises.
SentWhileOpen ==
  (\E c \in Channels : thread[c] = "send") /\ kind # "xps" /\ failed # "close" => connected

\* A command is seen, though the device may fail and others come at the same time, unless
\* its thread died of an exception or the service stops.
CommandsSeen ==
  \A c \in Channels :
    fresh[c] ~> ~fresh[c] \/ thread[c] = "dead" \/ stopping \/ failed # "no"

\* A service that is asked to stop ends, with all its threads, and whatever fails.
ShutdownEnds == stopping ~> main = "closed" /\ \A c \in Channels : Gone(c)
==============================================================================
