-------------------------------- MODULE Camera --------------------------------
(***************************************************************************)
(* A camera service: hamamatsu, allied_vision, zwo, flir, dummy_camera,    *)
(* camera_sim and the two accufiz interferometers.  Three threads share    *)
(* the camera: the main thread opens it, runs the acquisition loop and     *)
(* closes it; the server thread sets properties and starts and ends the    *)
(* acquisition, one request at a time; a third reads the temperature.  They *)
(* meet in the event should_be_acquiring, in the data stream is_acquiring   *)
(* and in the camera itself.                                               *)
(*                                                                         *)
(* The services are written alike and differ in the order of a few calls.  *)
(* For each, four short programs of steps say what open, the way into and   *)
(* out of the acquisition loop, and close do; `kind` chooses one.           *)
(***************************************************************************)
EXTENDS Integers, Sequences, SequencesExt

CONSTANTS
  Kinds,            \* which cameras to consider
  Sizes,            \* sizes of an image; the least is the configured one
  MaxRequests,      \* bound: requests that the server thread handles
  MaxExposures      \* bound: exposures that are told apart

AllKinds ==
  {"hamamatsu", "allied_vision", "zwo", "flir", "dummy", "camera_sim",
   "accufiz", "accufiz_sim"}

ASSUME CameraAssumption ==
  /\ Kinds \subseteq AllKinds
  /\ Sizes \subseteq Nat \ {0} /\ Sizes # {}
  /\ MaxRequests \in Nat /\ MaxExposures \in Nat

VARIABLES
  kind,
  stopping,         \* should_shut_down
  wanted,           \* should_be_acquiring
  announced,        \* the latest frame of is_acquiring, "never" before the first
  device,           \* the camera: whether it is open and streaming, and its size
  shape,            \* the shape of a frame of images
  main, todo,       \* where the main thread is, and the steps it has still to do
  failed,           \* it is on its way out because of an exception
  monitor,          \* the temperature thread
  server,           \* what the server thread does
  newSize, saw,     \* the size to set, and whether its setter saw an acquisition
  refused,          \* the camera refused the value
  requests,         \* how many requests were handled
  exposures,        \* how many exposures have begun
  exposing, inHand, \* the exposure under way, and the one the main thread holds
  warm,             \* not at the first frame of the acquisition
  images,           \* the exposures that were submitted, in order
  firstId           \* the first id of images that is available

program  == <<main, todo, failed, warm>>
serving  == <<server, newSize, saw, refused, requests>>
frames   == <<exposures, exposing, inHand, images>>
stream   == <<shape, firstId>>
flags    == <<kind, stopping>>
cameraVars ==
  <<flags, program, serving, frames, stream, wanted, announced, device, monitor>>

Configured == CHOOSE s \in Sizes : \A t \in Sizes : s <= t

-----------------------------------------------------------------------------
(* The programs.  open, acquire and release the camera; configure sets its  *)
(* size; announce and retract submit 1 and 0 to is_acquiring; fit gives     *)
(* images the size of the camera; stream and halt start and stop it;        *)
(* monitor starts the temperature thread, join waits for it.                *)

HamamatsuOpen     == <<"open", "configure", "retract", "monitor">>
AlliedVisionOpen  == <<"open", "retract", "configure", "monitor">>
ZwoOpen           == <<"open", "configure", "retract", "monitor">>
FlirOpen          == <<"open", "retract", "configure", "monitor">>
DummyOpen         == <<"retract", "monitor">>
CameraSimOpen     == <<"retract", "configure">>
AccufizOpen       == <<"open", "retract">>
AccufizSimOpen    == <<"retract">>

HamamatsuClose    == <<"release">>
AlliedVisionClose == <<"join", "release">>

\* Mutant: the camera is closed before the temperature thread has ended.
ZwoCloseAtOnce    == <<"release", "join">>
ZwoClose          == <<"join", "release">>
FlirClose         == <<"join", "release">>

\* The way into the loop, and out of it.
HamamatsuLoop     == [into |-> <<"fit", "stream", "announce">>, out |-> <<"halt", "retract">>]
AlliedVisionLoop  == [into |-> <<"announce", "fit", "stream">>, out |-> <<"retract", "halt">>]

\* Mutant: is_acquiring is 0 before the camera has stopped.
ZwoLoopRetracting == [into |-> <<"fit", "stream", "announce">>, out |-> <<"retract", "halt">>]
ZwoLoop           == [into |-> <<"fit", "stream", "announce">>, out |-> <<"halt", "retract">>]

\* Mutant: is_acquiring stays 1.
FlirLoopSilent    == [into |-> <<"fit", "stream", "announce">>, out |-> <<"halt">>]
FlirLoop          == [into |-> <<"fit", "stream", "announce">>, out |-> <<"halt", "retract">>]
DummyLoop         == [into |-> <<"announce">>, out |-> <<"retract">>]
CameraSimLoop     == [into |-> <<"stream", "announce">>, out |-> <<"halt", "retract">>]
AccufizLoop       == [into |-> <<"announce">>, out |-> <<"retract">>]
AccufizSimLoop    == [into |-> <<"announce">>, out |-> <<"retract">>]

Opening ==
  [hamamatsu |-> HamamatsuOpen, allied_vision |-> AlliedVisionOpen, zwo |-> ZwoOpen,
   flir |-> FlirOpen, dummy |-> DummyOpen, camera_sim |-> CameraSimOpen,
   accufiz |-> AccufizOpen, accufiz_sim |-> AccufizSimOpen]

Acquiring ==
  [hamamatsu |-> HamamatsuLoop, allied_vision |-> AlliedVisionLoop, zwo |-> ZwoLoop,
   flir |-> FlirLoop, dummy |-> DummyLoop, camera_sim |-> CameraSimLoop,
   accufiz |-> AccufizLoop, accufiz_sim |-> AccufizSimLoop]

Closing ==
  [hamamatsu |-> HamamatsuClose, allied_vision |-> AlliedVisionClose, zwo |-> ZwoClose,
   flir |-> FlirClose, dummy |-> <<>>, camera_sim |-> <<>>, accufiz |-> <<>>,
   accufiz_sim |-> <<>>]

\* How a size is set: written to the camera at once; written once the acquisition has
\* ended; or written, and the acquisition restarted.
HamamatsuSets    == "write"
DummySets        == "write"
ZwoSets          == "look"
FlirSets         == "look"
AlliedVisionSets == "look"
CameraSimSets    == "write"

FirstOfSetter ==
  [hamamatsu |-> HamamatsuSets, dummy |-> DummySets, zwo |-> ZwoSets, flir |-> FlirSets,
   allied_vision |-> AlliedVisionSets, camera_sim |-> CameraSimSets]

\* The main thread takes each image itself, and fits the stream to it.
TakesImages == kind \in {"dummy", "accufiz", "accufiz_sim"}

-----------------------------------------------------------------------------
Steps ==
  {"open", "configure", "retract", "monitor", "join", "release", "fit", "stream",
   "announce", "halt"}

TypeOK ==
  /\ kind \in Kinds /\ stopping \in BOOLEAN /\ wanted \in BOOLEAN
  /\ announced \in {"never", "no", "yes"}
  /\ device \in [open : BOOLEAN, streaming : BOOLEAN, size : Sizes]
  /\ shape \in Sizes /\ failed \in BOOLEAN /\ warm \in BOOLEAN
  /\ main \in {"opening", "main", "wait", "entering", "loop", "capture", "save", "submit",
               "leaving", "ended", "stopServer", "closing", "closed"}
  /\ todo \in Seq(Steps)
  /\ monitor \in {"none", "check", "read", "ended"}
  /\ server \in {"idle", "look", "await", "write", "restart", "awaitStart", "measure"}
  /\ newSize \in Sizes /\ saw \in BOOLEAN /\ refused \in BOOLEAN
  /\ requests \in 0 .. MaxRequests
  /\ exposures \in 0 .. MaxExposures
  /\ exposing \in 0 .. exposures /\ inHand \in 0 .. exposures
  /\ images \in Seq(1 .. MaxExposures) /\ firstId \in 0 .. Len(images)
  /\ inHand # 0 => main = "submit"

Init ==
  /\ kind \in Kinds
  /\ stopping = FALSE
  /\ wanted = (kind \notin {"accufiz", "accufiz_sim"})
  /\ announced = "never"
  /\ device = [open |-> "open" \notin ToSet(Opening[kind]), streaming |-> FALSE,
               size |-> Configured]
  /\ shape = Configured
  /\ main = "opening" /\ todo = Opening[kind] /\ failed = FALSE
  /\ monitor = "none"
  /\ server = "idle" /\ newSize = Configured /\ saw = FALSE /\ refused = FALSE
  /\ requests = 0
  /\ exposures = 0 /\ exposing = 0 /\ inHand = 0 /\ warm = FALSE
  /\ images = <<>> /\ firstId = 0

-----------------------------------------------------------------------------
(* The main thread.                                                        *)

MainMoves(from, to) == main = from /\ main' = to

Announcing(s) ==
  announced' = IF s = "announce" THEN "yes" ELSE IF s = "retract" THEN "no" ELSE announced

Operating(s) ==
  device' = CASE s = "open"      -> [device EXCEPT !.open = TRUE]
              [] s = "release"   -> [device EXCEPT !.open = FALSE]
              [] s = "configure" -> [device EXCEPT !.size = Configured]
              [] s = "stream"    -> [device EXCEPT !.streaming = TRUE]
              [] s = "halt"      -> [device EXCEPT !.streaming = FALSE]
              [] OTHER           -> device

\* update_parameters makes the frames of the old shape unavailable.
Fitting(s) ==
  IF s = "fit" /\ shape # device.size
  THEN shape' = device.size /\ firstId' = Len(images)
  ELSE UNCHANGED stream

DoStep ==
  /\ todo # <<>>
  /\ LET s == Head(todo) IN
     /\ s = "join" => monitor = "ended"
     /\ Announcing(s) /\ Operating(s) /\ Fitting(s)
     /\ monitor'  = IF s = "monitor" THEN "check" ELSE monitor
     /\ exposing' = IF s = "halt" THEN 0 ELSE exposing
     /\ warm'     = (warm /\ s # "stream")
  /\ todo' = Tail(todo)
  /\ UNCHANGED <<flags, main, failed, serving, exposures, inHand, images, wanted>>

\* The calls of the camera's library may raise.  When open does, Service::Run does not
\* call close.  In the loop of allied_vision the call is inside of the try block.
StepFails ==
  /\ todo # <<>> /\ main \in {"opening", "entering"}
  /\ Head(todo) \in {"open", "configure", "stream"}
  /\ failed' = TRUE
  /\ main' = IF main = "opening" THEN "closed"
             ELSE IF kind = "allied_vision" THEN "leaving" ELSE "ended"
  /\ todo' = IF main' = "leaving" THEN Acquiring[kind].out ELSE <<>>
  /\ UNCHANGED <<flags, serving, frames, stream, wanted, announced, device, monitor, warm>>

Goto(to) ==
  /\ main' = to
  /\ UNCHANGED <<failed, warm, kind, serving, frames, stream, wanted, announced, device, monitor>>

AfterProgram ==
  [opening |-> "main", entering |-> "loop", leaving |-> IF failed THEN "ended" ELSE "main",
   closing |-> "closed"]

EndProgram ==
  /\ todo = <<>> /\ main \in DOMAIN AfterProgram
  /\ Goto(AfterProgram[main]) /\ UNCHANGED <<todo, stopping>>

CheckShutDown ==
  /\ main = "main"
  /\ Goto(IF stopping THEN "ended" ELSE "wait") /\ UNCHANGED <<todo, stopping>>

WaitTimesOut ==
  /\ main = "wait" /\ ~wanted
  /\ Goto("main") /\ UNCHANGED <<todo, stopping>>

EnterLoop ==
  /\ main = "wait" /\ wanted
  /\ Goto("entering") /\ todo' = Acquiring[kind].into /\ UNCHANGED stopping

\* Mutant: the loop ends with the service only.
LoopTestStopping ==
  /\ main = "loop" /\ kind # "allied_vision"
  /\ IF ~stopping
     THEN kind # "camera_sim" /\ Goto("capture") /\ UNCHANGED <<todo, stopping>>
     ELSE Goto("leaving") /\ todo' = Acquiring[kind].out /\ UNCHANGED stopping

\* allied_vision waits for its frame handler instead, camera_sim takes no frames.
LoopTest ==
  /\ main = "loop" /\ kind # "allied_vision"
  /\ IF wanted /\ ~stopping
     THEN kind # "camera_sim" /\ Goto("capture") /\ UNCHANGED <<todo, stopping>>
     ELSE Goto("leaving") /\ todo' = Acquiring[kind].out /\ UNCHANGED stopping

\* Service::Run after main(): should_shut_down is set, and the server finishes the
\* request it is handling, before close is called.
StopServer ==
  /\ main = "ended"
  /\ Goto("stopServer") /\ stopping' = TRUE /\ UNCHANGED todo

BeginClose ==
  /\ main = "stopServer" /\ server = "idle"
  /\ Goto("closing") /\ todo' = Closing[kind] /\ UNCHANGED stopping

\* The testbed asks the service to stop.
ShutDown ==
  /\ ~stopping /\ main # "opening"
  /\ stopping' = TRUE
  /\ UNCHANGED <<kind, program, serving, frames, stream, wanted, announced, device, monitor>>

-----------------------------------------------------------------------------
(* Images.  The camera exposes while it streams, and hands over its newest *)
(* image.  An interferometer, and the dummy, makes one when it is asked.    *)

camera == <<flags, todo, serving, wanted, announced, device, monitor>>

BeginExposure ==
  /\ IF TakesImages
     THEN MainMoves("capture", "save")
     ELSE device.streaming /\ exposing = 0 /\ kind # "camera_sim" /\ UNCHANGED main
  /\ exposures < MaxExposures
  /\ exposures' = exposures + 1 /\ exposing' = exposures + 1
  /\ UNCHANGED <<camera, failed, warm, inHand, images, stream>>

\* "The first frame often contains systematic errors, so drop it."
FirstDropped == kind = "hamamatsu" /\ ~warm

\* The image has the size of the camera; submit_data raises if that is not its shape.
Fails == main' = "leaving" /\ failed' = TRUE /\ todo' = Acquiring[kind].out

HandOver == IF TakesImages THEN UNCHANGED exposing ELSE exposing' = 0

Capture ==
  /\ main = IF TakesImages THEN "save" ELSE "capture"
  /\ kind # "allied_vision" /\ exposing # 0
  /\ IF ~TakesImages /\ device.size # shape /\ ~FirstDropped
     THEN Fails /\ inHand' = 0
     ELSE main' = "submit" /\ inHand' = exposing /\ UNCHANGED <<failed, todo>>
  /\ HandOver
  /\ UNCHANGED <<flags, warm, serving, wanted, announced, device, monitor, exposures, images, stream>>

\* The dummy and the interferometers fit the stream to every image.
Submit ==
  /\ MainMoves("submit", "loop") /\ ~FirstDropped
  /\ inHand' = 0
  /\ IF TakesImages /\ shape # device.size
     THEN shape' = device.size /\ firstId' = Len(images)
     ELSE UNCHANGED stream
  /\ images' = Append(images, inHand)
  /\ UNCHANGED <<camera, failed, warm, exposures, exposing>>

\* An incomplete image of a flir is dropped too.
Drop ==
  /\ MainMoves("submit", "loop")
  /\ FirstDropped \/ kind = "flir"
  /\ inHand' = 0 /\ warm' = (kind = "hamamatsu")
  /\ UNCHANGED <<camera, failed, exposures, exposing, images, stream>>

\* Beyond the bound, images are not told apart and not kept.
TakeUnnumbered ==
  /\ MainMoves("capture", "loop")
  /\ exposures = MaxExposures
  /\ exposing = 0 \/ TakesImages
  /\ UNCHANGED <<camera, failed, warm, frames, stream>>

\* No image came in time (2 s, 10 s), or the interferometer answered with an error.
CaptureFails ==
  /\ main = "capture" /\ kind \in {"hamamatsu", "zwo", "flir", "accufiz"}
  /\ Fails
  /\ UNCHANGED <<flags, warm, serving, frames, stream, wanted, announced, device, monitor>>

\* GetNextImage of a flir gives up after 10 ms, and the loop goes on.
CaptureTimesOut ==
  /\ MainMoves("capture", "loop") /\ kind = "flir"
  /\ UNCHANGED <<camera, failed, warm, frames, stream>>

\* The frame handler of allied_vision, in a thread of the camera's library.
HandleFrame ==
  /\ kind = "allied_vision" /\ device.streaming /\ exposing # 0
  /\ wanted /\ ~stopping
  /\ images' = IF device.size = shape THEN Append(images, exposing) ELSE images
  /\ exposing' = 0
  /\ UNCHANGED <<flags, program, serving, exposures, inHand, stream, wanted, announced, device, monitor>>

\* Only a frame ends the loop.
HandlerEndsLoop ==
  /\ kind = "allied_vision" /\ device.streaming
  /\ ~wanted \/ stopping
  /\ exposing' = 0
  /\ IF main = "loop" \/ (main = "entering" /\ todo = <<>>)
     THEN main' = "leaving" /\ todo' = Acquiring[kind].out
     ELSE UNCHANGED <<main, todo>>
  /\ UNCHANGED <<flags, failed, warm, serving, exposures, inHand, images, stream, wanted,
                 announced, device, monitor>>

-----------------------------------------------------------------------------
(* The server thread.                                                      *)

ServerMoves(from, to) == server = from /\ server' = to
acquisition == <<flags, program, frames, stream, monitor>>

Serving == main \notin {"opening", "stopServer", "closing", "closed"}

BeginRequest(first) ==
  /\ Serving /\ requests < MaxRequests
  /\ ServerMoves("idle", first) /\ requests' = requests + 1

StartAcquisition ==
  /\ BeginRequest("idle")
  /\ wanted' = TRUE
  /\ UNCHANGED <<acquisition, newSize, saw, refused, announced, device>>

EndAcquisition ==
  /\ BeginRequest("idle")
  /\ wanted' = FALSE
  /\ UNCHANGED <<acquisition, newSize, saw, refused, announced, device>>

\* Width or height.
Set(size) ==
  /\ kind \in DOMAIN FirstOfSetter
  /\ BeginRequest(FirstOfSetter[kind])
  /\ newSize' = size /\ saw' = FALSE /\ refused' = FALSE
  /\ UNCHANGED <<acquisition, wanted, announced, device>>

AfterWrite ==
  IF kind = "camera_sim" THEN "look"
  ELSE IF saw /\ (refused' => kind = "zwo") THEN "restart" ELSE "idle"

Look ==
  /\ server = "look"
  /\ saw' = (announced = "yes")
  /\ server' = IF saw' THEN "await" ELSE IF kind = "camera_sim" THEN "idle" ELSE "write"
  /\ wanted' = (wanted /\ ~saw')
  /\ UNCHANGED <<acquisition, newSize, refused, requests, announced, device>>

\* "Wait for the acquisition to actually end."
Await ==
  /\ server = "await" /\ announced = "no"
  /\ server' = IF kind = "camera_sim" THEN "restart" ELSE "write"
  /\ UNCHANGED <<acquisition, newSize, saw, refused, requests, wanted, announced, device>>

\* The value may be refused.  Only the context manager of zwo then restarts the
\* acquisition, flir and allied_vision do not.
Write ==
  /\ server = "write"
  /\ refused' \in {FALSE, kind # "camera_sim"}
  /\ device' = IF refused' THEN device ELSE [device EXCEPT !.size = newSize]
  /\ server' = AfterWrite
  /\ UNCHANGED <<acquisition, newSize, saw, requests, wanted, announced>>

\* Mutant: the acquisition is not started again.
RestartNothing ==
  /\ ServerMoves("restart", IF kind = "camera_sim" THEN "awaitStart" ELSE "idle")
  /\ UNCHANGED <<acquisition, newSize, saw, refused, requests, wanted, announced, device>>

Restart ==
  /\ ServerMoves("restart", IF kind = "camera_sim" THEN "awaitStart" ELSE "idle")
  /\ wanted' = TRUE
  /\ UNCHANGED <<acquisition, newSize, saw, refused, requests, announced, device>>

AwaitStart ==
  /\ ServerMoves("awaitStart", "idle") /\ announced = "yes"
  /\ UNCHANGED <<acquisition, newSize, saw, refused, requests, wanted, announced, device>>

\* take_measurement as a command: the interferometer keeps the latest measurement only.
BeginMeasurement ==
  /\ kind = "accufiz" /\ exposures < MaxExposures
  /\ BeginRequest("measure")
  /\ exposures' = exposures + 1 /\ exposing' = exposures + 1
  /\ UNCHANGED <<flags, program, stream, monitor, inHand, images, newSize, saw, refused,
                 wanted, announced, device>>

EndMeasurement ==
  /\ ServerMoves("measure", "idle")
  /\ UNCHANGED <<acquisition, newSize, saw, refused, requests, wanted, announced, device>>

-----------------------------------------------------------------------------
(* The temperature thread.                                                 *)

\* Mutant: it never ends.
MonitorForEver ==
  /\ \/ monitor = "check" /\ monitor' = "read"
     \/ monitor = "read" /\ monitor' = "check"
  /\ UNCHANGED <<flags, program, serving, frames, stream, wanted, announced, device>>

MonitorTemperature ==
  /\ \/ monitor = "check" /\ monitor' = IF stopping THEN "ended" ELSE "read"
     \/ monitor = "read" /\ monitor' = "check"
  /\ UNCHANGED <<flags, program, serving, frames, stream, wanted, announced, device>>

-----------------------------------------------------------------------------
Main ==
  \/ DoStep \/ EndProgram \/ CheckShutDown \/ WaitTimesOut \/ EnterLoop \/ LoopTest
  \/ StopServer \/ BeginClose

Takes ==
  \/ BeginExposure \/ Capture \/ Submit \/ Drop \/ TakeUnnumbered \/ CaptureTimesOut
  \/ HandleFrame \/ HandlerEndsLoop

Server ==
  \/ Look \/ Await \/ Write \/ Restart \/ AwaitStart \/ EndMeasurement

Command == StartAcquisition \/ EndAcquisition \/ BeginMeasurement
SetProperty == \E size \in Sizes : Set(size)

\* A camera_sim whose setter waits for an acquisition that does not start has to be
\* killed by the testbed.
Ended ==
  /\ main = "closed" \/ (main = "stopServer" /\ server = "awaitStart")
  /\ UNCHANGED cameraVars

CameraNext ==
  \/ Main \/ Takes \/ Server \/ Command \/ SetProperty \/ MonitorTemperature
  \/ StepFails \/ CaptureFails \/ ShutDown \/ Ended

CameraSpec == Init /\ [][CameraNext]_cameraVars

\* The threads run, and a camera that streams delivers.  Nothing need fail, and nobody
\* need ask for anything.
Fairness ==
  /\ WF_cameraVars(Main) /\ WF_cameraVars(Server) /\ WF_cameraVars(MonitorTemperature)
  /\ WF_cameraVars(Takes) /\ WF_cameraVars(HandlerEndsLoop)

-----------------------------------------------------------------------------
(* Properties                                                              *)

\* A setter that found the camera acquiring changes the size only once the camera has
\* stopped.  Not so for allied_vision, whose loop says that it has ended before it stops
\* the camera.
ResizedWhenStopped ==
  [][device.streaming /\ device'.size # device.size /\ kind # "allied_vision"
       => ~saw]_cameraVars

\* When the acquisition has ended, even by an exception, the camera has stopped and
\* says so: nobody waits for an acquisition that is not there.
StoppedAndSaysSo ==
  main \in {"main", "wait", "ended", "stopServer", "closing", "closed"}
    => ~device.streaming /\ announced # "yes"

\* Nobody uses a camera that is closed.  The hamamatsu does not wait for its temperature
\* thread.
UsedWhileOpen ==
  (\/ server \in {"await", "write", "restart"}
   \/ main \in {"entering", "loop", "capture", "submit", "leaving"}
   \/ monitor = "read" /\ kind # "hamamatsu")
    => device.open

\* A setter that stopped the acquisition leaves it wanted, if the value was not refused;
\* zwo even then.
AcquisitionRestored ==
  [][server # "idle" /\ server' = "idle" /\ saw /\ (refused' => kind = "zwo")
       => wanted']_cameraVars

\* A request is answered, though the acquisition it waits for may fail or the service
\* shut down.  camera_sim waits for an acquisition that does not start any more when
\* the service shuts down.
RequestsAnswered ==
  server # "idle" ~> server = "idle" \/ (kind = "camera_sim" /\ stopping)

\* A service that is asked to stop closes its camera and ends, with the same exception.
ShutdownEnds ==
  stopping ~> main = "closed" \/ (kind = "camera_sim" /\ server = "awaitStart")
==============================================================================
