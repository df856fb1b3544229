------------------------------- MODULE Simulator -------------------------------
(***************************************************************************)
(* The simulator (catkit2/simulator/simulator.py): callbacks that are       *)
(* executed in the order of simulated time.  A camera that acquires has a   *)
(* reset scheduled (the start of an exposure) or a readout (its end); in    *)
(* between, the light on it is integrated whenever time progresses.  The    *)
(* main thread executes callbacks; the server thread, for the simulated     *)
(* camera services, schedules the start and the end of acquisitions, and    *)
(* changes of the optical model.                                            *)
(***************************************************************************)
EXTENDS OpticalModel, Sequences, FiniteSets, FiniteSetsExt

CONSTANTS
  Cameras,
  Camera, Mirror,   \* the plane of the cameras, and of the element that is actuated
  Exposures,        \* pairs of an integration time and a frame interval
  MaxRequests,      \* bound: requests
  MaxTime           \* bound: the callbacks that are executed

ASSUME SimulatorAssumption ==
  /\ {Camera, Mirror} \subseteq Planes
  /\ \A e \in Exposures : e[1] \in Nat /\ e[2] \in Nat /\ e[1] <= e[2]
  /\ MaxRequests \in Nat /\ MaxTime \in Nat /\ Settings \subseteq Nat

VARIABLES
  now,              \* the data stream time
  callbacks,        \* the heap
  counter,          \* callback_counter
  main, callback,   \* where the main thread is, and the callback it popped
  light,            \* the power on a camera that it computed, camera_images
  integrating,      \* integrating_cameras: the exposure of a camera that acquires
  power,            \* camera_integrated_power: what was integrated, for how long, and
                    \* what should have been
  scheduled,        \* camera_callbacks
  requests,         \* how many requests were handled
  again             \* the cameras that were started while they acquired

camera  == <<integrating, power, scheduled, again>>
simVars == <<now, callbacks, counter, main, callback, light, camera, requests, modelVars>>

Off == <<>>
Idle == [time |-> 0, id |-> -1, what |-> "none", of |-> Off, exposure |-> Off]

SimTypeOK ==
  /\ ModelTypeOK
  /\ now \in 0 .. MaxTime
  /\ main \in {"images", "pop", "advance", "run"}
  /\ light \in Settings \cup {0}
  /\ counter \in Nat /\ requests \in 0 .. MaxRequests
  /\ \A c \in callbacks : c.id < counter /\ c.time \in Nat
  /\ callback # Idle <=> main \in {"advance", "run"}
  /\ integrating \in [Cameras -> Exposures \cup {Off}]
  /\ again \subseteq Cameras

SimInit ==
  /\ ModelInit
  /\ now = 0 /\ callbacks = {} /\ counter = 0
  /\ main = "images" /\ callback = Idle /\ light = 0
  /\ integrating = [c \in Cameras |-> Off]
  /\ power = [c \in Cameras |-> Off]
  /\ scheduled = [c \in Cameras |-> Idle]
  /\ requests = 0 /\ again = {}

-----------------------------------------------------------------------------
(* Callbacks.                                                              *)

New(what, of, exposure, t) ==
  [time |-> t, id |-> counter, what |-> what, of |-> of, exposure |-> exposure]

\* add_callback, and remove_callback, which does nothing when it was executed.
Add(c)         == callbacks' = callbacks \cup {c} /\ counter' = counter + 1
Replace(old, c) == callbacks' = (callbacks \ {old}) \cup {c} /\ counter' = counter + 1

\* Lower ids go first among callbacks of the same time.
Before(a, b) == a.time < b.time \/ (a.time = b.time /\ a.id < b.id)

-----------------------------------------------------------------------------
(* The server thread: each request schedules a callback for the current    *)
(* time, which is read under the lock.                                     *)

Request(what, of, exposure) ==
  /\ requests < MaxRequests
  /\ requests' = requests + 1
  /\ Add(New(what, of, exposure, now))
  /\ UNCHANGED <<now, main, callback, light, camera, modelVars>>

\* actuate_dm belongs to a derived class.  It is modelled as the service of a simulated mirror
\* calls it, with a callback for now; simple_simulator's takes another argument, and passes
\* add_callback its arguments in the wrong order.
StartCameraAcquisition(c) == \E e \in Exposures : Request("start", c, e)
EndCameraAcquisition(c)   == Request("end", c, Off)
ActuateDM                 == \E s \in Settings : Request("actuate", s, Off)

-----------------------------------------------------------------------------
(* The main thread.                                                        *)

ComputeImages ==
  /\ main = "images" /\ main' = "pop"
  /\ IF \E c \in Cameras : power[c] # Off
     THEN light' = Get[Camera][Mirror] /\ CacheAfter(Camera)
     ELSE light' = 0 /\ UNCHANGED cache
  /\ UNCHANGED <<now, callbacks, counter, callback, camera, requests, element>>

PopCallback ==
  /\ main = "pop"
  /\ \E c \in callbacks :
       /\ \A d \in callbacks \ {c} : Before(c, d)
       /\ c.time <= MaxTime
       /\ callback' = c /\ callbacks' = callbacks \ {c}
  /\ main' = "advance"
  /\ UNCHANGED <<now, counter, light, camera, requests, modelVars>>

NoCallback ==
  /\ main = "pop" /\ callbacks = {}
  /\ main' = "images"
  /\ UNCHANGED <<now, callbacks, counter, callback, light, camera, requests, modelVars>>

\* Time would progress faster than allowed: the callback is put back.
Throttle ==
  /\ main = "advance" /\ callback.time > now
  /\ callbacks' = callbacks \cup {callback} /\ callback' = Idle /\ main' = "images"
  /\ UNCHANGED <<now, counter, light, camera, requests, modelVars>>

Integrated(p, t) ==
  [light   |-> p.light + light * t,
   elapsed |-> p.elapsed + t,
   exact   |-> p.exact + TrueWavefronts(Camera)[Mirror] * t]

\* Mutant: a callback that is late is not integrated.
AdvanceForwards ==
  /\ main = "advance" /\ main' = "run"
  /\ LET t == Max({callback.time - now, 0}) IN
     power' = [c \in Cameras |-> IF power[c] = Off THEN Off ELSE Integrated(power[c], t)]
  /\ now' = callback.time
  /\ UNCHANGED <<callbacks, counter, callback, light, integrating, scheduled, again, requests,
                 modelVars>>

\* The light is integrated, and time progresses.
Advance ==
  /\ main = "advance" /\ main' = "run"
  /\ LET t == callback.time - now IN
     power' = [c \in Cameras |-> IF power[c] = Off THEN Off ELSE Integrated(power[c], t)]
  /\ now' = callback.time
  /\ UNCHANGED <<callbacks, counter, callback, light, integrating, scheduled, again, requests,
                 modelVars>>

Run(what) == main = "run" /\ callback.what = what /\ main' = "images" /\ callback' = Idle
done == <<now, light, requests>>

\* Mutant: the callback that is pending for the camera is not removed.
RunStartKeeping ==
  /\ Run("start")
  /\ LET c == callback.of
         reset == New("reset", c, Off, now)
         already == integrating[c] # Off IN
     /\ integrating' = [integrating EXCEPT ![c] = callback.exposure]
     /\ again' = IF already THEN again \cup {c} ELSE again
     /\ IF already
        THEN UNCHANGED <<callbacks, counter, scheduled>>
        ELSE Add(reset) /\ scheduled' = [scheduled EXCEPT ![c] = reset]
  /\ UNCHANGED <<done, power, modelVars>>

\* A pending callback of the camera is removed, and "integration starts right away, if the
\* camera was not already integrating".
RunStart ==
  /\ Run("start")
  /\ LET c == callback.of
         reset == New("reset", c, Off, now)
         already == integrating[c] # Off IN
     /\ integrating' = [integrating EXCEPT ![c] = callback.exposure]
     /\ again' = IF already THEN again \cup {c} ELSE again
     /\ scheduled' = [scheduled EXCEPT ![c] = IF already THEN Idle ELSE reset]
     /\ IF already
        THEN callbacks' = callbacks \ {scheduled[c]} /\ UNCHANGED counter
        ELSE Replace(scheduled[c], reset)
  /\ UNCHANGED <<done, power, modelVars>>

RunReset ==
  /\ Run("reset")
  /\ LET c == callback.of
         e == integrating[c]
         readout == New("readout", c, e, now + e[1]) IN
     IF e = Off
     THEN UNCHANGED <<callbacks, counter, power, scheduled>>
     ELSE /\ power' = [power EXCEPT ![c] = [light |-> 0, elapsed |-> 0, exact |-> 0]]
          /\ Add(readout) /\ scheduled' = [scheduled EXCEPT ![c] = readout]
  /\ UNCHANGED <<done, integrating, again, modelVars>>

\* Mutant: the next exposure is not scheduled.
RunReadoutOnce ==
  /\ Run("readout")
  /\ power' = [power EXCEPT ![callback.of] = Off]
  /\ UNCHANGED <<done, callbacks, counter, integrating, scheduled, again, modelVars>>

RunReadout ==
  /\ Run("readout")
  /\ LET c == callback.of
         reset == New("reset", c, Off, now - callback.exposure[1] + callback.exposure[2]) IN
     /\ power' = [power EXCEPT ![c] = Off]
     /\ IF integrating[c] # Off /\ power[c] # Off
        THEN Add(reset) /\ scheduled' = [scheduled EXCEPT ![c] = reset]
        ELSE UNCHANGED <<callbacks, counter, scheduled>>
  /\ UNCHANGED <<done, integrating, again, modelVars>>

RunEnd ==
  /\ Run("end")
  /\ integrating' = [integrating EXCEPT ![callback.of] = Off]
  /\ again' = again \ {callback.of}
  /\ UNCHANGED <<done, callbacks, counter, power, scheduled, modelVars>>

RunActuate ==
  /\ Run("actuate")
  /\ Actuate(Mirror, callback.of)
  /\ UNCHANGED <<done, callbacks, counter, camera>>

\* Bound: time has come to its end.
Ended ==
  /\ main = "pop" /\ \A c \in callbacks : c.time > MaxTime
  /\ UNCHANGED simVars

Next ==
  \/ ComputeImages \/ PopCallback \/ NoCallback \/ Throttle \/ Advance
  \/ RunStart \/ RunReset \/ RunReadout \/ RunEnd \/ RunActuate
  \/ \E c \in Cameras : StartCameraAcquisition(c) \/ EndCameraAcquisition(c)
  \/ ActuateDM \/ Ended

Spec == SimInit /\ [][Next]_simVars

-----------------------------------------------------------------------------
(* Properties                                                              *)

Pending(c) == {b \in callbacks \cup {callback} : b.what \in {"reset", "readout"} /\ b.of = c}

\* A camera never has two exposures under way.
OneExposure == \A c \in Cameras : Cardinality(Pending(c)) <= 1

\* "The camera will take images every frame_interval seconds": a camera that acquires has
\* its next reset or readout before it.  Not if it was started while it acquired, as by a
\* camera service that crashed and was started again: then it never takes another.
KeepsExposing == \A c \in Cameras \ again : integrating[c] # Off => Pending(c) # {}

\* An image that is read out has been integrated for the integration time, with the light
\* of each moment, though callbacks for the current time may come late.
ReadoutExact ==
  main = "run" /\ callback.what = "readout" /\ power[callback.of] # Off
    => LET p == power[callback.of] IN
       p.elapsed = callback.exposure[1] /\ p.light = p.exact
==============================================================================
