---------------------------- MODULE SimulatorProofs ----------------------------
(***************************************************************************)
(* Theorems about the simulator: a camera has at most one exposure under   *)
(* way and goes on exposing, what is cached is current, and an image is    *)
(* the light that fell on its camera; for any number of cameras,           *)
(* integration times, intervals and requests, and any acyclic graph of     *)
(* planes.                                                                 *)
(***************************************************************************)
EXTENDS Simulator, FiniteSetTheorems, TLAPS

Queued   == callbacks \cup {callback}
Exposing == {"reset", "readout"}

\* The callback that is run was taken off the heap, and each has an id of its own.
Numbered ==
  /\ counter \in Nat /\ callback \notin callbacks
  /\ \A b \in Queued : b.id \in Int /\ b.id < counter
  /\ \A b \in Queued : b.what = "none" => b = Idle
  /\ Idle \notin callbacks
  /\ callback # Idle <=> main \in {"advance", "run"}
  /\ main \in {"images", "pop", "advance", "run"}

\* What a camera still has before it is what camera_callbacks says.
Unique ==
  /\ DOMAIN scheduled = Cameras /\ DOMAIN integrating = Cameras /\ DOMAIN power = Cameras
  /\ \A b \in Queued : b.what \in Exposing \cup {"start"} => b.of \in Cameras
  /\ \A b \in Queued : b.what \in Exposing => b = scheduled[b.of]
  /\ \A c \in Cameras : scheduled[c] # Idle => scheduled[c].what \in Exposing
                                              /\ scheduled[c].of = c

\* An exposure that is to be read out is being integrated.
Begun == \A b \in Queued : b.what = "readout" => power[b.of] # Off

IInv == Numbered /\ Unique /\ Begun /\ KeepsExposing

-----------------------------------------------------------------------------
\* A new callback is not the one that is run, as it has a number of its own.
LEMMA NewIsNew ==
  ASSUME IInv, NEW what, NEW of, NEW exposure, NEW t
  PROVE  /\ New(what, of, exposure, t) \notin Queued
         /\ New(what, of, exposure, t).id = counter
         /\ New(what, of, exposure, t).what = what
         /\ New(what, of, exposure, t).of = of
BY DEF IInv, Numbered, New

LEMMA IdleIsNone == Idle.what = "none" /\ Idle.id = -1
BY DEF Idle

LEMMA Initially == SimInit => IInv
<1> SUFFICES ASSUME SimInit PROVE IInv
  OBVIOUS
<1>1. Queued = {Idle}
  BY DEF SimInit, Queued
<1>2. Numbered /\ Unique /\ Begun
  BY <1>1, IdleIsNone DEF SimInit, Numbered, Unique, Begun, Exposing
<1>3. KeepsExposing
  BY DEF SimInit, KeepsExposing
<1> QED BY <1>2, <1>3 DEF IInv

\* A request of a camera service or a simulated device adds a callback that is none of
\* a camera's exposures.
LEMMA RequestKeeps ==
  ASSUME IInv, NEW what \in {"start", "end", "actuate"}, NEW of, NEW exposure,
         what = "start" => of \in Cameras,
         Request(what, of, exposure)
  PROVE  IInv'
<1> DEFINE new == New(what, of, exposure, now)
<1>1. /\ callbacks' = callbacks \cup {new} /\ callback' = callback /\ counter' = counter + 1
      /\ UNCHANGED <<main, scheduled, integrating, power, again>>
  BY DEF Request, Add, camera
<1>2. /\ new \notin Queued /\ new.id = counter /\ new.what = what /\ new.of = of
  BY NewIsNew
<1>3. Queued' = Queued \cup {new}
  BY <1>1 DEF Queued
<1> HIDE DEF new
<1>4. Numbered'
  BY <1>1, <1>2, <1>3, IdleIsNone DEF IInv, Numbered, Queued
<1>5. Unique' /\ Begun'
  BY <1>1, <1>2, <1>3 DEF IInv, Unique, Begun, Exposing
<1>6. KeepsExposing'
  BY <1>1, <1>2, <1>3 DEF IInv, KeepsExposing, Pending, Queued
<1> QED BY <1>4, <1>5, <1>6 DEF IInv

\* Popping a callback and putting it back leave what is queued as it is, but for nothing.
LEMMA SameQueueKeeps ==
  ASSUME IInv, Numbered', Queued' \subseteq Queued \cup {Idle},
         \A b \in Queued : b.what \in Exposing => b \in Queued',
         UNCHANGED <<scheduled, integrating, again>>,
         DOMAIN power' = Cameras,
         \A c \in Cameras : power[c] # Off => power'[c] # Off
  PROVE  IInv'
<1>1. Unique' /\ Begun'
  BY IdleIsNone DEF IInv, Unique, Begun, Exposing
<1>2. \A c \in Cameras : Pending(c) \subseteq Pending(c)'
  BY DEF Pending, Queued, Exposing
<1>3. KeepsExposing'
  BY <1>2 DEF IInv, KeepsExposing
<1> QED BY <1>1, <1>3 DEF IInv

\* The steps of the main thread that run no callback.
LEMMA LoopKeeps ==
  ASSUME IInv, ComputeImages \/ PopCallback \/ NoCallback \/ Throttle \/ Advance
  PROVE  IInv'
<1>1. CASE ComputeImages \/ NoCallback
  <2>1. UNCHANGED <<callbacks, callback, counter, camera>> /\ main' \in {"images", "pop"}
        /\ main \in {"images", "pop"}
    BY <1>1 DEF ComputeImages, NoCallback
  <2>2. Numbered'
    BY <2>1 DEF IInv, Numbered, Queued
  <2> QED BY <2>1, <2>2, SameQueueKeeps DEF IInv, Unique, Queued, camera
<1>2. CASE PopCallback
  <2>1. PICK c \in callbacks : callback' = c /\ callbacks' = callbacks \ {c}
    BY <1>2 DEF PopCallback
  <2>2. /\ main = "pop" /\ main' = "advance" /\ counter' = counter
        /\ UNCHANGED <<integrating, power, scheduled, again>>
    BY <1>2 DEF PopCallback, camera
  <2>3. callback = Idle /\ c # Idle
    BY <2>2, IdleIsNone DEF IInv, Numbered
  <2>4. Queued' = callbacks
    BY <2>1 DEF Queued
  <2>5. Numbered'
    BY <2>1, <2>2, <2>3, <2>4 DEF IInv, Numbered, Queued
  <2>6. \A b \in Queued : b.what \in Exposing => b \in Queued'
    BY <2>3, <2>4, IdleIsNone DEF Queued, Exposing
  <2> QED BY <2>2, <2>4, <2>5, <2>6, SameQueueKeeps DEF IInv, Unique, Queued
<1>3. CASE Throttle
  <2>1. /\ main = "advance" /\ main' = "images" /\ counter' = counter
        /\ callbacks' = callbacks \cup {callback} /\ callback' = Idle
        /\ UNCHANGED <<integrating, power, scheduled, again>>
    BY <1>3 DEF Throttle, camera
  <2>2. callback # Idle
    BY <2>1 DEF IInv, Numbered
  <2>3. Queued' = Queued \cup {Idle}
    BY <2>1 DEF Queued
  <2>5. Numbered'
    BY <2>1, <2>2, <2>3, IdleIsNone DEF IInv, Numbered, Queued
  <2> QED BY <2>1, <2>3, <2>5, SameQueueKeeps DEF IInv, Unique, Queued
<1>4. CASE Advance
  <2>1. /\ main = "advance" /\ main' = "run"
        /\ UNCHANGED <<callbacks, callback, counter, integrating, scheduled, again>>
    BY <1>4 DEF Advance
  <2>2. PICK t : power' = [c \in Cameras |->
                             IF power[c] = Off THEN Off ELSE Integrated(power[c], t)]
    BY <1>4 DEF Advance
  <2>3. \A p : Integrated(p, t) # Off
    BY DEF Integrated, Off
  <2>4. Numbered'
    BY <2>1 DEF IInv, Numbered, Queued
  <2> QED BY <2>1, <2>2, <2>3, <2>4, SameQueueKeeps DEF IInv, Unique, Queued
<1> QED BY <1>1, <1>2, <1>3, <1>4

\* What is left of a camera's exposures when its callback is run: nothing.
LEMMA NothingElse ==
  ASSUME IInv, main = "run", callback.what \in Exposing
  PROVE  /\ callback.of \in Cameras
         /\ \A b \in callbacks : b.what \in Exposing => b.of # callback.of
BY DEF IInv, Numbered, Unique, Queued

\* A callback that was run leaves the queue; it may schedule one for its camera c, which
\* has no other then.
LEMMA ScheduleKeeps ==
  ASSUME IInv, main = "run", main' = "images", callback' = Idle,
         NEW c \in Cameras, NEW new,
         callbacks' \subseteq callbacks \cup {new}, new \in callbacks',
         \A b \in callbacks \ callbacks' : b.what \in Exposing => b.of = c,
         \A b \in callbacks \cap callbacks' : b.what \in Exposing => b.of # c,
         callback.what \in Exposing => callback.of = c,
         new.id = counter, counter' = counter + 1,
         new.what \in Exposing, new.of = c,
         scheduled' = [scheduled EXCEPT ![c] = new],
         DOMAIN integrating' = Cameras, DOMAIN power' = Cameras,
         \A d \in Cameras \ {c} : integrating'[d] = integrating[d] /\ power'[d] = power[d],
         again \ {c} = again' \ {c},
         new.what = "readout" => power'[c] # Off
  PROVE  IInv'
<1>1. Queued' = callbacks' \cup {Idle}
  BY DEF Queued
<1>2. new \notin callbacks /\ new # Idle /\ new.what # "none"
  BY IdleIsNone DEF IInv, Numbered, Queued, Exposing
<1>3. Numbered'
  BY <1>1, <1>2, IdleIsNone DEF IInv, Numbered, Queued
<1>4. Unique'
  BY <1>1, <1>2, IdleIsNone DEF IInv, Unique, Queued, Exposing
<1>5. Begun'
  BY <1>1, <1>2, IdleIsNone DEF IInv, Begun, Unique, Queued, Exposing
<1>6. ASSUME NEW d \in Cameras \ again', integrating'[d] # Off
      PROVE  Pending(d)' # {}
  <2>1. CASE d = c
    BY <2>1, <1>1 DEF Pending, Queued, Exposing
  <2>2. CASE d # c
    <3>1. PICK b \in Pending(d) : TRUE
      BY <2>2, <1>6 DEF IInv, KeepsExposing
    <3>2. b \in callbacks
      BY <2>2, <3>1 DEF Pending, Exposing
    <3>3. b \in callbacks'
      BY <2>2, <3>1, <3>2 DEF Pending, Exposing
    <3> QED BY <3>1, <3>3 DEF Pending
  <2> QED BY <2>1, <2>2
<1>7. KeepsExposing'
  BY <1>6 DEF KeepsExposing
<1> QED BY <1>3, <1>4, <1>5, <1>7 DEF IInv

\* A callback that was run leaves the queue and schedules nothing: that is for c, if
\* it does not acquire any more, or was started while it acquired.
LEMMA ForgetKeeps ==
  ASSUME IInv, main = "run", main' = "images", callback' = Idle, counter' = counter,
         NEW c, callbacks' \subseteq callbacks,
         \A b \in callbacks \ callbacks' : b.what \in Exposing => b.of = c,
         \A b \in callbacks' : b.what \in Exposing => b.of # c \/ scheduled'[c] = scheduled[c],
         callback.what \in Exposing => callback.of = c,
         DOMAIN scheduled' = Cameras,
         c \in Cameras => scheduled'[c] \in {scheduled[c], Idle},
         DOMAIN integrating' = Cameras, DOMAIN power' = Cameras,
         \A d \in Cameras \ {c} : /\ integrating'[d] = integrating[d] /\ power'[d] = power[d]
                                  /\ scheduled'[d] = scheduled[d],
         c \in Cameras => \/ \A b \in callbacks' : b.what \in Exposing => b.of # c
                          \/ power'[c] = power[c],
         again \ {c} = again' \ {c},
         c \in Cameras => integrating'[c] = Off \/ c \in again'
  PROVE  IInv'
<1>1. Queued' = callbacks' \cup {Idle}
  BY DEF Queued
<1>2. Numbered'
  BY <1>1, IdleIsNone DEF IInv, Numbered, Queued
<1>3. Unique'
  BY <1>1, IdleIsNone DEF IInv, Unique, Queued, Exposing
<1>4. Begun'
  BY <1>1, IdleIsNone DEF IInv, Begun, Unique, Queued, Exposing
<1>5. ASSUME NEW d \in Cameras \ again', integrating'[d] # Off
      PROVE  Pending(d)' # {}
  <2>1. d # c /\ d \notin again /\ integrating[d] # Off
    BY <1>5
  <2>2. PICK b \in Pending(d) : TRUE
    BY <2>1, <1>5 DEF IInv, KeepsExposing
  <2>3. b \in callbacks'
    BY <2>1, <2>2 DEF Pending, Exposing
  <2> QED BY <2>2, <2>3 DEF Pending
<1>6. KeepsExposing'
  BY <1>5 DEF KeepsExposing
<1> QED BY <1>2, <1>3, <1>4, <1>6 DEF IInv

LEMMA RunStartKeeps ==
  ASSUME IInv, RunStart
  PROVE  IInv'
<1> DEFINE c == callback.of
           new == New("reset", c, Off, now)
<1>1. /\ main = "run" /\ main' = "images" /\ callback' = Idle /\ callback.what = "start"
      /\ power' = power /\ c \in Cameras
      /\ integrating' = [integrating EXCEPT ![c] = callback.exposure]
  BY DEF RunStart, Run, IInv, Unique, Queued
<1>2. \A b \in callbacks : b.what \in Exposing /\ b.of = c <=>
                             b.what \in Exposing /\ b = scheduled[c]
  BY <1>1, IdleIsNone DEF IInv, Unique, Queued, Exposing
<1>2a. ASSUME scheduled[c] \in callbacks
       PROVE  scheduled[c].what \in Exposing /\ scheduled[c].of = c
  BY <1>1, <1>2a DEF IInv, Numbered, Unique
<1>3. CASE integrating[c] = Off
  <2>1. /\ callbacks' = (callbacks \ {scheduled[c]}) \cup {new} /\ counter' = counter + 1
        /\ scheduled' = [scheduled EXCEPT ![c] = new] /\ again' = again
    BY <1>3 DEF RunStart, Replace
  <2>2. new \notin Queued /\ new.id = counter /\ new.what = "reset" /\ new.of = c
    BY NewIsNew
  <2> HIDE DEF new
  <2>3. /\ callbacks' \subseteq callbacks \cup {new} /\ new \in callbacks'
        /\ \A b \in callbacks \ callbacks' : b.what \in Exposing => b.of = c
        /\ \A b \in callbacks \cap callbacks' : b.what \in Exposing => b.of # c
        /\ callback.what \notin Exposing /\ new.what \in Exposing /\ new.what # "readout"
    BY <1>1, <1>2, <1>2a, <2>1, <2>2 DEF Queued, Exposing
  <2>4. /\ DOMAIN integrating' = Cameras /\ DOMAIN power' = Cameras
        /\ \A d \in Cameras \ {c} : integrating'[d] = integrating[d] /\ power'[d] = power[d]
    BY <1>1 DEF IInv, Unique
  <2> HIDE DEF c
  <2> QED BY <1>1, <2>1, <2>2, <2>3, <2>4, ScheduleKeeps
<1>4. CASE integrating[c] # Off
  <2>1. /\ callbacks' = callbacks \ {scheduled[c]} /\ counter' = counter
        /\ scheduled' = [scheduled EXCEPT ![c] = Idle] /\ again' = again \cup {c}
    BY <1>4 DEF RunStart
  <2> HIDE DEF new
  <2> QED BY <1>1, <1>2, <1>2a, <2>1, ForgetKeeps DEF IInv, Unique, Queued, Exposing
<1> QED BY <1>3, <1>4

LEMMA RunResetKeeps ==
  ASSUME IInv, RunReset
  PROVE  IInv'
<1> DEFINE c == callback.of
           e == integrating[c]
           new == New("readout", c, e, now + e[1])
<1>1. /\ main = "run" /\ main' = "images" /\ callback' = Idle /\ callback.what = "reset"
      /\ integrating' = integrating /\ again' = again
  BY DEF RunReset, Run
<1>2. c \in Cameras /\ \A b \in callbacks : b.what \in Exposing => b.of # c
  BY <1>1, NothingElse DEF Exposing
<1>3. CASE e = Off
  <2>1. UNCHANGED <<callbacks, counter, power, scheduled>>
    BY <1>3 DEF RunReset
  <2> QED BY <1>1, <1>2, <1>3, <2>1, ForgetKeeps DEF IInv, Unique, Exposing
<1>4. CASE e # Off
  <2>1. /\ callbacks' = callbacks \cup {new} /\ counter' = counter + 1
        /\ scheduled' = [scheduled EXCEPT ![c] = new]
        /\ power' = [power EXCEPT ![c] = [light |-> 0, elapsed |-> 0, exact |-> 0]]
    BY <1>4 DEF RunReset, Add
  <2>2. new \notin Queued /\ new.id = counter /\ new.what = "readout" /\ new.of = c
    BY NewIsNew
  <2>3. [light |-> 0, elapsed |-> 0, exact |-> 0] # Off
    BY DEF Off
  <2> HIDE DEF new
  <2> QED BY <1>1, <1>2, <2>1, <2>2, <2>3, ScheduleKeeps DEF IInv, Unique, Queued, Exposing
<1> QED BY <1>3, <1>4

LEMMA RunReadoutKeeps ==
  ASSUME IInv, RunReadout
  PROVE  IInv'
<1> DEFINE c == callback.of
           new == New("reset", c, Off, now - callback.exposure[1] + callback.exposure[2])
<1>1. /\ main = "run" /\ main' = "images" /\ callback' = Idle /\ callback.what = "readout"
      /\ integrating' = integrating /\ again' = again
      /\ power' = [power EXCEPT ![c] = Off]
  BY DEF RunReadout, Run
<1>2. c \in Cameras /\ \A b \in callbacks : b.what \in Exposing => b.of # c
  BY <1>1, NothingElse DEF Exposing
<1>3. power[c] # Off
  BY <1>1 DEF IInv, Begun, Queued
<1>4. CASE integrating[c] = Off
  <2>1. UNCHANGED <<callbacks, counter, scheduled>>
    BY <1>4 DEF RunReadout
  <2> QED BY <1>1, <1>2, <1>4, <2>1, ForgetKeeps DEF IInv, Unique, Exposing
<1>5. CASE integrating[c] # Off
  <2>1. /\ callbacks' = callbacks \cup {new} /\ counter' = counter + 1
        /\ scheduled' = [scheduled EXCEPT ![c] = new]
    BY <1>3, <1>5 DEF RunReadout, Add
  <2>2. new \notin Queued /\ new.id = counter /\ new.what = "reset" /\ new.of = c
    BY NewIsNew
  <2> HIDE DEF new
  <2>3. /\ callbacks' \subseteq callbacks \cup {new} /\ new \in callbacks'
        /\ \A b \in callbacks : b.what \in Exposing => b.of # c
        /\ callbacks \ callbacks' = {} /\ new.what \in Exposing /\ new.what # "readout"
    BY <1>2, <2>1, <2>2 DEF Exposing
  <2>4. /\ DOMAIN integrating' = Cameras /\ DOMAIN power' = Cameras
        /\ \A d \in Cameras \ {c} : integrating'[d] = integrating[d] /\ power'[d] = power[d]
    BY <1>1 DEF IInv, Unique
  <2>5. callback.of = c
    OBVIOUS
  <2> HIDE DEF c
  <2> QED BY <1>1, <1>2, <2>1, <2>2, <2>3, <2>4, <2>5, ScheduleKeeps
<1> QED BY <1>4, <1>5

\* The end of an acquisition, which leaves a pending readout, and an actuation.
LEMMA RunEndKeeps ==
  ASSUME IInv, RunEnd \/ RunActuate
  PROVE  IInv'
<1>1. /\ main = "run" /\ main' = "images" /\ callback' = Idle
      /\ callback.what \notin Exposing
      /\ UNCHANGED <<callbacks, counter, power, scheduled>>
  BY DEF RunEnd, RunActuate, Run, Exposing, camera
<1>2. \/ /\ integrating' = [integrating EXCEPT ![callback.of] = Off]
         /\ again' = again \ {callback.of}
      \/ integrating' = integrating /\ again' = again
  BY DEF RunEnd, RunActuate, camera
<1>3. Numbered' /\ Unique' /\ Begun'
  BY <1>1, <1>2, IdleIsNone DEF IInv, Numbered, Unique, Begun, Queued, Exposing
<1>4. \A d \in Cameras : Pending(d) \subseteq Pending(d)'
  BY <1>1 DEF Pending, Exposing
<1>5. \A d \in Cameras \ again' : integrating'[d] # Off
                                    => d \notin again /\ integrating[d] # Off
  BY <1>2 DEF IInv, Unique
<1> QED BY <1>3, <1>4, <1>5 DEF IInv, KeepsExposing

-----------------------------------------------------------------------------
LEMMA Invariance == Spec => []IInv
<1>1. ASSUME IInv, [Next]_simVars
      PROVE  IInv'
  <2>1. CASE ComputeImages \/ PopCallback \/ NoCallback \/ Throttle \/ Advance
    BY <1>1, <2>1, LoopKeeps
  <2>2. CASE RunStart
    BY <1>1, <2>2, RunStartKeeps
  <2>3. CASE RunReset
    BY <1>1, <2>3, RunResetKeeps
  <2>4. CASE RunReadout
    BY <1>1, <2>4, RunReadoutKeeps
  <2>5. CASE RunEnd \/ RunActuate
    BY <1>1, <2>5, RunEndKeeps
  <2>6. ASSUME NEW c \in Cameras, StartCameraAcquisition(c) \/ EndCameraAcquisition(c)
        PROVE  IInv'
    BY <1>1, <2>6, RequestKeeps DEF StartCameraAcquisition, EndCameraAcquisition
  <2>7. CASE ActuateDM
    BY <1>1, <2>7, RequestKeeps DEF ActuateDM
  <2>8. CASE Ended \/ UNCHANGED simVars
    BY <1>1, <2>8 DEF Ended, simVars, camera, IInv, Numbered, Unique, Begun, Queued,
       KeepsExposing, Pending
  <2> QED BY <1>1, <2>1, <2>2, <2>3, <2>4, <2>5, <2>6, <2>7, <2>8 DEF Next
<1> QED BY <1>1, Initially, PTL DEF Spec

\* A camera has one reset or readout before it at most, although requests to start and
\* to end its acquisition come at any time.
THEOREM OneAtATime == Spec => []OneExposure
<1>1. IInv => OneExposure
  <2> SUFFICES ASSUME IInv, NEW c \in Cameras PROVE Cardinality(Pending(c)) <= 1
    BY DEF OneExposure
  <2>1. \A b \in Pending(c) : b = scheduled[c]
    BY DEF IInv, Unique, Pending, Queued, Exposing
  <2>2. Pending(c) = {} \/ Pending(c) = {scheduled[c]}
    BY <2>1
  <2>3. Cardinality({}) = 0 /\ Cardinality({scheduled[c]}) = 1
    BY FS_EmptySet, FS_Singleton
  <2> QED BY <2>2, <2>3
<1> QED BY <1>1, Invariance, PTL

\* A camera that acquires, and was not started while it did, has its next reset or readout
\* before it: a readout always finds what was integrated, and schedules the next exposure.
THEOREM ExposesOn == Spec => []KeepsExposing
<1>1. IInv => KeepsExposing
  BY DEF IInv
<1> QED BY <1>1, Invariance, PTL

-----------------------------------------------------------------------------
(* What the recursive functions of the optical model compute.              *)

\* Upstream satisfies its equation: the planes that are in every set which contains p and,
\* with a plane, those it depends on, are a solution.
LEMMA UpstreamEquation ==
  Upstream = [p \in Planes |-> {p} \cup UNION {Upstream[d] : d \in Dependencies[p]}]
<1> DEFINE Closed(S) == \A r \in S : Dependencies[r] \subseteq S
           Reach(p) == {q \in Planes : \A S \in SUBSET Planes : p \in S /\ Closed(S) => q \in S}
           f == [p \in Planes |-> Reach(p)]
<1>1. ASSUME NEW p \in Planes
      PROVE  Reach(p) = {p} \cup UNION {Reach(d) : d \in Dependencies[p]}
  <2>0. Dependencies[p] \subseteq Planes
    BY ModelAssumption
  <2> DEFINE S == {p} \cup UNION {Reach(d) : d \in Dependencies[p]}
  <2>1. S \subseteq Planes /\ p \in S
    OBVIOUS
  <2>2. \A d \in Dependencies[p] : d \in Reach(d)
    BY <2>0
  <2>3. ASSUME NEW r \in S PROVE Dependencies[r] \subseteq S
    <3>1. CASE r = p
      BY <3>1, <2>2
    <3>2. ASSUME NEW d \in Dependencies[p], r \in Reach(d)
          PROVE  Dependencies[r] \subseteq Reach(d)
      BY <3>2, <2>0, ModelAssumption
    <3> QED BY <3>1, <3>2
  <2>4. Reach(p) \subseteq S
    <3> HIDE DEF S
    <3> QED BY <2>1, <2>3
  <2>5. p \in Reach(p)
    OBVIOUS
  <2>6. ASSUME NEW d \in Dependencies[p] PROVE Reach(d) \subseteq Reach(p)
    <3> SUFFICES ASSUME NEW q \in Reach(d), NEW T \in SUBSET Planes, p \in T, Closed(T)
                 PROVE  q \in T
      OBVIOUS
    <3>1. d \in T
      BY <2>0
    <3> QED BY <3>1
  <2> QED BY <2>4, <2>5, <2>6
<1>2. f = [p \in Planes |-> {p} \cup UNION {f[d] : d \in Dependencies[p]}]
  <2>1. ASSUME NEW p \in Planes
        PROVE  Reach(p) = {p} \cup UNION {f[d] : d \in Dependencies[p]}
    <3>1. \A d \in Dependencies[p] : f[d] = Reach(d)
      BY ModelAssumption
    <3> HIDE DEF f, Reach
    <3> QED BY <1>1, <3>1
  <2> HIDE DEF Reach
  <2> QED BY <2>1
<1> HIDE DEF f
<1> QED BY <1>2 DEF Upstream

\* Minimal counterexamples: what holds of a plane if it holds of those it depends on,
\* holds of all.
LEMMA UpstreamPlanes ==
  ASSUME NEW p \in Planes
  PROVE  /\ p \in Upstream[p] /\ Upstream[p] \subseteq Planes
         /\ \A q \in Upstream[p] \ {p} : \E d \in Dependencies[p] : q \in Upstream[d]
<1>1. \A r \in Planes : Upstream[r] = {r} \cup UNION {Upstream[d] : d \in Dependencies[r]}
  BY UpstreamEquation
<1> DEFINE S == {r \in Planes : ~(Upstream[r] \subseteq Planes)}
<1>2. S = {}
  <2> SUFFICES ASSUME S # {} PROVE FALSE
    OBVIOUS
  <2>1. PICK r \in S : Dependencies[r] \cap S = {}
    <3> HIDE DEF S
    <3>1. S \in SUBSET Planes
      BY DEF S
    <3> QED BY <3>1, AcyclicAssumption
  <2>2. \A d \in Dependencies[r] : Upstream[d] \subseteq Planes
    BY <2>1, ModelAssumption
  <2> QED BY <1>1, <2>1, <2>2
<1> QED BY <1>1, <1>2

\* get_wavefronts returns the wavefronts as they are, if what is cached is current.
LEMMA GetTrue ==
  ASSUME CacheCurrent
  PROVE  \A p \in Planes : Get[p] = TrueWavefronts(p)
<1> DEFINE Chosen(p, q) == CHOOSE d \in Dependencies[p] : q \in Upstream[d]
           Step(f, p) ==
             IF cache[p] # None THEN cache[p]
             ELSE [q \in Upstream[p] |-> IF q = p THEN element[p] ELSE f[Chosen(p, q)][q]]
<1>1. ASSUME NEW p \in Planes, NEW f,
             \A d \in Dependencies[p] : f[d] = TrueWavefronts(d)
      PROVE  Step(f, p) = TrueWavefronts(p)
  <2>1. CASE cache[p] # None
    BY <2>1 DEF CacheCurrent
  <2>2. CASE cache[p] = None
    <3>1. ASSUME NEW q \in Upstream[p], q # p
          PROVE  f[Chosen(p, q)][q] = element[q]
      <4>1. \E d \in Dependencies[p] : q \in Upstream[d]
        BY <3>1, UpstreamPlanes
      <4>2. Chosen(p, q) \in Dependencies[p] /\ q \in Upstream[Chosen(p, q)]
        BY <4>1
      <4> HIDE DEF Chosen
      <4> QED BY <1>1, <4>2 DEF TrueWavefronts
    <3> HIDE DEF Chosen
    <3> QED BY <2>2, <3>1 DEF TrueWavefronts
  <2> QED BY <2>1, <2>2
<1> DEFINE t == [p \in Planes |-> TrueWavefronts(p)]
<1>2. t = [p \in Planes |-> Step(t, p)]
  <2>1. ASSUME NEW p \in Planes PROVE TrueWavefronts(p) = Step(t, p)
    <3>1. \A d \in Dependencies[p] : t[d] = TrueWavefronts(d)
      BY ModelAssumption
    <3> HIDE DEF t, Step
    <3> QED BY <1>1, <3>1
  <2> HIDE DEF Step
  <2> QED BY <2>1
<1>3. Get = [p \in Planes |-> Step(Get, p)]
  <2>1. \E f : f = [p \in Planes |-> Step(f, p)]
    <3> HIDE DEF t, Step
    <3> QED BY <1>2
  <2>2. (CHOOSE f : f = [p \in Planes |-> Step(f, p)])
          = [q \in Planes |-> Step(CHOOSE f : f = [p \in Planes |-> Step(f, p)], q)]
    <3> HIDE DEF Step
    <3> QED BY <2>1
  <2>3. Get = CHOOSE f : f = [p \in Planes |-> Step(f, p)]
    BY Zenon DEF Get
  <2> HIDE DEF Step
  <2> QED BY <2>2, <2>3
<1> DEFINE S == {p \in Planes : Get[p] # TrueWavefronts(p)}
<1>4. S = {}
  <2> SUFFICES ASSUME S # {} PROVE FALSE
    OBVIOUS
  <2>1. PICK p \in S : Dependencies[p] \cap S = {}
    <3> HIDE DEF S
    <3>1. S \in SUBSET Planes
      BY DEF S
    <3> QED BY <3>1, AcyclicAssumption
  <2>2. \A d \in Dependencies[p] : Get[d] = TrueWavefronts(d)
    BY <2>1, ModelAssumption
  <2>3. Get[p] = Step(Get, p)
    <3> HIDE DEF Step
    <3> QED BY <1>3
  <2> HIDE DEF Step
  <2> QED BY <1>1, <2>1, <2>2, <2>3
<1> QED BY <1>4

-----------------------------------------------------------------------------
(* The cache of the optical model.                                         *)

ModelInv == DOMAIN element = Planes /\ DOMAIN cache = Planes /\ CacheCurrent

LEMMA ModelInvActuate ==
  ASSUME ModelInv, NEW p, NEW setting, Actuate(p, setting)
  PROVE  ModelInv'
<1>1. DOMAIN element' = Planes /\ DOMAIN cache' = Planes
  BY DEF Actuate, PurgePlane, ModelInv
<1>2. ASSUME NEW q \in Planes, cache'[q] # None
      PROVE  cache'[q] = TrueWavefronts(q)'
  <2>1. p \notin Upstream[q] /\ cache'[q] = cache[q]
    BY <1>2 DEF Actuate, PurgePlane, Downstream
  <2>2. cache[q] = TrueWavefronts(q)
    BY <1>2, <2>1 DEF ModelInv, CacheCurrent
  <2>3. \A r \in Upstream[q] : element'[r] = element[r]
    BY <2>1, UpstreamPlanes DEF Actuate, ModelInv
  <2> QED BY <2>1, <2>2, <2>3 DEF TrueWavefronts
<1> QED BY <1>1, <1>2 DEF ModelInv, CacheCurrent

LEMMA ModelInvGet ==
  ASSUME ModelInv, NEW p, CacheAfter(p), element' = element
  PROVE  ModelInv'
<1>1. \A q \in Planes : cache'[q] = Get[q] \/ cache'[q] = cache[q]
  BY DEF CacheAfter
<1>2. \A q \in Planes : Get[q] = TrueWavefronts(q)
  BY GetTrue DEF ModelInv
<1>3. \A q \in Planes : TrueWavefronts(q)' = TrueWavefronts(q)
  BY DEF TrueWavefronts
<1> QED BY <1>1, <1>2, <1>3 DEF ModelInv, CacheCurrent, CacheAfter

\* Only the images that are computed and an actuation change the optical model.
LEMMA ModelInvNext ==
  ASSUME ModelInv, [Next]_simVars
  PROVE  ModelInv'
<1>1. CASE UNCHANGED modelVars
  BY <1>1 DEF modelVars, ModelInv, CacheCurrent, TrueWavefronts
<1>2. CASE ComputeImages
  <2>1. element' = element /\ (CacheAfter(Camera) \/ UNCHANGED cache)
    BY <1>2 DEF ComputeImages
  <2> QED BY <1>1, <2>1, ModelInvGet DEF modelVars
<1>3. CASE RunActuate
  BY <1>3, ModelInvActuate DEF RunActuate
<1>4. CASE PopCallback \/ NoCallback \/ Throttle \/ Advance \/ RunStart \/ RunReset
           \/ RunReadout \/ RunEnd
  BY <1>1, <1>4 DEF PopCallback, NoCallback, Throttle, Advance, RunStart, RunReset,
     RunReadout, RunEnd
<1>5. CASE Ended \/ UNCHANGED simVars
  BY <1>1, <1>5 DEF Ended, simVars
<1>6. ASSUME NEW c \in Cameras, StartCameraAcquisition(c) \/ EndCameraAcquisition(c)
      PROVE  UNCHANGED modelVars
  BY <1>6 DEF StartCameraAcquisition, EndCameraAcquisition, Request
<1>7. CASE ActuateDM
  BY <1>1, <1>7 DEF ActuateDM, Request
<1> QED BY <1>1, <1>2, <1>3, <1>4, <1>5, <1>6, <1>7 DEF Next

LEMMA ModelInvInit == SimInit => ModelInv
BY DEF SimInit, ModelInit, ModelInv, CacheCurrent

\* What purge_plane leaves in the cache is current, for every graph of planes without a
\* cycle, whatever is computed and actuated.
THEOREM CachedIsCurrent == Spec => []CacheCurrent
<1>1. ModelInv => CacheCurrent
  BY DEF ModelInv
<1> QED BY <1>1, ModelInvInit, ModelInvNext, PTL DEF Spec

-----------------------------------------------------------------------------
(* What is integrated.                                                     *)

Typed ==
  /\ now \in Int
  /\ \A b \in Queued : b.time \in Int
  /\ \A b \in Queued : b.what \in {"start", "readout"} => b.exposure \in Exposures
  /\ \A c \in Cameras : integrating[c] # Off => integrating[c] \in Exposures
  /\ \A c \in Cameras : power[c] # Off => power[c].elapsed \in Int

\* The light is that of the optical model, from its computation to its use.
Lit ==
  main \in {"pop", "advance"} /\ (\E c \in Cameras : power[c] # Off)
    => light = TrueWavefronts(Camera)[Mirror]

Exact == \A c \in Cameras : power[c] # Off => power[c].light = power[c].exact

\* What was integrated and what is left until the readout make up the integration time.
Timed ==
  \A b \in Queued :
    b.what = "readout" => power[b.of].elapsed + (b.time - now) = b.exposure[1]

\* A callback that is run is run at its time.
OnTime == main = "run" => callback.time = now

ExactInv == Typed /\ Lit /\ Exact /\ Timed /\ OnTime

LEMMA ExactInitially == SimInit => ExactInv
<1> SUFFICES ASSUME SimInit PROVE ExactInv
  OBVIOUS
<1>1. Queued = {Idle}
  BY DEF SimInit, Queued
<1>2. Idle.time \in Int
  BY DEF Idle
<1> QED BY <1>1, <1>2, IdleIsNone DEF SimInit, ExactInv, Typed, Lit, Exact, Timed, OnTime

LEMMA RequestExact ==
  ASSUME IInv, ExactInv, NEW what \in {"start", "end", "actuate"}, NEW of, NEW exposure,
         what = "start" => exposure \in Exposures,
         Request(what, of, exposure)
  PROVE  ExactInv'
<1> DEFINE new == New(what, of, exposure, now)
<1>1. /\ callbacks' = callbacks \cup {new} /\ callback' = callback
      /\ UNCHANGED <<now, main, light, integrating, power, element>>
  BY DEF Request, Add, camera, modelVars
<1>2. /\ new.what = what /\ new.exposure = exposure /\ new.time = now
  BY DEF New
<1>3. Queued' = Queued \cup {new}
  BY <1>1 DEF Queued
<1> HIDE DEF new
<1>4. Typed'
  BY <1>1, <1>2, <1>3 DEF ExactInv, Typed
<1>5. Lit' /\ Exact' /\ OnTime'
  BY <1>1 DEF ExactInv, Lit, Exact, OnTime, TrueWavefronts
<1>6. Timed'
  BY <1>1, <1>2, <1>3 DEF ExactInv, Timed
<1> QED BY <1>4, <1>5, <1>6 DEF ExactInv

LEMMA LoopExact ==
  ASSUME IInv, ModelInv, ExactInv,
         ComputeImages \/ PopCallback \/ NoCallback \/ Throttle
  PROVE  ExactInv'
<1>1. UNCHANGED <<now, integrating, power, element>>
  BY DEF ComputeImages, PopCallback, NoCallback, Throttle, camera, modelVars
<1>2. Queued' \subseteq Queued \cup {Idle}
  BY DEF ComputeImages, PopCallback, NoCallback, Throttle, Queued
<1>3. Idle.time \in Int
  BY DEF Idle
<1>4. Typed' /\ Exact' /\ Timed'
  BY <1>1, <1>2, <1>3, IdleIsNone DEF ExactInv, Typed, Exact, Timed
<1>5. main' # "run"
  BY DEF ComputeImages, PopCallback, NoCallback, Throttle
<1>6. TrueWavefronts(Camera)' = TrueWavefronts(Camera)
  BY <1>1 DEF TrueWavefronts
<1>7. CASE ComputeImages
  <2>1. Get[Camera] = TrueWavefronts(Camera)
    BY GetTrue, SimulatorAssumption DEF ModelInv
  <2> QED BY <1>1, <1>4, <1>5, <1>6, <1>7, <2>1 DEF ComputeImages, ExactInv, Lit, OnTime
<1>8. CASE PopCallback
  BY <1>1, <1>4, <1>5, <1>6, <1>8 DEF PopCallback, ExactInv, Lit, OnTime
<1>9. CASE NoCallback \/ Throttle
  BY <1>1, <1>4, <1>5, <1>9 DEF NoCallback, Throttle, ExactInv, Lit, OnTime
<1> QED BY <1>7, <1>8, <1>9

\* As time progresses, the time that is left is integrated, also for a callback that is
\* late, when time goes back.
LEMMA AdvanceExact ==
  ASSUME IInv, ExactInv, Advance
  PROVE  ExactInv'
<1> DEFINE t == callback.time - now
<1>1. /\ main = "advance" /\ main' = "run" /\ now' = callback.time
      /\ power' = [c \in Cameras |-> IF power[c] = Off THEN Off ELSE Integrated(power[c], t)]
      /\ UNCHANGED <<callbacks, callback, light, integrating, element>>
  BY DEF Advance, modelVars
<1>2. Queued' = Queued
  BY <1>1 DEF Queued
<1>3. now \in Int /\ now' \in Int /\ t \in Int /\ now' = now + t
  BY <1>1 DEF ExactInv, Typed, Queued
<1>4. \A p : /\ Integrated(p, t).light = p.light + light * t
             /\ Integrated(p, t).elapsed = p.elapsed + t
             /\ Integrated(p, t).exact = p.exact + TrueWavefronts(Camera)[Mirror] * t
             /\ Integrated(p, t) # Off
  BY DEF Integrated, Off
<1>5. \A c \in Cameras : (power[c] # Off <=> power'[c] # Off)
                         /\ (power[c] # Off => power'[c] = Integrated(power[c], t))
  BY <1>1, <1>4
<1> HIDE DEF t
<1>6. Typed'
  BY <1>1, <1>2, <1>3, <1>4, <1>5 DEF ExactInv, Typed
<1>7. Exact'
  <2>1. ASSUME NEW c \in Cameras, power[c] # Off
        PROVE  light = TrueWavefronts(Camera)[Mirror] /\ power[c].light = power[c].exact
    BY <1>1, <2>1 DEF ExactInv, Lit, Exact
  <2> QED BY <1>4, <1>5, <2>1 DEF Exact
<1>8. Timed'
  <2> SUFFICES ASSUME NEW b \in Queued, b.what = "readout"
               PROVE  power'[b.of].elapsed + (b.time - now') = b.exposure[1]
    BY <1>2 DEF Timed
  <2>1. b.of \in Cameras /\ power[b.of] # Off
    BY DEF IInv, Unique, Begun, Exposing
  <2>2. power[b.of].elapsed + (b.time - now) = b.exposure[1]
    BY DEF ExactInv, Timed
  <2>3. power[b.of].elapsed \in Int /\ b.time \in Int
    BY <2>1 DEF ExactInv, Typed
  <2>4. power'[b.of].elapsed = power[b.of].elapsed + t
    BY <1>4, <1>5, <2>1
  <2> QED BY <1>3, <2>2, <2>3, <2>4
<1>9. Lit' /\ OnTime'
  BY <1>1 DEF Lit, OnTime
<1> QED BY <1>6, <1>7, <1>8, <1>9 DEF ExactInv

\* A callback that was run leaves the queue, and schedules at most one.
LEMMA RunExact ==
  ASSUME IInv, ExactInv, RunStart \/ RunReset \/ RunReadout \/ RunEnd \/ RunActuate
  PROVE  ExactInv'
<1>1. main = "run" /\ main' = "images" /\ callback' = Idle /\ now' = now /\ callback \in Queued
  BY DEF RunStart, RunReset, RunReadout, RunEnd, RunActuate, Run, done, Queued
<1>2. Lit' /\ OnTime'
  BY <1>1 DEF Lit, OnTime
<1>3. Idle.time \in Int
  BY DEF Idle
<1>4. \A what, of, exposure, t : LET new == New(what, of, exposure, t) IN
        new.time = t /\ new.what = what /\ new.of = of /\ new.exposure = exposure
  BY DEF New
<1>5. CASE RunEnd \/ RunActuate
  <2>1. UNCHANGED <<callbacks, power>>
        /\ \A c \in Cameras : integrating'[c] = integrating[c] \/ integrating'[c] = Off
    BY <1>5 DEF RunEnd, RunActuate, camera, IInv, Unique
  <2>2. Queued' \subseteq Queued \cup {Idle}
    BY <1>1, <2>1 DEF Queued
  <2> QED BY <1>1, <1>2, <1>3, <2>1, <2>2, IdleIsNone
          DEF ExactInv, Typed, Exact, Timed
<1>6. CASE RunStart
  <2> DEFINE new == New("reset", callback.of, Off, now)
  <2>1. /\ callbacks' \subseteq callbacks \cup {new} /\ power' = power
        /\ integrating' = [integrating EXCEPT ![callback.of] = callback.exposure]
        /\ callback.what = "start"
    BY <1>6 DEF RunStart, Run, Replace
  <2>2. Queued' \subseteq Queued \cup {Idle, new}
    BY <1>1, <2>1 DEF Queued
  <2>3. new.time = now /\ new.what = "reset"
    BY <1>4
  <2> HIDE DEF new
  <2>4. \A c \in Cameras : integrating'[c] = integrating[c]
                           \/ integrating'[c] = callback.exposure
    BY <2>1 DEF IInv, Unique
  <2>5. callback.exposure \in Exposures
    BY <1>1, <2>1 DEF ExactInv, Typed
  <2> QED BY <1>1, <1>2, <1>3, <2>1, <2>2, <2>3, <2>4, <2>5, IdleIsNone
          DEF ExactInv, Typed, Exact, Timed
<1>7. CASE RunReset
  <2> DEFINE c == callback.of
             e == integrating[c]
             new == New("readout", c, e, now + e[1])
  <2>1. callback.what = "reset" /\ integrating' = integrating
    BY <1>7 DEF RunReset, Run
  <2>2. c \in Cameras /\ \A b \in callbacks : b.what \in Exposing => b.of # c
    BY <1>1, <2>1, NothingElse DEF Exposing
  <2>3. CASE e = Off
    <3>1. UNCHANGED <<callbacks, power>>
      BY <1>7, <2>3 DEF RunReset
    <3>2. Queued' \subseteq Queued \cup {Idle}
      BY <1>1, <3>1 DEF Queued
    <3> HIDE DEF c, e
    <3> QED BY <1>1, <1>2, <1>3, <2>1, <3>1, <3>2, IdleIsNone
            DEF ExactInv, Typed, Exact, Timed
  <2>4. CASE e # Off
    <3> DEFINE zero == [light |-> 0, elapsed |-> 0, exact |-> 0]
    <3>1. callbacks' = callbacks \cup {new} /\ power' = [power EXCEPT ![c] = zero]
      BY <1>7, <2>4 DEF RunReset, Add
    <3>2. Queued' = callbacks \cup {Idle, new}
      BY <1>1, <3>1 DEF Queued
    <3>3. e \in Exposures /\ e[1] \in Int /\ now \in Int
      BY <2>2, <2>4, SimulatorAssumption DEF ExactInv, Typed
    <3>4. new.time = now + e[1] /\ new.what = "readout" /\ new.of = c /\ new.exposure = e
      BY <1>4
    <3>5. zero.elapsed = 0 /\ zero.light = zero.exact
      OBVIOUS
    <3>6. power'[c] = zero /\ \A d \in Cameras \ {c} : power'[d] = power[d]
      BY <2>2, <3>1 DEF IInv, Unique
    <3> HIDE DEF new, e, c, zero
    <3>7. Typed'
      BY <1>1, <1>3, <2>1, <2>2, <3>2, <3>3, <3>4, <3>5, <3>6, IdleIsNone
      DEF ExactInv, Typed, Queued
    <3>8. Exact'
      BY <3>5, <3>6 DEF ExactInv, Exact
    <3>9. Timed'
      <4> SUFFICES ASSUME NEW b \in Queued', b.what = "readout"
                   PROVE  power'[b.of].elapsed + (b.time - now') = b.exposure[1]
        BY DEF Timed
      <4>1. CASE b = new
        BY <4>1, <1>1, <3>3, <3>4, <3>5, <3>6
      <4>2. CASE b # new
        <5>1. b \in callbacks /\ b.of \in Cameras \ {c}
          BY <4>2, <2>2, <3>2, IdleIsNone DEF IInv, Unique, Queued, Exposing
        <5> QED BY <1>1, <3>6, <5>1 DEF ExactInv, Timed, Queued
      <4> QED BY <4>1, <4>2
    <3> QED BY <1>2, <3>7, <3>8, <3>9 DEF ExactInv
  <2> QED BY <2>3, <2>4
<1>8. CASE RunReadout
  <2> DEFINE c == callback.of
             new == New("reset", c, Off, now - callback.exposure[1] + callback.exposure[2])
  <2>1. /\ callback.what = "readout" /\ integrating' = integrating
        /\ power' = [power EXCEPT ![c] = Off]
        /\ callbacks' \subseteq callbacks \cup {new}
    BY <1>8 DEF RunReadout, Run, Add
  <2>2. c \in Cameras /\ \A b \in callbacks : b.what \in Exposing => b.of # c
    BY <1>1, <2>1, NothingElse DEF Exposing
  <2>3. Queued' \subseteq callbacks \cup {Idle, new}
    BY <1>1, <2>1 DEF Queued
  <2>4. callback.exposure \in Exposures /\ now \in Int
    BY <1>1, <2>1 DEF ExactInv, Typed
  <2>5. new.time \in Int /\ new.what = "reset"
    BY <1>4, <2>4, SimulatorAssumption
  <2>6. power'[c] = Off /\ \A d \in Cameras \ {c} : power'[d] = power[d]
    BY <2>1, <2>2 DEF IInv, Unique
  <2> HIDE DEF new, c
  <2>7. Typed'
    BY <1>1, <1>3, <2>1, <2>2, <2>3, <2>5, <2>6, IdleIsNone DEF ExactInv, Typed, Queued
  <2>8. Exact'
    BY <2>6 DEF ExactInv, Exact
  <2>9. Timed'
    <3> SUFFICES ASSUME NEW b \in Queued', b.what = "readout"
                 PROVE  power'[b.of].elapsed + (b.time - now') = b.exposure[1]
      BY DEF Timed
    <3>1. b \in callbacks /\ b.of \in Cameras \ {c}
      BY <2>2, <2>3, <2>5, IdleIsNone DEF IInv, Unique, Queued, Exposing
    <3> QED BY <1>1, <2>6, <3>1 DEF ExactInv, Timed, Queued
  <2> QED BY <1>2, <2>7, <2>8, <2>9 DEF ExactInv
<1> QED BY <1>5, <1>6, <1>7, <1>8

LEMMA ExactInvNext ==
  ASSUME IInv, ModelInv, ExactInv, [Next]_simVars
  PROVE  ExactInv'
<1>1. CASE ComputeImages \/ PopCallback \/ NoCallback \/ Throttle
  BY <1>1, LoopExact
<1>2. CASE Advance
  BY <1>2, AdvanceExact
<1>3. CASE RunStart \/ RunReset \/ RunReadout \/ RunEnd \/ RunActuate
  BY <1>3, RunExact
<1>4. ASSUME NEW c \in Cameras, StartCameraAcquisition(c) \/ EndCameraAcquisition(c)
      PROVE  ExactInv'
  <2>1. CASE StartCameraAcquisition(c)
    BY <2>1, RequestExact DEF StartCameraAcquisition
  <2>2. CASE EndCameraAcquisition(c)
    BY <2>2, RequestExact DEF EndCameraAcquisition
  <2> QED BY <1>4, <2>1, <2>2
<1>5. CASE ActuateDM
  BY <1>5, RequestExact DEF ActuateDM
<1>6. CASE Ended \/ UNCHANGED simVars
  BY <1>6 DEF Ended, simVars, camera, modelVars, ExactInv, Typed, Lit, Exact, Timed, OnTime,
     Queued, TrueWavefronts
<1> QED BY <1>1, <1>2, <1>3, <1>4, <1>5, <1>6 DEF Next

\* An image that is read out was integrated for its integration time exactly, with the
\* light of each moment, although callbacks for the current time come late and time then
\* goes back; for any integration times, intervals, cameras and graph of planes.
THEOREM ReadoutsExact == Spec => []ReadoutExact
<1>1. IInv /\ ExactInv => ReadoutExact
  <2> SUFFICES ASSUME IInv, ExactInv, main = "run", callback.what = "readout",
                      power[callback.of] # Off
               PROVE  /\ power[callback.of].elapsed = callback.exposure[1]
                      /\ power[callback.of].light = power[callback.of].exact
    BY DEF ReadoutExact
  <2>1. callback \in Queued /\ callback.of \in Cameras
    BY DEF Queued, IInv, Unique, Exposing
  <2>2. /\ power[callback.of].elapsed + (callback.time - now) = callback.exposure[1]
        /\ callback.time = now /\ now \in Int /\ power[callback.of].elapsed \in Int
    BY <2>1 DEF ExactInv, Timed, OnTime, Typed
  <2> QED BY <2>1, <2>2 DEF ExactInv, Exact
<1> QED BY <1>1, ExactInitially, ExactInvNext, Invariance, ModelInvInit, ModelInvNext, PTL
        DEF Spec

-----------------------------------------------------------------------------
(* Types.                                                                   *)

\* Time is never before the start, although it may go back.
QueueType ==
  /\ \A b \in Queued : b.time \in Nat
  /\ \A b \in Queued : b.what = "actuate" => b.of \in Settings
  /\ callback.time <= MaxTime

SimTyped ==
  /\ QueueType
  /\ element \in [Planes -> Settings]
  /\ now \in 0 .. MaxTime /\ light \in Settings \cup {0} /\ requests \in 0 .. MaxRequests
  /\ integrating \in [Cameras -> Exposures \cup {Off}] /\ again \subseteq Cameras

LEMMA SimTypedInit == SimInit => SimTyped
<1> SUFFICES ASSUME SimInit PROVE SimTyped
  OBVIOUS
<1>1. Queued = {Idle} /\ callback = Idle
  BY DEF SimInit, Queued
<1>2. QueueType
  BY <1>1, SimulatorAssumption DEF QueueType, Idle
<1> QED BY <1>2, SimulatorAssumption DEF SimInit, ModelInit, SimTyped

LEMMA SimTypedRequest ==
  ASSUME SimTyped, NEW what, NEW of, NEW exposure, Request(what, of, exposure),
         what = "actuate" => of \in Settings
  PROVE  SimTyped'
<1> DEFINE new == New(what, of, exposure, now)
<1>1. /\ callbacks' = callbacks \cup {new} /\ callback' = callback
      /\ requests < MaxRequests /\ requests' = requests + 1
      /\ UNCHANGED <<now, light, integrating, again, element>>
  BY DEF Request, Add, camera, modelVars
<1>2. new.what = what /\ new.of = of /\ new.time = now
  BY DEF New
<1> HIDE DEF new
<1>3. Queued' = Queued \cup {new}
  BY <1>1 DEF Queued
<1>4. QueueType'
  BY <1>1, <1>2, <1>3 DEF SimTyped, QueueType
<1> QED BY <1>1, <1>4, SimulatorAssumption DEF SimTyped

LEMMA SimTypedLoop ==
  ASSUME IInv, ModelInv, SimTyped, Mirror \in Upstream[Camera],
         ComputeImages \/ PopCallback \/ NoCallback \/ Throttle \/ Advance
  PROVE  SimTyped'
<1>1. UNCHANGED <<integrating, again, element, requests>>
  BY DEF ComputeImages, PopCallback, NoCallback, Throttle, Advance, camera, modelVars
<1>2. now' \in 0 .. MaxTime
  <2>1. CASE Advance
    <3>1. now' = callback.time /\ callback.time \in Nat /\ callback.time <= MaxTime
      BY <2>1 DEF Advance, SimTyped, QueueType, Queued
    <3> QED BY <3>1, SimulatorAssumption
  <2>2. CASE ComputeImages \/ PopCallback \/ NoCallback \/ Throttle
    BY <2>2 DEF ComputeImages, PopCallback, NoCallback, Throttle, SimTyped
  <2> QED BY <2>1, <2>2
<1>3. light' \in Settings \cup {0}
  <2>1. Get[Camera][Mirror] \in Settings
    <3>1. Get[Camera] = TrueWavefronts(Camera) /\ Mirror \in Planes
      BY GetTrue, SimulatorAssumption DEF ModelInv
    <3> QED BY <3>1 DEF TrueWavefronts, SimTyped
  <2> QED BY <2>1 DEF ComputeImages, PopCallback, NoCallback, Throttle, Advance, SimTyped
<1>4. QueueType'
  <2>1. Idle.time = 0 /\ Idle.what = "none"
    BY DEF Idle
  <2>2. Queued' \subseteq Queued \cup {Idle}
    BY DEF ComputeImages, PopCallback, NoCallback, Throttle, Advance, Queued
  <2>3. callback' = callback \/ callback' = Idle \/ callback'.time <= MaxTime
    BY DEF ComputeImages, PopCallback, NoCallback, Throttle, Advance
  <2> QED BY <2>1, <2>2, <2>3, SimulatorAssumption DEF SimTyped, QueueType
<1> QED BY <1>1, <1>2, <1>3, <1>4 DEF SimTyped

LEMMA SimTypedRun ==
  ASSUME IInv, ExactInv, SimTyped, RunStart \/ RunReset \/ RunReadout \/ RunEnd \/ RunActuate
  PROVE  SimTyped'
<1>1. /\ callback' = Idle /\ callback \in Queued /\ UNCHANGED <<now, light, requests>>
      /\ now \in Nat
  BY SimulatorAssumption DEF RunStart, RunReset, RunReadout, RunEnd, RunActuate, Run, done, Queued,
     SimTyped
<1>2. Idle.time = 0 /\ Idle.what = "none"
  BY DEF Idle
<1>3. element' \in [Planes -> Settings]
  <2>1. CASE RunActuate
    <3>1. callback.of \in Settings /\ Mirror \in Planes
      BY <1>1, <2>1, SimulatorAssumption DEF RunActuate, Run, SimTyped, QueueType
    <3> QED BY <2>1, <3>1 DEF RunActuate, Actuate, SimTyped
  <2>2. CASE RunStart \/ RunReset \/ RunReadout \/ RunEnd
    BY <2>2 DEF RunStart, RunReset, RunReadout, RunEnd, modelVars, SimTyped
  <2> QED BY <2>1, <2>2
<1>4. integrating' \in [Cameras -> Exposures \cup {Off}] /\ again' \subseteq Cameras
  <2>1. CASE RunStart
    <3>1. callback.of \in Cameras /\ callback.exposure \in Exposures
      BY <1>1, <2>1 DEF RunStart, Run, IInv, Unique, ExactInv, Typed
    <3> QED BY <2>1, <3>1 DEF RunStart, SimTyped
  <2>2. CASE RunReset \/ RunReadout \/ RunEnd \/ RunActuate
    BY <2>2 DEF RunReset, RunReadout, RunEnd, RunActuate, camera, SimTyped
  <2> QED BY <2>1, <2>2
<1>5. ASSUME NEW t \in Nat, NEW what \in {"reset", "readout"}, NEW of, NEW exposure,
             callbacks' \subseteq callbacks \cup {New(what, of, exposure, t)}
      PROVE  QueueType'
  <2> DEFINE new == New(what, of, exposure, t)
  <2>1. new.time = t /\ new.what = what
    BY DEF New
  <2> HIDE DEF new
  <2>2. Queued' \subseteq Queued \cup {Idle, new}
    BY <1>1, <1>5 DEF Queued, new
  <2> QED BY <1>1, <1>2, <1>5, <2>1, <2>2, SimulatorAssumption DEF SimTyped, QueueType
<1>6. QueueType'
  <2>1. CASE RunStart
    <3>1. callbacks' \subseteq callbacks \cup {New("reset", callback.of, Off, now)}
      BY <2>1 DEF RunStart, Replace
    <3> QED BY <1>1, <1>5, <3>1
  <2>2. CASE RunReset
    <3> DEFINE e == integrating[callback.of]
    <3>1. CASE e = Off
      <4>1. callbacks' = callbacks
        BY <2>2, <3>1 DEF RunReset
      <4> QED BY <1>1, <1>5, <4>1
    <3>2. CASE e # Off
      <4>1. callbacks' = callbacks \cup {New("readout", callback.of, e, now + e[1])}
        BY <2>2, <3>2 DEF RunReset, Add
      <4>2. callback.of \in Cameras
        BY <1>1, <2>2 DEF RunReset, Run, IInv, Unique, Exposing
      <4>3. now + e[1] \in Nat
        BY <1>1, <3>2, <4>2, SimulatorAssumption DEF ExactInv, Typed
      <4> QED BY <1>5, <4>1, <4>3
    <3> QED BY <3>1, <3>2
  <2>3. CASE RunReadout
    <3> DEFINE e == callback.exposure
    <3>1. callbacks' \subseteq callbacks \cup {New("reset", callback.of, Off, now - e[1] + e[2])}
      BY <2>3 DEF RunReadout, Add
    <3>2. e \in Exposures
      BY <1>1, <2>3 DEF RunReadout, Run, ExactInv, Typed
    <3>3. now - e[1] + e[2] \in Nat
      BY <1>1, <3>2, SimulatorAssumption
    <3> QED BY <1>5, <3>1, <3>3
  <2>4. CASE RunEnd \/ RunActuate
    <3>1. callbacks' = callbacks
      BY <2>4 DEF RunEnd, RunActuate
    <3> QED BY <1>1, <1>5, <3>1
  <2> QED BY <2>1, <2>2, <2>3, <2>4
<1> QED BY <1>1, <1>3, <1>4, <1>6 DEF SimTyped

LEMMA SimTypedNext ==
  ASSUME IInv, ModelInv, ExactInv, SimTyped, Mirror \in Upstream[Camera], [Next]_simVars
  PROVE  SimTyped'
<1>1. CASE ComputeImages \/ PopCallback \/ NoCallback \/ Throttle \/ Advance
  BY <1>1, SimTypedLoop
<1>2. CASE RunStart \/ RunReset \/ RunReadout \/ RunEnd \/ RunActuate
  BY <1>2, SimTypedRun
<1>3. ASSUME NEW c \in Cameras, StartCameraAcquisition(c) \/ EndCameraAcquisition(c)
      PROVE  SimTyped'
  BY <1>3, SimTypedRequest DEF StartCameraAcquisition, EndCameraAcquisition
<1>4. CASE ActuateDM
  BY <1>4, SimTypedRequest DEF ActuateDM
<1>5. CASE Ended \/ UNCHANGED simVars
  BY <1>5 DEF Ended, simVars, camera, modelVars, SimTyped, QueueType, Queued
<1> QED BY <1>1, <1>2, <1>3, <1>4, <1>5 DEF Next

\* Every variable keeps its type: simulated time is never before its start although it may
\* go back, and a cached wavefront is made of settings of the elements before it.  The
\* mirror that is actuated is one of those before the cameras.
THEOREM TypeCorrect ==
  ASSUME Mirror \in Upstream[Camera]
  PROVE  Spec => []SimTypeOK
<1>1. SimTyped /\ ModelInv => ModelTypeOK
  <2> SUFFICES ASSUME SimTyped, ModelInv, NEW p \in Planes, cache[p] # None
               PROVE  cache[p] \in [Upstream[p] -> Settings]
    BY DEF ModelTypeOK, SimTyped
  <2>1. cache[p] = [q \in Upstream[p] |-> element[q]]
    BY DEF ModelInv, CacheCurrent, TrueWavefronts
  <2>2. \A q \in Upstream[p] : element[q] \in Settings
    BY UpstreamPlanes DEF SimTyped
  <2> QED BY <2>1, <2>2
<1>2. IInv /\ ModelInv /\ SimTyped => SimTypeOK
  BY <1>1 DEF IInv, Numbered, SimTyped, QueueType, Queued, SimTypeOK
<1>3. IInv /\ ModelInv /\ ExactInv /\ SimTyped /\ [Next]_simVars => SimTyped'
  BY SimTypedNext
<1> QED BY <1>2, <1>3, SimTypedInit, ExactInitially, ExactInvNext, Invariance, ModelInvInit,
           ModelInvNext, PTL DEF Spec
================================================================================
