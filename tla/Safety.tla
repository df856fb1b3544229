-------------------------------- MODULE Safety --------------------------------
(***************************************************************************)
(* The safety of the testbed, over time.  Sensors measure the conditions    *)
(* and submit them; the safety monitor judges the latest frame of each, and  *)
(* submits a verdict; a service that requires safety looks at the verdict    *)
(* before it opens, and then in a thread of its own.  Every service also     *)
(* looks at the heartbeats of the testbed, and shuts down when they end.    *)
(* All of it may fail: a measurement, a process that is killed or suspended, *)
(* the testbed.                                                            *)
(*                                                                         *)
(* Time is discrete; it passes when nobody has anything to do, so that a     *)
(* thread runs in the tick in which its sleep ends.                         *)
(***************************************************************************)
EXTENDS Integers, Sequences, SequencesExt, FiniteSets

CONSTANTS
  Safeties,           \* checked_safeties: the sensors, in the order they are checked
  Monitor, Service,   \* the safety monitor, and a service that requires safety
  Kinds,              \* which services to consider as sensors
  SafetyInterval, HeartbeatLiveness, StartTimeout,     \* constants of the core
  Interval, CheckInterval, SafeInterval,               \* of the configuration
  MeasureTime, OpenTime, StopTime,  \* what a measurement, open and main may take
  MaxFaults, MaxStarts              \* bounds: what goes wrong, by the kind of the first
                                    \* sensor, and starts by a client

Sensors == ToSet(Safeties)
Others  == Sensors \cup {Monitor}
Procs   == Others \cup {Service}

ASSUME SafetyAssumption ==
  /\ Safeties \in Seq(Sensors) /\ Safeties # <<>>
  /\ Monitor # Service /\ Sensors \cap {Monitor, Service} = {}
  /\ {SafetyInterval, HeartbeatLiveness, StartTimeout, Interval, CheckInterval} \subseteq Nat \ {0}
  /\ {SafeInterval, MeasureTime, OpenTime, StopTime, MaxStarts} \subseteq Nat
  /\ MaxFaults \in [Kinds -> Nat]

VARIABLES
  kind,               \* which service each sensor is
  safe, danger,       \* the conditions, and since when they are unsafe, or a process
                      \* that was suspended has gone on
  testbed, silence,   \* "up", "suspended" or "dead", and the age of its last heartbeat
  proc,               \* the processes
  guard,              \* the thread MonitorSafety, and the check before opening
  frame,              \* the latest frame of a sensor and of the monitor: age and value
  measured, pause,    \* what a sensor measures, and the sleep that follows
  clock, at, verdict, \* the monitor's check: the age of current_time, the next safety,
                      \* whether all were safe
  faults, starts,
  calm                \* since when everything runs and is as it should be

conditions == <<kind, safe, danger>>
sensing    == <<measured, pause>>
check      == <<clock, at, verdict>>
bounds     == <<faults, starts>>
vars == <<conditions, testbed, silence, proc, guard, frame, sensing, check, bounds, calm>>

None == [age |-> -1, good |-> FALSE]

\* The longest that a service operates in unsafe conditions: the measurement and the frame
\* that was still accepted, the check that accepted it, the verdict that was still
\* accepted, the sleep of the service, a monitor that it waits for, and its end.  How long
\* the monitor may take until it says that all is well again.  How long a service outlives
\* the heartbeats: until its thread finds them old, or until it has waited for a monitor
\* and opened; then both main and the thread that looks at the safety end.
CheckTime  == Len(Safeties) * StartTimeout
Longest(a, b) == IF a > b THEN a ELSE b
Accepted   == MeasureTime + SafeInterval + CheckTime
Reaction   == Accepted + 3 * SafetyInterval + Longest(OpenTime, SafetyInterval)
                + StartTimeout + StopTime
Recovery   == MeasureTime + Interval + Longest(MeasureTime, Interval) + CheckInterval
Farewell   == Longest(HeartbeatLiveness, StartTimeout + OpenTime)
                + Longest(StopTime, StartTimeout)

\* Ages are counted up to what they are compared with.
Older(age, bound) == IF age > bound THEN age ELSE age + 1

-----------------------------------------------------------------------------
(* The sensors.  The simulated ones report what is always in range.         *)

Simulated(s) == kind[s] \in {"snmp_ups_sim", "thorlabs_tsp01_sim", "thorlabs_pm_sim",
                             "omega_ithx_w3_sim"}

\* The frame that open submits, if it does.
SnmpUpsOpen    == [age |-> 0, good |-> FALSE]
SnmpUpsSimOpen == [age |-> 0, good |-> TRUE]
FirstFrame(s) ==
  CASE kind[s] = "snmp_ups"     -> SnmpUpsOpen
    [] kind[s] = "snmp_ups_sim" -> SnmpUpsSimOpen
    [] OTHER                    -> None

\* main sleeps for what is left of the interval, or for the whole of it.
SnmpUpsPause(took) == Longest(Interval - took, 0)
OmegaPause(took)   == Longest(Interval - took, 0)
Pause(s, took) ==
  CASE kind[s] = "snmp_ups"      -> SnmpUpsPause(took)
    [] kind[s] = "omega_ithx_w3" -> OmegaPause(took)
    [] OTHER                     -> Interval

-----------------------------------------------------------------------------
States == {"CLOSED", "INITIALIZING", "OPENING", "RUNNING", "CLOSING", "UNRESPONSIVE",
           "CRASHED", "FAIL_SAFE"}

Process ==
  [runs : {"up", "suspended", "no"}, state : States,
   pc : {"closed", "precheck", "opening", "loop", "measure", "check", "await", "sleep",
         "running", "stopping", "closing"},
   wait : Nat, stop : BOOLEAN, last : {"CLOSED", "CRASHED", "FAIL_SAFE"}]

TypeOK ==
  /\ kind \in [Sensors -> Kinds] /\ safe \in BOOLEAN /\ danger \in 0 .. Reaction + 1
  /\ testbed \in {"up", "suspended", "dead"} /\ silence \in 0 .. Farewell + 1
  /\ proc \in [Procs -> Process]
  /\ guard \in [pc : {"off", "loop", "check", "await", "sleep"}, wait : Nat]
  /\ frame \in [Others -> {None} \cup [age : Nat, good : BOOLEAN]]
  /\ measured \in [Sensors -> BOOLEAN] /\ pause \in [Sensors -> 0 .. Interval]
  /\ clock \in 0 .. CheckTime + 1 /\ at \in 1 .. Len(Safeties) + 1 /\ verdict \in BOOLEAN
  /\ faults \in 0 .. MaxFaults[kind[Safeties[1]]] /\ starts \in 0 .. MaxStarts
  /\ calm \in 0 .. Recovery + 1

NotStarted == [runs |-> "no", state |-> "CLOSED", pc |-> "closed", wait |-> 0, stop |-> FALSE,
               last |-> "CLOSED"]

Init ==
  /\ kind \in [Sensors -> Kinds] /\ safe = TRUE /\ danger = 0
  /\ testbed = "up" /\ silence = 0
  /\ proc = [p \in Procs |-> NotStarted]
  /\ guard = [pc |-> "off", wait |-> 0]
  /\ frame = [p \in Others |-> None]
  /\ measured = [s \in Sensors |-> FALSE] /\ pause = [s \in Sensors |-> 0]
  /\ clock = 0 /\ at = 1 /\ verdict = TRUE
  /\ faults = 0 /\ starts = 0 /\ calm = 0

At(p, pc)    == proc[p].runs = "up" /\ proc[p].pc = pc
Goto(p, pc)  == proc' = [proc EXCEPT ![p].pc = pc]
Sleeps(p, t) == proc' = [proc EXCEPT ![p].pc = "sleep", ![p].wait = t]
Failing      == faults < MaxFaults[kind[Safeties[1]]] /\ faults' = faults + 1

\* A process is gone, and its state is what was submitted last.
Ends(p, state) == proc' = [proc EXCEPT ![p] = [NotStarted EXCEPT !.state = state]]

\* The testbed starts a service; what it submitted earlier is gone.
Launched(p) == \E t \in 0 .. OpenTime :
  proc' = [proc EXCEPT ![p] = [NotStarted EXCEPT !.runs = "up", !.state = "OPENING",
                                                 !.pc = "opening", !.wait = t]]

-----------------------------------------------------------------------------
(* Every service.                                                          *)

Open(p) ==
  /\ At(p, "opening") /\ proc[p].wait = 0
  /\ proc' = [proc EXCEPT ![p].state = "RUNNING",
                          ![p].pc = IF p = Service THEN "running" ELSE "loop"]
  /\ frame' = IF p \in Sensors THEN [frame EXCEPT ![p] = FirstFrame(p)] ELSE frame
  /\ guard' = IF p = Service THEN [guard EXCEPT !.pc = "loop"] ELSE guard
  /\ UNCHANGED <<conditions, testbed, silence, sensing, check, bounds>>

OpenFails(p) ==
  /\ At(p, "opening") /\ Failing
  /\ Ends(p, "CRASHED")
  /\ UNCHANGED <<conditions, testbed, silence, guard, frame, sensing, check, starts>>

\* Mutant: the thread looks only while main sleeps.
HeartbeatsLostAsleep(p) ==
  At(p, "sleep") /\ ~proc[p].stop /\ silence >= HeartbeatLiveness

\* The thread runs as long as main does.
HeartbeatsLost(p) ==
  /\ proc[p].runs = "up" /\ ~proc[p].stop
  /\ proc[p].pc \notin {"precheck", "opening", "closing"}
  /\ silence >= HeartbeatLiveness

MonitorHeartbeats(p) ==
  /\ HeartbeatsLost(p)
  /\ proc' = [proc EXCEPT ![p].stop = TRUE]
  /\ UNCHANGED <<conditions, testbed, silence, guard, frame, sensing, check, bounds>>

\* Sleep ends when the service is to stop.
Wake(p) ==
  /\ At(p, "sleep") /\ (proc[p].wait = 0 \/ proc[p].stop)
  /\ Goto(p, "loop")
  /\ UNCHANGED <<conditions, testbed, silence, guard, frame, sensing, check, bounds>>

LeaveMain(p) ==
  /\ At(p, "loop") /\ proc[p].stop
  /\ proc' = [proc EXCEPT ![p].state = "CLOSING", ![p].pc = "closing"]
  /\ UNCHANGED <<conditions, testbed, silence, guard, frame, sensing, check, bounds>>

Close(p) ==
  /\ At(p, "closing")
  /\ Ends(p, proc[p].last)
  /\ UNCHANGED <<conditions, testbed, silence, guard, frame, sensing, check, bounds>>

-----------------------------------------------------------------------------
(* A sensor.                                                               *)

BeginMeasurement(s) ==
  /\ At(s, "loop") /\ ~proc[s].stop
  /\ \E t \in 0 .. MeasureTime :
       /\ proc' = [proc EXCEPT ![s].pc = "measure", ![s].wait = t]
       /\ pause' = [pause EXCEPT ![s] = Pause(s, t)]
  /\ measured' = [measured EXCEPT ![s] = safe \/ Simulated(s)]
  /\ UNCHANGED <<conditions, testbed, silence, guard, frame, check, bounds>>

\* The variables of the loop are not used any more.
Measured(s) ==
  measured' = [measured EXCEPT ![s] = FALSE] /\ pause' = [pause EXCEPT ![s] = 0]

Submit(p, good) == frame' = [frame EXCEPT ![p] = [age |-> 0, good |-> good]]

EndMeasurement(s) ==
  /\ At(s, "measure") /\ proc[s].wait = 0
  /\ Submit(s, measured[s])
  /\ Sleeps(s, pause[s]) /\ Measured(s)
  /\ UNCHANGED <<conditions, testbed, silence, guard, check, bounds>>

\* The power is assumed to be bad.
SnmpUpsFails(s) ==
  Submit(s, FALSE) /\ Sleeps(s, pause[s])

\* Mutant: the service waits for the sensor to recover, and does not measure again.
ThorlabsTSP01FailsForGood(s) ==
  /\ Goto(s, "running")
  /\ UNCHANGED frame

\* The exception is logged, and main sleeps twice; it may have been raised by another of
\* the four measurements.
ThorlabsTSP01Fails(s) ==
  /\ Sleeps(s, 2 * Interval)
  /\ UNCHANGED frame \/ Submit(s, measured[s])

\* Of the others, main raises.
MainRaises(s) ==
  /\ proc' = [proc EXCEPT ![s] = [@ EXCEPT !.state = "CLOSING", !.pc = "closing",
                                           !.stop = TRUE, !.last = "CRASHED"]]
  /\ UNCHANGED frame

MeasurementFails(s) ==
  /\ At(s, "measure") /\ proc[s].wait = 0 /\ ~Simulated(s)
  /\ kind[s] # "safety_manual_check" /\ Failing
  /\ CASE kind[s] = "snmp_ups"       -> SnmpUpsFails(s)
       [] kind[s] = "thorlabs_tsp01" -> ThorlabsTSP01Fails(s)
       [] OTHER                      -> MainRaises(s)
  /\ Measured(s)
  /\ UNCHANGED <<conditions, testbed, silence, guard, check, starts>>

-----------------------------------------------------------------------------
(* The safety monitor, and how a service reaches the stream of another: it   *)
(* is started if it is closed, and waited for if it is not yet running.      *)

Current == Safeties[at]
Reached(p)  == proc[p].state = "RUNNING"
Starts(p)   == proc[p].state = "CLOSED" /\ testbed = "up"
Refuses(p)  == proc[p].state \in {"CLOSING", "UNRESPONSIVE", "CRASHED", "FAIL_SAFE"}
                 \/ (proc[p].state = "CLOSED" /\ testbed # "up")
GivesUp(p, wait) == wait = 0 \/ proc[p].state \in {"CRASHED", "FAIL_SAFE"}

BeginCheck ==
  /\ At(Monitor, "loop") /\ ~proc[Monitor].stop
  /\ Goto(Monitor, "check")
  /\ clock' = 0 /\ at' = 1 /\ verdict' = TRUE
  /\ UNCHANGED <<conditions, testbed, silence, guard, frame, sensing, bounds>>

\* Mutant: a frame that is just as old as it may be is refused.
InRangeNow(s) == frame[s] # None /\ frame[s].age < SafeInterval /\ frame[s].good

\* The frame may not have been too old when the check began.
InRange(s) == frame[s] # None /\ frame[s].age - clock <= SafeInterval /\ frame[s].good

Judge(good) ==
  /\ verdict' = (verdict /\ good) /\ at' = at + 1
  /\ UNCHANGED <<conditions, testbed, silence, guard, sensing, clock, bounds>>

CheckSafety ==
  /\ At(Monitor, "check") /\ at <= Len(Safeties)
  /\ \/ Reached(Current) /\ Judge(InRange(Current)) /\ UNCHANGED <<proc, frame>>
     \/ Refuses(Current) /\ Judge(FALSE) /\ UNCHANGED <<proc, frame>>

StartSensor ==
  /\ At(Monitor, "check") /\ at <= Len(Safeties) /\ Starts(Current)
  /\ Launched(Current)
  /\ frame' = [frame EXCEPT ![Current] = None]
  /\ UNCHANGED <<conditions, testbed, silence, guard, sensing, check, bounds>>

AwaitSensor ==
  /\ At(Monitor, "check") /\ at <= Len(Safeties) /\ proc[Current].state = "OPENING"
  /\ proc' = [proc EXCEPT ![Monitor].pc = "await", ![Monitor].wait = StartTimeout]
  /\ UNCHANGED <<conditions, testbed, silence, guard, frame, sensing, check, bounds>>

EndAwait ==
  /\ At(Monitor, "await")
  /\ \/ Reached(Current) /\ Judge(InRange(Current))
     \/ ~Reached(Current) /\ GivesUp(Current, proc[Monitor].wait) /\ Judge(FALSE)
  /\ Goto(Monitor, "check")
  /\ UNCHANGED frame

EndCheck ==
  /\ At(Monitor, "check") /\ at > Len(Safeties)
  /\ Submit(Monitor, verdict)
  /\ Sleeps(Monitor, CheckInterval)
  /\ clock' = 0 /\ at' = 1 /\ verdict' = TRUE
  /\ UNCHANGED <<conditions, testbed, silence, guard, sensing, bounds>>

-----------------------------------------------------------------------------
(* The service that requires safety.                                        *)

\* A client asks the testbed to start it.
Start ==
  /\ proc[Service].runs = "no" /\ testbed = "up" /\ starts < MaxStarts
  /\ proc' = [proc EXCEPT ![Service] = [NotStarted EXCEPT !.runs = "up", !.pc = "precheck",
                                                          !.state = "INITIALIZING"]]
  /\ guard' = [guard EXCEPT !.pc = "check"]
  /\ starts' = starts + 1
  /\ UNCHANGED <<conditions, testbed, silence, frame, sensing, check, faults>>

\* MonitorSafety looks whether it is to stop.
GuardLoop ==
  /\ \/ guard.pc = "loop"
     \/ guard.pc = "sleep" /\ (guard.wait = 0 \/ proc[Service].stop)
  /\ guard' = [guard EXCEPT !.pc = IF proc[Service].stop THEN "off" ELSE "check"]
  /\ UNCHANGED <<conditions, testbed, silence, proc, frame, sensing, check, bounds>>

\* Mutant: the age of the verdict is not looked at.
VerdictIsSafeEver == frame[Monitor] # None /\ frame[Monitor].good

VerdictIsSafe ==
  frame[Monitor] # None /\ frame[Monitor].age <= 3 * SafetyInterval /\ frame[Monitor].good

\* IsSafe returns: before opening, or to the thread.
Decide(good) ==
  /\ IF proc[Service].pc = "precheck"
     THEN /\ \/ /\ good
                /\ \E t \in 0 .. OpenTime :
                     proc' = [proc EXCEPT ![Service] = [@ EXCEPT !.state = "OPENING",
                                                         !.pc = "opening", !.wait = t]]
             \/ /\ ~good
                /\ Ends(Service, "FAIL_SAFE")
          /\ guard' = [pc |-> "off", wait |-> 0]
     ELSE \/ /\ good
             /\ guard' = [pc |-> "sleep", wait |-> SafetyInterval]
             /\ UNCHANGED proc
          \/ /\ ~good
             /\ guard' = [pc |-> "off", wait |-> 0]
             /\ proc' = [proc EXCEPT ![Service].stop = TRUE,
                                     ![Service].last = IF @ = "CRASHED" THEN @ ELSE "FAIL_SAFE"]
  /\ UNCHANGED <<conditions, testbed, silence, frame, sensing, check, bounds>>

IsSafe ==
  /\ guard.pc = "check"
  /\ \/ Reached(Monitor) /\ Decide(VerdictIsSafe)
     \/ Refuses(Monitor) /\ Decide(FALSE)

StartMonitor ==
  /\ guard.pc = "check" /\ Starts(Monitor)
  /\ Launched(Monitor)
  /\ frame' = [frame EXCEPT ![Monitor] = None]
  /\ UNCHANGED <<conditions, testbed, silence, guard, sensing, check, bounds>>

AwaitMonitor ==
  /\ guard.pc = "check" /\ proc[Monitor].state = "OPENING"
  /\ guard' = [pc |-> "await", wait |-> StartTimeout]
  /\ UNCHANGED <<conditions, testbed, silence, proc, frame, sensing, check, bounds>>

EndAwaitMonitor ==
  /\ guard.pc = "await"
  /\ \/ Reached(Monitor) /\ Decide(VerdictIsSafe)
     \/ ~Reached(Monitor) /\ GivesUp(Monitor, guard.wait) /\ Decide(FALSE)

\* main returns, after what it is doing.
EndMain ==
  /\ At(Service, "running") /\ proc[Service].stop
  /\ \E t \in 0 .. StopTime :
       proc' = [proc EXCEPT ![Service].pc = "stopping", ![Service].wait = t]
  /\ UNCHANGED <<conditions, testbed, silence, guard, frame, sensing, check, bounds>>

\* The threads are joined before the service closes.
Join ==
  /\ At(Service, "stopping") /\ proc[Service].wait = 0 /\ guard.pc = "off"
  /\ proc' = [proc EXCEPT ![Service].state = "CLOSING", ![Service].pc = "closing"]
  /\ UNCHANGED <<conditions, testbed, silence, guard, frame, sensing, check, bounds>>

-----------------------------------------------------------------------------
(* What goes wrong, and what the testbed makes of it.                       *)

TurnUnsafe ==
  /\ safe /\ Failing /\ \E s \in Sensors : ~Simulated(s)
  /\ safe' = FALSE
  /\ UNCHANGED <<kind, danger, testbed, silence, proc, guard, frame, sensing, check, starts>>

TurnSafe ==
  /\ ~safe /\ safe' = TRUE /\ danger' = 0
  /\ UNCHANGED <<kind, testbed, silence, proc, guard, frame, sensing, check, bounds>>

Kill(p) ==
  /\ proc[p].runs # "no" /\ Failing
  /\ Ends(p, proc[p].state)
  /\ UNCHANGED <<conditions, testbed, silence, guard, frame, sensing, check, starts>>

Suspend(p) ==
  /\ proc[p].runs = "up" /\ Failing
  /\ proc' = [proc EXCEPT ![p].runs = "suspended"]
  /\ UNCHANGED <<conditions, testbed, silence, guard, frame, sensing, check, starts>>

\* What it has measured or judged may be old, and yet it submits it.
Resume(p) ==
  /\ proc[p].runs = "suspended"
  /\ proc' = [proc EXCEPT ![p].runs = "up"]
  /\ danger' = 0
  /\ UNCHANGED <<kind, safe, testbed, silence, guard, frame, sensing, check, bounds>>

TestbedFails ==
  /\ testbed = "up" /\ Failing /\ testbed' \in {"suspended", "dead"}
  /\ UNCHANGED <<conditions, silence, proc, guard, frame, sensing, check, starts>>

TestbedResumes ==
  /\ testbed = "suspended" /\ testbed' = "up" /\ silence' = 0
  /\ UNCHANGED <<conditions, proc, guard, frame, sensing, check, bounds>>

\* monitor_services: sooner or later.
Mark(p) ==
  /\ testbed = "up"
  /\ \/ /\ proc[p].runs = "no" /\ proc[p].state \in {"OPENING", "RUNNING", "CLOSING", "UNRESPONSIVE"}
        /\ proc' = [proc EXCEPT ![p].state = "CRASHED"]
     \/ /\ proc[p].runs = "suspended" /\ proc[p].state = "RUNNING"
        /\ proc' = [proc EXCEPT ![p].state = "UNRESPONSIVE"]
     \/ /\ proc[p].runs = "up" /\ proc[p].state = "UNRESPONSIVE"
        /\ proc' = [proc EXCEPT ![p].state = "RUNNING"]
  /\ UNCHANGED <<conditions, testbed, silence, guard, frame, sensing, check, bounds>>

-----------------------------------------------------------------------------
\* What is done at once.
Prompt ==
  \/ \E p \in Procs : Open(p) \/ MonitorHeartbeats(p) \/ Wake(p) \/ LeaveMain(p) \/ Close(p)
  \/ \E s \in Sensors : BeginMeasurement(s) \/ EndMeasurement(s)
  \/ BeginCheck \/ CheckSafety \/ StartSensor \/ AwaitSensor \/ EndAwait \/ EndCheck
  \/ GuardLoop \/ IsSafe \/ StartMonitor \/ AwaitMonitor \/ EndAwaitMonitor \/ EndMain \/ Join

\* A process that is in the middle of something, or waits for another one.
Waits(p) ==
  \/ proc[p].pc \in {"opening", "measure"} /\ proc[p].wait > 0
  \/ proc[p].pc = "sleep" /\ proc[p].wait > 0 /\ ~proc[p].stop
  \/ proc[p].pc = "await" /\ ~Reached(Current) /\ ~GivesUp(Current, proc[p].wait)
  \/ proc[p].pc = "running" /\ ~proc[p].stop
  \/ proc[p].pc = "stopping" /\ (proc[p].wait > 0 \/ guard.pc # "off")
  \/ proc[p].pc = "precheck"

GuardWaits ==
  \/ guard.pc = "off"
  \/ guard.pc = "sleep" /\ guard.wait > 0 /\ ~proc[Service].stop
  \/ guard.pc = "await" /\ ~Reached(Monitor) /\ ~GivesUp(Monitor, guard.wait)

\* Nothing is to be done at once: none of the steps of Prompt is enabled.
NothingDue ==
  GuardWaits /\ \A p \in Procs : proc[p].runs = "up" => Waits(p) /\ ~HeartbeatsLost(p)

Less(wait) == IF wait > 0 THEN wait - 1 ELSE 0

Tick ==
  /\ NothingDue
  /\ proc' = [p \in Procs |-> [proc[p] EXCEPT !.wait = Less(@)]]
  /\ guard' = [guard EXCEPT !.wait = Less(@)]
  /\ frame' = [p \in Others |->
       IF frame[p] = None THEN None
       ELSE [frame[p] EXCEPT !.age =
               Older(@, IF p = Monitor THEN 3 * SafetyInterval ELSE SafeInterval + CheckTime)]]
  /\ clock' = IF proc[Monitor].pc \in {"check", "await"} THEN Older(clock, CheckTime) ELSE 0
  /\ danger' = IF safe THEN 0 ELSE Older(danger, Reaction)
  /\ silence' = IF testbed = "up" THEN 0 ELSE Older(silence, Farewell)
  /\ UNCHANGED <<kind, safe, testbed, sensing, at, verdict, bounds>>

Healthy ==
  safe /\ testbed = "up" /\ \A p \in Others : proc[p].runs = "up" /\ proc[p].state = "RUNNING"

Step ==
  \/ Prompt \/ Start
  \/ TurnUnsafe \/ TurnSafe \/ TestbedFails \/ TestbedResumes
  \/ \E p \in Procs : OpenFails(p)
  \/ \E s \in Sensors : MeasurementFails(s)
  \/ \E p \in Others : Kill(p) \/ Suspend(p) \/ Resume(p) \/ Mark(p)

Next ==
  \/ Step /\ calm' = IF Healthy' /\ faults' = faults THEN calm ELSE 0
  \/ Tick /\ calm' = IF Healthy THEN Older(calm, Recovery) ELSE 0

Spec == Init /\ [][Next]_vars

-----------------------------------------------------------------------------
(* Properties                                                              *)

Operates == proc[Service].state \in {"OPENING", "RUNNING", "CLOSING"}

\* Whatever fails, a service that requires safety does not go on for longer in unsafe
\* conditions than it takes for a measurement, a frame and a verdict to become too old and
\* for the service to look and to end: the monitor and the sensors may be killed,
\* suspended or restarted, and the testbed too.
StopsWhenUnsafe == Operates => danger <= Reaction

\* A service ends within a bounded time after the last heartbeat of the testbed, also when
\* it was opening, or when its safety thread waits for a monitor that does not start.
StopsWithoutTestbed == Operates => silence <= Farewell

\* The configuration: the next frame of a sensor comes in time, and the next verdict.
FramesInTime   == Interval + MeasureTime <= SafeInterval
VerdictsInTime == CheckInterval <= 3 * SafetyInterval

\* When nothing fails, no service is shut down for safety: the frames and the verdicts
\* never grow old between two of them.
NoFalseAlarm ==
  faults = 0 /\ proc[Service].pc \in {"running", "stopping", "closing"}
    => proc[Service].last # "FAIL_SAFE"

\* When the conditions are safe and all run again, the monitor says so within a bounded
\* time, and goes on saying so: no failure of a measurement and no frame from before is
\* remembered.
Recovers == calm > Recovery => frame[Monitor].good
==============================================================================
