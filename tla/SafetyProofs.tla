------------------------------ MODULE SafetyProofs ------------------------------
(***************************************************************************)
(* Proofs about Safety: the bounds hold for every number of sensors, every   *)
(* interval and every number of failures.                                   *)
(***************************************************************************)
EXTENDS Safety, TLAPS

-----------------------------------------------------------------------------
(* The invariants.                                                          *)

Working == {"loop", "measure", "check", "await", "sleep", "running", "stopping"}

\* Where a process is, how long it may still take, and what others see of it.
Life(p) ==
  /\ proc[p].runs = "no" <=> proc[p].pc = "closed"
  /\ proc[p].pc = "opening" => proc[p].state = "OPENING" /\ proc[p].wait <= OpenTime
  /\ proc[p].pc = "closing" => proc[p].state = "CLOSING"
  /\ proc[p].pc \in Working => proc[p].state \in {"RUNNING", "UNRESPONSIVE"}

SensorLife(s) ==
  /\ proc[s].state # "INITIALIZING"
  /\ proc[s].pc \in {"closed", "opening", "loop", "measure", "sleep", "closing"}
  /\ proc[s].pc = "measure" => proc[s].wait <= MeasureTime
  /\ proc[s].pc = "sleep" => proc[s].wait <= 2 * Interval

MonitorLife ==
  /\ proc[Monitor].state # "INITIALIZING"
  /\ proc[Monitor].pc \in {"closed", "opening", "loop", "check", "await", "sleep", "closing"}
  /\ proc[Monitor].pc = "await" => proc[Monitor].wait <= StartTimeout /\ at <= Len(Safeties)
  /\ proc[Monitor].pc = "sleep" => proc[Monitor].wait <= CheckInterval

LifeInv == (\A p \in Procs : Life(p)) /\ (\A s \in Sensors : SensorLife(s)) /\ MonitorLife

ServiceInv ==
  /\ proc[Service].pc \in {"closed", "precheck", "opening", "running", "stopping", "closing"}
  /\ proc[Service].runs # "suspended"
  /\ proc[Service].pc = "precheck" => proc[Service].state = "INITIALIZING"
  /\ proc[Service].pc = "closed" => proc[Service].state \in {"CLOSED", "CRASHED", "FAIL_SAFE"}
  /\ proc[Service].pc = "stopping" => proc[Service].stop /\ proc[Service].wait <= StopTime

\* The thread that looks at the safety: it checks before the service opens, and then until
\* the service is to stop.
GuardInv ==
  /\ guard.pc # "off" => proc[Service].pc \in {"precheck", "running", "stopping"}
  /\ proc[Service].pc = "precheck" => guard.pc \in {"check", "await"}
  /\ proc[Service].pc = "running" /\ guard.pc = "off" => proc[Service].stop
  /\ guard.pc = "await" => guard.wait <= StartTimeout
  /\ guard.pc = "sleep" => guard.wait <= SafetyInterval

ConditionsInv ==
  /\ testbed = "up" => silence = 0
  /\ safe => danger = 0
  /\ ~safe => \E s \in Sensors : ~Simulated(s)

BaseInv == TypeOK /\ LifeInv /\ ServiceInv /\ GuardInv /\ ConditionsInv

-----------------------------------------------------------------------------
(* How long the conditions have been unsafe.                                *)

\* What a sensor measures is not older than the measurement, and its frame not older than
\* that and its age.
MeasuredDanger(s) ==
  /\ At(s, "measure") /\ measured[s] => danger <= MeasureTime - proc[s].wait
  /\ frame[s].good => \/ danger <= MeasureTime + frame[s].age
                      \/ frame[s].age > SafeInterval + CheckTime

SensorDanger == \A s \in Sensors : ~Simulated(s) => MeasuredDanger(s)

Checks == At(Monitor, "check") \/ At(Monitor, "await")

\* The time that a check has taken at most, where the monitor was not suspended.
Waited == IF proc[Monitor].pc = "await" THEN StartTimeout - proc[Monitor].wait ELSE 0
Spent  == (at - 1) * StartTimeout + Waited

CheckDanger ==
  Checks => /\ clock <= Spent \/ danger <= Spent
            /\ \A i \in 1 .. at - 1 :
                 verdict /\ ~Simulated(Safeties[i])
                   => danger <= MeasureTime + SafeInterval + Spent

VerdictDanger ==
  frame[Monitor].good => \/ danger <= Accepted + frame[Monitor].age
                         \/ frame[Monitor].age > 3 * SafetyInterval

MonitorDanger == CheckDanger /\ VerdictDanger

\* When the service believes the latest verdict, and when it looks again.
Trusted == Accepted + 3 * SafetyInterval
Looked  == Trusted + Longest(OpenTime, SafetyInterval)

ServiceDanger ==
  /\ proc[Service].pc = "opening" => danger <= Trusted + OpenTime - proc[Service].wait
  /\ proc[Service].pc \in {"running", "stopping"} =>
       /\ guard.pc \in {"loop", "check"} => danger <= Looked
       /\ guard.pc = "sleep" => danger <= Trusted + SafetyInterval - guard.wait
       /\ guard.pc = "await" => danger <= Looked + StartTimeout - guard.wait
       /\ guard.pc = "off"   => danger <= Looked + StartTimeout \/ proc[Service].pc = "stopping"
  /\ proc[Service].pc = "stopping" =>
       danger <= Looked + StartTimeout + StopTime - proc[Service].wait
  /\ proc[Service].pc = "closing" => danger <= Reaction

DangerInv == SensorDanger /\ MonitorDanger /\ ServiceDanger

-----------------------------------------------------------------------------
(* How long the testbed has been silent.                                    *)

Grace == Longest(HeartbeatLiveness, StartTimeout + OpenTime)

SilenceInv ==
  /\ proc[Service].pc = "precheck" =>
       /\ guard.pc = "check" => silence = 0
       /\ guard.pc = "await" => silence <= StartTimeout - guard.wait
  /\ proc[Service].pc = "opening" => silence <= StartTimeout + OpenTime - proc[Service].wait
  /\ proc[Service].pc = "running" => silence <= Grace
  /\ proc[Service].pc = "stopping" =>
       /\ guard.pc = "check" => silence <= Grace
       /\ guard.pc = "await" => silence <= Grace + StartTimeout - guard.wait
       /\ \/ silence <= Grace + StopTime - proc[Service].wait
          \/ proc[Service].wait = 0 /\ silence <= Grace + StartTimeout
  /\ proc[Service].pc = "closing" => silence <= Farewell

-----------------------------------------------------------------------------
(* How long all has been well.                                              *)

\* A sensor has submitted a good frame in time, and measures what is good.
Sensed(s) ==
  /\ frame[s].good
  /\ proc[s].pc = "loop" => frame[s].age <= Interval
  /\ proc[s].pc = "sleep" => frame[s].age <= Interval - proc[s].wait
  /\ proc[s].pc = "measure" => /\ measured[s]
                               /\ frame[s].age <= Interval + MeasureTime - proc[s].wait

\* The time until a sensor begins a measurement, and until it has sensed.
Begins == Interval + Longest(MeasureTime, Interval)
Senses == Begins + MeasureTime

CalmSensor(s) ==
  \/ Sensed(s)
  \/ /\ proc[s].pc = "loop" => calm <= Begins
     /\ proc[s].pc = "sleep" => calm <= Begins - proc[s].wait
     /\ proc[s].pc = "measure" =>
          \/ calm <= MeasureTime - proc[s].wait
          \/ measured[s] /\ calm <= Senses - proc[s].wait

CalmMonitor ==
  /\ proc[Monitor].pc \in {"check", "await"} /\ ~verdict => calm <= Senses
  /\ ~frame[Monitor].good =>
       /\ calm <= Recovery
       /\ proc[Monitor].pc = "sleep" => calm <= Recovery - proc[Monitor].wait

CalmInv ==
  /\ calm > 0 => Healthy
  /\ \A s \in Sensors : CalmSensor(s)
  /\ CalmMonitor

-----------------------------------------------------------------------------
(* As long as nothing has failed.                                           *)

OtherWell(p) ==
  /\ proc[p].runs # "suspended" /\ ~proc[p].stop
  /\ proc[p].state \in {"CLOSED", "OPENING", "RUNNING"}
  /\ proc[p].runs = "no" => proc[p].state = "CLOSED"

\* A sensor that has submitted a good frame runs on, and does so in time.
SensorWell(s) ==
  /\ proc[s].pc = "measure" => measured[s]
  /\ frame[s].good => proc[s].state = "RUNNING" /\ Sensed(s)

MonitorWell ==
  /\ proc[Monitor].pc \in {"check", "await"} /\ verdict
       => \A i \in 1 .. at - 1 : frame[Safeties[i]].good
  /\ frame[Monitor].good =>
       /\ proc[Monitor].pc \in {"loop", "check", "sleep"}
       /\ \A s \in Sensors : frame[s].good
       /\ proc[Monitor].pc = "check" => verdict
       /\ frame[Monitor].age <= CheckInterval
       /\ proc[Monitor].pc = "sleep" => frame[Monitor].age <= CheckInterval - proc[Monitor].wait

ServiceWell ==
  proc[Service].pc # "closed" =>
    /\ ~proc[Service].stop /\ proc[Service].last = "CLOSED"
    /\ proc[Service].pc # "precheck" => frame[Monitor].good

Well ==
  /\ safe /\ testbed = "up"
  /\ \A p \in Others : OtherWell(p)
  /\ \A s \in Sensors : SensorWell(s)
  /\ MonitorWell /\ ServiceWell

WellInv == faults = 0 => Well
-----------------------------------------------------------------------------
(* What the steps do to the processes.                                      *)

LEMMA Constants ==
  /\ Safeties \in Seq(Sensors) /\ Len(Safeties) \in Nat \ {0}
  /\ \A i \in 1 .. Len(Safeties) : Safeties[i] \in Sensors
  /\ \A s \in Sensors : \E i \in 1 .. Len(Safeties) : Safeties[i] = s
  /\ Monitor \notin Sensors /\ Service \notin Sensors /\ Monitor # Service
  /\ SafetyInterval \in Nat \ {0} /\ HeartbeatLiveness \in Nat \ {0}
  /\ StartTimeout \in Nat \ {0} /\ Interval \in Nat \ {0} /\ CheckInterval \in Nat \ {0}
  /\ SafeInterval \in Nat /\ MeasureTime \in Nat /\ OpenTime \in Nat /\ StopTime \in Nat
  <1>1. Safeties \in Seq(Sensors) /\ Safeties # <<>>
    BY SafetyAssumption
  <1>2. Len(Safeties) \in Nat \ {0} /\ DOMAIN Safeties = 1 .. Len(Safeties)
    BY <1>1
  <1>3. Sensors = {Safeties[i] : i \in DOMAIN Safeties}
    BY DEF Sensors, ToSet
  <1> QED
    BY <1>1, <1>2, <1>3, SafetyAssumption

\* p goes on as said, and no other process does anything.
Becomes(p, runs, state, pc, wait, stop, last) ==
  /\ proc' \in [Procs -> Process]
  /\ proc'[p].runs = runs /\ proc'[p].state = state /\ proc'[p].pc = pc
  /\ proc'[p].wait = wait /\ proc'[p].stop = stop /\ proc'[p].last = last
  /\ \A q \in Procs \ {p} : proc'[q] = proc[q]

LEMMA ProcessTyped ==
  ASSUME TypeOK, NEW p \in Procs
  PROVE  /\ proc[p].runs \in {"up", "suspended", "no"} /\ proc[p].state \in States
         /\ proc[p].wait \in Nat /\ proc[p].stop \in BOOLEAN
         /\ proc[p].last \in {"CLOSED", "CRASHED", "FAIL_SAFE"}
  BY DEF TypeOK, Process

LEMMA OpenEffect ==
  ASSUME TypeOK, NEW p \in Procs, Open(p)
  PROVE  /\ proc[p].runs = "up" /\ proc[p].pc = "opening" /\ proc[p].wait = 0
         /\ Becomes(p, "up", "RUNNING", IF p = Service THEN "running" ELSE "loop",
                    0, proc[p].stop, proc[p].last)
  <1>1. PICK pc \in {"running", "loop"} :
          /\ pc = IF p = Service THEN "running" ELSE "loop"
          /\ proc' = [proc EXCEPT ![p].state = "RUNNING", ![p].pc = pc]
    BY Zenon DEF Open
  <1>2. proc[p].runs = "up" /\ proc[p].pc = "opening" /\ proc[p].wait = 0
    BY DEF Open, At
  <1>3. Becomes(p, "up", "RUNNING", pc, 0, proc[p].stop, proc[p].last)
    <2>1. CASE pc = "running"
      BY <1>1, <1>2, <2>1 DEF TypeOK, Process, States, Becomes
    <2>2. CASE pc = "loop"
      BY <1>1, <1>2, <2>2 DEF TypeOK, Process, States, Becomes
    <2> QED
      BY <2>1, <2>2
  <1> QED
    BY <1>1, <1>2, <1>3

LEMMA EndsEffect ==
  ASSUME TypeOK, NEW p \in Procs, NEW state \in States, Ends(p, state)
  PROVE  Becomes(p, "no", state, "closed", 0, FALSE, "CLOSED")
  BY DEF TypeOK, Process, Ends, NotStarted, Becomes

LEMMA LaunchedEffect ==
  ASSUME TypeOK, NEW p \in Procs, Launched(p)
  PROVE  \E t \in 0 .. OpenTime : Becomes(p, "up", "OPENING", "opening", t, FALSE, "CLOSED")
  <1>1. PICK t \in 0 .. OpenTime :
          proc' = [proc EXCEPT ![p] = [NotStarted EXCEPT !.runs = "up", !.state = "OPENING",
                                                 !.pc = "opening", !.wait = t]]
    BY DEF Launched
  <1>2. t \in Nat
    BY Constants
  <1>3. Becomes(p, "up", "OPENING", "opening", t, FALSE, "CLOSED")
    BY <1>1, <1>2 DEF TypeOK, Process, States, NotStarted, Becomes
  <1> QED
    BY <1>3

LEMMA GotoEffect ==
  ASSUME TypeOK, NEW p \in Procs, NEW pc \in {"loop", "check"}, Goto(p, pc)
  PROVE  Becomes(p, proc[p].runs, proc[p].state, pc, proc[p].wait, proc[p].stop, proc[p].last)
  BY DEF TypeOK, Process, Goto, Becomes

LEMMA SleepsEffect ==
  ASSUME TypeOK, NEW p \in Procs, NEW t \in Nat, Sleeps(p, t)
  PROVE  Becomes(p, proc[p].runs, proc[p].state, "sleep", t, proc[p].stop, proc[p].last)
  BY DEF TypeOK, Process, Sleeps, Becomes

LEMMA HeartbeatsEffect ==
  ASSUME TypeOK, NEW p \in Procs, MonitorHeartbeats(p)
  PROVE  Becomes(p, "up", proc[p].state, proc[p].pc, proc[p].wait, TRUE, proc[p].last)
  BY DEF TypeOK, Process, MonitorHeartbeats, HeartbeatsLost, Becomes

LEMMA LeaveMainEffect ==
  ASSUME TypeOK, NEW p \in Procs, LeaveMain(p)
  PROVE  Becomes(p, "up", "CLOSING", "closing", proc[p].wait, TRUE, proc[p].last)
  BY DEF TypeOK, Process, States, LeaveMain, At, Becomes

LEMMA BeginMeasurementEffect ==
  ASSUME TypeOK, NEW s \in Sensors, BeginMeasurement(s)
  PROVE  \E t \in 0 .. MeasureTime :
           /\ Becomes(s, "up", proc[s].state, "measure", t, FALSE, proc[s].last)
           /\ pause' = [pause EXCEPT ![s] = Pause(s, t)]
  <1>1. PICK t \in 0 .. MeasureTime :
          /\ proc' = [proc EXCEPT ![s].pc = "measure", ![s].wait = t]
          /\ pause' = [pause EXCEPT ![s] = Pause(s, t)]
    BY DEF BeginMeasurement
  <1>2. t \in Nat /\ s \in Procs
    BY Constants DEF Procs, Others
  <1>3. proc[s].runs = "up" /\ ~proc[s].stop
    BY DEF BeginMeasurement, At
  <1>4. Becomes(s, "up", proc[s].state, "measure", t, proc[s].stop, proc[s].last)
    BY <1>1, <1>2, <1>3 DEF TypeOK, Process, Becomes
  <1>5. Becomes(s, "up", proc[s].state, "measure", t, FALSE, proc[s].last)
    BY <1>2, <1>3, <1>4, ProcessTyped DEF Becomes
  <1> QED
    BY <1>1, <1>5

LEMMA PauseTyped ==
  ASSUME NEW s \in Sensors, NEW t \in 0 .. MeasureTime
  PROVE  Pause(s, t) \in 0 .. Interval
  <1>1. t \in Nat /\ Interval \in Nat
    BY Constants
  <1>2. SnmpUpsPause(t) \in 0 .. Interval /\ OmegaPause(t) \in 0 .. Interval
    BY <1>1 DEF SnmpUpsPause, OmegaPause, Longest
  <1> QED
    BY <1>1, <1>2 DEF Pause

LEMMA EndMeasurementEffect ==
  ASSUME TypeOK, NEW s \in Sensors, EndMeasurement(s)
  PROVE  Becomes(s, "up", proc[s].state, "sleep", pause[s], proc[s].stop, proc[s].last)
  <1>1. pause[s] \in Nat /\ s \in Procs /\ proc[s].runs = "up"
    BY Constants DEF TypeOK, Procs, Others, EndMeasurement, At
  <1> QED
    BY <1>1, SleepsEffect DEF EndMeasurement

\* A measurement that fails: the sensor sleeps, and may submit what it has, or raises.
LEMMA MeasurementFailsEffect ==
  ASSUME TypeOK, NEW s \in Sensors, MeasurementFails(s)
  PROVE  \/ /\ \E t \in 0 .. 2 * Interval :
                 Becomes(s, "up", proc[s].state, "sleep", t, proc[s].stop, proc[s].last)
            /\ frame' = frame \/ Submit(s, FALSE) \/ Submit(s, measured[s])
         \/ /\ Becomes(s, "up", "CLOSING", "closing", proc[s].wait, TRUE, "CRASHED")
            /\ frame' = frame
  <1>1. /\ s \in Procs /\ proc[s].runs = "up"
        /\ pause[s] \in Nat /\ pause[s] \in 0 .. 2 * Interval
        /\ 2 * Interval \in Nat /\ 2 * Interval \in 0 .. 2 * Interval
    <2>1. s \in Procs /\ proc[s].runs = "up"
      BY DEF Procs, Others, MeasurementFails, At
    <2>2. Interval \in Nat /\ pause[s] \in 0 .. Interval
      BY Constants DEF TypeOK
    <2> QED
      BY <2>1, <2>2
  <1>2. SnmpUpsFails(s) \/ ThorlabsTSP01Fails(s) \/ MainRaises(s)
    BY DEF MeasurementFails
  <1>3. CASE SnmpUpsFails(s)
    BY <1>1, <1>3, SleepsEffect DEF SnmpUpsFails
  <1>4. CASE ThorlabsTSP01Fails(s)
    BY <1>1, <1>4, SleepsEffect DEF ThorlabsTSP01Fails
  <1>5. CASE MainRaises(s)
    <2>1. proc' = [proc EXCEPT ![s] = [@ EXCEPT !.state = "CLOSING", !.pc = "closing",
                                                !.stop = TRUE, !.last = "CRASHED"]]
      BY <1>5 DEF MainRaises
    <2>2. Becomes(s, "up", "CLOSING", "closing", proc[s].wait, TRUE, "CRASHED")
      BY <1>1, <2>1 DEF TypeOK, Process, States, Becomes
    <2> QED
      BY <1>5, <2>2 DEF MainRaises
  <1> QED
    BY <1>2, <1>3, <1>4, <1>5

LEMMA AwaitEffect ==
  ASSUME TypeOK, AwaitSensor
  PROVE  Becomes(Monitor, "up", proc[Monitor].state, "await", StartTimeout,
                 proc[Monitor].stop, proc[Monitor].last)
  <1>1. /\ Monitor \in Procs /\ StartTimeout \in Nat /\ proc[Monitor].runs = "up"
        /\ proc' = [proc EXCEPT ![Monitor].pc = "await", ![Monitor].wait = StartTimeout]
    BY Constants DEF Procs, Others, AwaitSensor, At
  <1> QED
    BY <1>1 DEF TypeOK, Process, Becomes

LEMMA StartEffect ==
  ASSUME TypeOK, Start
  PROVE  Becomes(Service, "up", "INITIALIZING", "precheck", 0, FALSE, "CLOSED")
  BY DEF TypeOK, Process, States, Procs, Start, NotStarted, Becomes

\* What follows from the verdict: the service opens or does not, it looks again later, or it
\* is to stop.
LEMMA DecideEffect ==
  ASSUME TypeOK, NEW good \in BOOLEAN, Decide(good)
  PROVE  \/ /\ proc[Service].pc = "precheck" /\ guard' = [pc |-> "off", wait |-> 0]
            /\ \/ /\ good
                  /\ \E t \in 0 .. OpenTime :
                       Becomes(Service, proc[Service].runs, "OPENING", "opening", t,
                               proc[Service].stop, proc[Service].last)
               \/ ~good /\ Becomes(Service, "no", "FAIL_SAFE", "closed", 0, FALSE, "CLOSED")
         \/ /\ proc[Service].pc # "precheck" /\ good
            /\ proc' = proc /\ guard' = [pc |-> "sleep", wait |-> SafetyInterval]
         \/ /\ proc[Service].pc # "precheck" /\ ~good
            /\ guard' = [pc |-> "off", wait |-> 0]
            /\ \E last \in {"CRASHED", "FAIL_SAFE"} :
                 Becomes(Service, proc[Service].runs, proc[Service].state, proc[Service].pc,
                         proc[Service].wait, TRUE, last)
  <1>0. Service \in Procs
    BY DEF Procs
  <1>1. CASE proc[Service].pc = "precheck"
    <2>1. guard' = [pc |-> "off", wait |-> 0]
      BY <1>1 DEF Decide
    <2>2. ASSUME good, NEW t \in 0 .. OpenTime,
                 proc' = [proc EXCEPT ![Service] = [@ EXCEPT !.state = "OPENING",
                                                     !.pc = "opening", !.wait = t]]
          PROVE  Becomes(Service, proc[Service].runs, "OPENING", "opening", t,
                         proc[Service].stop, proc[Service].last)
      <3>1. t \in Nat
        BY Constants
      <3> QED
        BY <1>0, <2>2, <3>1 DEF TypeOK, Process, States, Becomes
    <2>3. ASSUME ~good, Ends(Service, "FAIL_SAFE")
          PROVE  Becomes(Service, "no", "FAIL_SAFE", "closed", 0, FALSE, "CLOSED")
      BY <1>0, <2>3, EndsEffect DEF States
    <2> QED
      BY <1>1, <2>1, <2>2, <2>3 DEF Decide
  <1>2. CASE proc[Service].pc # "precheck" /\ good
    BY <1>2 DEF Decide
  <1>3. CASE proc[Service].pc # "precheck" /\ ~good
    <2>1. PICK last \in {"CRASHED", "FAIL_SAFE"} :
            proc' = [proc EXCEPT ![Service].stop = TRUE, ![Service].last = last]
      <3>1. CASE proc[Service].last = "CRASHED"
        BY <1>3, <3>1 DEF Decide
      <3>2. CASE proc[Service].last # "CRASHED"
        BY <1>3, <3>2 DEF Decide
      <3> QED
        BY <3>1, <3>2
    <2>2. Becomes(Service, proc[Service].runs, proc[Service].state, proc[Service].pc,
                  proc[Service].wait, TRUE, last)
      BY <1>0, <2>1 DEF TypeOK, Process, Becomes
    <2> QED
      BY <1>3, <2>2 DEF Decide
  <1> QED
    BY <1>1, <1>2, <1>3

LEMMA EndMainEffect ==
  ASSUME TypeOK, EndMain
  PROVE  \E t \in 0 .. StopTime :
           Becomes(Service, "up", proc[Service].state, "stopping", t, TRUE, proc[Service].last)
  <1>1. PICK t \in 0 .. StopTime :
          proc' = [proc EXCEPT ![Service].pc = "stopping", ![Service].wait = t]
    BY DEF EndMain
  <1>2. /\ t \in Nat /\ Service \in Procs
        /\ proc[Service].runs = "up" /\ proc[Service].stop
    BY Constants DEF Procs, EndMain, At
  <1>3. proc[Service].stop = TRUE
    BY <1>2, ProcessTyped
  <1>4. Becomes(Service, "up", proc[Service].state, "stopping", t, TRUE, proc[Service].last)
    BY <1>1, <1>2, <1>3 DEF TypeOK, Process, Becomes
  <1> QED
    BY <1>4

LEMMA JoinEffect ==
  ASSUME TypeOK, Join
  PROVE  Becomes(Service, "up", "CLOSING", "closing", proc[Service].wait,
                 proc[Service].stop, proc[Service].last)
  BY DEF TypeOK, Process, States, Procs, Join, At, Becomes

LEMMA SuspendEffect ==
  ASSUME TypeOK, NEW p \in Procs, NEW runs \in {"up", "suspended"},
         proc' = [proc EXCEPT ![p].runs = runs]
  PROVE  Becomes(p, runs, proc[p].state, proc[p].pc, proc[p].wait, proc[p].stop, proc[p].last)
  BY DEF TypeOK, Process, Becomes

LEMMA MarkEffect ==
  ASSUME TypeOK, NEW p \in Procs, Mark(p)
  PROVE  \E state \in {"CRASHED", "UNRESPONSIVE", "RUNNING"} :
           /\ Becomes(p, proc[p].runs, state, proc[p].pc, proc[p].wait, proc[p].stop,
                      proc[p].last)
           /\ state = "CRASHED" => proc[p].runs = "no" /\ proc[p].state # "CLOSED"
           /\ state = "UNRESPONSIVE" => proc[p].runs = "suspended" /\ proc[p].state = "RUNNING"
           /\ state = "RUNNING" => proc[p].runs = "up" /\ proc[p].state = "UNRESPONSIVE"
  <1>1. ASSUME NEW state \in {"CRASHED", "UNRESPONSIVE", "RUNNING"},
               proc' = [proc EXCEPT ![p].state = state]
        PROVE  Becomes(p, proc[p].runs, state, proc[p].pc, proc[p].wait, proc[p].stop,
                       proc[p].last)
    BY <1>1 DEF TypeOK, Process, States, Becomes
  <1> QED
    BY <1>1 DEF Mark

-----------------------------------------------------------------------------
(* Whose step it is, and type correctness.                                  *)

Common(p) ==
  Open(p) \/ OpenFails(p) \/ MonitorHeartbeats(p) \/ Wake(p) \/ LeaveMain(p) \/ Close(p)

Disturbs(p) == Kill(p) \/ Suspend(p) \/ Resume(p) \/ Mark(p)

SensorStep(s) ==
  Common(s) \/ Disturbs(s) \/ BeginMeasurement(s) \/ EndMeasurement(s) \/ MeasurementFails(s)

MonitorStep ==
  \/ Common(Monitor) \/ Disturbs(Monitor)
  \/ BeginCheck \/ CheckSafety \/ AwaitSensor \/ EndAwait \/ EndCheck

ServiceStep ==
  \/ Common(Service)
  \/ Start \/ GuardLoop \/ IsSafe \/ AwaitMonitor \/ EndAwaitMonitor \/ EndMain \/ Join

Outside == TurnUnsafe \/ TurnSafe \/ TestbedFails \/ TestbedResumes

LEMMA StepIs ==
  ASSUME Step
  PROVE  \/ \E s \in Sensors : SensorStep(s)
         \/ MonitorStep \/ ServiceStep \/ Outside \/ StartSensor \/ StartMonitor
  BY DEF Step, Prompt, SensorStep, MonitorStep, ServiceStep, Outside, Common, Disturbs, Procs,
         Others

Frames == {None} \cup [age : Nat, good : BOOLEAN]

LEMMA SubmitTyped ==
  ASSUME TypeOK, NEW p \in Others, NEW good \in BOOLEAN, Submit(p, good)
  PROVE  /\ frame' \in [Others -> Frames]
         /\ frame'[p] = [age |-> 0, good |-> good]
         /\ \A q \in Others \ {p} : frame'[q] = frame[q]
  BY DEF TypeOK, Frames, Submit

LEMMA FirstFrameTyped ==
  ASSUME NEW s \in Sensors
  PROVE  /\ FirstFrame(s) \in Frames
         /\ FirstFrame(s) # None => FirstFrame(s).age = 0
         /\ FirstFrame(s).good => Simulated(s)
  BY DEF FirstFrame, Frames, None, SnmpUpsOpen, SnmpUpsSimOpen, Simulated

\* The frame of a failed measurement, if there is one.
LEMMA FailedFrame ==
  ASSUME TypeOK, NEW s \in Sensors,
         frame' = frame \/ Submit(s, FALSE) \/ Submit(s, measured[s])
  PROVE  /\ frame' \in [Others -> Frames]
         /\ \A q \in Others \ {s} : frame'[q] = frame[q]
         /\ \/ frame'[s] = frame[s]
            \/ \E good \in BOOLEAN : /\ good => measured[s]
                                     /\ frame'[s] = [age |-> 0, good |-> good]
  <1>1. s \in Others /\ measured[s] \in BOOLEAN
    BY DEF Others, TypeOK
  <1>2. CASE frame' = frame
    BY <1>2 DEF TypeOK, Frames
  <1>3. CASE Submit(s, FALSE)
    BY <1>1, <1>3, SubmitTyped
  <1>4. CASE Submit(s, measured[s])
    BY <1>1, <1>4, SubmitTyped
  <1> QED
    BY <1>2, <1>3, <1>4

\* A process that opens.
LEMMA OpenFrames ==
  ASSUME TypeOK, NEW p \in Procs, Open(p)
  PROVE  /\ frame' \in [Others -> Frames]
         /\ p \in Sensors => frame'[p] = FirstFrame(p)
         /\ p \notin Sensors => frame' = frame
         /\ \A q \in Others \ {p} : frame'[q] = frame[q]
  <1>1. CASE p \in Sensors
    <2>1. frame' = [frame EXCEPT ![p] = FirstFrame(p)]
      BY <1>1 DEF Open
    <2> QED
      BY <1>1, <2>1, FirstFrameTyped DEF TypeOK, Frames, Others
  <1>2. CASE p \notin Sensors
    BY <1>2 DEF Open, TypeOK, Frames
  <1> QED
    BY <1>1, <1>2

\* What every process does: but for the frame that a sensor opens with, and the thread that
\* a service starts, it changes itself only.
LEMMA CommonSteps ==
  ASSUME TypeOK, NEW p \in Procs, Common(p)
  PROVE  /\ proc' \in [Procs -> Process] /\ \A q \in Procs \ {p} : proc'[q] = proc[q]
         /\ frame' \in [Others -> Frames] /\ \A q \in Others \ {p} : frame'[q] = frame[q]
         /\ p \notin Sensors => frame' = frame
         /\ guard' = guard \/ (p = Service /\ guard' = [guard EXCEPT !.pc = "loop"])
         /\ UNCHANGED <<conditions, testbed, silence, sensing, check, starts>>
         /\ faults' = faults \/ Failing
  <1>1. CASE Open(p)
    BY <1>1, OpenEffect, OpenFrames DEF Open, Becomes, bounds
  <1> SUFFICES ASSUME ~Open(p)
               PROVE  /\ proc' \in [Procs -> Process]
                      /\ \A q \in Procs \ {p} : proc'[q] = proc[q]
                      /\ UNCHANGED <<conditions, testbed, silence, guard, frame, sensing,
                                     check, starts>>
                      /\ faults' = faults \/ Failing
    BY <1>1 DEF TypeOK, Frames
  <1>2. CASE OpenFails(p)
    BY <1>2, EndsEffect DEF OpenFails, Becomes, States
  <1>3. CASE MonitorHeartbeats(p)
    BY <1>3, HeartbeatsEffect DEF MonitorHeartbeats, Becomes, bounds
  <1>4. CASE Wake(p)
    BY <1>4, GotoEffect DEF Wake, Becomes, bounds
  <1>5. CASE LeaveMain(p)
    BY <1>5, LeaveMainEffect DEF LeaveMain, Becomes, bounds
  <1>6. CASE Close(p)
    BY <1>6, EndsEffect, ProcessTyped DEF Close, Becomes, bounds, States
  <1> QED
    BY <1>2, <1>3, <1>4, <1>5, <1>6 DEF Common

\* What may happen to a sensor and to the monitor.
LEMMA DisturbsSteps ==
  ASSUME TypeOK, NEW p \in Procs, Disturbs(p)
  PROVE  /\ proc' \in [Procs -> Process] /\ \A q \in Procs \ {p} : proc'[q] = proc[q]
         /\ UNCHANGED <<kind, safe, testbed, silence, guard, frame, sensing, check, starts>>
         /\ danger' \in {danger, 0} /\ (Resume(p) => danger' = 0)
         /\ faults' = faults \/ Failing
  <1>1. CASE Kill(p)
    BY <1>1, EndsEffect, ProcessTyped DEF Kill, Resume, Becomes, conditions
  <1>2. CASE Suspend(p)
    BY <1>2, SuspendEffect DEF Suspend, Resume, Becomes, conditions
  <1>3. CASE Resume(p)
    BY <1>3, SuspendEffect DEF Resume, Becomes, bounds
  <1>4. CASE Mark(p)
    BY <1>4, MarkEffect DEF Mark, Resume, Becomes, conditions, bounds
  <1> QED
    BY <1>1, <1>2, <1>3, <1>4 DEF Disturbs

\* Of the processes and their frames a step changes those of p only.
Only(p) ==
  /\ proc' \in [Procs -> Process] /\ \A q \in Procs \ {p} : proc'[q] = proc[q]
  /\ frame' \in [Others -> Frames] /\ \A q \in Others \ {p} : frame'[q] = frame[q]
  /\ UNCHANGED <<kind, safe, testbed, silence>>
  /\ danger' \in {danger, 0}
  /\ faults' = faults \/ Failing

LEMMA SensorSteps ==
  ASSUME TypeOK, NEW s \in Sensors, SensorStep(s)
  PROVE  /\ Only(s)
         /\ measured' \in [Sensors -> BOOLEAN] /\ pause' \in [Sensors -> 0 .. Interval]
         /\ \A r \in Sensors \ {s} : measured'[r] = measured[r] /\ pause'[r] = pause[r]
         /\ UNCHANGED <<guard, check, starts>>
  <1>0. /\ s \in Procs /\ s \in Others /\ s # Service /\ frame \in [Others -> Frames]
        /\ measured \in [Sensors -> BOOLEAN] /\ pause \in [Sensors -> 0 .. Interval]
    BY Constants DEF Procs, Others, TypeOK, Frames
  <1>1. CASE Common(s)
    BY <1>0, <1>1, CommonSteps DEF Only, sensing, conditions
  <1>2. CASE Disturbs(s)
    BY <1>0, <1>2, DisturbsSteps DEF Only, sensing
  <1>3. CASE BeginMeasurement(s)
    <2>1. PICK t \in 0 .. MeasureTime :
            /\ Becomes(s, "up", proc[s].state, "measure", t, FALSE, proc[s].last)
            /\ pause' = [pause EXCEPT ![s] = Pause(s, t)]
      BY <1>3, BeginMeasurementEffect
    <2>2. PICK good \in BOOLEAN : measured' = [measured EXCEPT ![s] = good]
      BY <1>3, Zenon DEF BeginMeasurement, Simulated
    <2>3. Pause(s, t) \in 0 .. Interval
      BY PauseTyped
    <2> QED
      BY <1>0, <1>3, <2>1, <2>2, <2>3 DEF BeginMeasurement, Becomes, Only, bounds, conditions
  <1>4. ASSUME Measured(s)
        PROVE  /\ measured' \in [Sensors -> BOOLEAN] /\ pause' \in [Sensors -> 0 .. Interval]
               /\ \A r \in Sensors \ {s} : measured'[r] = measured[r] /\ pause'[r] = pause[r]
    <2>1. 0 \in 0 .. Interval
      BY Constants
    <2> QED
      BY <1>0, <1>4, <2>1 DEF Measured
  <1>5. CASE EndMeasurement(s)
    <2>1. Submit(s, measured[s]) /\ Measured(s) /\ measured[s] \in BOOLEAN
      BY <1>0, <1>5 DEF EndMeasurement
    <2> QED
      BY <1>0, <1>4, <1>5, <2>1, EndMeasurementEffect, SubmitTyped
      DEF EndMeasurement, Becomes, Only, bounds, conditions
  <1>6. CASE MeasurementFails(s)
    <2>1. /\ proc' \in [Procs -> Process] /\ \A q \in Procs \ {s} : proc'[q] = proc[q]
          /\ frame' = frame \/ Submit(s, FALSE) \/ Submit(s, measured[s])
      BY <1>6, MeasurementFailsEffect DEF Becomes
    <2>2. Measured(s) /\ Failing
      BY <1>6 DEF MeasurementFails
    <2> QED
      BY <1>0, <1>4, <1>6, <2>1, <2>2, FailedFrame DEF MeasurementFails, Only, conditions
  <1> QED
    BY <1>1, <1>2, <1>3, <1>5, <1>6 DEF SensorStep

LEMMA InRangeTyped ==
  ASSUME TypeOK, NEW s \in Sensors
  PROVE  InRange(s) \in BOOLEAN
  BY DEF InRange, TypeOK, Others, None

LEMMA MonitorSteps ==
  ASSUME TypeOK, LifeInv, MonitorStep
  PROVE  /\ Only(Monitor)
         /\ clock' \in {clock, 0} /\ at' \in 1 .. Len(Safeties) + 1 /\ verdict' \in BOOLEAN
         /\ UNCHANGED <<guard, sensing, starts>>
  <1>0. /\ Monitor \in Procs /\ Monitor \in Others /\ Monitor # Service
        /\ frame \in [Others -> Frames] /\ 1 \in 1 .. Len(Safeties) + 1
        /\ Len(Safeties) \in Nat /\ at \in 1 .. Len(Safeties) + 1 /\ verdict \in BOOLEAN
        /\ proc \in [Procs -> Process]
    <2>1. Len(Safeties) \in Nat /\ 1 \in 1 .. Len(Safeties) + 1
      BY Constants
    <2>2. Monitor \in Procs /\ Monitor \in Others /\ Monitor # Service
      BY Constants DEF Procs, Others
    <2> QED
      BY <2>1, <2>2 DEF TypeOK, Frames
  <1>1. CASE Common(Monitor)
    BY <1>0, <1>1, CommonSteps DEF Only, check, conditions
  <1>2. CASE Disturbs(Monitor)
    BY <1>0, <1>2, DisturbsSteps DEF Only, check
  <1>3. CASE BeginCheck
    BY <1>0, <1>3, GotoEffect DEF BeginCheck, Becomes, Only, bounds, conditions
  <1>4. ASSUME NEW good \in BOOLEAN, Judge(good), at <= Len(Safeties)
        PROVE  /\ clock' \in {clock, 0} /\ at' \in 1 .. Len(Safeties) + 1 /\ verdict' \in BOOLEAN
               /\ UNCHANGED <<guard, sensing, kind, safe, danger, testbed, silence, faults,
                              starts>>
    BY <1>0, <1>4 DEF Judge, bounds, conditions
  <1>5. at <= Len(Safeties) => Current \in Sensors
    BY <1>0, Constants DEF Current
  <1>6. CASE CheckSafety
    <2>1. PICK good \in BOOLEAN : Judge(good) /\ UNCHANGED <<proc, frame>>
      BY <1>5, <1>6, InRangeTyped DEF CheckSafety
    <2> QED
      BY <1>0, <1>4, <1>6, <2>1 DEF CheckSafety, Only
  <1>7. CASE AwaitSensor
    BY <1>0, <1>7, AwaitEffect DEF AwaitSensor, Becomes, Only, bounds, conditions, check
  <1>8. CASE EndAwait /\ at <= Len(Safeties)
    <2>1. PICK good \in BOOLEAN : Judge(good)
      BY <1>5, <1>8, InRangeTyped DEF EndAwait
    <2> QED
      BY <1>0, <1>4, <1>8, <2>1, GotoEffect DEF EndAwait, Becomes, Only
  <1>9. CASE EndCheck
    <2>1. CheckInterval \in Nat
      BY Constants
    <2> QED
      BY <1>0, <1>9, <2>1, SleepsEffect, SubmitTyped
      DEF EndCheck, Becomes, Only, bounds, conditions
  <1>10. EndAwait => at <= Len(Safeties)
    BY <1>0 DEF EndAwait, At, LifeInv, MonitorLife
  <1> QED
    BY <1>1, <1>2, <1>3, <1>6, <1>7, <1>8, <1>9, <1>10 DEF MonitorStep

LEMMA VerdictTyped ==
  ASSUME TypeOK
  PROVE  VerdictIsSafe \in BOOLEAN
  BY DEF VerdictIsSafe, TypeOK, Others, None

\* IsSafe returns: the monitor is running and the verdict is looked at, or it is unsafe.
Decides(good) ==
  /\ Decide(good)
  /\ good => Reached(Monitor) /\ VerdictIsSafe

LEMMA IsSafeEffect ==
  ASSUME TypeOK, IsSafe \/ EndAwaitMonitor
  PROVE  \E good \in BOOLEAN : Decides(good)
  BY VerdictTyped DEF IsSafe, EndAwaitMonitor, Decides

Guards == [pc : {"off", "loop", "check", "await", "sleep"}, wait : Nat]

LEMMA ServiceSteps ==
  ASSUME TypeOK, ServiceStep
  PROVE  /\ Only(Service)
         /\ guard' \in Guards
         /\ starts' \in 0 .. MaxStarts
         /\ UNCHANGED <<frame, danger, sensing, check>>
  <1>0. /\ Service \in Procs /\ Service \notin Others /\ Service \notin Sensors
        /\ frame \in [Others -> Frames] /\ guard \in Guards
        /\ starts \in 0 .. MaxStarts /\ MaxStarts \in Nat
        /\ proc \in [Procs -> Process]
        /\ StartTimeout \in Nat /\ SafetyInterval \in Nat
    BY Constants, SafetyAssumption DEF Procs, Others, TypeOK, Frames, Guards
  <1>1. CASE Common(Service)
    BY <1>0, <1>1, CommonSteps DEF Only, conditions, Guards
  <1>2. CASE Start
    BY <1>0, <1>2, StartEffect DEF Start, Becomes, Only, conditions, Guards
  <1>3. CASE GuardLoop
    BY <1>0, <1>3 DEF GuardLoop, Only, conditions, bounds, Guards
  <1>4. ASSUME NEW good \in BOOLEAN, Decides(good)
        PROVE  /\ Only(Service) /\ guard' \in Guards
               /\ UNCHANGED <<frame, danger, sensing, check, starts>>
    <2>1. Decide(good)
      BY <1>4 DEF Decides
    <2>2. UNCHANGED <<conditions, testbed, silence, frame, sensing, check, bounds>>
      BY <2>1 DEF Decide
    <2>3. \/ guard' = [pc |-> "off", wait |-> 0]
          \/ guard' = [pc |-> "sleep", wait |-> SafetyInterval]
      BY <2>1 DEF Decide
    <2>4. proc' \in [Procs -> Process] /\ \A q \in Procs \ {Service} : proc'[q] = proc[q]
      BY <1>0, <2>1, DecideEffect DEF Becomes
    <2> QED
      BY <1>0, <2>2, <2>3, <2>4 DEF Only, conditions, bounds, Guards
  <1>5. CASE AwaitMonitor
    BY <1>0, <1>5 DEF AwaitMonitor, Only, conditions, bounds, Guards
  <1>6. CASE EndMain
    BY <1>0, <1>6, EndMainEffect DEF EndMain, Becomes, Only, conditions, bounds
  <1>7. CASE Join
    BY <1>0, <1>7, JoinEffect DEF Join, Becomes, Only, conditions, bounds
  <1> QED
    BY <1>0, <1>1, <1>2, <1>3, <1>4, <1>5, <1>6, <1>7, IsSafeEffect DEF ServiceStep

\* A process is launched by another one.
LEMMA StartSensorSteps ==
  ASSUME TypeOK, StartSensor
  PROVE  /\ Current \in Sensors /\ Only(Current)
         /\ proc[Current].state = "CLOSED" /\ testbed = "up" /\ at <= Len(Safeties)
         /\ \E t \in 0 .. OpenTime :
              Becomes(Current, "up", "OPENING", "opening", t, FALSE, "CLOSED")
         /\ frame'[Current] = None
         /\ UNCHANGED <<danger, guard, sensing, check, bounds>>
  <1>1. Current \in Sensors /\ Current \in Procs /\ at <= Len(Safeties)
    <2>1. at \in 1 .. Len(Safeties) /\ at <= Len(Safeties)
      BY Constants DEF StartSensor, TypeOK
    <2> QED
      BY <2>1, Constants DEF Current, Procs, Others
  <1>2. PICK t \in 0 .. OpenTime :
          Becomes(Current, "up", "OPENING", "opening", t, FALSE, "CLOSED")
    BY <1>1, LaunchedEffect DEF StartSensor
  <1>3. /\ frame' \in [Others -> Frames] /\ frame'[Current] = None
        /\ \A q \in Others \ {Current} : frame'[q] = frame[q]
    BY <1>1 DEF StartSensor, TypeOK, Frames, Others
  <1>4. proc' \in [Procs -> Process] /\ \A q \in Procs \ {Current} : proc'[q] = proc[q]
    BY <1>2 DEF Becomes
  <1>5. Only(Current)
    BY <1>3, <1>4 DEF StartSensor, Only, conditions, bounds
  <1> QED
    BY <1>1, <1>2, <1>3, <1>5 DEF StartSensor, Starts, conditions

LEMMA StartMonitorSteps ==
  ASSUME TypeOK, StartMonitor
  PROVE  /\ Only(Monitor)
         /\ proc[Monitor].state = "CLOSED" /\ testbed = "up"
         /\ \E t \in 0 .. OpenTime :
              Becomes(Monitor, "up", "OPENING", "opening", t, FALSE, "CLOSED")
         /\ frame'[Monitor] = None
         /\ UNCHANGED <<danger, guard, sensing, check, bounds>>
  <1>1. Monitor \in Procs /\ Monitor \in Others
    BY DEF Procs, Others
  <1>2. PICK t \in 0 .. OpenTime :
          Becomes(Monitor, "up", "OPENING", "opening", t, FALSE, "CLOSED")
    BY <1>1, LaunchedEffect DEF StartMonitor
  <1>3. /\ frame' \in [Others -> Frames] /\ frame'[Monitor] = None
        /\ \A q \in Others \ {Monitor} : frame'[q] = frame[q]
    BY <1>1 DEF StartMonitor, TypeOK, Frames
  <1>4. proc' \in [Procs -> Process] /\ \A q \in Procs \ {Monitor} : proc'[q] = proc[q]
    BY <1>2 DEF Becomes
  <1>5. Only(Monitor)
    BY <1>3, <1>4 DEF StartMonitor, Only, conditions, bounds
  <1> QED
    BY <1>2, <1>3, <1>5 DEF StartMonitor, Starts, conditions

LEMMA OutsideSteps ==
  ASSUME TypeOK, Outside
  PROVE  /\ UNCHANGED <<kind, proc, guard, frame, sensing, check, starts>>
         /\ safe' \in BOOLEAN /\ danger' \in {danger, 0}
         /\ testbed' \in {"up", "suspended", "dead"} /\ silence' \in {silence, 0}
         /\ faults' = faults \/ Failing
  BY DEF Outside, TurnUnsafe, TurnSafe, TestbedFails, TestbedResumes, TypeOK, conditions, bounds

\* The invariants without the ages of what is counted up.
LEMMA Bounds ==
  /\ CheckTime \in Nat /\ Accepted \in Nat /\ Reaction \in Nat /\ Recovery \in Nat
  /\ Farewell \in Nat /\ Grace \in Nat /\ Trusted \in Nat /\ Looked \in Nat
  /\ Begins \in Nat /\ Senses \in Nat
  <1>1. /\ Len(Safeties) \in Nat /\ StartTimeout \in Nat
        /\ SafetyInterval \in Nat /\ HeartbeatLiveness \in Nat
        /\ Interval \in Nat /\ CheckInterval \in Nat
        /\ SafeInterval \in Nat /\ MeasureTime \in Nat /\ OpenTime \in Nat /\ StopTime \in Nat
    BY Constants
  <1>2. CheckTime \in Nat
    BY <1>1 DEF CheckTime
  <1>3. \A a, b \in Nat : Longest(a, b) \in Nat
    BY DEF Longest
  <1>4. Accepted \in Nat
    BY <1>1, <1>2 DEF Accepted
  <1>6. Trusted \in Nat
    BY <1>1, <1>4 DEF Trusted
  <1>7. Reaction \in Nat /\ Looked \in Nat
    BY <1>1, <1>4, <1>6 DEF Reaction, Looked, Longest
  <1>8. Recovery \in Nat /\ Begins \in Nat
    BY <1>1 DEF Recovery, Begins, Longest
  <1>9. Grace \in Nat /\ Senses \in Nat
    BY <1>1, <1>8 DEF Grace, Senses, Longest
  <1>10. Longest(StopTime, StartTimeout) \in Nat
    BY <1>1, <1>3
  <1>11. Farewell = Grace + Longest(StopTime, StartTimeout)
    BY DEF Farewell, Grace
  <1> QED
    BY <1>2, <1>4, <1>6, <1>7, <1>8, <1>9, <1>10, <1>11

LEMMA AgesTyped ==
  ASSUME TypeOK
  PROVE  danger \in Nat /\ silence \in Nat /\ clock \in Nat /\ calm \in Nat
  <1>1. \A bound \in Nat : \A n \in 0 .. bound + 1 : n \in Nat
    OBVIOUS
  <1> QED
    BY <1>1, Bounds DEF TypeOK

LEMMA TypeInit == Init => TypeOK
  <1> SUFFICES ASSUME Init PROVE TypeOK
    OBVIOUS
  <1>1. NotStarted \in Process
    BY DEF NotStarted, Process, States
  <1>2. proc \in [Procs -> Process] /\ frame \in [Others -> {None} \cup [age : Nat, good : BOOLEAN]]
    BY <1>1 DEF Init
  <1>3. MaxStarts \in Nat /\ MaxFaults[kind[Safeties[1]]] \in Nat
    BY Constants, SafetyAssumption DEF Init
  <1>4. /\ Interval \in Nat /\ Len(Safeties) \in Nat /\ CheckTime \in Nat /\ Reaction \in Nat
        /\ Recovery \in Nat /\ Farewell \in Nat
    BY Bounds, Constants
  <1>5. 0 \in 0 .. MaxFaults[kind[Safeties[1]]] /\ 0 \in 0 .. MaxStarts
    BY <1>3
  <1>6. /\ 0 \in 0 .. Interval /\ 1 \in 1 .. Len(Safeties) + 1 /\ 0 \in 0 .. CheckTime + 1
        /\ 0 \in 0 .. Reaction + 1 /\ 0 \in 0 .. Recovery + 1 /\ 0 \in 0 .. Farewell + 1
    BY <1>4
  <1> QED
    BY <1>2, <1>5, <1>6 DEF Init, TypeOK

Calmer == calm' \in {calm, 0}

LEMMA TypeSteps ==
  ASSUME TypeOK, LifeInv, Step, Calmer
  PROVE  TypeOK'
  <1>1. 0 \in 0 .. Reaction + 1 /\ 0 \in 0 .. Farewell + 1 /\ 0 \in 0 .. Recovery + 1
        /\ 0 \in 0 .. CheckTime + 1
    BY Bounds
  <1>2. calm' \in 0 .. Recovery + 1
    BY <1>1 DEF TypeOK, Calmer
  <1>3. ASSUME Failing, kind' = kind
        PROVE  faults' \in 0 .. MaxFaults[kind[Safeties[1]]]
    <2>1. 1 \in 1 .. Len(Safeties) /\ Safeties[1] \in Sensors
      BY Constants
    <2>2. MaxFaults[kind[Safeties[1]]] \in Nat
      BY <2>1, SafetyAssumption DEF TypeOK
    <2> QED
      BY <1>3, <2>2 DEF TypeOK, Failing
  <1>4. ASSUME NEW p, Only(p), guard' \in Guards, sensing' = sensing,
               clock' \in {clock, 0}, at' \in 1 .. Len(Safeties) + 1, verdict' \in BOOLEAN,
               starts' \in 0 .. MaxStarts
        PROVE  TypeOK'
    <2>1. danger' \in 0 .. Reaction + 1 /\ faults' \in 0 .. MaxFaults[kind[Safeties[1]]]
      BY <1>1, <1>3, <1>4 DEF TypeOK, Only
    <2>2. clock' \in 0 .. CheckTime + 1
      BY <1>1, <1>4 DEF TypeOK
    <2>3. measured' \in [Sensors -> BOOLEAN] /\ pause' \in [Sensors -> 0 .. Interval]
      BY <1>4 DEF TypeOK, sensing
    <2> QED
      BY <1>2, <1>4, <2>1, <2>2, <2>3 DEF TypeOK, Only, Frames, Guards
  <1>5. guard \in Guards /\ at \in 1 .. Len(Safeties) + 1 /\ verdict \in BOOLEAN
        /\ starts \in 0 .. MaxStarts
    BY DEF TypeOK, Guards
  <1>6. ASSUME NEW s \in Sensors, SensorStep(s) PROVE TypeOK'
    <2>1. /\ Only(s) /\ UNCHANGED <<guard, check, starts>>
          /\ measured' \in [Sensors -> BOOLEAN] /\ pause' \in [Sensors -> 0 .. Interval]
      BY <1>6, SensorSteps
    <2>2. danger' \in 0 .. Reaction + 1 /\ faults' \in 0 .. MaxFaults[kind[Safeties[1]]]
      BY <1>1, <1>3, <2>1 DEF TypeOK, Only
    <2> QED
      BY <1>2, <2>1, <2>2 DEF TypeOK, Only, Frames, check
  <1>7. CASE MonitorStep
    BY <1>4, <1>5, <1>7, MonitorSteps
  <1>8. CASE ServiceStep
    BY <1>4, <1>5, <1>8, ServiceSteps DEF check
  <1>9. CASE StartSensor
    BY <1>4, <1>5, <1>9, StartSensorSteps DEF check, bounds
  <1>10. CASE StartMonitor
    BY <1>4, <1>5, <1>10, StartMonitorSteps DEF check, bounds
  <1>11. CASE Outside
    <2>1. faults' \in 0 .. MaxFaults[kind[Safeties[1]]]
      BY <1>3, <1>11, OutsideSteps DEF TypeOK
    <2>2. danger' \in 0 .. Reaction + 1 /\ silence' \in 0 .. Farewell + 1
      BY <1>1, <1>11, OutsideSteps DEF TypeOK
    <2> QED
      BY <1>2, <1>11, <2>1, <2>2, OutsideSteps DEF TypeOK, sensing, check
  <1> QED
    BY <1>6, <1>7, <1>8, <1>9, <1>10, <1>11, StepIs

-----------------------------------------------------------------------------
(* A tick.                                                                  *)

LEMMA TickEffect ==
  ASSUME TypeOK, Tick
  PROVE  /\ proc' \in [Procs -> Process] /\ guard' \in Guards /\ frame' \in [Others -> Frames]
         /\ \A p \in Procs :
              /\ proc'[p].runs = proc[p].runs /\ proc'[p].state = proc[p].state
              /\ proc'[p].pc = proc[p].pc /\ proc'[p].wait = Less(proc[p].wait)
              /\ proc'[p].stop = proc[p].stop /\ proc'[p].last = proc[p].last
         /\ guard'.pc = guard.pc /\ guard'.wait = Less(guard.wait)
         /\ \A p \in Others :
              LET bound == IF p = Monitor THEN 3 * SafetyInterval ELSE SafeInterval + CheckTime
              IN  \/ frame[p] = None /\ frame'[p] = None
                  \/ /\ frame[p] # None /\ frame'[p] # None
                     /\ frame[p].age \in Nat /\ frame'[p].good = frame[p].good
                     /\ frame'[p].age = Older(frame[p].age, bound)
  <1>0. \A n \in Nat : Less(n) \in Nat
    BY DEF Less
  <1>1. /\ proc' = [p \in Procs |-> [proc[p] EXCEPT !.wait = Less(@)]]
        /\ guard' = [guard EXCEPT !.wait = Less(@)]
        /\ frame' = [p \in Others |->
             IF frame[p] = None THEN None
             ELSE [frame[p] EXCEPT !.age =
                     Older(@, IF p = Monitor THEN 3 * SafetyInterval
                              ELSE SafeInterval + CheckTime)]]
    BY DEF Tick
  <1>2. ASSUME NEW p \in Procs
        PROVE  /\ proc'[p] \in Process
               /\ proc'[p].runs = proc[p].runs /\ proc'[p].state = proc[p].state
               /\ proc'[p].pc = proc[p].pc /\ proc'[p].wait = Less(proc[p].wait)
               /\ proc'[p].stop = proc[p].stop /\ proc'[p].last = proc[p].last
    <2>1. proc[p] \in Process /\ Less(proc[p].wait) \in Nat
      BY <1>0 DEF TypeOK, Process
    <2>2. proc'[p] = [proc[p] EXCEPT !.wait = Less(@)]
      BY <1>1
    <2> QED
      BY <2>1, <2>2 DEF Process
  <1>3. guard' \in Guards /\ guard'.pc = guard.pc /\ guard'.wait = Less(guard.wait)
    <2>1. guard \in Guards /\ Less(guard.wait) \in Nat
      BY <1>0 DEF TypeOK, Guards
    <2> QED
      BY <1>1, <2>1 DEF Guards
  <1>4. ASSUME NEW p \in Others,
               NEW bound, bound = IF p = Monitor THEN 3 * SafetyInterval
                                  ELSE SafeInterval + CheckTime
        PROVE  /\ frame'[p] \in Frames
               /\ \/ frame[p] = None /\ frame'[p] = None
                  \/ /\ frame[p] # None /\ frame'[p] # None
                     /\ frame[p].age \in Nat /\ frame'[p].good = frame[p].good
                     /\ frame'[p].age = Older(frame[p].age, bound)
    <2>1. frame'[p] = IF frame[p] = None THEN None
                      ELSE [frame[p] EXCEPT !.age = Older(@, bound)]
      BY <1>1, <1>4
    <2>2. CASE frame[p] = None
      BY <2>1, <2>2 DEF Frames
    <2>3. CASE frame[p] # None
      <3>1. frame[p] \in [age : Nat, good : BOOLEAN]
        BY <2>3 DEF TypeOK
      <3>2. Older(frame[p].age, bound) \in Nat
        BY <3>1 DEF Older
      <3>3. frame'[p] = [frame[p] EXCEPT !.age = Older(frame[p].age, bound)]
        BY <2>1, <2>3
      <3>4. /\ frame'[p] \in [age : Nat, good : BOOLEAN]
            /\ frame'[p].good = frame[p].good /\ frame'[p].age = Older(frame[p].age, bound)
        BY <3>1, <3>2, <3>3
      <3>5. None \notin [age : Nat, good : BOOLEAN]
        BY DEF None
      <3> QED
        BY <2>3, <3>1, <3>4, <3>5 DEF Frames
    <2> QED
      BY <2>2, <2>3
  <1> QED
    BY <1>1, <1>2, <1>3, <1>4

LEMMA OlderBound ==
  ASSUME NEW bound \in Nat, NEW age \in 0 .. bound + 1
  PROVE  Older(age, bound) \in 0 .. bound + 1
  BY DEF Older

LEMMA TypeTick ==
  ASSUME TypeOK, Tick, calm' \in 0 .. Recovery + 1
  PROVE  TypeOK'
  <1>1. \A bound \in Nat : 0 \in 0 .. bound + 1
    OBVIOUS
  <1>2. /\ CheckTime \in Nat /\ clock \in 0 .. CheckTime + 1
        /\ Reaction \in Nat /\ danger \in 0 .. Reaction + 1
        /\ Farewell \in Nat /\ silence \in 0 .. Farewell + 1
    BY Bounds DEF TypeOK
  <1>3. /\ clock' \in 0 .. CheckTime + 1 /\ danger' \in 0 .. Reaction + 1
        /\ silence' \in 0 .. Farewell + 1
    <2>1. /\ clock' \in {Older(clock, CheckTime), 0} /\ danger' \in {Older(danger, Reaction), 0}
          /\ silence' \in {Older(silence, Farewell), 0}
      BY DEF Tick
    <2>2. /\ Older(clock, CheckTime) \in 0 .. CheckTime + 1
          /\ Older(danger, Reaction) \in 0 .. Reaction + 1
          /\ Older(silence, Farewell) \in 0 .. Farewell + 1
      BY <1>2, OlderBound
    <2> QED
      BY <1>1, <1>2, <2>1, <2>2
  <1>4. proc' \in [Procs -> Process] /\ guard' \in Guards /\ frame' \in [Others -> Frames]
    BY TickEffect
  <1>5. /\ kind' = kind /\ safe' = safe /\ testbed' = testbed /\ at' = at /\ verdict' = verdict
        /\ measured' = measured /\ pause' = pause /\ faults' = faults /\ starts' = starts
    BY DEF Tick, sensing, bounds
  <1> QED
    BY <1>3, <1>4, <1>5 DEF TypeOK, Frames, Guards

-----------------------------------------------------------------------------
(* Where the processes are.                                                 *)

LEMMA CommonLife ==
  ASSUME BaseInv, NEW p \in Procs, Common(p)
  PROVE  Life(p)'
  <1>0. TypeOK /\ Life(p)
    BY DEF BaseInv, LifeInv
  <1>1. CASE Open(p)
    BY <1>0, <1>1, OpenEffect DEF Becomes, Life, Working
  <1>2. CASE OpenFails(p)
    BY <1>0, <1>2, EndsEffect DEF OpenFails, Becomes, Life, Working, States
  <1>3. CASE MonitorHeartbeats(p)
    BY <1>0, <1>3, HeartbeatsEffect DEF MonitorHeartbeats, HeartbeatsLost, Becomes, Life
  <1>4. CASE Wake(p)
    BY <1>0, <1>4, GotoEffect DEF Wake, At, Becomes, Life, Working
  <1>5. CASE LeaveMain(p)
    BY <1>0, <1>5, LeaveMainEffect DEF Becomes, Life, Working
  <1>6. CASE Close(p)
    BY <1>0, <1>6, EndsEffect, ProcessTyped DEF Close, Becomes, Life, Working, States
  <1> QED
    BY <1>1, <1>2, <1>3, <1>4, <1>5, <1>6 DEF Common

LEMMA DisturbsLife ==
  ASSUME BaseInv, NEW p \in Procs, Disturbs(p)
  PROVE  Life(p)'
  <1>0. TypeOK /\ Life(p)
    BY DEF BaseInv, LifeInv
  <1>1. CASE Kill(p)
    BY <1>0, <1>1, EndsEffect, ProcessTyped DEF Kill, Becomes, Life, Working
  <1>2. CASE Suspend(p)
    BY <1>0, <1>2, SuspendEffect DEF Suspend, Becomes, Life
  <1>3. CASE Resume(p)
    BY <1>0, <1>3, SuspendEffect DEF Resume, Becomes, Life
  <1>4. CASE Mark(p)
    BY <1>0, <1>4, MarkEffect DEF Becomes, Life, Working
  <1> QED
    BY <1>1, <1>2, <1>3, <1>4 DEF Disturbs

\* Of a sensor or the monitor: no common step and nothing that happens to it takes it to where
\* it measures, checks or waits, and it sleeps as long as it did.
LEMMA OthersCommon ==
  ASSUME BaseInv, NEW p \in Others, Common(p) \/ Disturbs(p), proc[p].state # "INITIALIZING"
  PROVE  /\ proc'[p].state # "INITIALIZING"
         /\ proc'[p].pc \in {proc[p].pc, "loop", "closed", "closing"}
         /\ proc'[p].pc \in {"measure", "sleep", "check", "await"} =>
              proc'[p].wait = proc[p].wait /\ proc'[p].pc = proc[p].pc
         /\ proc'[p].runs = "up" => proc[p].runs = "up" \/ danger' = 0
  <1>0. TypeOK /\ p \in Procs /\ p # Service
    BY Constants DEF BaseInv, Procs, Others
  <1>1. CASE Open(p)
    BY <1>0, <1>1, OpenEffect DEF Becomes
  <1>2. CASE OpenFails(p)
    BY <1>0, <1>2, EndsEffect DEF OpenFails, Becomes, States
  <1>3. CASE MonitorHeartbeats(p)
    BY <1>0, <1>3, HeartbeatsEffect DEF MonitorHeartbeats, HeartbeatsLost, Becomes
  <1>4. CASE Wake(p)
    BY <1>0, <1>4, GotoEffect DEF Wake, Becomes
  <1>5. CASE LeaveMain(p)
    BY <1>0, <1>5, LeaveMainEffect DEF LeaveMain, At, Becomes
  <1>6. CASE Close(p)
    BY <1>0, <1>6, EndsEffect, ProcessTyped DEF Close, Becomes, States
  <1>7. CASE Kill(p)
    BY <1>0, <1>7, EndsEffect, ProcessTyped DEF Kill, Becomes
  <1>8. CASE Suspend(p)
    BY <1>0, <1>8, SuspendEffect DEF Suspend, Becomes
  <1>9. CASE Resume(p)
    BY <1>0, <1>9, SuspendEffect DEF Resume, Becomes
  <1>10. CASE Mark(p)
    BY <1>0, <1>10, MarkEffect DEF Becomes
  <1> QED
    BY <1>1, <1>2, <1>3, <1>4, <1>5, <1>6, <1>7, <1>8, <1>9, <1>10 DEF Common, Disturbs

LEMMA SensorLives ==
  ASSUME BaseInv, NEW s \in Sensors, SensorStep(s)
  PROVE  Life(s)' /\ SensorLife(s)'
  <1>0. TypeOK /\ s \in Procs /\ s \in Others /\ s # Service /\ Life(s) /\ SensorLife(s)
    BY Constants DEF BaseInv, LifeInv, Procs, Others
  <1>1. CASE Common(s) \/ Disturbs(s)
    BY <1>0, <1>1, CommonLife, DisturbsLife, OthersCommon DEF SensorLife
  <1>2. CASE BeginMeasurement(s)
    <2>1. PICK t \in 0 .. MeasureTime :
            Becomes(s, "up", proc[s].state, "measure", t, FALSE, proc[s].last)
      BY <1>0, <1>2, BeginMeasurementEffect
    <2>2. proc[s].state \in {"RUNNING", "UNRESPONSIVE"} /\ t <= MeasureTime
      BY <1>0, <1>2, Constants DEF BeginMeasurement, At, Life, Working
    <2> QED
      BY <1>0, <2>1, <2>2 DEF Becomes, Life, SensorLife, Working
  <1>3. CASE EndMeasurement(s)
    <2>1. /\ Becomes(s, "up", proc[s].state, "sleep", pause[s], proc[s].stop, proc[s].last)
          /\ proc[s].state \in {"RUNNING", "UNRESPONSIVE"}
      BY <1>0, <1>3, EndMeasurementEffect DEF EndMeasurement, At, Life, Working
    <2>2. pause[s] <= 2 * Interval
      BY Constants, <1>0 DEF TypeOK
    <2> QED
      BY <1>0, <2>1, <2>2 DEF Becomes, Life, SensorLife, Working
  <1>4. CASE MeasurementFails(s)
    <2>1. proc[s].state \in {"RUNNING", "UNRESPONSIVE"}
      BY <1>0, <1>4 DEF MeasurementFails, At, Life, Working
    <2>2. \A t \in 0 .. 2 * Interval : t <= 2 * Interval
      BY Constants
    <2> QED
      BY <1>0, <1>4, <2>1, <2>2, MeasurementFailsEffect
      DEF Becomes, Life, SensorLife, Working
  <1> QED
    BY <1>1, <1>2, <1>3, <1>4 DEF SensorStep

LEMMA MonitorLives ==
  ASSUME BaseInv, MonitorStep
  PROVE  Life(Monitor)' /\ MonitorLife'
  <1>0. /\ TypeOK /\ Monitor \in Procs /\ Monitor \in Others /\ Monitor # Service
        /\ Life(Monitor) /\ MonitorLife
    BY Constants DEF BaseInv, LifeInv, Procs, Others
  <1>1. CASE Common(Monitor) \/ Disturbs(Monitor)
    <2>1. at' = at
      BY <1>0, <1>1, CommonSteps, DisturbsSteps DEF check
    <2> QED
      BY <1>0, <1>1, <2>1, CommonLife, DisturbsLife, OthersCommon DEF MonitorLife
  <1>2. CASE BeginCheck
    BY <1>0, <1>2, GotoEffect DEF BeginCheck, At, Becomes, Life, MonitorLife, Working
  <1>3. CASE CheckSafety
    BY <1>0, <1>3 DEF CheckSafety, At, Life, MonitorLife
  <1>4. CASE AwaitSensor
    <2>1. StartTimeout <= StartTimeout
      BY Constants
    <2> QED
      BY <1>0, <1>4, <2>1, AwaitEffect
      DEF AwaitSensor, At, Becomes, Life, MonitorLife, Working, check
  <1>5. CASE EndAwait
    BY <1>0, <1>5, GotoEffect DEF EndAwait, At, Becomes, Life, MonitorLife, Working
  <1>6. CASE EndCheck
    <2>1. CheckInterval \in Nat /\ CheckInterval <= CheckInterval
      BY Constants
    <2> QED
      BY <1>0, <1>6, <2>1, SleepsEffect DEF EndCheck, At, Becomes, Life, MonitorLife, Working
  <1> QED
    BY <1>1, <1>2, <1>3, <1>4, <1>5, <1>6 DEF MonitorStep

LEMMA ServiceLives ==
  ASSUME BaseInv, ServiceStep
  PROVE  Life(Service)' /\ ServiceInv' /\ GuardInv'
  <1>0. /\ TypeOK /\ Service \in Procs /\ Life(Service) /\ ServiceInv /\ GuardInv
        /\ guard \in Guards
    BY DEF BaseInv, LifeInv, Procs, TypeOK, Guards
  <1>1. CASE Common(Service)
    <2>1. Life(Service)'
      BY <1>0, <1>1, CommonLife
    <2>2. CASE Open(Service)
      <3>1. guard' = [guard EXCEPT !.pc = "loop"]
        BY <2>2 DEF Open
      <3>2. guard'.pc = "loop" /\ guard'.wait = guard.wait
        BY <1>0, <3>1 DEF Guards
      <3> QED
        BY <1>0, <2>1, <2>2, <3>2, OpenEffect DEF Becomes, ServiceInv, GuardInv
    <2>3. CASE OpenFails(Service)
      BY <1>0, <2>1, <2>3, EndsEffect
      DEF OpenFails, At, Becomes, ServiceInv, GuardInv, States
    <2>4. CASE MonitorHeartbeats(Service)
      BY <1>0, <2>1, <2>4, HeartbeatsEffect
      DEF MonitorHeartbeats, HeartbeatsLost, Becomes, ServiceInv, GuardInv
    <2>5. CASE Wake(Service)
      BY <1>0, <2>5 DEF Wake, At, ServiceInv
    <2>6. CASE LeaveMain(Service)
      BY <1>0, <2>6 DEF LeaveMain, At, ServiceInv
    <2>7. CASE Close(Service)
      <3>1. Becomes(Service, "no", proc[Service].last, "closed", 0, FALSE, "CLOSED")
        BY <1>0, <2>7, EndsEffect, ProcessTyped DEF Close, States
      <3>2. proc[Service].last \in {"CLOSED", "CRASHED", "FAIL_SAFE"}
        BY <1>0, ProcessTyped
      <3>3. guard.pc = "off" /\ guard' = guard
        BY <1>0, <2>7 DEF Close, At, GuardInv
      <3> QED
        BY <1>0, <2>1, <3>1, <3>2, <3>3 DEF Becomes, ServiceInv, GuardInv
    <2> QED
      BY <1>1, <2>2, <2>3, <2>4, <2>5, <2>6, <2>7 DEF Common
  <1>2. CASE Start
    BY <1>0, <1>2, StartEffect
    DEF Start, Becomes, Life, Working, ServiceInv, GuardInv, Guards
  <1>3. CASE GuardLoop
    <2>1. /\ proc' = proc /\ guard' \in Guards /\ guard'.wait = guard.wait
          /\ guard'.pc = IF proc[Service].stop THEN "off" ELSE "check"
          /\ guard.pc \in {"loop", "sleep"}
      BY <1>0, <1>3 DEF GuardLoop, Guards
    <2> QED
      BY <1>0, <2>1 DEF Life, ServiceInv, GuardInv
  <1>4. ASSUME NEW good \in BOOLEAN, Decides(good), guard.pc \in {"check", "await"}
        PROVE  Life(Service)' /\ ServiceInv' /\ GuardInv'
    <2>0. SafetyInterval \in Nat /\ Decide(good)
      BY <1>4, Constants DEF Decides
    <2>1. CASE proc[Service].pc = "precheck" /\ good
      <3>1. PICK t \in 0 .. OpenTime :
              Becomes(Service, proc[Service].runs, "OPENING", "opening", t,
                      proc[Service].stop, proc[Service].last)
        BY <1>0, <2>0, <2>1, DecideEffect
      <3>2. guard'.pc = "off" /\ guard'.wait = 0
        <4>1. guard' = [pc |-> "off", wait |-> 0]
          BY <2>0, <2>1 DEF Decide
        <4> QED
          BY <4>1
      <3>3. t <= OpenTime
        BY Constants
      <3> QED
        BY <1>0, <2>1, <3>1, <3>2, <3>3 DEF Becomes, Life, Working, ServiceInv, GuardInv
    <2>2. CASE proc[Service].pc = "precheck" /\ ~good
      <3>1. Becomes(Service, "no", "FAIL_SAFE", "closed", 0, FALSE, "CLOSED")
        BY <1>0, <2>0, <2>2, DecideEffect
      <3>2. guard'.pc = "off" /\ guard'.wait = 0
        <4>1. guard' = [pc |-> "off", wait |-> 0]
          BY <2>0, <2>2 DEF Decide
        <4> QED
          BY <4>1
      <3> QED
        BY <1>0, <3>1, <3>2 DEF Becomes, Life, Working, ServiceInv, GuardInv
    <2>3. CASE proc[Service].pc # "precheck" /\ good
      <3>1. proc' = proc /\ guard'.pc = "sleep" /\ guard'.wait = SafetyInterval
        BY <2>0, <2>3 DEF Decide
      <3> QED
        BY <1>0, <1>4, <2>0, <2>3, <3>1 DEF Life, ServiceInv, GuardInv
    <2>4. CASE proc[Service].pc # "precheck" /\ ~good
      <3>1. PICK last \in {"CRASHED", "FAIL_SAFE"} :
              Becomes(Service, proc[Service].runs, proc[Service].state, proc[Service].pc,
                      proc[Service].wait, TRUE, last)
        BY <1>0, <2>0, <2>4, DecideEffect
      <3>2. guard'.pc = "off" /\ guard'.wait = 0
        BY <2>0, <2>4 DEF Decide
      <3> QED
        BY <1>0, <2>4, <3>1, <3>2 DEF Becomes, Life, ServiceInv, GuardInv
    <2> QED
      BY <2>1, <2>2, <2>3, <2>4
  <1>5. CASE AwaitMonitor
    <2>1. proc' = proc /\ guard'.pc = "await" /\ guard'.wait = StartTimeout
          /\ guard.pc = "check" /\ StartTimeout \in Nat
      BY <1>5, Constants DEF AwaitMonitor
    <2> QED
      BY <1>0, <2>1 DEF Life, ServiceInv, GuardInv
  <1>6. CASE EndMain
    <2>1. PICK t \in 0 .. StopTime :
            Becomes(Service, "up", proc[Service].state, "stopping", t, TRUE,
                    proc[Service].last)
      BY <1>0, <1>6, EndMainEffect
    <2>2. t <= StopTime /\ guard' = guard /\ proc[Service].pc = "running"
      BY <1>6, Constants DEF EndMain, At
    <2> QED
      BY <1>0, <2>1, <2>2 DEF Becomes, Life, Working, ServiceInv, GuardInv
  <1>7. CASE Join
    BY <1>0, <1>7, JoinEffect DEF Join, At, Becomes, Life, Working, ServiceInv, GuardInv
  <1>8. CASE IsSafe \/ EndAwaitMonitor
    <2>1. guard.pc \in {"check", "await"}
      BY <1>8 DEF IsSafe, EndAwaitMonitor
    <2> QED
      BY <1>0, <1>4, <1>8, <2>1, IsSafeEffect
  <1> QED
    BY <1>1, <1>2, <1>3, <1>5, <1>6, <1>7, <1>8 DEF ServiceStep

\* A sensor or the monitor that is launched.
LEMMA LaunchedLives ==
  ASSUME BaseInv, NEW p \in Procs, NEW t \in 0 .. OpenTime,
         Becomes(p, "up", "OPENING", "opening", t, FALSE, "CLOSED")
  PROVE  Life(p)'
  <1>1. t <= OpenTime
    BY Constants
  <1> QED
    BY <1>1 DEF Becomes, Life, Working

LEMMA ConditionsSteps ==
  ASSUME BaseInv, Step
  PROVE  ConditionsInv'
  <1>0. TypeOK /\ LifeInv /\ ConditionsInv
    BY DEF BaseInv
  <1>1. ASSUME NEW p, Only(p) PROVE ConditionsInv'
    <2>1. UNCHANGED <<kind, safe, testbed, silence>> /\ danger' \in {danger, 0}
      BY <1>1 DEF Only
    <2> QED
      BY <1>0, <2>1 DEF ConditionsInv, Simulated
  <1>2. CASE Outside
    BY <1>0, <1>2
    DEF Outside, TurnUnsafe, TurnSafe, TestbedFails, TestbedResumes, conditions,
        ConditionsInv, Simulated
  <1> QED
    BY <1>0, <1>1, <1>2, StepIs, SensorSteps, MonitorSteps, ServiceSteps, StartSensorSteps,
       StartMonitorSteps

LEMMA BaseSteps ==
  ASSUME BaseInv, Step, Calmer
  PROVE  BaseInv'
  <1>0. /\ TypeOK /\ LifeInv /\ ServiceInv /\ GuardInv
        /\ Service \in Procs /\ Monitor \in Procs /\ Monitor \notin Sensors
        /\ Service \notin Sensors /\ Service # Monitor
        /\ \A s \in Sensors : s \in Procs
    BY Constants DEF BaseInv, Procs, Others
  <1>1. TypeOK' /\ ConditionsInv'
    BY <1>0, TypeSteps, ConditionsSteps
  <1>2. ASSUME NEW p \in Procs, Only(p), Life(p)',
               p \in Sensors => SensorLife(p)',
               p = Monitor \/ at' = at, p = Monitor => MonitorLife',
               p = Service \/ guard' = guard, p = Service => ServiceInv' /\ GuardInv'
        PROVE  BaseInv'
    <2>1. \A q \in Procs \ {p} : proc'[q] = proc[q]
      BY <1>2 DEF Only
    <2>2. \A q \in Procs : Life(q)'
      BY <1>0, <1>2, <2>1 DEF LifeInv, Life
    <2>3. \A s \in Sensors : SensorLife(s)'
      BY <1>0, <1>2, <2>1 DEF LifeInv, SensorLife
    <2>4. MonitorLife'
      BY <1>0, <1>2, <2>1 DEF LifeInv, MonitorLife
    <2>5. ServiceInv' /\ GuardInv'
      BY <1>0, <1>2, <2>1 DEF ServiceInv, GuardInv
    <2> QED
      BY <1>1, <2>2, <2>3, <2>4, <2>5 DEF BaseInv, LifeInv
  <1>3. ASSUME NEW s \in Sensors, SensorStep(s) PROVE BaseInv'
    BY <1>0, <1>2, <1>3, SensorSteps, SensorLives DEF check
  <1>4. CASE MonitorStep
    BY <1>0, <1>2, <1>4, MonitorSteps, MonitorLives
  <1>5. CASE ServiceStep
    BY <1>0, <1>2, <1>5, ServiceSteps, ServiceLives DEF check
  <1>6. CASE StartSensor
    <2>1. PICK s \in Sensors, t \in 0 .. OpenTime :
            Only(s) /\ Becomes(s, "up", "OPENING", "opening", t, FALSE, "CLOSED")
      BY <1>0, <1>6, StartSensorSteps
    <2>2. at' = at /\ guard' = guard
      BY <1>0, <1>6, StartSensorSteps DEF check
    <2>3. Life(s)' /\ SensorLife(s)'
      BY <1>0, <2>1, LaunchedLives DEF Becomes, SensorLife
    <2> QED
      BY <1>0, <1>2, <2>1, <2>2, <2>3
  <1>7. CASE StartMonitor
    <2>1. PICK t \in 0 .. OpenTime :
            Becomes(Monitor, "up", "OPENING", "opening", t, FALSE, "CLOSED")
      BY <1>0, <1>7, StartMonitorSteps
    <2>2. Only(Monitor) /\ at' = at /\ guard' = guard
      BY <1>0, <1>7, StartMonitorSteps DEF check
    <2>3. Life(Monitor)' /\ MonitorLife'
      BY <1>0, <2>1, LaunchedLives DEF Becomes, MonitorLife
    <2> QED
      BY <1>0, <1>2, <2>2, <2>3
  <1>8. CASE Outside
    <2>1. UNCHANGED <<proc, guard, check>>
      BY <1>0, <1>8, OutsideSteps
    <2> QED
      BY <1>0, <1>1, <2>1
      DEF BaseInv, LifeInv, Life, SensorLife, MonitorLife, ServiceInv, GuardInv, check
  <1> QED
    BY <1>3, <1>4, <1>5, <1>6, <1>7, <1>8, StepIs

LEMMA BaseInit == Init => BaseInv
  <1> SUFFICES ASSUME Init PROVE BaseInv
    OBVIOUS
  <1>1. TypeOK
    BY TypeInit
  <1>2. \A p \in Procs : proc[p] = NotStarted
    BY DEF Init
  <1>3. /\ Service \in Procs /\ Monitor \in Procs /\ \A s \in Sensors : s \in Procs
    BY DEF Procs, Others
  <1>4. LifeInv
    BY <1>2, <1>3 DEF LifeInv, Life, SensorLife, MonitorLife, Working, NotStarted
  <1>5. ServiceInv /\ GuardInv
    BY <1>2, <1>3 DEF Init, ServiceInv, GuardInv, NotStarted
  <1> QED
    BY <1>1, <1>4, <1>5 DEF Init, BaseInv, ConditionsInv

LEMMA LessBound ==
  ASSUME NEW bound \in Nat, NEW wait \in Nat, wait <= bound
  PROVE  Less(wait) \in Nat /\ Less(wait) <= bound
  BY DEF Less

LEMMA BaseTick ==
  ASSUME BaseInv, Tick, calm' \in 0 .. Recovery + 1
  PROVE  BaseInv'
  <1>0. /\ TypeOK /\ LifeInv /\ ServiceInv /\ GuardInv /\ ConditionsInv
        /\ Service \in Procs /\ Monitor \in Procs /\ \A s \in Sensors : s \in Procs
    BY DEF BaseInv, Procs, Others
  <1>1. TypeOK'
    BY <1>0, TypeTick
  <1>2. \A p \in Procs :
          /\ proc'[p].runs = proc[p].runs /\ proc'[p].state = proc[p].state
          /\ proc'[p].pc = proc[p].pc /\ proc'[p].wait = Less(proc[p].wait)
          /\ proc'[p].stop = proc[p].stop /\ proc[p].wait \in Nat
    BY <1>0, TickEffect, ProcessTyped
  <1>3. guard'.pc = guard.pc /\ guard'.wait = Less(guard.wait) /\ guard.wait \in Nat
    BY <1>0, TickEffect DEF TypeOK
  <1>4. /\ OpenTime \in Nat /\ MeasureTime \in Nat /\ 2 * Interval \in Nat
        /\ StartTimeout \in Nat /\ CheckInterval \in Nat /\ StopTime \in Nat
        /\ SafetyInterval \in Nat
    BY Constants
  <1>5. at' = at /\ kind' = kind /\ safe' = safe /\ testbed' = testbed
    BY DEF Tick
  <1>6. \A p \in Procs : Life(p)'
    BY <1>0, <1>2, <1>4, LessBound DEF LifeInv, Life
  <1>7. \A s \in Sensors : SensorLife(s)'
    BY <1>0, <1>2, <1>4, LessBound DEF LifeInv, SensorLife
  <1>8. MonitorLife'
    BY <1>0, <1>2, <1>4, <1>5, LessBound DEF LifeInv, MonitorLife
  <1>9. ServiceInv'
    BY <1>0, <1>2, <1>4, LessBound DEF ServiceInv
  <1>10. GuardInv'
    BY <1>0, <1>2, <1>3, <1>4, LessBound DEF GuardInv
  <1>11. ConditionsInv'
    BY <1>0, <1>5 DEF Tick, ConditionsInv, Simulated
  <1> QED
    BY <1>1, <1>6, <1>7, <1>8, <1>9, <1>10, <1>11 DEF BaseInv, LifeInv

-----------------------------------------------------------------------------
(* How long the conditions have been unsafe: the sensors.                   *)

\* The frames of a sensor: it opens, or ends a measurement, or submits nothing.
LEMMA SensorFrames ==
  ASSUME TypeOK, NEW s \in Sensors, SensorStep(s)
  PROVE  \/ frame'[s] = frame[s]
         \/ frame'[s] = FirstFrame(s)
         \/ /\ At(s, "measure") /\ proc[s].wait = 0
            /\ \E good \in BOOLEAN : /\ good => measured[s]
                                     /\ frame'[s] = [age |-> 0, good |-> good]
  <1>0. s \in Procs /\ s \in Others /\ measured[s] \in BOOLEAN
    BY DEF Procs, Others, TypeOK
  <1>1. CASE Open(s)
    BY <1>0, <1>1, OpenFrames
  <1>2. CASE Common(s) /\ ~Open(s)
    BY <1>2 DEF Common, OpenFails, MonitorHeartbeats, Wake, LeaveMain, Close
  <1>3. CASE Disturbs(s)
    BY <1>0, <1>3, DisturbsSteps
  <1>4. CASE BeginMeasurement(s)
    BY <1>4 DEF BeginMeasurement
  <1>5. CASE EndMeasurement(s)
    BY <1>0, <1>5, SubmitTyped DEF EndMeasurement
  <1>6. CASE MeasurementFails(s)
    <2>1. frame' = frame \/ Submit(s, FALSE) \/ Submit(s, measured[s])
      BY <1>6, MeasurementFailsEffect
    <2> QED
      BY <1>6, <2>1, FailedFrame DEF MeasurementFails
  <1> QED
    BY <1>1, <1>2, <1>3, <1>4, <1>5, <1>6 DEF SensorStep

\* What a sensor is in the middle of measuring.
LEMMA SensorMeasures ==
  ASSUME BaseInv, NEW s \in Sensors, SensorStep(s), (At(s, "measure"))'
  PROVE  \/ /\ proc[s].pc = "measure" /\ proc'[s].wait = proc[s].wait
            /\ measured'[s] = measured[s] /\ pause'[s] = pause[s]
            /\ proc[s].runs = "up" \/ danger' = 0
         \/ /\ proc[s].pc = "loop" /\ proc'[s].wait \in 0 .. MeasureTime
            /\ measured'[s] = (safe \/ Simulated(s)) /\ frame' = frame /\ danger' = danger
            /\ pause'[s] = Pause(s, proc'[s].wait)
  <1>0. /\ TypeOK /\ s \in Procs /\ s \in Others /\ proc[s].state # "INITIALIZING"
        /\ measured \in [Sensors -> BOOLEAN] /\ pause \in [Sensors -> 0 .. Interval]
    BY DEF BaseInv, LifeInv, SensorLife, Procs, Others, TypeOK
  <1>1. CASE Common(s) \/ Disturbs(s)
    BY <1>0, <1>1, CommonSteps, DisturbsSteps, OthersCommon DEF At, sensing
  <1>2. CASE BeginMeasurement(s)
    <2>1. PICK t \in 0 .. MeasureTime :
            /\ Becomes(s, "up", proc[s].state, "measure", t, FALSE, proc[s].last)
            /\ pause' = [pause EXCEPT ![s] = Pause(s, t)]
      BY <1>0, <1>2, BeginMeasurementEffect
    <2>2. measured'[s] = (safe \/ Simulated(s))
      BY <1>0, <1>2 DEF BeginMeasurement
    <2> QED
      BY <1>0, <1>2, <2>1, <2>2 DEF BeginMeasurement, At, Becomes, conditions
  <1>3. CASE EndMeasurement(s)
    BY <1>0, <1>3, EndMeasurementEffect DEF Becomes, At
  <1>4. CASE MeasurementFails(s)
    BY <1>0, <1>4, MeasurementFailsEffect DEF Becomes, At
  <1> QED
    BY <1>1, <1>2, <1>3, <1>4 DEF SensorStep

\* Of a frame that is good the age is known.
LEMMA GoodFrame ==
  ASSUME TypeOK, NEW p \in Others, frame[p].good
  PROVE  frame[p] # None /\ frame[p].age \in Nat
  BY DEF TypeOK, None

\* When no sensor does anything the conditions last no longer.
LEMMA SensorDangerKept ==
  ASSUME BaseInv, NEW s \in Sensors, MeasuredDanger(s), danger' \in {danger, 0},
         proc'[s] = proc[s], frame'[s] = frame[s], measured'[s] = measured[s]
  PROVE  MeasuredDanger(s)'
  <1>1. danger \in Nat /\ MeasureTime \in Nat /\ s \in Others /\ s \in Procs /\ TypeOK
    BY Constants, AgesTyped DEF BaseInv, Others, Procs
  <1>2. proc[s].pc = "measure" => proc[s].wait <= MeasureTime
    BY DEF BaseInv, LifeInv, SensorLife
  <1>3. proc[s].wait \in Nat /\ (frame[s].good => frame[s].age \in Nat)
    BY <1>1, ProcessTyped, GoodFrame
  <1> QED
    BY <1>1, <1>2, <1>3 DEF MeasuredDanger, At

LEMMA SensorDangerSteps ==
  ASSUME BaseInv, SensorDanger, Step
  PROVE  SensorDanger'
  <1>0. /\ TypeOK /\ LifeInv /\ danger \in Nat /\ MeasureTime \in Nat
        /\ Monitor \notin Sensors /\ Service \notin Sensors
        /\ \A s \in Sensors : s \in Procs /\ s \in Others
    BY Constants, AgesTyped DEF BaseInv, Others, Procs
  <1>1. kind' = kind
    BY <1>0, StepIs, SensorSteps, MonitorSteps, ServiceSteps, StartSensorSteps,
       StartMonitorSteps, OutsideSteps DEF Only
  <1> SUFFICES ASSUME NEW s \in Sensors, ~Simulated(s) PROVE MeasuredDanger(s)'
    BY <1>1 DEF SensorDanger, Simulated
  <1>2. MeasuredDanger(s)
    BY DEF SensorDanger
  <1>3. ASSUME NEW p \in Procs, p # s, Only(p), measured'[s] = measured[s]
        PROVE  MeasuredDanger(s)'
    BY <1>0, <1>2, <1>3, SensorDangerKept DEF Only
  <1>4. CASE SensorStep(s)
    <2>1. danger' \in {danger, 0}
      BY <1>0, <1>4, SensorSteps DEF Only
    <2>2. ASSUME (At(s, "measure"))', measured'[s]
          PROVE  danger' <= MeasureTime - proc'[s].wait
      <3>1. CASE proc[s].pc = "measure"
        <4>1. proc'[s].wait = proc[s].wait /\ measured'[s] = measured[s]
              /\ (proc[s].runs = "up" \/ danger' = 0)
          BY <1>4, <2>2, <3>1, SensorMeasures
        <4>2. proc[s].wait \in Nat /\ proc[s].wait <= MeasureTime
          BY <1>0, <3>1, ProcessTyped DEF LifeInv, SensorLife
        <4> QED
          BY <1>0, <1>2, <2>1, <2>2, <3>1, <4>1, <4>2 DEF MeasuredDanger, At
      <3>2. CASE proc[s].pc # "measure"
        <4>1. proc'[s].wait \in 0 .. MeasureTime /\ safe /\ danger' = danger
          BY <1>4, <2>2, <3>2, SensorMeasures
        <4> QED
          BY <1>0, <4>1 DEF BaseInv, ConditionsInv
      <3> QED
        BY <3>1, <3>2
    <2>3. ASSUME frame'[s].good
          PROVE  danger' <= MeasureTime + frame'[s].age
                   \/ frame'[s].age > SafeInterval + CheckTime
      <3>1. CASE frame'[s] = frame[s]
        BY <1>0, <1>2, <2>1, <2>3, <3>1, GoodFrame DEF MeasuredDanger
      <3>2. CASE frame'[s] = FirstFrame(s)
        BY <2>3, <3>2, FirstFrameTyped
      <3>3. CASE /\ At(s, "measure") /\ proc[s].wait = 0
                 /\ \E good \in BOOLEAN : /\ good => measured[s]
                                          /\ frame'[s] = [age |-> 0, good |-> good]
        <4>1. measured[s] /\ frame'[s].age = 0
          BY <2>3, <3>3
        <4> QED
          BY <1>0, <1>2, <2>1, <3>3, <4>1 DEF MeasuredDanger
      <3> QED
        BY <1>0, <1>4, <3>1, <3>2, <3>3, SensorFrames
    <2> QED
      BY <2>2, <2>3 DEF MeasuredDanger
  <1>5. ASSUME NEW r \in Sensors, SensorStep(r), r # s PROVE MeasuredDanger(s)'
    BY <1>0, <1>3, <1>5, SensorSteps
  <1>6. CASE MonitorStep
    BY <1>0, <1>3, <1>6, MonitorSteps DEF Procs, Others, sensing
  <1>7. CASE ServiceStep
    BY <1>0, <1>3, <1>7, ServiceSteps DEF Procs, Others, sensing
  <1>8. CASE StartSensor
    <2>1. PICK r \in Sensors, t \in 0 .. OpenTime :
            /\ Only(r) /\ Becomes(r, "up", "OPENING", "opening", t, FALSE, "CLOSED")
            /\ frame'[r] = None /\ measured' = measured
      BY <1>0, <1>8, StartSensorSteps DEF sensing
    <2>2. CASE r = s
      BY <2>1, <2>2 DEF Becomes, MeasuredDanger, At, None
    <2> QED
      BY <1>0, <1>3, <2>1, <2>2
  <1>9. CASE StartMonitor
    BY <1>0, <1>3, <1>9, StartMonitorSteps DEF Procs, Others, sensing
  <1>10. CASE Outside
    BY <1>0, <1>2, <1>10, OutsideSteps, SensorDangerKept DEF sensing
  <1> QED
    BY <1>4, <1>5, <1>6, <1>7, <1>8, <1>9, <1>10, StepIs

LEMMA DangerTick ==
  ASSUME TypeOK, Tick
  PROVE  danger' \in Nat /\ danger' <= danger + 1
  <1>1. danger \in Nat /\ danger' \in {0, Older(danger, Reaction)}
    BY AgesTyped DEF Tick
  <1> QED
    BY <1>1 DEF Older

LEMMA SensorDangerTick ==
  ASSUME BaseInv, SensorDanger, Tick
  PROVE  SensorDanger'
  <1>0. TypeOK /\ danger \in Nat /\ MeasureTime \in Nat /\ SafeInterval + CheckTime \in Nat
    BY Constants, Bounds, AgesTyped DEF BaseInv
  <1>1. danger' \in Nat /\ danger' <= danger + 1 /\ kind' = kind /\ measured' = measured
    BY <1>0, DangerTick DEF Tick, sensing
  <1> SUFFICES ASSUME NEW s \in Sensors, ~Simulated(s) PROVE MeasuredDanger(s)'
    BY <1>1 DEF SensorDanger, Simulated
  <1>2. MeasuredDanger(s) /\ s \in Procs /\ s \in Others /\ s # Monitor /\ proc[s].wait \in Nat
    BY <1>0, Constants, ProcessTyped DEF SensorDanger, Procs, Others
  <1>3. ASSUME (At(s, "measure"))', measured'[s]
        PROVE  danger' <= MeasureTime - proc'[s].wait
    <2>1. proc[s].runs = "up" /\ proc[s].pc = "measure" /\ proc'[s].wait = Less(proc[s].wait)
      BY <1>0, <1>2, <1>3, TickEffect DEF At
    <2>2. proc[s].wait > 0
      BY <1>2, <2>1 DEF Tick, NothingDue, Waits
    <2>3. danger <= MeasureTime - proc[s].wait
      BY <1>1, <1>2, <1>3, <2>1 DEF MeasuredDanger, At
    <2> QED
      BY <1>0, <1>1, <1>2, <2>1, <2>2, <2>3 DEF Less
  <1>4. ASSUME frame'[s].good
        PROVE  danger' <= MeasureTime + frame'[s].age \/ frame'[s].age > SafeInterval + CheckTime
    <2>1. /\ frame[s].good /\ frame[s].age \in Nat
          /\ frame'[s].age = Older(frame[s].age, SafeInterval + CheckTime)
      BY <1>0, <1>2, <1>4, TickEffect DEF None
    <2> QED
      BY <1>0, <1>1, <1>2, <2>1 DEF MeasuredDanger, Older
  <1> QED
    BY <1>3, <1>4 DEF MeasuredDanger

-----------------------------------------------------------------------------
(* How long the conditions have been unsafe: the monitor.                   *)

LEMMA Products ==
  /\ \A i, t \in Nat : i * t \in Nat /\ (i + 1) * t = i * t + t
  /\ \A i, j, t \in Nat : i <= j => i * t <= j * t
  <1>1. ASSUME NEW i \in Nat, NEW t \in Nat
        PROVE  i * t \in Nat /\ (i + 1) * t = i * t + t
    OBVIOUS
  <1>2. ASSUME NEW i \in Nat, NEW j \in Nat, NEW t \in Nat, i <= j
        PROVE  i * t <= j * t
    <2>1. PICK d \in Nat : j = i + d
      <3>1. j - i \in Nat /\ j = i + (j - i)
        BY <1>2
      <3> QED
        BY <3>1
    <2>2. j * t = i * t + d * t
      BY <2>1
    <2>3. i * t \in Nat /\ d * t \in Nat
      OBVIOUS
    <2> QED
      BY <2>2, <2>3
  <1> QED
    BY <1>1, <1>2

\* The time that a check has taken, while it goes on.
LEMMA SpentBound ==
  ASSUME BaseInv
  PROVE  /\ Waited \in Nat /\ Spent \in Nat /\ at \in Nat \ {0}
         /\ (at - 1) * StartTimeout \in Nat
         /\ Spent = (at - 1) * StartTimeout + Waited
         /\ at * StartTimeout = (at - 1) * StartTimeout + StartTimeout
         /\ Waited <= StartTimeout
         /\ at <= Len(Safeties) => at * StartTimeout <= CheckTime
         /\ at - 1 = Len(Safeties) => (at - 1) * StartTimeout = CheckTime
  <1>1. /\ Len(Safeties) \in Nat /\ StartTimeout \in Nat /\ at \in 1 .. Len(Safeties) + 1
        /\ TypeOK /\ Monitor \in Procs
    BY Constants DEF BaseInv, TypeOK, Procs, Others
  <1>2. at \in Nat \ {0} /\ at - 1 \in Nat /\ at = (at - 1) + 1
    BY <1>1
  <1>3. proc[Monitor].wait \in Nat
    BY <1>1, ProcessTyped
  <1>4. Waited \in Nat /\ Waited <= StartTimeout
    BY <1>1, <1>3 DEF Waited, BaseInv, LifeInv, MonitorLife
  <1>5. /\ (at - 1) * StartTimeout \in Nat
        /\ at * StartTimeout = (at - 1) * StartTimeout + StartTimeout
        /\ at <= Len(Safeties) => at * StartTimeout <= Len(Safeties) * StartTimeout
    BY <1>1, <1>2, Products
  <1> QED
    BY <1>2, <1>4, <1>5 DEF Spent, CheckTime

\* As long as the monitor goes on with its check.
LEMMA CheckDangerKept ==
  ASSUME BaseInv, CheckDanger, danger' \in {danger, 0}, UNCHANGED <<kind, check>>,
         Checks' => /\ proc'[Monitor].pc = proc[Monitor].pc
                    /\ proc'[Monitor].wait = proc[Monitor].wait
                    /\ proc[Monitor].runs = "up" \/ danger' = 0
  PROVE  CheckDanger'
  <1> SUFFICES ASSUME Checks'
               PROVE  /\ clock' <= Spent' \/ danger' <= Spent'
                      /\ \A i \in 1 .. at' - 1 :
                           verdict' /\ ~Simulated(Safeties[i])'
                             => danger' <= MeasureTime + SafeInterval + Spent'
    BY DEF CheckDanger
  <1>1. Spent \in Nat /\ danger \in Nat /\ MeasureTime \in Nat /\ SafeInterval \in Nat
    BY SpentBound, AgesTyped, Constants DEF BaseInv
  <1>2. Spent' = Spent /\ clock' = clock /\ at' = at /\ verdict' = verdict
    BY DEF Spent, Waited, check
  <1>3. CASE danger' = 0
    BY <1>1, <1>2, <1>3
  <1>4. CASE danger' = danger /\ danger # 0
    <2>1. Checks
      BY <1>4 DEF Checks, At
    <2> QED
      BY <1>2, <1>4, <2>1 DEF CheckDanger, Simulated
  <1> QED
    BY <1>3, <1>4

LEMMA VerdictDangerKept ==
  ASSUME BaseInv, VerdictDanger, danger' \in {danger, 0}, frame'[Monitor] = frame[Monitor]
  PROVE  VerdictDanger'
  <1>1. danger \in Nat /\ Accepted \in Nat /\ Monitor \in Others /\ TypeOK
    BY AgesTyped, Bounds DEF BaseInv, Others
  <1> QED
    BY <1>1, GoodFrame DEF VerdictDanger

\* What the monitor makes of a sensor: where it is in range the conditions were still good
\* when what is in the frame was measured.
LEMMA JudgeDanger ==
  ASSUME BaseInv, SensorDanger, CheckDanger, Checks, at <= Len(Safeties),
         NEW good \in BOOLEAN, good => InRange(Current), Judge(good),
         proc'[Monitor].pc = "check"
  PROVE  CheckDanger'
  <1>0. /\ TypeOK /\ danger \in Nat /\ clock \in Nat /\ at \in Nat \ {0}
        /\ MeasureTime \in Nat /\ SafeInterval \in Nat /\ StartTimeout \in Nat
        /\ CheckTime \in Nat /\ Len(Safeties) \in Nat
    BY SpentBound, AgesTyped, Constants, Bounds DEF BaseInv
  <1>1. Current \in Sensors /\ Current \in Others /\ Current = Safeties[at]
    BY <1>0, Constants DEF Current, Others
  <1>2. /\ kind' = kind /\ danger' = danger /\ clock' = clock /\ at' = at + 1
        /\ verdict' = (verdict /\ good)
    BY DEF Judge, conditions
  <1>3. Spent' = at * StartTimeout
    BY <1>0, <1>2, SpentBound DEF Spent, Waited
  <1>4. Spent \in Nat /\ Spent <= at * StartTimeout /\ at * StartTimeout <= CheckTime
        /\ at * StartTimeout \in Nat
    BY <1>0, SpentBound
  <1>5. clock <= Spent \/ danger <= Spent
    BY DEF CheckDanger
  <1>6. ASSUME good, ~Simulated(Current)
        PROVE  danger <= MeasureTime + SafeInterval + at * StartTimeout
    <2>1. frame[Current].good /\ frame[Current].age - clock <= SafeInterval
      BY <1>6 DEF InRange
    <2>2. frame[Current].age \in Nat
      BY <1>0, <1>1, <2>1, GoodFrame
    <2>3. \/ danger <= MeasureTime + frame[Current].age
          \/ frame[Current].age > SafeInterval + CheckTime
      BY <1>1, <1>6, <2>1 DEF SensorDanger, MeasuredDanger
    <2>4. PICK end \in Nat : end = at * StartTimeout
      BY <1>4
    <2>5. Spent \in Nat /\ Spent <= end /\ end <= CheckTime
      BY <1>4, <2>4
    <2>6. /\ danger \in Nat /\ clock \in Nat /\ MeasureTime \in Nat /\ SafeInterval \in Nat
          /\ CheckTime \in Nat
      BY <1>0
    <2>7. frame[Current].age - clock <= SafeInterval
      BY <2>1
    <2>8. danger <= MeasureTime + SafeInterval + end
      <3>1. CASE danger <= Spent
        BY <2>5, <2>6, <3>1
      <3>2. CASE clock <= Spent
        <4>1. frame[Current].age <= SafeInterval + Spent
          BY <2>2, <2>5, <2>6, <2>7, <3>2
        <4>2. danger <= MeasureTime + frame[Current].age
          BY <2>2, <2>3, <2>5, <2>6, <4>1
        <4> QED
          BY <2>2, <2>5, <2>6, <4>1, <4>2
      <3> QED
        BY <1>5, <3>1, <3>2
    <2> QED
      BY <2>4, <2>8
  <1>7. ASSUME NEW i \in 1 .. at' - 1, verdict', ~Simulated(Safeties[i])
        PROVE  danger <= MeasureTime + SafeInterval + at * StartTimeout
    <2>1. CASE i = at
      BY <1>1, <1>2, <1>6, <1>7, <2>1
    <2>2. CASE i \in 1 .. at - 1
      <3>1. danger <= MeasureTime + SafeInterval + Spent
        BY <1>2, <1>7, <2>2 DEF CheckDanger
      <3> QED
        BY <1>0, <1>4, <3>1
    <2> QED
      BY <1>0, <1>2, <2>1, <2>2
  <1>8. clock' <= Spent' \/ danger' <= Spent'
    BY <1>0, <1>2, <1>3, <1>4, <1>5
  <1>9. \A i \in 1 .. at' - 1 : verdict' /\ ~Simulated(Safeties[i])'
          => danger' <= MeasureTime + SafeInterval + Spent'
    BY <1>2, <1>3, <1>7 DEF Simulated
  <1> QED
    BY <1>8, <1>9 DEF CheckDanger

\* The verdict is good only where the conditions were still good for one of the sensors that
\* measure them.
LEMMA EndCheckDanger ==
  ASSUME BaseInv, CheckDanger, VerdictDanger, EndCheck
  PROVE  CheckDanger' /\ VerdictDanger'
  <1>0. /\ TypeOK /\ danger \in Nat /\ Accepted \in Nat /\ CheckTime \in Nat
        /\ MeasureTime \in Nat /\ SafeInterval \in Nat /\ Len(Safeties) \in Nat
        /\ Monitor \in Procs /\ Monitor \in Others /\ CheckInterval \in Nat
        /\ verdict \in BOOLEAN /\ at \in 1 .. Len(Safeties) + 1
    BY AgesTyped, Constants, Bounds DEF BaseInv, TypeOK, Procs, Others
  <1>1. /\ At(Monitor, "check") /\ at > Len(Safeties) /\ Submit(Monitor, verdict)
        /\ Sleeps(Monitor, CheckInterval) /\ danger' = danger
    BY DEF EndCheck, conditions
  <1>2. CheckDanger'
    BY <1>0, <1>1, SleepsEffect DEF Becomes, CheckDanger, Checks, At
  <1>3. frame'[Monitor] = [age |-> 0, good |-> verdict]
    BY <1>0, <1>1, SubmitTyped
  <1>4. ASSUME verdict PROVE danger <= Accepted
    <2>1. CASE safe
      BY <1>0, <2>1 DEF BaseInv, ConditionsInv
    <2>2. CASE ~safe
      <3>1. PICK s \in Sensors : ~Simulated(s)
        BY <2>2 DEF BaseInv, ConditionsInv
      <3>2. PICK i \in 1 .. Len(Safeties) : Safeties[i] = s
        BY Constants
      <3>3. at - 1 = Len(Safeties)
        BY <1>0, <1>1
      <3>4. danger <= MeasureTime + SafeInterval + Spent
        BY <1>1, <1>4, <3>1, <3>2, <3>3 DEF CheckDanger, Checks
      <3>5. Spent = CheckTime
        <4>1. Waited = 0
          BY <1>1 DEF Waited, At
        <4> QED
          BY <1>0, <3>3, <4>1, SpentBound
      <3> QED
        BY <3>4, <3>5 DEF Accepted
    <2> QED
      BY <2>1, <2>2
  <1>5. frame'[Monitor].good = verdict /\ frame'[Monitor].age = 0
    BY <1>3
  <1>6. VerdictDanger'
    BY <1>0, <1>1, <1>4, <1>5 DEF VerdictDanger
  <1> QED
    BY <1>2, <1>6

LEMMA MonitorDangerSteps ==
  ASSUME BaseInv, SensorDanger, MonitorDanger, Step
  PROVE  MonitorDanger'
  <1>0. /\ TypeOK /\ LifeInv /\ danger \in Nat /\ MonitorLife
        /\ CheckDanger /\ VerdictDanger
        /\ Monitor \notin Sensors /\ Service # Monitor /\ Monitor \in Procs /\ Monitor \in Others
    BY AgesTyped, Constants DEF BaseInv, LifeInv, MonitorDanger, Procs, Others
  <1>1. ASSUME danger' \in {danger, 0}, UNCHANGED <<kind, check>>,
               proc'[Monitor] = proc[Monitor], frame'[Monitor] = frame[Monitor]
        PROVE  MonitorDanger'
    BY <1>0, <1>1, CheckDangerKept, VerdictDangerKept DEF MonitorDanger, Checks, At
  <1>2. ASSUME NEW p \in Procs, p # Monitor, Only(p), check' = check
        PROVE  MonitorDanger'
    BY <1>0, <1>1, <1>2 DEF Only
  <1>3. ASSUME NEW s \in Sensors, SensorStep(s) PROVE MonitorDanger'
    BY <1>0, <1>2, <1>3, SensorSteps DEF Procs, Others
  <1>4. CASE ServiceStep
    BY <1>0, <1>2, <1>4, ServiceSteps DEF Procs
  <1>5. CASE StartSensor
    <2>1. PICK s \in Sensors : Only(s)
      BY <1>0, <1>5, StartSensorSteps
    <2> QED
      BY <1>0, <1>2, <1>5, <2>1, StartSensorSteps DEF Procs, Others
  <1>6. CASE StartMonitor
    <2>1. PICK t \in 0 .. OpenTime :
            Becomes(Monitor, "up", "OPENING", "opening", t, FALSE, "CLOSED")
      BY <1>0, <1>6, StartMonitorSteps
    <2>2. frame'[Monitor] = None
      BY <1>0, <1>6, StartMonitorSteps
    <2> QED
      BY <2>1, <2>2 DEF Becomes, MonitorDanger, CheckDanger, VerdictDanger, Checks, At, None
  <1>7. CASE Outside
    BY <1>0, <1>1, <1>7, OutsideSteps
  <1>8. CASE Common(Monitor) \/ Disturbs(Monitor)
    <2>1. danger' \in {danger, 0} /\ kind' = kind /\ check' = check /\ frame' = frame
      BY <1>0, <1>8, CommonSteps, DisturbsSteps DEF conditions
    <2>2. Checks' => /\ proc'[Monitor].pc = proc[Monitor].pc
                     /\ proc'[Monitor].wait = proc[Monitor].wait
                     /\ proc[Monitor].runs = "up" \/ danger' = 0
      BY <1>0, <1>8, OthersCommon DEF MonitorLife, Checks, At
    <2> QED
      BY <1>0, <2>1, <2>2, CheckDangerKept, VerdictDangerKept DEF MonitorDanger
  <1>9. CASE BeginCheck
    <2>1. /\ clock' = 0 /\ at' = 1 /\ danger' = danger /\ frame' = frame
          /\ proc'[Monitor].pc = "check"
      BY <1>0, <1>9, GotoEffect DEF BeginCheck, Becomes, conditions
    <2>2. Spent' = 0
      <3>1. StartTimeout \in Nat
        BY Constants
      <3> QED
        BY <2>1, <3>1 DEF Spent, Waited
    <2>3. CheckDanger'
      BY <2>1, <2>2 DEF CheckDanger
    <2>4. VerdictDanger'
      BY <1>0, <2>1, VerdictDangerKept
    <2> QED
      BY <2>3, <2>4 DEF MonitorDanger
  <1>10. CASE CheckSafety
    <2>1. PICK good \in BOOLEAN : Judge(good) /\ (good => InRange(Current))
      <3>1. Current \in Sensors
        BY <1>0, <1>10, Constants DEF CheckSafety, TypeOK, Current
      <3> QED
        BY <1>0, <1>10, <3>1, InRangeTyped DEF CheckSafety
    <2>2. /\ proc' = proc /\ frame' = frame /\ danger' = danger
          /\ at <= Len(Safeties) /\ Checks /\ proc[Monitor].pc = "check"
      BY <1>10, <2>1 DEF CheckSafety, Judge, Checks, At, conditions
    <2> QED
      BY <1>0, <2>1, <2>2, JudgeDanger, VerdictDangerKept DEF MonitorDanger
  <1>11. CASE AwaitSensor
    <2>1. danger' = danger /\ UNCHANGED <<kind, check, frame>> /\ At(Monitor, "check")
      BY <1>11 DEF AwaitSensor, conditions
    <2>2. /\ proc'[Monitor].pc = "await" /\ proc'[Monitor].wait = StartTimeout
          /\ StartTimeout \in Nat /\ proc[Monitor].pc = "check"
      BY <1>0, <1>11, <2>1, AwaitEffect, Constants DEF Becomes, At
    <2>3. Spent' = Spent /\ clock' = clock /\ at' = at /\ verdict' = verdict
      BY <2>1, <2>2 DEF Spent, Waited, check
    <2>4. Checks
      BY <2>1 DEF Checks
    <2>5. CheckDanger'
      BY <1>0, <2>1, <2>3, <2>4 DEF CheckDanger, Simulated
    <2> QED
      BY <1>0, <2>1, <2>5, VerdictDangerKept DEF MonitorDanger
  <1>12. CASE EndAwait
    <2>1. at <= Len(Safeties) /\ Checks /\ proc'[Monitor].pc = "check" /\ frame' = frame
      BY <1>0, <1>12, GotoEffect DEF EndAwait, Checks, At, MonitorLife, Becomes
    <2>2. PICK good \in BOOLEAN : Judge(good) /\ (good => InRange(Current))
      <3>1. Current \in Sensors
        BY <1>0, <2>1, Constants DEF TypeOK, Current
      <3> QED
        BY <1>0, <1>12, <3>1, InRangeTyped DEF EndAwait
    <2>3. danger' = danger
      BY <2>2 DEF Judge, conditions
    <2> QED
      BY <1>0, <2>1, <2>2, <2>3, JudgeDanger, VerdictDangerKept DEF MonitorDanger
  <1>13. CASE EndCheck
    BY <1>0, <1>13, EndCheckDanger DEF MonitorDanger
  <1> QED
    BY <1>3, <1>4, <1>5, <1>6, <1>7, <1>8, <1>9, <1>10, <1>11, <1>12, <1>13, StepIs
    DEF MonitorStep

LEMMA MonitorDangerTick ==
  ASSUME BaseInv, MonitorDanger, Tick
  PROVE  MonitorDanger'
  <1>0. /\ TypeOK /\ danger \in Nat /\ clock \in Nat /\ Accepted \in Nat
        /\ MeasureTime \in Nat /\ SafeInterval \in Nat
        /\ 3 * SafetyInterval \in Nat /\ Monitor \in Procs /\ Monitor \in Others
    BY AgesTyped, Bounds, Constants DEF BaseInv, Procs, Others
  <1>1. /\ danger' \in Nat /\ danger' <= danger + 1
        /\ kind' = kind /\ at' = at /\ verdict' = verdict
    BY <1>0, DangerTick DEF Tick
  <1>2. clock' \in Nat /\ clock' <= clock + 1
    <2>1. clock' \in {0, Older(clock, CheckTime)}
      BY DEF Tick
    <2> QED
      BY <1>0, <2>1 DEF Older
  <1>3. ASSUME Checks' PROVE Checks /\ Spent' = Spent + 1
    <2>1. /\ proc[Monitor].runs = "up" /\ proc[Monitor].pc \in {"check", "await"}
          /\ proc'[Monitor].pc = proc[Monitor].pc /\ proc'[Monitor].wait = Less(proc[Monitor].wait)
      BY <1>0, <1>3, TickEffect DEF Checks, At
    <2>2. proc[Monitor].pc = "await" /\ proc[Monitor].wait # 0
      BY <1>0, <2>1 DEF Tick, NothingDue, Waits, GivesUp
    <2>3. proc'[Monitor].wait = proc[Monitor].wait - 1 /\ proc[Monitor].wait \in Nat
      BY <1>0, <2>1, <2>2, ProcessTyped DEF Less
    <2>4. /\ Waited = StartTimeout - proc[Monitor].wait
          /\ Waited' = StartTimeout - (proc[Monitor].wait - 1) /\ StartTimeout \in Nat
      BY <2>1, <2>2, <2>3, Constants DEF Waited
    <2>5. Waited' = Waited + 1 /\ Waited \in Nat /\ (at - 1) * StartTimeout \in Nat
      BY <2>3, <2>4, SpentBound
    <2>6. Spent' = (at - 1) * StartTimeout + Waited' /\ Spent = (at - 1) * StartTimeout + Waited
      BY <1>1 DEF Spent
    <2> QED
      BY <2>1, <2>5, <2>6 DEF Checks, At
  <1>4. CheckDanger'
    <2> SUFFICES ASSUME Checks'
                 PROVE  /\ clock' <= Spent' \/ danger' <= Spent'
                        /\ \A i \in 1 .. at' - 1 :
                             verdict' /\ ~Simulated(Safeties[i])'
                               => danger' <= MeasureTime + SafeInterval + Spent'
      BY DEF CheckDanger
    <2>1. Spent \in Nat /\ Spent' = Spent + 1 /\ CheckDanger /\ Checks
      BY <1>3, SpentBound DEF MonitorDanger
    <2>2. clock' <= Spent' \/ danger' <= Spent'
      BY <1>0, <1>1, <1>2, <2>1 DEF CheckDanger
    <2>3. ASSUME NEW i \in 1 .. at' - 1, verdict', ~Simulated(Safeties[i])'
          PROVE  danger' <= MeasureTime + SafeInterval + Spent'
      <3>1. danger <= MeasureTime + SafeInterval + Spent
        BY <1>1, <2>1, <2>3 DEF CheckDanger, Simulated
      <3> QED
        BY <1>0, <1>1, <2>1, <3>1
    <2> QED
      BY <2>2, <2>3
  <1>5. VerdictDanger'
    <2> SUFFICES ASSUME frame'[Monitor].good
                 PROVE  \/ danger' <= Accepted + frame'[Monitor].age
                        \/ frame'[Monitor].age > 3 * SafetyInterval
      BY DEF VerdictDanger
    <2>1. /\ frame[Monitor].good /\ frame[Monitor].age \in Nat
          /\ frame'[Monitor].age = Older(frame[Monitor].age, 3 * SafetyInterval)
      BY <1>0, TickEffect DEF None
    <2> QED
      BY <1>0, <1>1, <2>1 DEF MonitorDanger, VerdictDanger, Older
  <1> QED
    BY <1>4, <1>5 DEF MonitorDanger

-----------------------------------------------------------------------------
(* How long the conditions have been unsafe: the service.                   *)

LEMMA ReactionIs ==
  /\ Trusted \in Nat /\ Looked \in Nat /\ Reaction \in Nat
  /\ OpenTime \in Nat /\ SafetyInterval \in Nat /\ StartTimeout \in Nat /\ StopTime \in Nat
  /\ Trusted + OpenTime <= Looked /\ Trusted + SafetyInterval <= Looked
  /\ Reaction = Looked + StartTimeout + StopTime
  <1>1. /\ Trusted \in Nat /\ Looked \in Nat /\ Reaction \in Nat /\ Accepted \in Nat
        /\ OpenTime \in Nat /\ SafetyInterval \in Nat /\ StartTimeout \in Nat /\ StopTime \in Nat
    BY Bounds, Constants
  <1>2. /\ Longest(OpenTime, SafetyInterval) \in Nat
        /\ OpenTime <= Longest(OpenTime, SafetyInterval)
        /\ SafetyInterval <= Longest(OpenTime, SafetyInterval)
    BY <1>1 DEF Longest
  <1> QED
    BY <1>1, <1>2 DEF Looked, Reaction, Trusted

\* The service and its thread, as far as the bounds are concerned.
LEMMA ServiceTyped ==
  ASSUME BaseInv
  PROVE  /\ TypeOK /\ Service \in Procs /\ proc[Service].wait \in Nat /\ guard.wait \in Nat
         /\ guard.pc \in {"off", "loop", "check", "await", "sleep"}
         /\ danger \in Nat /\ silence \in Nat
         /\ ServiceInv /\ GuardInv /\ Life(Service)
  <1>1. TypeOK /\ Service \in Procs
    BY DEF BaseInv, Procs
  <1>2. guard \in [pc : {"off", "loop", "check", "await", "sleep"}, wait : Nat]
    BY <1>1 DEF TypeOK
  <1> QED
    BY <1>1, <1>2, ProcessTyped, AgesTyped DEF BaseInv, LifeInv

LEMMA ServiceDangerKept ==
  ASSUME BaseInv, ServiceDanger, danger' \in {danger, 0}, guard' = guard,
         proc'[Service] = proc[Service]
  PROVE  ServiceDanger'
  <1>1. CASE danger' = 0
    BY <1>1, ReactionIs, ServiceTyped DEF ServiceDanger, ServiceInv, GuardInv, Life
  <1>2. CASE danger' = danger
    BY <1>2 DEF ServiceDanger
  <1> QED
    BY <1>1, <1>2

\* The verdict that the service believes.
LEMMA TrustedVerdict ==
  ASSUME BaseInv, MonitorDanger, VerdictIsSafe
  PROVE  danger <= Trusted
  <1>1. /\ TypeOK /\ Monitor \in Others /\ danger \in Nat /\ Accepted \in Nat
        /\ SafetyInterval \in Nat
    BY AgesTyped, Bounds, Constants DEF BaseInv, Others
  <1>2. frame[Monitor].good /\ frame[Monitor].age <= 3 * SafetyInterval
    BY DEF VerdictIsSafe
  <1>3. frame[Monitor].age \in Nat
    BY <1>1, <1>2, GoodFrame
  <1> QED
    BY <1>1, <1>2, <1>3 DEF MonitorDanger, VerdictDanger, Trusted

LEMMA ServiceMoves ==
  ASSUME BaseInv, MonitorDanger, ServiceDanger, ServiceStep
  PROVE  ServiceDanger'
  <1>0. /\ TypeOK /\ Service \in Procs /\ danger \in Nat /\ guard \in Guards
        /\ proc[Service].wait \in Nat /\ guard.wait \in Nat
        /\ ServiceInv /\ GuardInv
    BY ServiceTyped DEF TypeOK, Guards
  <1>1. danger' = danger
    BY <1>0, ServiceSteps DEF BaseInv
  <1>2. CASE Open(Service)
    <2>1. guard' = [guard EXCEPT !.pc = "loop"]
      BY <1>2 DEF Open
    <2>2. guard'.pc = "loop" /\ proc[Service].pc = "opening" /\ proc[Service].wait = 0
      BY <1>0, <1>2, <2>1 DEF Open, At, Guards
    <2>3. proc'[Service].pc = "running"
      BY <1>0, <1>2, OpenEffect DEF Becomes
    <2> QED
      BY <1>0, <1>1, <2>2, <2>3, ReactionIs DEF ServiceDanger
  <1>3. CASE OpenFails(Service) \/ Close(Service)
    <2>1. proc'[Service].pc = "closed"
      BY <1>0, <1>3, EndsEffect, ProcessTyped DEF OpenFails, Close, Becomes, States
    <2> QED
      BY <2>1 DEF ServiceDanger
  <1>4. CASE MonitorHeartbeats(Service)
    <2>1. /\ guard' = guard /\ proc'[Service].pc = proc[Service].pc
          /\ proc'[Service].wait = proc[Service].wait
      BY <1>0, <1>4, HeartbeatsEffect DEF MonitorHeartbeats, Becomes
    <2> QED
      BY <1>1, <2>1 DEF ServiceDanger
  <1>5. CASE Wake(Service) \/ LeaveMain(Service)
    BY <1>0, <1>5 DEF Wake, LeaveMain, At, ServiceInv
  <1>6. CASE Start
    <2>1. proc'[Service].pc = "precheck"
      BY <1>0, <1>6, StartEffect DEF Becomes
    <2> QED
      BY <2>1 DEF ServiceDanger
  <1>7. CASE GuardLoop
    <2>1. /\ proc' = proc /\ guard'.pc \in {"off", "check"} /\ guard.pc \in {"loop", "sleep"}
      BY <1>0, <1>7 DEF GuardLoop, Guards
    <2>2. proc[Service].pc \in {"running", "stopping"}
      BY <1>0, <2>1 DEF GuardInv
    <2>3. danger <= Looked
      BY <1>0, <2>1, <2>2, ReactionIs DEF ServiceDanger
    <2> QED
      BY <1>0, <1>1, <2>1, <2>2, <2>3, ReactionIs DEF ServiceDanger
  <1>8. CASE IsSafe \/ EndAwaitMonitor
    <2>1. PICK good \in BOOLEAN : Decides(good)
      BY <1>0, <1>8, IsSafeEffect
    <2>2. guard.pc \in {"check", "await"}
      BY <1>8 DEF IsSafe, EndAwaitMonitor
    <2>3. Decide(good) /\ (good => danger <= Trusted)
      BY <2>1, TrustedVerdict DEF Decides
    <2>4. CASE proc[Service].pc = "precheck" /\ good
      <3>1. PICK t \in 0 .. OpenTime :
              Becomes(Service, proc[Service].runs, "OPENING", "opening", t,
                      proc[Service].stop, proc[Service].last)
        BY <1>0, <2>3, <2>4, DecideEffect
      <3> QED
        BY <1>0, <1>1, <2>3, <2>4, <3>1, ReactionIs DEF Becomes, ServiceDanger
    <2>5. CASE proc[Service].pc = "precheck" /\ ~good
      <3>1. Becomes(Service, "no", "FAIL_SAFE", "closed", 0, FALSE, "CLOSED")
        BY <1>0, <2>3, <2>5, DecideEffect
      <3> QED
        BY <3>1 DEF Becomes, ServiceDanger
    <2>6. CASE proc[Service].pc # "precheck" /\ good
      <3>1. proc' = proc /\ guard'.pc = "sleep" /\ guard'.wait = SafetyInterval
        BY <2>3, <2>6 DEF Decide
      <3>2. proc[Service].pc \in {"running", "stopping"}
        BY <1>0, <2>2, <2>6 DEF GuardInv
      <3> QED
        BY <1>0, <1>1, <2>3, <2>6, <3>1, <3>2, ReactionIs DEF ServiceDanger
    <2>7. CASE proc[Service].pc # "precheck" /\ ~good
      <3>1. PICK last \in {"CRASHED", "FAIL_SAFE"} :
              Becomes(Service, proc[Service].runs, proc[Service].state, proc[Service].pc,
                      proc[Service].wait, TRUE, last)
        BY <1>0, <2>3, <2>7, DecideEffect
      <3>2. guard'.pc = "off"
        BY <2>3, <2>7 DEF Decide
      <3>3. proc[Service].pc \in {"running", "stopping"}
        BY <1>0, <2>2, <2>7 DEF GuardInv
      <3>4. danger <= Looked + StartTimeout
        BY <1>0, <2>2, <3>3, ReactionIs DEF ServiceDanger
      <3> QED
        BY <1>0, <1>1, <3>1, <3>2, <3>3, <3>4, ReactionIs DEF Becomes, ServiceDanger
    <2> QED
      BY <2>4, <2>5, <2>6, <2>7
  <1>9. CASE AwaitMonitor
    <2>1. /\ proc' = proc /\ guard'.pc = "await" /\ guard'.wait = StartTimeout
          /\ guard.pc = "check"
      BY <1>9 DEF AwaitMonitor
    <2> QED
      BY <1>0, <1>1, <2>1, ReactionIs DEF ServiceDanger
  <1>10. CASE EndMain
    <2>1. PICK t \in 0 .. StopTime :
            Becomes(Service, "up", proc[Service].state, "stopping", t, TRUE,
                    proc[Service].last)
      BY <1>0, <1>10, EndMainEffect
    <2>2. proc[Service].pc = "running" /\ guard' = guard
      BY <1>10 DEF EndMain, At
    <2>3. danger <= Looked + StartTimeout
      BY <1>0, <2>2, ReactionIs, ServiceTyped DEF ServiceDanger
    <2> QED
      BY <1>0, <1>1, <2>1, <2>2, <2>3, ReactionIs, ServiceTyped DEF Becomes, ServiceDanger
  <1>11. CASE Join
    <2>1. proc'[Service].pc = "closing"
      BY <1>0, <1>11, JoinEffect DEF Becomes
    <2>2. proc[Service].pc = "stopping" /\ proc[Service].wait = 0
      BY <1>11 DEF Join, At
    <2> QED
      BY <1>0, <1>1, <2>1, <2>2, ReactionIs DEF ServiceDanger
  <1> QED
    BY <1>2, <1>3, <1>4, <1>5, <1>6, <1>7, <1>8, <1>9, <1>10, <1>11 DEF ServiceStep, Common

\* Whoever else moves leaves the service and its thread as they are.
LEMMA ServiceUntouched ==
  ASSUME BaseInv, Step, ~ServiceStep
  PROVE  /\ proc'[Service] = proc[Service] /\ guard' = guard
         /\ danger' \in {danger, 0} /\ silence' \in {silence, 0}
  <1>0. /\ TypeOK /\ LifeInv /\ Service \in Procs /\ Service \notin Sensors
        /\ Service # Monitor
    BY Constants DEF BaseInv, Procs
  <1>1. ASSUME NEW p \in Procs, p # Service, Only(p)
        PROVE  /\ proc'[Service] = proc[Service]
               /\ danger' \in {danger, 0} /\ silence' \in {silence, 0}
    BY <1>0, <1>1 DEF Only
  <1>2. ASSUME NEW s \in Sensors PROVE s \in Procs /\ s # Service
    BY <1>0 DEF Procs, Others
  <1>3. Monitor \in Procs
    BY DEF Procs, Others
  <1>4. ASSUME NEW s \in Sensors, SensorStep(s)
        PROVE  Only(s) /\ guard' = guard
    BY <1>0, <1>4, SensorSteps
  <1>5. CASE MonitorStep
    BY <1>0, <1>1, <1>3, <1>5, MonitorSteps
  <1>6. CASE StartSensor
    <2>1. PICK s \in Sensors : Only(s) /\ guard' = guard
      BY <1>0, <1>6, StartSensorSteps
    <2> QED
      BY <1>1, <1>2, <2>1
  <1>7. CASE StartMonitor
    BY <1>0, <1>1, <1>3, <1>7, StartMonitorSteps
  <1>8. CASE Outside
    BY <1>0, <1>8, OutsideSteps
  <1> QED
    BY <1>1, <1>2, <1>4, <1>5, <1>6, <1>7, <1>8, StepIs

LEMMA ServiceDangerSteps ==
  ASSUME BaseInv, MonitorDanger, ServiceDanger, Step
  PROVE  ServiceDanger'
  BY ServiceMoves, ServiceUntouched, ServiceDangerKept

\* What the service is in the middle of while time passes.
LEMMA ServiceWaits ==
  ASSUME BaseInv, Tick
  PROVE  /\ proc'[Service].pc = proc[Service].pc /\ guard'.pc = guard.pc
         /\ proc'[Service].wait = Less(proc[Service].wait) /\ guard'.wait = Less(guard.wait)
         /\ proc[Service].pc \in {"closed", "precheck", "opening", "running", "stopping"}
         /\ proc[Service].pc # "closed" => proc[Service].runs = "up" /\ ~HeartbeatsLost(Service)
         /\ proc[Service].pc = "opening" => proc[Service].wait > 0
         /\ proc[Service].pc = "running" => ~proc[Service].stop /\ guard.pc \in {"sleep", "await"}
         /\ proc[Service].pc = "stopping" => proc[Service].wait > 0 \/ guard.pc = "await"
         /\ guard.pc \in {"off", "sleep", "await"}
         /\ guard.pc \in {"sleep", "await"} => guard.wait > 0
  <1>0. /\ TypeOK /\ Service \in Procs /\ proc[Service].wait \in Nat /\ guard.wait \in Nat
        /\ ServiceInv /\ GuardInv /\ Life(Service)
        /\ proc[Service].runs \in {"up", "suspended", "no"}
    BY ServiceTyped, ProcessTyped
  <1>1. proc[Service].pc # "closed" =>
          proc[Service].runs = "up" /\ Waits(Service) /\ ~HeartbeatsLost(Service)
    BY <1>0 DEF Tick, NothingDue, ServiceInv, Life
  <1>2. GuardWaits
    BY DEF Tick, NothingDue
  <1>3. guard.pc \in {"off", "sleep", "await"} /\ (guard.pc = "sleep" => ~proc[Service].stop)
    BY <1>2 DEF GuardWaits
  <1>4. guard.pc \in {"sleep", "await"} => guard.wait > 0
    BY <1>0, <1>2 DEF GuardWaits, GivesUp
  <1> QED
    BY <1>0, <1>1, <1>3, <1>4, TickEffect DEF Waits, ServiceInv, GuardInv

LEMMA ServiceDangerTick ==
  ASSUME BaseInv, ServiceDanger, Tick
  PROVE  ServiceDanger'
  <1>1. /\ danger \in Nat /\ proc[Service].wait \in Nat /\ guard.wait \in Nat
        /\ danger' \in Nat /\ danger' <= danger + 1
    BY ServiceTyped, DangerTick
  <1>2. CASE proc[Service].pc \in {"closed", "precheck"}
    BY <1>2, ServiceWaits DEF ServiceDanger
  <1>3. CASE proc[Service].pc = "opening"
    BY <1>1, <1>3, ServiceWaits, ReactionIs DEF ServiceDanger, Less
  <1>4. CASE proc[Service].pc = "running"
    BY <1>1, <1>4, ServiceWaits, ReactionIs DEF ServiceDanger, Less
  <1>5. CASE proc[Service].pc = "stopping"
    BY <1>1, <1>5, ServiceWaits, ReactionIs DEF ServiceDanger, Less
  <1> QED
    BY <1>2, <1>3, <1>4, <1>5, ServiceWaits

-----------------------------------------------------------------------------
(* How long the testbed has been silent.                                    *)

LEMMA FarewellIs ==
  /\ Grace \in Nat /\ Farewell \in Nat /\ HeartbeatLiveness \in Nat
  /\ OpenTime \in Nat /\ StartTimeout \in Nat /\ StopTime \in Nat
  /\ HeartbeatLiveness <= Grace /\ StartTimeout + OpenTime <= Grace
  /\ Grace + StopTime <= Farewell /\ Grace + StartTimeout <= Farewell
  <1>1. /\ OpenTime \in Nat /\ StartTimeout \in Nat /\ StopTime \in Nat
        /\ HeartbeatLiveness \in Nat
    BY Constants
  <1>2. /\ Grace \in Nat /\ HeartbeatLiveness <= Grace /\ StartTimeout + OpenTime <= Grace
    BY <1>1 DEF Grace, Longest
  <1>3. Farewell = Grace + Longest(StopTime, StartTimeout)
    BY DEF Farewell, Grace
  <1> QED
    BY <1>1, <1>2, <1>3 DEF Longest

LEMMA SilenceKept ==
  ASSUME BaseInv, SilenceInv, silence' \in {silence, 0}, guard' = guard,
         proc'[Service] = proc[Service]
  PROVE  SilenceInv'
  <1>1. CASE silence' = 0
    BY <1>1, FarewellIs, ServiceTyped DEF SilenceInv, ServiceInv, GuardInv, Life
  <1>2. CASE silence' = silence
    BY <1>2 DEF SilenceInv
  <1> QED
    BY <1>1, <1>2

LEMMA SilenceMoves ==
  ASSUME BaseInv, SilenceInv, ServiceStep
  PROVE  SilenceInv'
  <1>0. /\ TypeOK /\ Service \in Procs /\ silence \in Nat /\ guard \in Guards
        /\ proc[Service].wait \in Nat /\ guard.wait \in Nat
        /\ ServiceInv /\ GuardInv /\ ConditionsInv
    BY ServiceTyped DEF TypeOK, Guards, BaseInv
  <1>1. silence' = silence
    BY <1>0, ServiceSteps DEF Only
  <1>2. CASE Open(Service)
    <2>1. proc[Service].pc = "opening" /\ proc[Service].wait = 0
      BY <1>2 DEF Open, At
    <2>2. proc'[Service].pc = "running"
      BY <1>0, <1>2, OpenEffect DEF Becomes
    <2> QED
      BY <1>0, <1>1, <2>1, <2>2, FarewellIs DEF SilenceInv
  <1>3. CASE OpenFails(Service) \/ Close(Service)
    <2>1. proc'[Service].pc = "closed"
      BY <1>0, <1>3, EndsEffect, ProcessTyped DEF OpenFails, Close, Becomes, States
    <2> QED
      BY <2>1 DEF SilenceInv
  <1>4. CASE MonitorHeartbeats(Service)
    <2>1. /\ guard' = guard /\ proc'[Service].pc = proc[Service].pc
          /\ proc'[Service].wait = proc[Service].wait
      BY <1>0, <1>4, HeartbeatsEffect DEF MonitorHeartbeats, Becomes
    <2> QED
      BY <1>1, <2>1 DEF SilenceInv
  <1>5. CASE Wake(Service) \/ LeaveMain(Service)
    BY <1>0, <1>5 DEF Wake, LeaveMain, At, ServiceInv
  <1>6. CASE Start
    <2>1. proc'[Service].pc = "precheck"
      BY <1>0, <1>6, StartEffect DEF Becomes
    <2>2. silence = 0 /\ guard' = [guard EXCEPT !.pc = "check"]
      BY <1>0, <1>6 DEF Start, ConditionsInv
    <2>3. guard'.pc = "check"
      BY <1>0, <2>2 DEF Guards
    <2> QED
      BY <1>1, <2>1, <2>2, <2>3 DEF SilenceInv
  <1>7. CASE GuardLoop
    <2>1. /\ proc' = proc /\ guard.pc \in {"loop", "sleep"}
          /\ guard'.pc = IF proc[Service].stop THEN "off" ELSE "check"
      BY <1>0, <1>7 DEF GuardLoop, Guards
    <2>2. /\ proc[Service].pc \in {"running", "stopping"}
          /\ proc[Service].pc = "stopping" => guard'.pc = "off"
      BY <1>0, <2>1 DEF GuardInv, ServiceInv
    <2> QED
      BY <1>0, <1>1, <2>1, <2>2 DEF SilenceInv
  <1>8. CASE IsSafe \/ EndAwaitMonitor
    <2>1. PICK good \in BOOLEAN : Decides(good)
      BY <1>0, <1>8, IsSafeEffect
    <2>2. guard.pc \in {"check", "await"}
      BY <1>8 DEF IsSafe, EndAwaitMonitor
    <2>3. Decide(good)
      BY <2>1 DEF Decides
    <2>4. CASE proc[Service].pc = "precheck" /\ good
      <3>1. PICK t \in 0 .. OpenTime :
              Becomes(Service, proc[Service].runs, "OPENING", "opening", t,
                      proc[Service].stop, proc[Service].last)
        BY <1>0, <2>3, <2>4, DecideEffect
      <3>2. silence <= StartTimeout
        BY <1>0, <2>2, <2>4, FarewellIs DEF SilenceInv
      <3> QED
        BY <1>0, <1>1, <3>1, <3>2, FarewellIs DEF Becomes, SilenceInv
    <2>5. CASE proc[Service].pc = "precheck" /\ ~good
      <3>1. Becomes(Service, "no", "FAIL_SAFE", "closed", 0, FALSE, "CLOSED")
        BY <1>0, <2>3, <2>5, DecideEffect
      <3> QED
        BY <3>1 DEF Becomes, SilenceInv
    <2>6. CASE proc[Service].pc # "precheck" /\ good
      <3>1. proc' = proc /\ guard'.pc = "sleep"
        BY <2>3, <2>6 DEF Decide
      <3> QED
        BY <1>1, <2>6, <3>1 DEF SilenceInv
    <2>7. CASE proc[Service].pc # "precheck" /\ ~good
      <3>1. PICK last \in {"CRASHED", "FAIL_SAFE"} :
              Becomes(Service, proc[Service].runs, proc[Service].state, proc[Service].pc,
                      proc[Service].wait, TRUE, last)
        BY <1>0, <2>3, <2>7, DecideEffect
      <3>2. guard'.pc = "off"
        BY <2>3, <2>7 DEF Decide
      <3> QED
        BY <1>1, <2>7, <3>1, <3>2 DEF Becomes, SilenceInv
    <2> QED
      BY <2>4, <2>5, <2>6, <2>7
  <1>9. CASE AwaitMonitor
    <2>1. /\ proc' = proc /\ guard'.pc = "await" /\ guard'.wait = StartTimeout
          /\ guard.pc = "check"
      BY <1>9 DEF AwaitMonitor
    <2> QED
      BY <1>0, <1>1, <2>1, FarewellIs DEF SilenceInv
  <1>10. CASE EndMain
    <2>1. PICK t \in 0 .. StopTime :
            Becomes(Service, "up", proc[Service].state, "stopping", t, TRUE,
                    proc[Service].last)
      BY <1>0, <1>10, EndMainEffect
    <2>2. proc[Service].pc = "running" /\ guard' = guard
      BY <1>10 DEF EndMain, At
    <2> QED
      BY <1>0, <1>1, <2>1, <2>2, FarewellIs DEF Becomes, SilenceInv, GuardInv
  <1>11. CASE Join
    <2>1. proc'[Service].pc = "closing"
      BY <1>0, <1>11, JoinEffect DEF Becomes
    <2>2. proc[Service].pc = "stopping" /\ proc[Service].wait = 0
      BY <1>11 DEF Join, At
    <2> QED
      BY <1>0, <1>1, <2>1, <2>2, FarewellIs DEF SilenceInv
  <1> QED
    BY <1>2, <1>3, <1>4, <1>5, <1>6, <1>7, <1>8, <1>9, <1>10, <1>11 DEF ServiceStep, Common

LEMMA SilenceSteps ==
  ASSUME BaseInv, SilenceInv, Step
  PROVE  SilenceInv'
  BY SilenceMoves, ServiceUntouched, SilenceKept

LEMMA SilenceTick ==
  ASSUME BaseInv, SilenceInv, Tick
  PROVE  SilenceInv'
  <1>1. /\ silence \in Nat /\ proc[Service].wait \in Nat /\ guard.wait \in Nat
    BY ServiceTyped
  <1>2. silence' \in Nat /\ silence' <= silence + 1
    <2>1. silence' \in {0, Older(silence, Farewell)}
      BY DEF Tick
    <2> QED
      BY <1>1, <2>1 DEF Older
  <1>3. CASE proc[Service].pc = "closed"
    BY <1>3, ServiceWaits DEF SilenceInv
  <1>4. CASE proc[Service].pc = "precheck"
    BY <1>1, <1>2, <1>4, ServiceWaits, FarewellIs DEF SilenceInv, Less
  <1>5. CASE proc[Service].pc = "opening"
    BY <1>1, <1>2, <1>5, ServiceWaits, FarewellIs DEF SilenceInv, Less
  <1>6. CASE proc[Service].pc = "running"
    <2>1. silence < HeartbeatLiveness
      BY <1>1, <1>6, ServiceWaits, FarewellIs DEF HeartbeatsLost
    <2> QED
      BY <1>1, <1>2, <1>6, <2>1, ServiceWaits, FarewellIs DEF SilenceInv
  <1>7. CASE proc[Service].pc = "stopping"
    BY <1>1, <1>2, <1>7, ServiceWaits, FarewellIs DEF SilenceInv, Less
  <1> QED
    BY <1>3, <1>4, <1>5, <1>6, <1>7, ServiceWaits

-----------------------------------------------------------------------------
(* The theorems on the bounds.                                              *)

BoundsInv == BaseInv /\ DangerInv /\ SilenceInv

LEMMA BoundsInit == Init => BoundsInv
  <1> SUFFICES ASSUME Init PROVE BoundsInv
    OBVIOUS
  <1>1. BaseInv
    BY BaseInit
  <1>2. /\ \A p \in Procs : proc[p] = NotStarted
        /\ \A p \in Others : frame[p] = None
        /\ Service \in Procs /\ Monitor \in Procs /\ Monitor \in Others
        /\ \A s \in Sensors : s \in Procs /\ s \in Others
    BY DEF Init, Procs, Others
  <1>3. SensorDanger
    BY <1>2 DEF SensorDanger, MeasuredDanger, At, NotStarted, None
  <1>4. MonitorDanger
    BY <1>2 DEF MonitorDanger, CheckDanger, VerdictDanger, Checks, At, NotStarted, None
  <1>5. ServiceDanger /\ SilenceInv
    BY <1>2 DEF ServiceDanger, SilenceInv, NotStarted
  <1> QED
    BY <1>1, <1>3, <1>4, <1>5 DEF BoundsInv, DangerInv

LEMMA CalmSteps ==
  ASSUME TypeOK, [Next]_vars
  PROVE  \/ Step /\ Calmer
         \/ Tick /\ calm' \in 0 .. Recovery + 1
         \/ UNCHANGED vars
  <1>1. CASE Tick /\ calm' = IF Healthy THEN Older(calm, Recovery) ELSE 0
    <2>1. calm' \in {Older(calm, Recovery), 0}
      BY <1>1
    <2>2. Recovery \in Nat /\ calm \in 0 .. Recovery + 1 /\ 0 \in 0 .. Recovery + 1
      BY Bounds DEF TypeOK
    <2> QED
      BY <1>1, <2>1, <2>2, OlderBound
  <1>2. CASE Step /\ calm' = IF Healthy' /\ faults' = faults THEN calm ELSE 0
    BY <1>2 DEF Calmer
  <1> QED
    BY <1>1, <1>2 DEF Next

LEMMA BoundsNext == BoundsInv /\ [Next]_vars => BoundsInv'
  <1> SUFFICES ASSUME BoundsInv, [Next]_vars PROVE BoundsInv'
    OBVIOUS
  <1>0. BaseInv /\ TypeOK /\ SensorDanger /\ MonitorDanger /\ ServiceDanger /\ SilenceInv
    BY DEF BoundsInv, DangerInv, BaseInv
  <1>1. CASE Step /\ Calmer
    BY <1>0, <1>1, BaseSteps, SensorDangerSteps, MonitorDangerSteps, ServiceDangerSteps,
       SilenceSteps DEF BoundsInv, DangerInv
  <1>2. CASE Tick /\ calm' \in 0 .. Recovery + 1
    BY <1>0, <1>2, BaseTick, SensorDangerTick, MonitorDangerTick, ServiceDangerTick,
       SilenceTick DEF BoundsInv, DangerInv
  <1>3. CASE UNCHANGED vars
    BY <1>0, <1>3
    DEF vars, conditions, sensing, check, bounds, BoundsInv, BaseInv, TypeOK, LifeInv, Life,
        SensorLife, MonitorLife, ServiceInv, GuardInv, ConditionsInv, Simulated, DangerInv,
        SensorDanger, MeasuredDanger, At, MonitorDanger, CheckDanger, VerdictDanger, Checks,
        Spent, Waited, ServiceDanger, SilenceInv
  <1> QED
    BY <1>0, <1>1, <1>2, <1>3, CalmSteps

LEMMA BoundsAlways == Spec => []BoundsInv
  BY BoundsInit, BoundsNext, PTL DEF Spec

\* The processes, the frames and the check of the monitor keep to their types.
THEOREM TypeCorrect == Spec => []TypeOK
  <1>1. BoundsInv => TypeOK
    BY DEF BoundsInv, BaseInv
  <1> QED
    BY <1>1, BoundsAlways, PTL

LEMMA OperatesWhere ==
  ASSUME BaseInv, Operates
  PROVE  proc[Service].pc \in {"opening", "running", "stopping", "closing"}
  BY DEF BaseInv, ServiceInv, Operates

\* Whatever fails, and however often, a service that requires safety does not operate in
\* unsafe conditions for longer than Reaction.
THEOREM Reacts == Spec => []StopsWhenUnsafe
  <1>1. BoundsInv => StopsWhenUnsafe
    <2> SUFFICES ASSUME BoundsInv, Operates PROVE danger <= Reaction
      BY DEF StopsWhenUnsafe
    <2>1. BaseInv /\ ServiceDanger
      BY DEF BoundsInv, DangerInv
    <2>2. proc[Service].pc \in {"opening", "running", "stopping", "closing"}
      BY <2>1, OperatesWhere
    <2> QED
      BY <2>1, <2>2, ServiceTyped, ReactionIs DEF ServiceDanger, ServiceInv, GuardInv
  <1> QED
    BY <1>1, BoundsAlways, PTL

\* No service operates for longer than Farewell after the last heartbeat of the testbed.
THEOREM Leaves == Spec => []StopsWithoutTestbed
  <1>1. BoundsInv => StopsWithoutTestbed
    <2> SUFFICES ASSUME BoundsInv, Operates PROVE silence <= Farewell
      BY DEF StopsWithoutTestbed
    <2>1. BaseInv /\ SilenceInv
      BY DEF BoundsInv
    <2>2. proc[Service].pc \in {"opening", "running", "stopping", "closing"}
      BY <2>1, OperatesWhere
    <2> QED
      BY <2>1, <2>2, ServiceTyped, FarewellIs DEF SilenceInv
  <1> QED
    BY <1>1, BoundsAlways, PTL

-----------------------------------------------------------------------------
(* A sensor that submits in time.                                           *)

LEMMA SensorTyped ==
  ASSUME BaseInv, NEW s \in Sensors
  PROVE  /\ TypeOK /\ s \in Procs /\ s \in Others /\ s # Monitor /\ s # Service
         /\ proc[s].wait \in Nat /\ measured[s] \in BOOLEAN
         /\ pause[s] \in Nat /\ pause[s] <= Interval
         /\ Life(s) /\ SensorLife(s)
         /\ frame[s].good => frame[s].age \in Nat
         /\ Interval \in Nat /\ MeasureTime \in Nat
  <1>1. TypeOK /\ s \in Procs /\ s \in Others /\ s # Monitor /\ s # Service
    BY Constants DEF BaseInv, Procs, Others
  <1>2. measured[s] \in BOOLEAN /\ pause[s] \in 0 .. Interval /\ Interval \in Nat
    BY <1>1, Constants DEF TypeOK
  <1> QED
    BY <1>1, <1>2, ProcessTyped, GoodFrame, Constants DEF BaseInv, LifeInv

\* What a sensor does when nothing fails.
GoesOn(s) == Wake(s) \/ BeginMeasurement(s) \/ EndMeasurement(s)

LEMMA SensesEffect ==
  ASSUME BaseInv, NEW s \in Sensors, GoesOn(s)
  PROVE  /\ proc'[s].runs = "up" /\ proc'[s].state = proc[s].state
         /\ proc'[s].stop = proc[s].stop
         /\ \/ /\ proc[s].pc = "sleep" /\ proc'[s].pc = "loop"
               /\ frame'[s] = frame[s]
            \/ /\ proc[s].pc = "loop" /\ proc'[s].pc = "measure"
               /\ proc'[s].wait \in 0 .. MeasureTime /\ frame'[s] = frame[s]
               /\ safe => measured'[s]
            \/ /\ proc[s].pc = "measure" /\ proc[s].wait = 0
               /\ proc'[s].pc = "sleep" /\ proc'[s].wait = pause[s]
               /\ frame'[s] = [age |-> 0, good |-> measured[s]]
  <1>0. /\ TypeOK /\ s \in Procs /\ s \in Others /\ measured \in [Sensors -> BOOLEAN]
        /\ measured[s] \in BOOLEAN
    BY SensorTyped DEF TypeOK
  <1>1. CASE Wake(s)
    BY <1>0, <1>1, GotoEffect DEF Wake, At, Becomes
  <1>2. CASE BeginMeasurement(s)
    <2>1. PICK t \in 0 .. MeasureTime :
            Becomes(s, "up", proc[s].state, "measure", t, FALSE, proc[s].last)
      BY <1>0, <1>2, BeginMeasurementEffect
    <2>2. /\ safe => measured'[s]
          /\ frame' = frame
          /\ proc[s].pc = "loop" /\ ~proc[s].stop
      BY <1>0, <1>2 DEF BeginMeasurement, At
    <2>3. proc[s].stop = FALSE
      BY <1>0, <2>2, ProcessTyped
    <2> QED
      BY <2>1, <2>2, <2>3 DEF Becomes
  <1>3. CASE EndMeasurement(s)
    BY <1>0, <1>3, EndMeasurementEffect, SubmitTyped DEF EndMeasurement, At, Becomes
  <1> QED
    BY <1>1, <1>2, <1>3 DEF GoesOn

LEMMA SensedSteps ==
  ASSUME BaseInv, NEW s \in Sensors, GoesOn(s), safe, Sensed(s)
  PROVE  Sensed(s)'
  <1>0. /\ proc[s].wait \in Nat /\ Interval \in Nat /\ MeasureTime \in Nat
        /\ pause[s] \in Nat /\ pause[s] <= Interval
        /\ frame[s].good /\ frame[s].age \in Nat
    BY SensorTyped DEF Sensed
  <1>1. CASE proc[s].pc = "sleep" /\ proc'[s].pc = "loop" /\ frame'[s] = frame[s]
    BY <1>0, <1>1 DEF Sensed
  <1>2. CASE /\ proc[s].pc = "loop" /\ proc'[s].pc = "measure"
             /\ proc'[s].wait \in 0 .. MeasureTime /\ frame'[s] = frame[s]
             /\ safe => measured'[s]
    BY <1>0, <1>2 DEF Sensed
  <1>3. CASE /\ proc[s].pc = "measure" /\ proc'[s].pc = "sleep" /\ proc'[s].wait = pause[s]
             /\ frame'[s] = [age |-> 0, good |-> measured[s]]
    <2>1. frame'[s].good /\ frame'[s].age = 0
      BY <1>3 DEF Sensed
    <2> QED
      BY <1>0, <1>3, <2>1 DEF Sensed
  <1> QED
    BY <1>1, <1>2, <1>3, SensesEffect

\* In a tick a sensor that runs is measuring or asleep.
LEMMA SensorWaits ==
  ASSUME BaseInv, NEW s \in Sensors, Tick
  PROVE  /\ proc'[s].pc = proc[s].pc /\ proc'[s].runs = proc[s].runs
         /\ proc'[s].state = proc[s].state /\ proc'[s].stop = proc[s].stop
         /\ proc'[s].wait = Less(proc[s].wait) /\ measured' = measured
         /\ frame[s].good <=> frame'[s].good
         /\ frame[s].good => frame'[s].age \in Nat /\ frame'[s].age <= frame[s].age + 1
         /\ proc[s].runs = "up" /\ proc[s].state = "RUNNING" =>
              proc[s].pc \in {"measure", "sleep"} /\ proc[s].wait > 0
  <1>0. TypeOK /\ s \in Procs /\ s \in Others /\ s # Monitor /\ Life(s) /\ SensorLife(s)
    BY SensorTyped
  <1>1. /\ frame[s].good <=> frame'[s].good
        /\ frame[s].good => frame[s].age \in Nat
                            /\ frame'[s].age = Older(frame[s].age, SafeInterval + CheckTime)
    <2>1. \/ frame[s] = None /\ frame'[s] = None
          \/ /\ frame[s] # None /\ frame'[s] # None
             /\ frame[s].age \in Nat /\ frame'[s].good = frame[s].good
             /\ frame'[s].age = Older(frame[s].age, SafeInterval + CheckTime)
      BY <1>0, TickEffect
    <2>2. ~None.good
      BY DEF None
    <2> QED
      BY <2>1, <2>2
  <1>2. frame[s].good => frame'[s].age \in Nat /\ frame'[s].age <= frame[s].age + 1
    BY <1>1 DEF Older
  <1>3. proc[s].runs = "up" => Waits(s)
    BY <1>0 DEF Tick, NothingDue
  <1>4. proc[s].runs = "up" /\ proc[s].state = "RUNNING" =>
          proc[s].pc \in {"measure", "sleep"} /\ proc[s].wait > 0
    BY <1>0, <1>3 DEF Waits, Life, SensorLife
  <1> QED
    BY <1>0, <1>1, <1>2, <1>4, TickEffect DEF Tick, sensing

LEMMA SensedTick ==
  ASSUME BaseInv, NEW s \in Sensors, Tick, Sensed(s),
         proc[s].runs = "up", proc[s].state = "RUNNING"
  PROVE  Sensed(s)'
  <1>1. /\ proc[s].wait \in Nat /\ Interval \in Nat /\ MeasureTime \in Nat
        /\ frame[s].good /\ frame[s].age \in Nat
    BY SensorTyped DEF Sensed
  <1> QED
    BY <1>1, SensorWaits DEF Sensed, Less

LEMMA SensedInRange ==
  ASSUME BaseInv, FramesInTime, NEW s \in Sensors, Sensed(s),
         proc[s].pc \in {"loop", "sleep", "measure"}
  PROVE  InRange(s)
  <1>1. /\ proc[s].wait \in Nat /\ Interval \in Nat /\ MeasureTime \in Nat
        /\ frame[s].good /\ frame[s].age \in Nat /\ clock \in Nat /\ SafeInterval \in Nat
        /\ frame[s] # None
    BY SensorTyped, AgesTyped, Constants, GoodFrame DEF Sensed
  <1>2. frame[s].age <= SafeInterval
    BY <1>1 DEF Sensed, FramesInTime
  <1> QED
    BY <1>1, <1>2 DEF InRange

-----------------------------------------------------------------------------
(* How long all has been well.                                              *)

LEMMA RecoveryIs ==
  /\ Begins \in Nat /\ Senses \in Nat /\ Recovery \in Nat
  /\ Interval \in Nat /\ MeasureTime \in Nat /\ CheckInterval \in Nat
  /\ 2 * Interval <= Begins /\ MeasureTime + Interval <= Begins
  /\ Senses = Begins + MeasureTime /\ Recovery = Senses + CheckInterval
  <1>1. Interval \in Nat /\ MeasureTime \in Nat /\ CheckInterval \in Nat
    BY Constants
  <1>2. /\ Longest(MeasureTime, Interval) \in Nat
        /\ MeasureTime <= Longest(MeasureTime, Interval)
        /\ Interval <= Longest(MeasureTime, Interval)
    BY <1>1 DEF Longest
  <1> QED
    BY <1>1, <1>2 DEF Begins, Senses, Recovery

LEMMA MonitorTyped ==
  ASSUME BaseInv
  PROVE  /\ TypeOK /\ Monitor \in Procs /\ Monitor \in Others
         /\ proc[Monitor].wait \in Nat /\ verdict \in BOOLEAN
         /\ Life(Monitor) /\ MonitorLife
         /\ frame[Monitor].good => frame[Monitor].age \in Nat
         /\ CheckInterval \in Nat
  <1>1. TypeOK /\ Monitor \in Procs /\ Monitor \in Others
    BY DEF BaseInv, Procs, Others
  <1> QED
    BY <1>1, ProcessTyped, GoodFrame, Constants DEF BaseInv, LifeInv, TypeOK

\* After anything that goes wrong the time starts again.
LEMMA CalmZero ==
  ASSUME BaseInv', calm' = 0
  PROVE  CalmInv'
  <1>1. /\ \A p \in Procs : proc'[p].wait \in Nat
        /\ Monitor \in Procs /\ \A s \in Sensors : s \in Procs
    BY DEF BaseInv, TypeOK, Process, Procs, Others
  <1>2. MonitorLife' /\ \A s \in Sensors : SensorLife(s)'
    BY DEF BaseInv, LifeInv
  <1>3. \A s \in Sensors : CalmSensor(s)'
    BY <1>1, <1>2, RecoveryIs DEF CalmSensor, SensorLife
  <1>4. CalmMonitor'
    BY <1>1, <1>2, RecoveryIs DEF CalmMonitor, MonitorLife
  <1> QED
    BY <1>3, <1>4 DEF CalmInv

\* Where all is well before and after a step, and nothing has failed.
LEMMA CalmCommon ==
  ASSUME BaseInv, Healthy, Healthy', faults' = faults, NEW p \in Others,
         Common(p) \/ Disturbs(p)
  PROVE  Wake(p)
  <1>0. /\ TypeOK /\ p \in Procs /\ p # Service /\ Life(p) /\ silence = 0
        /\ HeartbeatLiveness \in Nat \ {0} /\ faults \in Nat
        /\ proc[p].runs = "up" /\ proc[p].state = "RUNNING"
        /\ proc'[p].runs = "up" /\ proc'[p].state = "RUNNING"
    <2>1. faults \in Nat /\ HeartbeatLiveness \in Nat \ {0}
      <3>1. MaxFaults[kind[Safeties[1]]] \in Nat
        <4>1. 1 \in 1 .. Len(Safeties) /\ Safeties[1] \in Sensors
          BY Constants
        <4> QED
          BY <4>1, SafetyAssumption DEF BaseInv, TypeOK
      <3> QED
        BY <3>1, Constants DEF BaseInv, TypeOK
    <2> QED
      BY <2>1, Constants DEF BaseInv, LifeInv, ConditionsInv, Healthy, Procs, Others
  <1>1. CASE Open(p)
    BY <1>0, <1>1 DEF Open, At, Life
  <1>2. CASE OpenFails(p) \/ Kill(p) \/ Suspend(p)
    BY <1>0, <1>2 DEF OpenFails, Kill, Suspend, Failing
  <1>3. CASE MonitorHeartbeats(p)
    BY <1>0, <1>3 DEF MonitorHeartbeats, HeartbeatsLost
  <1>4. CASE LeaveMain(p)
    BY <1>0, <1>4, LeaveMainEffect DEF Becomes
  <1>5. CASE Close(p)
    BY <1>0, <1>5 DEF Close, At, Life
  <1>6. CASE Resume(p)
    BY <1>0, <1>6 DEF Resume
  <1>7. CASE Mark(p)
    BY <1>0, <1>7 DEF Mark
  <1> QED
    BY <1>1, <1>2, <1>3, <1>4, <1>5, <1>6, <1>7 DEF Common, Disturbs

LEMMA CalmSensorStep ==
  ASSUME BaseInv, Healthy, NEW s \in Sensors, CalmSensor(s), GoesOn(s), calm' = calm
  PROVE  CalmSensor(s)'
  <1>0. /\ proc[s].wait \in Nat /\ Interval \in Nat /\ MeasureTime \in Nat
        /\ pause[s] \in Nat /\ pause[s] <= Interval /\ measured[s] \in BOOLEAN
        /\ calm \in Nat /\ safe
    BY SensorTyped, AgesTyped DEF Healthy
  <1>1. CASE Sensed(s)
    BY <1>0, <1>1, SensedSteps DEF CalmSensor
  <1>2. CASE ~Sensed(s)
    <2>1. CASE proc[s].pc = "sleep" /\ proc'[s].pc = "loop"
      BY <1>0, <1>2, <2>1, RecoveryIs DEF CalmSensor
    <2>2. CASE /\ proc[s].pc = "loop" /\ proc'[s].pc = "measure"
               /\ proc'[s].wait \in 0 .. MeasureTime
               /\ safe => measured'[s]
      BY <1>0, <1>2, <2>2, RecoveryIs DEF CalmSensor
    <2>3. CASE /\ proc[s].pc = "measure" /\ proc[s].wait = 0
               /\ proc'[s].pc = "sleep" /\ proc'[s].wait = pause[s]
               /\ frame'[s] = [age |-> 0, good |-> measured[s]]
      <3>1. CASE measured[s]
        <4>1. frame'[s].good /\ frame'[s].age = 0
          BY <2>3, <3>1
        <4> QED
          BY <1>0, <2>3, <4>1 DEF CalmSensor, Sensed
      <3>2. CASE ~measured[s]
        BY <1>0, <1>2, <2>3, <3>2, RecoveryIs DEF CalmSensor
      <3> QED
        BY <3>1, <3>2
    <2> QED
      BY <2>1, <2>2, <2>3, SensesEffect
  <1> QED
    BY <1>1, <1>2

\* The monitor finds a sensor in range when all has been well for long enough.
LEMMA CalmJudge ==
  ASSUME BaseInv, FramesInTime, Healthy, NEW s \in Sensors, CalmSensor(s), calm > Senses
  PROVE  InRange(s)
  <1>1. /\ proc[s].wait \in Nat /\ calm \in Nat /\ Life(s) /\ SensorLife(s)
        /\ proc[s].runs = "up" /\ proc[s].state = "RUNNING"
    BY SensorTyped, AgesTyped DEF Healthy
  <1>2. proc[s].pc \in {"loop", "sleep", "measure"}
    BY <1>1 DEF Life, SensorLife
  <1>3. Sensed(s)
    BY <1>1, <1>2, RecoveryIs DEF CalmSensor
  <1> QED
    BY <1>2, <1>3, SensedInRange

LEMMA HealthyAre ==
  ASSUME BaseInv, Healthy
  PROVE  /\ safe /\ testbed = "up"
         /\ \A p \in Others : proc[p].runs = "up" /\ proc[p].state = "RUNNING"
         /\ at <= Len(Safeties) => Current \in Sensors /\ proc[Current].state = "RUNNING"
  <1>1. at <= Len(Safeties) => Current \in Sensors
    BY Constants DEF BaseInv, TypeOK, Current
  <1> QED
    BY <1>1 DEF Healthy, Others

LEMMA NoFailure ==
  ASSUME TypeOK, faults' = faults
  PROVE  ~Failing
  <1>1. 1 \in 1 .. Len(Safeties) /\ Safeties[1] \in Sensors
    BY Constants
  <1>2. MaxFaults[kind[Safeties[1]]] \in Nat
    BY <1>1, SafetyAssumption DEF TypeOK
  <1>3. faults \in Nat
    BY <1>2 DEF TypeOK
  <1> QED
    BY <1>3 DEF Failing

LEMMA CalmMonitorStep ==
  ASSUME BaseInv, FramesInTime, Healthy, Healthy', faults' = faults, calm' = calm,
         \A s \in Sensors : CalmSensor(s), CalmMonitor, MonitorStep
  PROVE  CalmMonitor'
  <1>0. /\ TypeOK /\ Monitor \in Procs /\ Monitor \in Others /\ MonitorLife
        /\ calm \in Nat /\ verdict \in BOOLEAN
    BY MonitorTyped, AgesTyped
  <1>1. CASE Common(Monitor) \/ Disturbs(Monitor)
    <2>1. Wake(Monitor)
      BY <1>0, <1>1, CalmCommon
    <2>2. proc'[Monitor].pc = "loop" /\ frame' = frame
      BY <1>0, <2>1, GotoEffect DEF Wake, Becomes
    <2> QED
      BY <2>2 DEF CalmMonitor
  <1>2. CASE BeginCheck
    <2>1. proc'[Monitor].pc = "check" /\ frame' = frame /\ verdict'
      BY <1>0, <1>2, GotoEffect DEF BeginCheck, Becomes
    <2> QED
      BY <2>1 DEF CalmMonitor
  <1>3. ASSUME proc[Monitor].pc \in {"check", "await"}, at <= Len(Safeties), frame' = frame,
               proc'[Monitor].pc = "check", Judge(InRange(Current))
        PROVE  CalmMonitor'
    <2>1. verdict' = (verdict /\ InRange(Current)) /\ Current \in Sensors
      BY <1>3, HealthyAre DEF Judge
    <2>2. calm > Senses => InRange(Current)
      BY <2>1, CalmJudge
    <2>3. ~verdict' => ~verdict \/ ~InRange(Current)
      BY <2>1
    <2>4. ~verdict' => calm <= Senses
      BY <1>0, <1>3, <2>2, <2>3, RecoveryIs DEF CalmMonitor
    <2> QED
      BY <1>3, <2>4 DEF CalmMonitor
  <1>4. CASE CheckSafety
    <2>1. at <= Len(Safeties) /\ proc[Monitor].pc = "check" /\ proc' = proc /\ frame' = frame
      BY <1>4 DEF CheckSafety, At
    <2>2. ~Refuses(Current)
      BY <2>1, HealthyAre DEF Refuses
    <2> QED
      BY <1>3, <1>4, <2>1, <2>2 DEF CheckSafety
  <1>5. CASE AwaitSensor
    BY <1>5, HealthyAre DEF AwaitSensor
  <1>6. CASE EndAwait
    <2>1. /\ at <= Len(Safeties) /\ proc[Monitor].pc = "await" /\ frame' = frame
          /\ proc'[Monitor].pc = "check"
      BY <1>0, <1>6, GotoEffect DEF EndAwait, At, MonitorLife, Becomes
    <2>2. Reached(Current)
      BY <2>1, HealthyAre DEF Reached
    <2> QED
      BY <1>3, <1>6, <2>1, <2>2 DEF EndAwait
  <1>7. CASE EndCheck
    <2>1. /\ proc[Monitor].pc = "check" /\ proc'[Monitor].pc = "sleep"
          /\ proc'[Monitor].wait = CheckInterval
          /\ frame'[Monitor] = [age |-> 0, good |-> verdict]
      BY <1>0, <1>7, SleepsEffect, SubmitTyped, MonitorTyped DEF EndCheck, At, Becomes
    <2>2. frame'[Monitor].good = verdict
      BY <2>1
    <2>3. ~verdict => calm <= Senses
      BY <2>1 DEF CalmMonitor
    <2>4. ~frame'[Monitor].good => calm <= Recovery - CheckInterval
      BY <1>0, <2>2, <2>3, RecoveryIs
    <2> QED
      BY <1>0, <2>1, <2>4, RecoveryIs DEF CalmMonitor
  <1> QED
    BY <1>1, <1>2, <1>4, <1>5, <1>6, <1>7 DEF MonitorStep

LEMMA CalmInvSteps ==
  ASSUME BaseInv, BaseInv', FramesInTime, CalmInv, Step,
         calm' = IF Healthy' /\ faults' = faults THEN calm ELSE 0
  PROVE  CalmInv'
  <1>0. /\ TypeOK /\ LifeInv /\ calm \in Nat
        /\ Monitor \notin Sensors /\ Service \notin Sensors /\ Service # Monitor
        /\ Monitor \in Procs /\ Monitor \in Others
        /\ \A s \in Sensors : s \in Procs /\ s \in Others
    BY AgesTyped, Constants DEF BaseInv, Procs, Others
  <1>1. CASE calm' = 0
    BY <1>1, CalmZero
  <1> SUFFICES ASSUME calm' = calm, calm > 0, Healthy, Healthy', faults' = faults
               PROVE  CalmInv'
    BY <1>0, <1>1 DEF CalmInv
  <1>2. ASSUME NEW s \in Sensors, proc'[s] = proc[s], frame'[s] = frame[s],
               measured'[s] = measured[s]
        PROVE  CalmSensor(s)'
    BY <1>2 DEF CalmInv, CalmSensor, Sensed
  <1>3. ASSUME proc'[Monitor] = proc[Monitor], frame'[Monitor] = frame[Monitor],
               check' = check
        PROVE  CalmMonitor'
    BY <1>3 DEF CalmInv, CalmMonitor, check
  <1>4. ASSUME NEW s \in Sensors, SensorStep(s) PROVE CalmInv'
    <2>1. GoesOn(s)
      BY <1>0, <1>4, CalmCommon, NoFailure DEF SensorStep, GoesOn, MeasurementFails
    <2>2. CalmSensor(s)'
      BY <2>1, CalmSensorStep DEF CalmInv
    <2>3. /\ Only(s) /\ check' = check
          /\ \A r \in Sensors \ {s} : measured'[r] = measured[r]
      BY <1>0, <1>4, SensorSteps
    <2>4. \A r \in Sensors \ {s} : CalmSensor(r)'
      BY <1>0, <1>2, <2>3 DEF Only
    <2>5. CalmMonitor'
      BY <1>0, <1>3, <2>3 DEF Only
    <2> QED
      BY <2>2, <2>4, <2>5 DEF CalmInv
  <1>5. CASE MonitorStep
    <2>1. Only(Monitor) /\ measured' = measured
      BY <1>0, <1>5, MonitorSteps DEF sensing
    <2>2. \A s \in Sensors : CalmSensor(s)'
      BY <1>0, <1>2, <2>1 DEF Only
    <2>3. CalmMonitor'
      BY <1>5, CalmMonitorStep DEF CalmInv
    <2> QED
      BY <2>2, <2>3 DEF CalmInv
  <1>6. CASE ServiceStep
    <2>1. Only(Service) /\ measured' = measured /\ check' = check
      BY <1>0, <1>6, ServiceSteps DEF sensing
    <2>2. \A s \in Sensors : CalmSensor(s)'
      BY <1>0, <1>2, <2>1 DEF Only
    <2>3. CalmMonitor'
      BY <1>0, <1>3, <2>1 DEF Only
    <2> QED
      BY <2>2, <2>3 DEF CalmInv
  <1>7. CASE StartSensor
    BY <1>0, <1>7, StartSensorSteps, HealthyAre
  <1>8. CASE StartMonitor
    BY <1>0, <1>8, StartMonitorSteps, HealthyAre
  <1>9. CASE Outside
    BY <1>9 DEF Outside, TurnUnsafe, TurnSafe, TestbedFails, TestbedResumes, Healthy
  <1> QED
    BY <1>4, <1>5, <1>6, <1>7, <1>8, <1>9, StepIs

\* In a tick a monitor that runs is asleep, or waits for a sensor.
LEMMA MonitorWaits ==
  ASSUME BaseInv, Tick
  PROVE  /\ proc'[Monitor].pc = proc[Monitor].pc /\ proc'[Monitor].runs = proc[Monitor].runs
         /\ proc'[Monitor].state = proc[Monitor].state /\ proc'[Monitor].stop = proc[Monitor].stop
         /\ proc'[Monitor].wait = Less(proc[Monitor].wait)
         /\ at' = at /\ verdict' = verdict
         /\ frame[Monitor].good <=> frame'[Monitor].good
         /\ frame[Monitor].good =>
              frame'[Monitor].age \in Nat /\ frame'[Monitor].age <= frame[Monitor].age + 1
         /\ proc[Monitor].runs = "up" /\ proc[Monitor].state = "RUNNING" =>
              \/ proc[Monitor].pc = "sleep" /\ proc[Monitor].wait > 0
              \/ proc[Monitor].pc = "await" /\ at <= Len(Safeties) /\ ~Reached(Current)
  <1>0. TypeOK /\ Monitor \in Procs /\ Monitor \in Others /\ Life(Monitor) /\ MonitorLife
    BY MonitorTyped
  <1>1. /\ frame[Monitor].good <=> frame'[Monitor].good
        /\ frame[Monitor].good => /\ frame[Monitor].age \in Nat
                                  /\ frame'[Monitor].age
                                       = Older(frame[Monitor].age, 3 * SafetyInterval)
    <2>1. \/ frame[Monitor] = None /\ frame'[Monitor] = None
          \/ /\ frame[Monitor] # None /\ frame'[Monitor] # None
             /\ frame[Monitor].age \in Nat /\ frame'[Monitor].good = frame[Monitor].good
             /\ frame'[Monitor].age = Older(frame[Monitor].age, 3 * SafetyInterval)
      BY <1>0, TickEffect
    <2>2. ~None.good
      BY DEF None
    <2> QED
      BY <2>1, <2>2
  <1>2. frame[Monitor].good =>
          frame'[Monitor].age \in Nat /\ frame'[Monitor].age <= frame[Monitor].age + 1
    BY <1>1 DEF Older
  <1>3. proc[Monitor].runs = "up" => Waits(Monitor)
    BY <1>0 DEF Tick, NothingDue
  <1>4. proc[Monitor].runs = "up" /\ proc[Monitor].state = "RUNNING" =>
          \/ proc[Monitor].pc = "sleep" /\ proc[Monitor].wait > 0
          \/ proc[Monitor].pc = "await" /\ at <= Len(Safeties) /\ ~Reached(Current)
    BY <1>0, <1>3 DEF Waits, Life, MonitorLife
  <1> QED
    BY <1>0, <1>1, <1>2, <1>4, TickEffect DEF Tick

LEMMA CalmInvTick ==
  ASSUME BaseInv, BaseInv', CalmInv, Tick,
         calm' = IF Healthy THEN Older(calm, Recovery) ELSE 0
  PROVE  CalmInv'
  <1>1. CASE calm' = 0
    BY <1>1, CalmZero
  <1> SUFFICES ASSUME Healthy, calm' = Older(calm, Recovery)
               PROVE  CalmInv'
    BY <1>1
  <1>2. calm \in Nat /\ calm' \in Nat /\ calm' <= calm + 1
    BY AgesTyped, RecoveryIs DEF BaseInv, Older
  <1>3. \A p \in Others : /\ proc[p].runs = "up" /\ proc[p].state = "RUNNING"
                          /\ proc'[p].runs = "up" /\ proc'[p].state = "RUNNING"
    BY HealthyAre, TickEffect DEF BaseInv, Procs
  <1>4. Healthy'
    BY <1>3, HealthyAre DEF Tick, Healthy
  <1>5. ASSUME NEW s \in Sensors PROVE CalmSensor(s)'
    <2>1. /\ proc[s].wait \in Nat /\ proc[s].runs = "up" /\ proc[s].state = "RUNNING"
          /\ measured[s] \in BOOLEAN
      BY <1>3, SensorTyped
    <2>2. CASE Sensed(s)
      BY <2>1, <2>2, SensedTick DEF CalmSensor
    <2>3. CASE ~Sensed(s)
      BY <1>2, <2>1, <2>3, SensorWaits, RecoveryIs DEF CalmInv, CalmSensor, Less
    <2> QED
      BY <2>2, <2>3
  <1>6. CalmMonitor'
    <2>1. /\ proc[Monitor].wait \in Nat /\ proc[Monitor].runs = "up"
          /\ proc[Monitor].state = "RUNNING"
      BY <1>3, MonitorTyped
    <2>2. proc[Monitor].pc = "sleep" /\ proc[Monitor].wait > 0
      BY <2>1, MonitorWaits, HealthyAre DEF Reached
    <2> QED
      BY <1>2, <2>1, <2>2, MonitorWaits, RecoveryIs DEF CalmInv, CalmMonitor, Less
  <1> QED
    BY <1>4, <1>5, <1>6 DEF CalmInv

-----------------------------------------------------------------------------
(* As long as nothing has failed.                                           *)

LEMMA WellAre ==
  ASSUME BaseInv, Well
  PROVE  /\ safe /\ testbed = "up" /\ silence = 0 /\ HeartbeatLiveness > 0
         /\ HeartbeatLiveness \in Nat
         /\ \A p \in Others : OtherWell(p)
         /\ \A s \in Sensors : SensorWell(s)
         /\ MonitorWell /\ ServiceWell
         /\ at <= Len(Safeties) => Current \in Sensors /\ Current \in Others
  <1>1. at <= Len(Safeties) => Current \in Sensors
    BY Constants DEF BaseInv, TypeOK, Current
  <1>2. HeartbeatLiveness \in Nat /\ HeartbeatLiveness > 0
    BY Constants
  <1> QED
    BY <1>1, <1>2 DEF Well, BaseInv, ConditionsInv, Others

\* What every process does then: it opens and wakes.
LEMMA WellCommon ==
  ASSUME BaseInv, Well, faults' = faults, NEW p \in Others, Common(p) \/ Disturbs(p)
  PROVE  Open(p) \/ Wake(p)
  <1>0. /\ TypeOK /\ p \in Procs /\ Life(p) /\ OtherWell(p) /\ silence = 0
        /\ HeartbeatLiveness > 0 /\ HeartbeatLiveness \in Nat
    BY WellAre DEF BaseInv, LifeInv, Procs
  <1>1. CASE OpenFails(p) \/ Kill(p) \/ Suspend(p)
    BY <1>0, <1>1, NoFailure DEF OpenFails, Kill, Suspend
  <1>2. CASE MonitorHeartbeats(p)
    BY <1>0, <1>2 DEF MonitorHeartbeats, HeartbeatsLost
  <1>3. CASE LeaveMain(p)
    BY <1>0, <1>3 DEF LeaveMain, OtherWell
  <1>4. CASE Close(p)
    BY <1>0, <1>4 DEF Close, At, Life, OtherWell
  <1>5. CASE Resume(p)
    BY <1>0, <1>5 DEF Resume, OtherWell
  <1>6. CASE Mark(p)
    BY <1>0, <1>6 DEF Mark, OtherWell
  <1> QED
    BY <1>1, <1>2, <1>3, <1>4, <1>5, <1>6 DEF Common, Disturbs

LEMMA WellOpens ==
  ASSUME BaseInv, Well, NEW p \in Others, Open(p)
  PROVE  /\ OtherWell(p)' /\ proc[p].pc = "opening" /\ proc[p].state = "OPENING"
         /\ proc'[p].pc = "loop" /\ proc'[p].state = "RUNNING"
  <1>0. TypeOK /\ p \in Procs /\ p # Service /\ Life(p) /\ OtherWell(p)
    BY WellAre, Constants DEF BaseInv, LifeInv, Procs, Others
  <1> QED
    BY <1>0, OpenEffect DEF Becomes, OtherWell, Life

\* Of a sensor: it stays well, and what it has submitted stays good.
LEMMA SensorWellStep ==
  ASSUME BaseInv, Well, faults' = faults, NEW s \in Sensors, SensorStep(s)
  PROVE  OtherWell(s)' /\ SensorWell(s)' /\ (frame[s].good => frame'[s].good)
  <1>0. /\ TypeOK /\ s \in Procs /\ s \in Others /\ s # Service /\ Life(s)
        /\ OtherWell(s) /\ SensorWell(s) /\ safe
    BY WellAre, SensorTyped
  <1>1. Open(s) \/ GoesOn(s)
    BY <1>0, WellCommon, NoFailure DEF SensorStep, MeasurementFails, GoesOn
  <1>2. CASE Open(s)
    <2>1. /\ OtherWell(s)' /\ proc'[s].pc = "loop" /\ proc'[s].state = "RUNNING"
          /\ proc[s].state = "OPENING"
      BY <1>0, <1>2, WellOpens
    <2>2. ~frame[s].good
      BY <1>0, <2>1 DEF SensorWell
    <2>3. frame'[s] = FirstFrame(s)
      BY <1>0, <1>2, OpenFrames
    <2>4. frame'[s].good => frame'[s].age = 0
      BY <2>3, FirstFrameTyped DEF None
    <2>5. SensorWell(s)'
      BY <2>1, <2>4, Constants DEF SensorWell, Sensed
    <2> QED
      BY <2>1, <2>2, <2>5
  <1>3. CASE GoesOn(s)
    <2>1. OtherWell(s)'
      BY <1>0, <1>3, SensesEffect DEF OtherWell
    <2>2. /\ proc'[s].pc = "measure" => measured'[s]
          /\ frame[s].good => frame'[s].good
          /\ proc[s].pc \in {"sleep", "loop", "measure"}
      <3>1. CASE proc[s].pc = "measure"
        <4>1. /\ frame'[s] = [age |-> 0, good |-> measured[s]] /\ measured[s]
              /\ proc'[s].pc = "sleep"
          BY <1>0, <1>3, <3>1, SensesEffect DEF SensorWell
        <4> QED
          BY <3>1, <4>1
      <3>2. CASE proc[s].pc # "measure"
        BY <1>0, <1>3, <3>2, SensesEffect
      <3> QED
        BY <3>1, <3>2
    <2>3. ASSUME frame'[s].good PROVE proc'[s].state = "RUNNING" /\ Sensed(s)'
      <3>1. proc[s].state = "RUNNING" /\ proc'[s].state = "RUNNING"
        BY <1>0, <1>3, <2>2, SensesEffect DEF OtherWell, Life, Working
      <3>2. CASE frame[s].good
        BY <1>0, <1>3, <3>1, <3>2, SensedSteps DEF SensorWell
      <3>3. CASE ~frame[s].good
        <4>1. /\ proc'[s].pc = "sleep" /\ proc'[s].wait = pause[s]
              /\ frame'[s] = [age |-> 0, good |-> measured[s]]
          BY <1>3, <2>3, <3>3, SensesEffect
        <4>2. frame'[s].age = 0 /\ pause[s] \in Nat /\ pause[s] <= Interval /\ Interval \in Nat
          BY <4>1, SensorTyped
        <4> QED
          BY <2>3, <3>1, <4>1, <4>2 DEF Sensed
      <3> QED
        BY <3>2, <3>3
    <2> QED
      BY <2>1, <2>2, <2>3 DEF SensorWell
  <1> QED
    BY <1>1, <1>2, <1>3

\* The monitor finds a sensor that has once been good in range.
LEMMA WellInRange ==
  ASSUME BaseInv, Well, FramesInTime, NEW s \in Sensors, frame[s].good
  PROVE  proc[s].state = "RUNNING" /\ InRange(s)
  <1>1. /\ proc[s].state = "RUNNING" /\ Sensed(s) /\ OtherWell(s) /\ Life(s) /\ SensorLife(s)
        /\ proc[s].runs \in {"up", "suspended", "no"}
    BY WellAre, SensorTyped, ProcessTyped DEF SensorWell
  <1>2. proc[s].pc \in {"loop", "sleep", "measure"}
    BY <1>1 DEF OtherWell, Life, SensorLife
  <1> QED
    BY <1>1, <1>2, SensedInRange

LEMMA WellJudge ==
  ASSUME BaseInv, Well, FramesInTime, at <= Len(Safeties), proc[Monitor].pc \in {"check", "await"},
         NEW good \in BOOLEAN, Judge(good), good => InRange(Current),
         frame[Current].good => good, proc'[Monitor].pc = "check", frame' = frame
  PROVE  MonitorWell' /\ (frame[Monitor].good => frame'[Monitor].good)
  <1>1. /\ at' = at + 1 /\ verdict' = (verdict /\ good) /\ verdict \in BOOLEAN
        /\ at \in Nat /\ Current = Safeties[at] /\ Current \in Sensors /\ MonitorWell
    BY WellAre, MonitorTyped, SpentBound DEF Judge, Current
  <1>2. ASSUME verdict', NEW i \in 1 .. at' - 1
        PROVE  frame[Safeties[i]].good
    <2>1. CASE i = at
      BY <1>1, <1>2, <2>1 DEF InRange
    <2>2. CASE i \in 1 .. at - 1
      BY <1>1, <1>2, <2>2 DEF MonitorWell
    <2> QED
      BY <1>1, <2>1, <2>2
  <1>3. ASSUME frame[Monitor].good
        PROVE  verdict' /\ (\A s \in Sensors : frame[s].good) /\ frame[Monitor].age <= CheckInterval
    <2>1. /\ proc[Monitor].pc = "check" /\ verdict /\ \A s \in Sensors : frame[s].good
          /\ frame[Monitor].age <= CheckInterval
      BY <1>1, <1>3 DEF MonitorWell
    <2>2. good
      BY <1>1, <2>1
    <2> QED
      BY <1>1, <2>1, <2>2
  <1> QED
    BY <1>2, <1>3 DEF MonitorWell

LEMMA MonitorWellStep ==
  ASSUME BaseInv, Well, FramesInTime, faults' = faults, MonitorStep
  PROVE  OtherWell(Monitor)' /\ MonitorWell' /\ (frame[Monitor].good => frame'[Monitor].good)
  <1>0. /\ TypeOK /\ Monitor \in Procs /\ Monitor \in Others /\ Monitor # Service
        /\ Monitor \notin Sensors
        /\ Life(Monitor) /\ MonitorLife /\ OtherWell(Monitor) /\ MonitorWell /\ testbed = "up"
        /\ CheckInterval \in Nat /\ verdict \in BOOLEAN
        /\ frame[Monitor].good => frame[Monitor].age \in Nat
        /\ proc[Monitor].wait \in Nat
    BY WellAre, MonitorTyped, Constants
  <1>1. CASE Common(Monitor) \/ Disturbs(Monitor)
    <2>1. Open(Monitor) \/ Wake(Monitor)
      BY <1>0, <1>1, WellCommon
    <2>2. CASE Open(Monitor)
      <3>1. OtherWell(Monitor)' /\ proc[Monitor].pc = "opening" /\ proc'[Monitor].pc = "loop"
        BY <1>0, <2>2, WellOpens
      <3>2. frame' = frame /\ ~frame[Monitor].good
        BY <1>0, <2>2, <3>1, OpenFrames DEF MonitorWell
      <3> QED
        BY <3>1, <3>2 DEF MonitorWell
    <2>3. CASE Wake(Monitor)
      <3>1. /\ proc[Monitor].pc = "sleep" /\ proc'[Monitor].pc = "loop" /\ frame' = frame
            /\ proc'[Monitor].runs = proc[Monitor].runs
            /\ proc'[Monitor].state = proc[Monitor].state
            /\ proc'[Monitor].stop = proc[Monitor].stop
        BY <1>0, <2>3, GotoEffect DEF Wake, At, Becomes
      <3>2. OtherWell(Monitor)'
        BY <1>0, <3>1 DEF OtherWell
      <3> QED
        BY <1>0, <3>1, <3>2 DEF MonitorWell
    <2> QED
      BY <2>1, <2>2, <2>3
  <1>2. CASE BeginCheck
    <2>1. /\ proc[Monitor].pc = "loop" /\ proc'[Monitor].pc = "check" /\ frame' = frame
          /\ proc'[Monitor].runs = proc[Monitor].runs
          /\ proc'[Monitor].state = proc[Monitor].state
          /\ proc'[Monitor].stop = proc[Monitor].stop
          /\ at' = 1 /\ verdict'
      BY <1>0, <1>2, GotoEffect DEF BeginCheck, At, Becomes
    <2>2. OtherWell(Monitor)'
      BY <1>0, <2>1 DEF OtherWell
    <2> QED
      BY <1>0, <2>1, <2>2 DEF MonitorWell
  <1>3. ASSUME at <= Len(Safeties)
        PROVE  /\ Current \in Sensors /\ ~Refuses(Current)
               /\ InRange(Current) \in BOOLEAN
               /\ frame[Current].good => Reached(Current) /\ InRange(Current)
    <2>1. Current \in Sensors /\ OtherWell(Current)
      BY <1>3, WellAre
    <2> QED
      BY <1>0, <2>1, WellInRange, InRangeTyped DEF Refuses, Reached, OtherWell
  <1>4. CASE CheckSafety
    <2>1. /\ at <= Len(Safeties) /\ proc[Monitor].pc = "check" /\ proc' = proc /\ frame' = frame
      BY <1>4 DEF CheckSafety, At
    <2>2. Judge(InRange(Current)) /\ Reached(Current)
      BY <1>3, <1>4, <2>1 DEF CheckSafety
    <2>3. OtherWell(Monitor)'
      BY <1>0, <2>1 DEF OtherWell
    <2> QED
      BY <1>3, <2>1, <2>2, <2>3, WellJudge
  <1>5. CASE AwaitSensor
    <2>1. /\ at <= Len(Safeties) /\ proc[Current].state = "OPENING" /\ frame' = frame
          /\ proc[Monitor].pc = "check" /\ check' = check
      BY <1>5 DEF AwaitSensor, At
    <2>2. ~frame[Monitor].good
      BY <1>0, <1>3, <2>1 DEF MonitorWell, Reached
    <2>3. /\ proc'[Monitor].pc = "await" /\ proc'[Monitor].runs = "up"
          /\ proc'[Monitor].state = proc[Monitor].state
          /\ proc'[Monitor].stop = proc[Monitor].stop
      BY <1>0, <1>5, AwaitEffect DEF Becomes
    <2>4. OtherWell(Monitor)'
      BY <1>0, <2>3 DEF OtherWell
    <2> QED
      BY <1>0, <2>1, <2>2, <2>3, <2>4 DEF MonitorWell, check
  <1>6. CASE EndAwait
    <2>1. /\ at <= Len(Safeties) /\ proc[Monitor].pc = "await" /\ frame' = frame
          /\ proc'[Monitor].pc = "check" /\ proc'[Monitor].runs = proc[Monitor].runs
          /\ proc'[Monitor].state = proc[Monitor].state
          /\ proc'[Monitor].stop = proc[Monitor].stop
      BY <1>0, <1>6, GotoEffect DEF EndAwait, At, MonitorLife, Becomes
    <2>2. OtherWell(Monitor)'
      BY <1>0, <2>1 DEF OtherWell
    <2>3. CASE Reached(Current) /\ Judge(InRange(Current))
      BY <1>3, <2>1, <2>2, <2>3, WellJudge
    <2>4. CASE ~Reached(Current) /\ Judge(FALSE)
      BY <1>3, <2>1, <2>2, <2>4, WellJudge
    <2> QED
      BY <1>6, <2>3, <2>4 DEF EndAwait
  <1>7. CASE EndCheck
    <2>1. /\ proc[Monitor].pc = "check" /\ proc'[Monitor].pc = "sleep"
          /\ proc'[Monitor].wait = CheckInterval
          /\ proc'[Monitor].runs = proc[Monitor].runs
          /\ proc'[Monitor].state = proc[Monitor].state
          /\ proc'[Monitor].stop = proc[Monitor].stop
          /\ frame'[Monitor] = [age |-> 0, good |-> verdict]
          /\ \A q \in Others \ {Monitor} : frame'[q] = frame[q]
          /\ at > Len(Safeties)
      BY <1>0, <1>7, SleepsEffect, SubmitTyped DEF EndCheck, At, Becomes
    <2>2. OtherWell(Monitor)'
      BY <1>0, <2>1 DEF OtherWell
    <2>3. frame'[Monitor].good = verdict /\ frame'[Monitor].age = 0
      BY <2>1
    <2>4. frame[Monitor].good => verdict
      BY <1>0, <2>1 DEF MonitorWell
    <2>5. ASSUME verdict, NEW s \in Sensors PROVE frame'[s].good
      <3>1. PICK i \in 1 .. Len(Safeties) : Safeties[i] = s
        BY Constants
      <3>2. i \in 1 .. at - 1
        BY <2>1, Constants DEF TypeOK, BaseInv
      <3>3. frame[s].good
        BY <1>0, <2>1, <2>5, <3>1, <3>2 DEF MonitorWell
      <3> QED
        BY <1>0, <2>1, <3>3 DEF Others
    <2> QED
      BY <1>0, <2>1, <2>2, <2>3, <2>4, <2>5 DEF MonitorWell
  <1> QED
    BY <1>1, <1>2, <1>4, <1>5, <1>6, <1>7 DEF MonitorStep

\* The service is started, and goes on: every verdict that it sees is good.
LEMMA ServiceWellStep ==
  ASSUME BaseInv, Well, VerdictsInTime, faults' = faults, ServiceStep
  PROVE  ServiceWell'
  <1>0. /\ TypeOK /\ Service \in Procs /\ ServiceInv /\ GuardInv /\ Life(Service)
        /\ ServiceWell /\ MonitorWell /\ OtherWell(Monitor) /\ silence = 0
        /\ HeartbeatLiveness > 0 /\ HeartbeatLiveness \in Nat /\ frame' = frame
        /\ Life(Monitor) /\ Monitor \in Others /\ testbed = "up"
        /\ proc[Service].stop \in BOOLEAN
    BY WellAre, ServiceTyped, ServiceSteps, MonitorTyped, ProcessTyped
  <1>1. ASSUME frame[Monitor].good
        PROVE  VerdictIsSafe /\ proc[Monitor].state = "RUNNING"
    <2>1. frame[Monitor].age \in Nat /\ frame[Monitor].age <= 3 * SafetyInterval
      <3>1. frame[Monitor].age \in Nat /\ CheckInterval \in Nat /\ SafetyInterval \in Nat
        BY <1>1, MonitorTyped, Constants
      <3>2. frame[Monitor].age <= CheckInterval
        BY <1>0, <1>1 DEF MonitorWell
      <3>3. CheckInterval <= 3 * SafetyInterval
        BY DEF VerdictsInTime
      <3> QED
        BY <3>1, <3>2, <3>3
    <2>2. proc[Monitor].state = "RUNNING"
      BY <1>0, <1>1 DEF MonitorWell, OtherWell, Life, Working
    <2>3. frame[Monitor] # None
      BY <1>1 DEF None
    <2> QED
      BY <1>1, <2>1, <2>2, <2>3 DEF VerdictIsSafe
  <1>2. CASE Open(Service)
    <2>1. /\ proc[Service].pc = "opening" /\ proc'[Service].stop = proc[Service].stop
          /\ proc'[Service].last = proc[Service].last
      BY <1>0, <1>2, OpenEffect DEF Becomes
    <2> QED
      BY <1>0, <2>1 DEF ServiceWell
  <1>3. CASE OpenFails(Service)
    BY <1>0, <1>3, NoFailure DEF OpenFails
  <1>4. CASE MonitorHeartbeats(Service)
    BY <1>0, <1>4 DEF MonitorHeartbeats, HeartbeatsLost
  <1>5. CASE Wake(Service) \/ LeaveMain(Service)
    BY <1>0, <1>5 DEF Wake, LeaveMain, At, ServiceInv
  <1>6. CASE Close(Service)
    <2>1. proc'[Service].pc = "closed"
      BY <1>0, <1>6, EndsEffect, ProcessTyped DEF Close, Becomes, States
    <2> QED
      BY <2>1 DEF ServiceWell
  <1>7. CASE Start
    <2>1. /\ proc'[Service].pc = "precheck" /\ proc'[Service].stop = FALSE
          /\ proc'[Service].last = "CLOSED"
      BY <1>0, <1>7, StartEffect DEF Becomes
    <2> QED
      BY <2>1 DEF ServiceWell
  <1>8. CASE GuardLoop \/ AwaitMonitor
    <2>1. proc' = proc
      BY <1>8 DEF GuardLoop, AwaitMonitor
    <2> QED
      BY <1>0, <2>1 DEF ServiceWell
  <1>9. CASE IsSafe \/ EndAwaitMonitor
    <2>1. PICK good \in BOOLEAN : /\ Decide(good) /\ (good => VerdictIsSafe)
                                  /\ frame[Monitor].good => good
      BY <1>0, <1>1, <1>9, VerdictTyped DEF IsSafe, EndAwaitMonitor, Refuses, Reached
    <2>2. guard.pc \in {"check", "await"}
      BY <1>9 DEF IsSafe, EndAwaitMonitor
    <2>3. proc[Service].pc \in {"precheck", "running", "stopping"}
      BY <1>0, <2>2 DEF GuardInv
    <2>4. CASE proc[Service].pc = "precheck" /\ good
      <3>1. PICK t \in 0 .. OpenTime :
              Becomes(Service, proc[Service].runs, "OPENING", "opening", t,
                      proc[Service].stop, proc[Service].last)
        BY <1>0, <2>1, <2>4, DecideEffect
      <3>2. frame[Monitor].good
        BY <2>1, <2>4 DEF VerdictIsSafe
      <3> QED
        BY <1>0, <2>4, <3>1, <3>2 DEF Becomes, ServiceWell
    <2>5. CASE proc[Service].pc = "precheck" /\ ~good
      <3>1. Becomes(Service, "no", "FAIL_SAFE", "closed", 0, FALSE, "CLOSED")
        BY <1>0, <2>1, <2>5, DecideEffect
      <3> QED
        BY <3>1 DEF Becomes, ServiceWell
    <2>6. CASE proc[Service].pc # "precheck"
      <3>1. good
        BY <1>0, <2>1, <2>3, <2>6 DEF ServiceWell
      <3>2. proc' = proc
        BY <2>1, <2>6, <3>1 DEF Decide
      <3> QED
        BY <1>0, <3>2 DEF ServiceWell
    <2> QED
      BY <2>4, <2>5, <2>6
  <1>10. CASE EndMain
    BY <1>0, <1>10 DEF EndMain, At, ServiceWell
  <1>11. CASE Join
    BY <1>0, <1>11 DEF Join, At, ServiceWell, ServiceInv
  <1> QED
    BY <1>2, <1>3, <1>4, <1>5, <1>6, <1>7, <1>8, <1>9, <1>10, <1>11 DEF ServiceStep, Common

\* What the others have submitted stays good, and so does what the monitor and the service
\* have concluded from it.
LEMMA WellKept ==
  ASSUME BaseInv, Well, NEW p \in Procs, Only(p), p # Monitor, check' = check,
         p \in Sensors /\ frame[p].good => frame'[p].good
  PROVE  MonitorWell'
  <1>1. Monitor \in Procs /\ Monitor \in Others /\ \A s \in Sensors : s \in Others
    BY DEF Procs, Others
  <1>2. /\ proc'[Monitor] = proc[Monitor] /\ frame'[Monitor] = frame[Monitor]
        /\ \A s \in Sensors : frame[s].good => frame'[s].good
    BY <1>1 DEF Only
  <1>3. at' = at /\ verdict' = verdict
    BY DEF check
  <1>4. \A i \in 1 .. at - 1 : Safeties[i] \in Sensors
    <2>1. at \in 1 .. Len(Safeties) + 1 /\ Len(Safeties) \in Nat
      BY Constants DEF BaseInv, TypeOK
    <2>2. \A i \in 1 .. at - 1 : i \in 1 .. Len(Safeties)
      BY <2>1
    <2> QED
      BY <2>2, Constants
  <1> QED
    BY <1>2, <1>3, <1>4 DEF Well, MonitorWell

LEMMA WellSteps ==
  ASSUME BaseInv, Well, FramesInTime, VerdictsInTime, faults' = faults, Step
  PROVE  Well'
  <1>0. /\ TypeOK /\ LifeInv
        /\ Monitor \notin Sensors /\ Service \notin Others /\ Service # Monitor
        /\ Monitor \in Procs /\ Monitor \in Others /\ Service \in Procs
        /\ \A s \in Sensors : s \in Procs /\ s \in Others
        /\ \A p \in Others : p \in Procs /\ OtherWell(p)
        /\ \A s \in Sensors : SensorWell(s)
        /\ safe /\ testbed = "up" /\ MonitorWell /\ ServiceWell
    BY WellAre, Constants DEF BaseInv, Procs, Others
  <1>1. ASSUME NEW p \in Procs, Only(p), p \in Others => OtherWell(p)',
               p \in Sensors => SensorWell(p)', MonitorWell',
               measured' = measured \/ (p \in Sensors /\
                 \A s \in Sensors \ {p} : measured'[s] = measured[s]),
               p # Service => proc'[Service] = proc[Service]
                              /\ (frame[Monitor].good => frame'[Monitor].good),
               p = Service => ServiceWell'
        PROVE  Well'
    <2>1. \A q \in Others : OtherWell(q)'
      BY <1>0, <1>1 DEF Only, OtherWell
    <2>2. \A s \in Sensors : SensorWell(s)'
      BY <1>0, <1>1 DEF Only, SensorWell, Sensed
    <2>3. ServiceWell'
      BY <1>0, <1>1 DEF ServiceWell
    <2> QED
      BY <1>0, <1>1, <2>1, <2>2, <2>3 DEF Only, Well
  <1>2. ASSUME NEW s \in Sensors, SensorStep(s) PROVE Well'
    <2>1. /\ Only(s) /\ check' = check
          /\ \A r \in Sensors \ {s} : measured'[r] = measured[r]
      BY <1>0, <1>2, SensorSteps
    <2>2. OtherWell(s)' /\ SensorWell(s)' /\ (frame[s].good => frame'[s].good)
      BY <1>2, SensorWellStep
    <2>3. s \in Procs /\ s # Monitor /\ s # Service
      BY <1>0
    <2>4. MonitorWell'
      BY <2>1, <2>2, <2>3, WellKept
    <2>5. proc'[Service] = proc[Service] /\ frame'[Monitor] = frame[Monitor]
      BY <1>0, <2>1, <2>3 DEF Only
    <2> QED
      BY <1>1, <2>1, <2>2, <2>3, <2>4, <2>5
  <1>3. CASE MonitorStep
    <2>1. Only(Monitor) /\ measured' = measured
      BY <1>0, <1>3, MonitorSteps DEF sensing
    <2>2. OtherWell(Monitor)' /\ MonitorWell' /\ (frame[Monitor].good => frame'[Monitor].good)
      BY <1>3, MonitorWellStep
    <2>3. proc'[Service] = proc[Service]
      BY <1>0, <2>1 DEF Only
    <2> QED
      BY <1>0, <1>1, <2>1, <2>2, <2>3
  <1>4. CASE ServiceStep
    <2>1. Only(Service) /\ measured' = measured /\ check' = check
      BY <1>0, <1>4, ServiceSteps DEF sensing
    <2>2. Service \notin Sensors
      BY <1>0
    <2>3. MonitorWell'
      BY <1>0, <2>1, <2>2, WellKept
    <2>4. ServiceWell'
      BY <1>4, ServiceWellStep
    <2> QED
      BY <1>0, <1>1, <2>1, <2>2, <2>3, <2>4
  <1>5. CASE StartSensor
    <2>1. PICK s \in Sensors, t \in 0 .. OpenTime :
            /\ Only(s) /\ Becomes(s, "up", "OPENING", "opening", t, FALSE, "CLOSED")
            /\ frame'[s] = None /\ proc[s].state = "CLOSED"
      BY <1>0, <1>5, StartSensorSteps
    <2>2. measured' = measured /\ check' = check
      BY <1>0, <1>5, StartSensorSteps DEF sensing
    <2>3. s \in Procs /\ s # Monitor /\ s # Service
      BY <1>0, <2>1
    <2>4. ~frame[s].good
      BY <1>0, <2>1 DEF SensorWell
    <2>5. OtherWell(s)' /\ SensorWell(s)'
      BY <2>1 DEF Becomes, OtherWell, SensorWell, None
    <2>6. MonitorWell'
      BY <2>1, <2>2, <2>3, <2>4, WellKept
    <2>7. proc'[Service] = proc[Service] /\ frame'[Monitor] = frame[Monitor]
      BY <1>0, <2>1, <2>3 DEF Only
    <2> QED
      BY <1>1, <2>1, <2>2, <2>3, <2>5, <2>6, <2>7
  <1>6. CASE StartMonitor
    <2>1. PICK t \in 0 .. OpenTime :
            /\ Only(Monitor) /\ Becomes(Monitor, "up", "OPENING", "opening", t, FALSE, "CLOSED")
            /\ frame'[Monitor] = None /\ proc[Monitor].state = "CLOSED"
      BY <1>0, <1>6, StartMonitorSteps
    <2>2. measured' = measured
      BY <1>0, <1>6, StartMonitorSteps DEF sensing
    <2>3. ~frame[Monitor].good
      BY <1>0, <2>1 DEF MonitorWell, BaseInv, LifeInv, Life, Working
    <2>4. OtherWell(Monitor)' /\ MonitorWell'
      BY <2>1 DEF Becomes, OtherWell, MonitorWell, None
    <2>5. proc'[Service] = proc[Service]
      BY <1>0, <2>1 DEF Only
    <2> QED
      BY <1>0, <1>1, <2>1, <2>2, <2>3, <2>4, <2>5
  <1>7. CASE Outside
    BY <1>0, <1>7, NoFailure DEF Outside, TurnUnsafe, TurnSafe, TestbedFails, TestbedResumes
  <1> QED
    BY <1>2, <1>3, <1>4, <1>5, <1>6, <1>7, StepIs

LEMMA WellTick ==
  ASSUME BaseInv, Well, Tick
  PROVE  Well'
  <1>0. /\ TypeOK /\ LifeInv /\ Monitor \in Procs /\ Monitor \in Others /\ Service \in Procs
        /\ \A p \in Others : p \in Procs /\ OtherWell(p)
        /\ \A s \in Sensors : s \in Procs /\ s \in Others /\ SensorWell(s)
        /\ safe /\ testbed = "up" /\ MonitorWell /\ ServiceWell
    BY WellAre DEF BaseInv, Procs, Others
  <1>1. safe' /\ testbed' = "up"
    BY <1>0 DEF Tick
  <1>2. \A p \in Others : OtherWell(p)'
    BY <1>0, TickEffect DEF OtherWell
  <1>3. ASSUME NEW s \in Sensors PROVE SensorWell(s)'
    <2>1. /\ proc'[s].pc = proc[s].pc /\ proc'[s].state = proc[s].state
          /\ measured' = measured /\ (frame[s].good <=> frame'[s].good)
      BY SensorWaits
    <2>2. ASSUME frame[s].good PROVE proc[s].state = "RUNNING" /\ Sensed(s)'
      <3>1. proc[s].state = "RUNNING" /\ Sensed(s) /\ OtherWell(s)
        BY <1>0, <2>2 DEF SensorWell
      <3>2. proc[s].runs = "up"
        BY <1>0, <3>1, ProcessTyped DEF OtherWell
      <3> QED
        BY <3>1, <3>2, SensedTick
    <2> QED
      BY <1>0, <2>1, <2>2 DEF SensorWell
  <1>4. MonitorWell'
    <2>1. /\ proc'[Monitor].pc = proc[Monitor].pc
          /\ proc'[Monitor].wait = Less(proc[Monitor].wait) /\ proc[Monitor].wait \in Nat
          /\ at' = at /\ verdict' = verdict /\ (frame[Monitor].good <=> frame'[Monitor].good)
      BY MonitorWaits, MonitorTyped
    <2>2. \A s \in Sensors : frame[s].good => frame'[s].good
      BY SensorWaits
    <2>3. \A i \in 1 .. at - 1 : Safeties[i] \in Sensors
      <3>1. at \in 1 .. Len(Safeties) + 1 /\ Len(Safeties) \in Nat
        BY <1>0, Constants DEF TypeOK
      <3>2. \A i \in 1 .. at - 1 : i \in 1 .. Len(Safeties)
        BY <3>1
      <3> QED
        BY <3>2, Constants
    <2>4. ASSUME frame[Monitor].good
          PROVE  /\ proc[Monitor].pc = "sleep" /\ proc[Monitor].wait > 0
                 /\ frame'[Monitor].age \in Nat /\ frame[Monitor].age \in Nat
                 /\ frame'[Monitor].age <= frame[Monitor].age + 1
      <3>1. /\ proc[Monitor].pc \in {"loop", "check", "sleep"} /\ Life(Monitor)
            /\ OtherWell(Monitor)
        BY <1>0, <2>4 DEF MonitorWell, LifeInv
      <3>2. proc[Monitor].runs = "up" /\ proc[Monitor].state = "RUNNING"
        BY <1>0, <3>1, ProcessTyped DEF Life, OtherWell, Working
      <3> QED
        BY <2>4, <3>1, <3>2, MonitorWaits, MonitorTyped
    <2> QED
      BY <1>0, <2>1, <2>2, <2>3, <2>4, MonitorTyped DEF MonitorWell, Less
  <1>5. ServiceWell'
    <2>1. proc'[Service].pc = proc[Service].pc /\ proc'[Service].stop = proc[Service].stop
          /\ proc'[Service].last = proc[Service].last
      BY <1>0, TickEffect
    <2>2. frame[Monitor].good <=> frame'[Monitor].good
      BY MonitorWaits
    <2> QED
      BY <1>0, <2>1, <2>2 DEF ServiceWell
  <1> QED
    BY <1>1, <1>2, <1>3, <1>4, <1>5 DEF Well

-----------------------------------------------------------------------------
(* The theorems on a configuration that is timely.                          *)

CalmingInv == BaseInv /\ CalmInv
RunningInv == BaseInv /\ WellInv

LEMMA BaseNext ==
  ASSUME BaseInv, [Next]_vars
  PROVE  BaseInv'
  <1>1. CASE Step /\ calm' = IF Healthy' /\ faults' = faults THEN calm ELSE 0
    BY <1>1, BaseSteps DEF Calmer
  <1>2. CASE Tick /\ calm' = IF Healthy THEN Older(calm, Recovery) ELSE 0
    <2>1. Recovery \in Nat /\ calm \in 0 .. Recovery + 1 /\ 0 \in 0 .. Recovery + 1
      BY Bounds DEF BaseInv, TypeOK
    <2>2. calm' \in 0 .. Recovery + 1
      BY <1>2, <2>1, OlderBound
    <2> QED
      BY <1>2, <2>2, BaseTick
  <1>3. CASE UNCHANGED vars
    BY <1>3
    DEF vars, conditions, sensing, check, bounds, BaseInv, TypeOK, LifeInv, Life, SensorLife,
        MonitorLife, ServiceInv, GuardInv, ConditionsInv, Simulated
  <1> QED
    BY <1>1, <1>2, <1>3 DEF Next

LEMMA CalmingInit == Init => CalmingInv
  <1> SUFFICES ASSUME Init PROVE CalmInv
    BY BaseInit DEF CalmingInv
  <1>1. /\ \A p \in Procs : proc[p] = NotStarted
        /\ \A p \in Others : frame[p] = None /\ p \in Procs
        /\ Monitor \in Procs /\ Monitor \in Others
        /\ \A s \in Sensors : s \in Procs /\ s \in Others
    BY DEF Init, Procs, Others
  <1> QED
    BY <1>1, RecoveryIs DEF Init, CalmInv, CalmSensor, CalmMonitor, NotStarted

LEMMA CalmingNext ==
  ASSUME FramesInTime
  PROVE  CalmingInv /\ [Next]_vars => CalmingInv'
  <1> SUFFICES ASSUME BaseInv, CalmInv, [Next]_vars PROVE CalmInv'
    BY BaseNext DEF CalmingInv
  <1>1. BaseInv'
    BY BaseNext
  <1>2. CASE Step /\ calm' = IF Healthy' /\ faults' = faults THEN calm ELSE 0
    BY <1>1, <1>2, CalmInvSteps
  <1>3. CASE Tick /\ calm' = IF Healthy THEN Older(calm, Recovery) ELSE 0
    BY <1>1, <1>3, CalmInvTick
  <1>4. CASE UNCHANGED vars
    BY <1>4
    DEF vars, conditions, sensing, check, bounds, Simulated, Sensed, CalmInv, CalmSensor,
        CalmMonitor, Healthy
  <1> QED
    BY <1>2, <1>3, <1>4 DEF Next

LEMMA RunningInit == Init => RunningInv
  <1> SUFFICES ASSUME Init PROVE Well
    BY BaseInit DEF RunningInv, WellInv
  <1>1. /\ \A p \in Procs : proc[p] = NotStarted
        /\ \A p \in Others : frame[p] = None /\ p \in Procs
        /\ Service \in Procs /\ Monitor \in Procs /\ Monitor \in Others
        /\ \A s \in Sensors : s \in Procs /\ s \in Others
    BY DEF Init, Procs, Others
  <1>2. \A p \in Others : OtherWell(p)
    BY <1>1 DEF OtherWell, NotStarted
  <1>3. \A s \in Sensors : SensorWell(s)
    BY <1>1 DEF SensorWell, NotStarted, None
  <1>4. MonitorWell /\ ServiceWell
    BY <1>1 DEF MonitorWell, ServiceWell, NotStarted, None
  <1> QED
    BY <1>2, <1>3, <1>4 DEF Init, Well

LEMMA FaultsSteps ==
  ASSUME TypeOK, LifeInv, Step
  PROVE  faults' = faults \/ faults' # 0
  <1>1. faults' = faults \/ Failing
    BY StepIs, SensorSteps, MonitorSteps, ServiceSteps, StartSensorSteps, StartMonitorSteps,
       OutsideSteps DEF Only
  <1>2. 1 \in 1 .. Len(Safeties) /\ Safeties[1] \in Sensors
    BY Constants
  <1>3. MaxFaults[kind[Safeties[1]]] \in Nat
    BY <1>2, SafetyAssumption DEF TypeOK
  <1>4. faults \in Nat
    BY <1>3 DEF TypeOK
  <1> QED
    BY <1>1, <1>4 DEF Failing

LEMMA RunningNext ==
  ASSUME FramesInTime, VerdictsInTime
  PROVE  RunningInv /\ [Next]_vars => RunningInv'
  <1> SUFFICES ASSUME BaseInv, WellInv, [Next]_vars PROVE WellInv'
    BY BaseNext DEF RunningInv
  <1>1. TypeOK /\ LifeInv
    BY DEF BaseInv
  <1>2. CASE Step
    BY <1>1, <1>2, FaultsSteps, WellSteps DEF WellInv
  <1>3. CASE Tick
    <2>1. faults' = faults
      BY <1>3 DEF Tick, bounds
    <2> QED
      BY <1>3, <2>1, WellTick DEF WellInv
  <1>4. CASE UNCHANGED vars
    BY <1>4
    DEF vars, conditions, sensing, check, bounds, Sensed, WellInv, Well, OtherWell, SensorWell,
        MonitorWell, ServiceWell
  <1> QED
    BY <1>2, <1>3, <1>4 DEF Next

\* When the next frames and verdicts come in time, and as long as nothing has failed, a service
\* that has opened does not end in FAIL_SAFE: no frame and no verdict grows old.
THEOREM KeepsRunning ==
  ASSUME FramesInTime, VerdictsInTime
  PROVE  Spec => []NoFalseAlarm
  <1>1. RunningInv => NoFalseAlarm
    BY DEF RunningInv, WellInv, Well, ServiceWell, NoFalseAlarm
  <1>2. RunningInv /\ [Next]_vars => RunningInv'
    BY RunningNext
  <1> QED
    BY <1>1, <1>2, RunningInit, PTL DEF Spec

\* When the next frames come in time, the monitor submits a good verdict within Recovery once
\* all is well, whatever has failed before, and goes on to.
THEOREM SaysSoAgain ==
  ASSUME FramesInTime
  PROVE  Spec => []Recovers
  <1>1. CalmingInv => Recovers
    BY AgesTyped, RecoveryIs DEF CalmingInv, BaseInv, CalmInv, CalmMonitor, Recovers
  <1>2. CalmingInv /\ [Next]_vars => CalmingInv'
    BY CalmingNext
  <1> QED
    BY <1>1, <1>2, CalmingInit, PTL DEF Spec
===============================================================================
