----------------------------- MODULE TestbedProofs -----------------------------
(***************************************************************************)
(* Theorems about the testbed server: the check of the configuration is    *)
(* exact, nothing is launched once the testbed has stopped, and services   *)
(* are shut down after their dependents; for any number of services,       *)
(* configurations, requests and launches.  The last section is about the   *)
(* types of all that the threads and the processes share.                  *)
(***************************************************************************)
EXTENDS Testbed, FiniteSetTheorems, SequenceTheorems, TLAPS

\* The steps of anything but the main thread: a thread of the testbed or a process.
Aside ==
  \/ RequestShutDown
  \/ \E s \in Services :
       RequestStart(s) \/ RequestStop(s) \/ RequestTerminate(s)
       \/ SeeGone(s) \/ SendStop(s) \/ SendInterrupt(s) \/ SendTerminate(s)
  \/ \E t \in Starters : StartService(t)
  \/ MonitorStep
  \/ \E s \in Services, k \in Launch : ProcessStep(s, k)
  \/ UNCHANGED vars

\* The main thread moves from one part of run() to another.
Advance ==
  \/ Accept \/ StartupNext \/ StartupDone \/ BeginShutdown \/ KeyboardInterrupt
  \/ AllShutDown \/ StopServer \/ Stop \/ \E s \in Services : AbortShutdown(s)

\* A step is a round of the check, its refusal, a move of the main thread, or aside.
LEMMA StepKinds ==
  ASSUME [Next]_vars
  PROVE  CheckRound \/ Refuse \/ Advance \/ Aside
BY DEF Next, MainStep, ShutDownService, Ended, Advance, Aside

\* Nothing but the main thread changes what it does, or the configuration.
LEMMA AsideKeepsMain ==
  ASSUME Aside
  PROVE  UNCHANGED <<main, dependsOn, toShutDown>>
<1>1. CASE RequestShutDown
  BY <1>1 DEF RequestShutDown, config
<1>2. ASSUME NEW s \in Services,
             RequestStart(s) \/ RequestStop(s) \/ RequestTerminate(s)
             \/ SeeGone(s) \/ SendStop(s) \/ SendInterrupt(s) \/ SendTerminate(s)
      PROVE  UNCHANGED <<main, dependsOn, toShutDown>>
  BY <1>2 DEF RequestStart, RequestStop, RequestTerminate, SeeGone, SendStop,
     SendInterrupt, SendTerminate, config, mainvars
<1>3. ASSUME NEW t \in Starters, StartService(t)
      PROVE  UNCHANGED <<main, dependsOn, toShutDown>>
  BY <1>3 DEF StartService, ShutdownWasRequested, AlreadyStarted, NotStarted,
     LaunchProcess, LaunchFails, MarkInitializing, RecordProcess, config, mainvars
<1>4. CASE MonitorStep
  BY <1>4 DEF MonitorStep, Reap, EndMonitor, LookForProcess, MarkCrashed,
     HeartbeatAsExpected, HeartbeatOld, HeartbeatAgain, MarkUnresponsive,
     MarkRecovered, config, mainvars
<1>5. ASSUME NEW s \in Services, NEW k \in Launch, ProcessStep(s, k)
      PROVE  UNCHANGED <<main, dependsOn, toShutDown>>
  BY <1>5 DEF ProcessStep, Register, Initialize, RefuseToOpen, BeginOpen, OpenThrows,
     BeginMain, ShutDownItself, MainReturns, MainThrows, BeginClose, EndClose, Exit,
     config, mainvars
<1>6. CASE UNCHANGED vars
  BY <1>6 DEF vars, config, mainvars
<1> QED BY <1>1, <1>2, <1>3, <1>4, <1>5, <1>6 DEF Aside

\* A move of the main thread leaves the configuration and the launches alone; it
\* never leads back into the check, or out of a refusal.
LEMMA AdvanceMoves ==
  ASSUME Advance
  PROVE  /\ UNCHANGED <<dependsOn, toShutDown, launches>>
         /\ main \notin {"refused", "stopped"} /\ main' \notin {"check", "refused"}
         /\ main = "check" => toShutDown = {}
BY DEF Advance, Accept, StartupNext, StartupDone, BeginShutdown, KeyboardInterrupt,
   AllShutDown, StopServer, Stop, AbortShutdown, ShuttingDown, config, procs

-----------------------------------------------------------------------------
(* The check of the configuration.                                         *)

\* No round takes away a service of a set that cannot be shut down; what is left when
\* no service goes on is such a set.
CheckInv ==
  /\ toShutDown \subseteq Services
  /\ main = "check" =>
       \A C \in SUBSET Services : Deadlocked(C) => C \subseteq toShutDown
  /\ main = "refused" => Deadlocked(toShutDown)
  /\ main \notin {"check", "refused"} => \A C \in SUBSET Services : ~Deadlocked(C)

LEMMA CheckInvInit == Init => CheckInv
BY DEF Init, CheckInv

LEMMA CheckInvNext ==
  ASSUME CheckInv, [Next]_vars
  PROVE  CheckInv'
<1>1. CASE CheckRound
  <2>1. /\ main = "check" /\ main' = "check" /\ dependsOn' = dependsOn
        /\ toShutDown' = toShutDown \ ShutDownList
    BY <1>1 DEF CheckRound, mainvars
  <2>2. ASSUME NEW C \in SUBSET Services, Deadlocked(C)
        PROVE  C \subseteq toShutDown \ ShutDownList
    <3>1. C \subseteq toShutDown
      BY <2>1, <2>2 DEF CheckInv
    <3>2. ASSUME NEW s \in C PROVE DependedOnBy(s) \cap toShutDown # {}
      BY <2>2, <3>1 DEF Deadlocked
    <3> QED BY <3>1, <3>2 DEF ShutDownList
  <2>3. \A C \in SUBSET Services : Deadlocked(C)' <=> Deadlocked(C)
    BY <2>1 DEF Deadlocked, DependedOnBy
  <2> QED BY <2>1, <2>2, <2>3 DEF CheckInv
<1>2. CASE Refuse
  <2>1. /\ main' = "refused" /\ toShutDown' = toShutDown /\ dependsOn' = dependsOn
        /\ toShutDown # {} /\ ShutDownList = {}
    BY <1>2 DEF Refuse, config
  <2>2. Deadlocked(toShutDown)
    BY <2>1 DEF Deadlocked, ShutDownList
  <2>3. Deadlocked(toShutDown)'
    BY <2>1, <2>2 DEF Deadlocked, DependedOnBy
  <2> QED BY <2>1, <2>3 DEF CheckInv
<1>3. CASE Advance
  <2>1. /\ dependsOn' = dependsOn /\ toShutDown' = toShutDown
        /\ main # "refused" /\ main' \notin {"check", "refused"}
        /\ main = "check" => toShutDown = {}
    BY <1>3, AdvanceMoves
  <2>2. \A C \in SUBSET Services : ~Deadlocked(C)
    BY <2>1 DEF CheckInv, Deadlocked
  <2>3. \A C \in SUBSET Services : ~Deadlocked(C)'
    BY <2>1, <2>2 DEF Deadlocked, DependedOnBy
  <2> QED BY <2>1, <2>3 DEF CheckInv
<1>4. CASE Aside
  <2>1. main' = main /\ dependsOn' = dependsOn /\ toShutDown' = toShutDown
    BY <1>4, AsideKeepsMain
  <2> QED BY <2>1 DEF CheckInv, Deadlocked, DependedOnBy
<1> QED BY <1>1, <1>2, <1>3, <1>4, StepKinds

\* The check in Testbed.__init__ accepts exactly the configurations that have an
\* order in which shut_down_all_services can go, however many services there are.
THEOREM ConfigurationChecked == Spec => []ConfigCheckExact
<1>1. CheckInv => ConfigCheckExact
  BY DEF CheckInv, ConfigCheckExact
<1> QED BY <1>1, CheckInvInit, CheckInvNext, PTL DEF Spec

-----------------------------------------------------------------------------
(* Launches.                                                               *)

\* The main thread starts services during the startup only, and no thread is inside
\* start_service when the testbed has stopped.
StarterInv ==
  /\ DOMAIN spc = Starters
  /\ main # "startup" => spc["main"] = "idle"
  /\ main = "stopped" => spc["server"] = "idle"

LEMMA StarterInvInit == Init => StarterInv
BY DEF Init, StarterInv, Starters

\* A call of start_service that runs is not idle; nothing else begins or ends one,
\* but the startup and the requests of clients.
LEMMA StarterInvAside ==
  ASSUME StarterInv, Aside
  PROVE  StarterInv'
<1>0. main' = main
  BY AsideKeepsMain
<1>1. ASSUME NEW s \in Services, RequestStart(s)
      PROVE  StarterInv'
  BY <1>0, <1>1 DEF StarterInv, RequestStart, CallStart, Serving, Up, Starters
<1>2. ASSUME NEW t \in Starters, StartService(t)
      PROVE  StarterInv'
  <2>1. DOMAIN spc' = Starters /\ spc[t] # "idle"
        /\ \A u \in Starters : u # t => spc'[u] = spc[u]
    BY <1>2 DEF StarterInv, StartService, ShutdownWasRequested, AlreadyStarted,
       NotStarted, LaunchProcess, LaunchFails, MarkInitializing, RecordProcess, Proceed,
       StarterMoves
  <2> QED BY <1>0, <2>1 DEF StarterInv, Starters
<1>3. ASSUME UNCHANGED spc
      PROVE  StarterInv'
  BY <1>0, <1>3 DEF StarterInv
<1>4. RequestShutDown => UNCHANGED spc
  BY DEF RequestShutDown, starter
<1>5. ASSUME NEW s \in Services,
             RequestStop(s) \/ RequestTerminate(s) \/ SeeGone(s) \/ SendStop(s)
             \/ SendInterrupt(s) \/ SendTerminate(s)
      PROVE  UNCHANGED spc
  BY <1>5 DEF RequestStop, RequestTerminate, SeeGone, SendStop, SendInterrupt,
     SendTerminate, starter
<1>6. MonitorStep => UNCHANGED spc
  BY DEF MonitorStep, Reap, EndMonitor, LookForProcess, MarkCrashed,
     HeartbeatAsExpected, HeartbeatOld, HeartbeatAgain, MarkUnresponsive,
     MarkRecovered, starter
<1>7. ASSUME NEW s \in Services, NEW k \in Launch, ProcessStep(s, k)
      PROVE  UNCHANGED spc
  BY <1>7 DEF ProcessStep, Register, Initialize, RefuseToOpen, BeginOpen, OpenThrows,
     BeginMain, ShutDownItself, MainReturns, MainThrows, BeginClose, EndClose, Exit,
     starter
<1>8. UNCHANGED vars => UNCHANGED spc
  BY DEF vars, starter
<1> QED BY <1>1, <1>2, <1>3, <1>4, <1>5, <1>6, <1>7, <1>8 DEF Aside

LEMMA StarterInvNext ==
  ASSUME StarterInv, [Next]_vars
  PROVE  StarterInv'
<1>1. CASE CheckRound \/ Refuse
  BY <1>1 DEF StarterInv, CheckRound, Refuse, mainvars, starter
<1>2. CASE StartupNext
  BY <1>2 DEF StarterInv, StartupNext, CallStart, Starters
<1>3. CASE Advance /\ ~StartupNext
  BY <1>3 DEF StarterInv, Advance, Accept, StartupDone, BeginShutdown,
     KeyboardInterrupt, AllShutDown, StopServer, Stop, AbortShutdown, ShuttingDown,
     starter
<1>4. CASE Aside
  BY <1>4, StarterInvAside
<1> QED BY <1>1, <1>2, <1>3, <1>4, StepKinds

\* Only start_service launches.
LEMMA OnlyStarterLaunches ==
  ASSUME StarterInv, [Next]_vars, main = "stopped"
  PROVE  launches' = launches
<1>0. ASSUME NEW t \in Starters, StartService(t) PROVE FALSE
  <2>1. spc[t] = "idle"
    BY DEF StarterInv, Starters
  <2> QED BY <1>0, <2>1 DEF StartService, ShutdownWasRequested, AlreadyStarted,
     NotStarted, LaunchProcess, LaunchFails, MarkInitializing, RecordProcess,
     StarterMoves
<1>1. CASE CheckRound \/ Refuse \/ Advance
  BY <1>1, AdvanceMoves DEF CheckRound, Refuse, procs
<1>2. RequestShutDown => UNCHANGED launches
  BY DEF RequestShutDown, procs
<1>3. ASSUME NEW s \in Services,
             RequestStart(s) \/ RequestStop(s) \/ RequestTerminate(s)
             \/ SeeGone(s) \/ SendStop(s) \/ SendInterrupt(s) \/ SendTerminate(s)
      PROVE  UNCHANGED launches
  BY <1>3 DEF RequestStart, RequestStop, RequestTerminate, SeeGone, SendStop,
     SendInterrupt, SendTerminate, procs
<1>4. MonitorStep => UNCHANGED launches
  BY DEF MonitorStep, Reap, EndMonitor, LookForProcess, MarkCrashed,
     HeartbeatAsExpected, HeartbeatOld, HeartbeatAgain, MarkUnresponsive,
     MarkRecovered, procs
<1>5. ASSUME NEW s \in Services, NEW k \in Launch, ProcessStep(s, k)
      PROVE  UNCHANGED launches
  BY <1>5 DEF ProcessStep, Register, Initialize, RefuseToOpen, BeginOpen, OpenThrows,
     BeginMain, ShutDownItself, MainReturns, MainThrows, BeginClose, EndClose, Exit,
     procs
<1>6. UNCHANGED vars => UNCHANGED launches
  BY DEF vars, procs
<1> QED BY <1>0, <1>1, <1>2, <1>3, <1>4, <1>5, <1>6, StepKinds DEF Aside

\* A testbed that has stopped launches nothing: the main thread joins the server
\* thread, and with it a start_service that a client had asked for.
THEOREM NothingLaunched == Spec => StoppedLaunchesNothing
<1>1. ASSUME StarterInv, [Next]_vars
      PROVE  [main = "stopped" => launches' = launches]_vars
  BY <1>1, OnlyStarterLaunches
<1> QED BY <1>1, StarterInvInit, StarterInvNext, PTL DEF Spec, StoppedLaunchesNothing

-----------------------------------------------------------------------------
(* The order of the shutdown.                                               *)

\* No service has two processes.
OneProcess ==
  \A s \in Services, k, l \in Launch : Exists(s, k) /\ Exists(s, l) => k = l

\* No start_service of a client is under way during the shutdown.
NothingUnderWay == main = "shutdown" => LeniencyPassed

\* Thread t has launched s, and not recorded it yet.
Marking(t, s) == spc[t] \in {"mark", "record"} /\ Target(t) = s

Early  == {"check", "refused", "startup", "serve"}
Phases == {"none", "starting", "registered", "initializing", "opening", "running",
           "stopping", "closing", "exiting", "zombie", "gone"}

RefsTyped ==
  /\ phase \in [Services -> [Launch -> Phases]]
  /\ processId \in [Services -> 0 .. MaxLaunches]
  /\ launches \in [Services -> 0 .. MaxLaunches]
  /\ shutdownState \in
       [Services -> {"alive", "stopped", "interrupted", "terminated", "gone"}]
  /\ todo = [t \in Starters |-> todo[t]] /\ mine = [t \in Starters |-> mine[t]]

\* The stored process id is that of the process there is, unless start_service has yet to
\* store it, and so the shutdown finds no process only if there is none.
ShutdownInv ==
  /\ RefsTyped
  /\ \A t \in Starters, s \in Services :
       Marking(t, s) => mine[t] \in Launch /\ Exists(s, mine[t])
  /\ \A s \in Services, k \in Launch :
       Exists(s, k) => processId[s] = k \/ \E t \in Starters : Marking(t, s) /\ mine[t] = k
  /\ main \in Early => \A s \in Services : shutdownState[s] = "alive"
  /\ main = "shutdown" => \A s \in Services : shutdownState[s] = "gone" => ~HasProcess(s)

LEMMA ShutdownInvInit == Init => ShutdownInv
<1> SUFFICES ASSUME Init PROVE ShutdownInv
  OBVIOUS
<1>1. RefsTyped
  BY LaunchesAssumption DEF Init, RefsTyped, Launch, NoProcess, Phases, Starters
<1>2. \A s \in Services, k \in Launch : ~Exists(s, k)
  BY DEF Init, Exists
<1>3. \A t \in Starters : spc[t] = "idle"
  BY DEF Init
<1> QED BY <1>1, <1>2, <1>3 DEF Init, ShutdownInv, Marking, Early

\* Services end, process ids are forgotten with their processes, and the main thread
\* leaves the startup with no service stopped.
Fewer ==
  /\ \A s \in Services, k \in Launch : Exists(s, k)' => Exists(s, k)
  /\ \A t \in Starters, s \in Services :
       /\ Marking(t, s)' <=> Marking(t, s)
       /\ Marking(t, s) => mine'[t] = mine[t] /\ Exists(s, mine[t])'
  /\ \A s \in Services : processId'[s] = processId[s] \/ ~Exists(s, processId[s])
  /\ main' \in Early => main \in Early /\ shutdownState' = shutdownState
  /\ main' = "shutdown" => main \in Early \cup {"shutdown"}

LEMMA FewerKeeps ==
  ASSUME ShutdownInv, RefsTyped', Fewer,
         \A s \in Services : shutdownState'[s] = "gone"
           => shutdownState[s] = "gone" \/ ~HasProcess(s)
  PROVE  ShutdownInv'
<1>1. \A t \in Starters, s \in Services :
        Marking(t, s)' => mine'[t] \in Launch /\ Exists(s, mine[t])'
  BY DEF ShutdownInv, Fewer
<1>2. \A s \in Services, k \in Launch :
        Exists(s, k)' => processId'[s] = k \/ \E t \in Starters : Marking(t, s)' /\ mine'[t] = k
  <2> SUFFICES ASSUME NEW s \in Services, NEW k \in Launch, Exists(s, k)'
               PROVE  processId'[s] = k \/ \E t \in Starters : Marking(t, s)' /\ mine'[t] = k
    OBVIOUS
  <2>1. Exists(s, k)
    BY DEF Fewer
  <2>2. CASE processId[s] = k
    BY <2>1, <2>2 DEF Fewer
  <2>3. CASE \E t \in Starters : Marking(t, s) /\ mine[t] = k
    BY <2>1, <2>3 DEF Fewer
  <2> QED BY <2>1, <2>2, <2>3 DEF ShutdownInv
<1>3. main' \in Early => \A s \in Services : shutdownState'[s] = "alive"
  BY DEF ShutdownInv, Fewer
<1>4. ASSUME main' = "shutdown", NEW s \in Services, shutdownState'[s] = "gone"
      PROVE  ~HasProcess(s)'
  <2>1. ~HasProcess(s)
    BY <1>4 DEF ShutdownInv, Fewer, Early
  <2> QED BY <2>1 DEF HasProcess, Fewer
<1> QED BY <1>1, <1>2, <1>3, <1>4 DEF ShutdownInv

\* A process that goes on to another phase, or ends, is there as before.
LEMMA PhaseMoves ==
  ASSUME RefsTyped, NEW s \in Services, NEW k \in Launch, Exists(s, k),
         NEW to \in Phases \ {"none", "gone"}, phase' = [phase EXCEPT ![s][k] = to]
  PROVE  /\ phase' \in [Services -> [Launch -> Phases]]
         /\ \A r \in Services, l \in Launch : Exists(r, l)' <=> Exists(r, l)
<1>1. /\ \A r \in Services, l \in Launch :
           phase'[r][l] = IF r = s /\ l = k THEN to ELSE phase[r][l]
      /\ phase' \in [Services -> [Launch -> Phases]]
  BY DEF RefsTyped
<1> QED BY <1>1 DEF Exists

\* What the steps have in common that neither launch nor record, nor see a service gone.
Plain ==
  /\ UNCHANGED <<launches, todo, mine>>
  /\ \A t \in Starters : spc'[t] \in {"mark", "record"} <=> spc[t] \in {"mark", "record"}

LEMMA PlainKeeps ==
  ASSUME ShutdownInv, Plain, UNCHANGED <<processId, shutdownState>>,
         phase' \in [Services -> [Launch -> Phases]],
         \A r \in Services, l \in Launch : Exists(r, l)' <=> Exists(r, l),
         main' \in Early => main \in Early,
         main' = "shutdown" => main \in Early \cup {"shutdown"}
  PROVE  ShutdownInv'
<1>1. RefsTyped'
  BY DEF ShutdownInv, RefsTyped, Plain
<1>2. Fewer
  BY DEF Fewer, Plain, Marking, Target, ShutdownInv
<1> QED BY <1>1, <1>2, FewerKeeps

\* The main thread goes on: nothing but where it is changes, and no service is stopped
\* before the shutdown.
LEMMA ShutdownInvMain ==
  ASSUME ShutdownInv, StarterInv,
         CheckRound \/ Refuse \/ Advance \/ RequestShutDown
           \/ (\E s \in Services : RequestStart(s)) \/ UNCHANGED vars
  PROVE  ShutdownInv'
<1>1. UNCHANGED <<launches, phase, processId>>
  BY DEF CheckRound, Refuse, Advance, Accept, StartupNext, StartupDone, BeginShutdown,
     KeyboardInterrupt, AllShutDown, StopServer, Stop, AbortShutdown, RequestShutDown,
     RequestStart, procs, refs, vars
<1>2. shutdownState' = shutdownState
  <2>1. ASSUME NEW s \in Services, AbortShutdown(s) PROVE shutdownState' = shutdownState
    BY <2>1 DEF AbortShutdown, ShuttingDown, ShutdownInv, RefsTyped
  <2> QED BY <2>1 DEF CheckRound, Refuse, Advance, Accept, StartupNext, StartupDone,
     BeginShutdown, KeyboardInterrupt, AllShutDown, StopServer, Stop, RequestShutDown,
     RequestStart, mainvars, vars
<1>3. \A r \in Services, k \in Launch : Exists(r, k)' <=> Exists(r, k)
  BY <1>1 DEF Exists
<1>4. ASSUME NEW t \in Starters, NEW s, CallStart(t, s), main' = main PROVE ShutdownInv'
  <2>1. spc[t] = "idle" /\ spc' = [spc EXCEPT ![t] = "enter"]
        /\ todo' = [todo EXCEPT ![t] = <<s>>] /\ mine' = mine
    BY <1>4 DEF CallStart
  <2>2. RefsTyped'
    BY <1>1, <1>2, <2>1 DEF ShutdownInv, RefsTyped
  <2>3. \A u \in Starters, r \in Services : Marking(u, r)' <=> Marking(u, r)
    BY <2>1 DEF Marking, Target, ShutdownInv, RefsTyped, StarterInv
  <2>4. Fewer
    BY <1>1, <1>2, <1>3, <1>4, <2>1, <2>3 DEF Fewer, ShutdownInv
  <2> QED BY <1>2, <2>2, <2>4, FewerKeeps
<1>5. CASE \/ CheckRound \/ Refuse \/ RequestShutDown \/ UNCHANGED vars
           \/ Advance /\ ~StartupNext
  <2>1. UNCHANGED <<spc, todo, mine>>
    BY <1>5 DEF CheckRound, Refuse, Advance, Accept, StartupDone, BeginShutdown,
       KeyboardInterrupt, AllShutDown, StopServer, Stop, AbortShutdown, RequestShutDown,
       starter, vars
  <2>2. /\ main' \in Early => main \in Early
        /\ main' = "shutdown" => main \in Early \cup {"shutdown"}
    BY <1>5 DEF CheckRound, Refuse, Advance, Accept, StartupDone, BeginShutdown,
       KeyboardInterrupt, AllShutDown, StopServer, Stop, AbortShutdown, RequestShutDown,
       ShuttingDown, mainvars, vars, Early
  <2> QED BY <1>1, <1>2, <1>3, <2>1, <2>2, PlainKeeps DEF Plain, ShutdownInv, RefsTyped
<1>6. CASE StartupNext
  BY <1>4, <1>6 DEF StartupNext, Starters
<1>7. CASE \E s \in Services : RequestStart(s)
  BY <1>4, <1>7 DEF RequestStart, Starters, mainvars
<1> QED BY <1>5, <1>6, <1>7

\* Services are told to stop, or are killed.
LEMMA ShutdownInvStops ==
  ASSUME ShutdownInv, NEW s \in Services,
         RequestStop(s) \/ RequestTerminate(s) \/ SeeGone(s) \/ SendStop(s)
           \/ SendInterrupt(s) \/ SendTerminate(s),
         StarterInv, NothingUnderWay
  PROVE  ShutdownInv'
<1>1. UNCHANGED <<main, launches, spc, todo, mine>>
  BY DEF RequestStop, RequestTerminate, SeeGone, SendStop, SendInterrupt, SendTerminate,
     mainvars, procs, starter
<1>2. Plain /\ \A t \in Starters, r \in Services : Marking(t, r)' <=> Marking(t, r)
  BY <1>1 DEF Plain, Marking, Target
<1>3. CASE SeeGone(s)
  <2>1. /\ main = "shutdown" /\ ~Exists(s, processId[s]) /\ phase' = phase
        /\ processId' = [processId EXCEPT ![s] = NoProcess]
        /\ shutdownState' = [shutdownState EXCEPT ![s] = "gone"]
    BY <1>3 DEF SeeGone, NoProcessFound, Forget, procs
  <2>2. ~HasProcess(s)
    <3>1. \A t \in Starters : spc[t] \notin {"mark", "record"}
      BY <2>1 DEF StarterInv, NothingUnderWay, LeniencyPassed, Starters
    <3> QED BY <2>1, <3>1 DEF HasProcess, ShutdownInv, Marking
  <2>3. RefsTyped'
    BY <1>1, <2>1, LaunchesAssumption DEF ShutdownInv, RefsTyped, NoProcess
  <2>4. Fewer
    <3>1. \A r \in Services : processId'[r] = processId[r] \/ ~Exists(r, processId[r])
      BY <2>1 DEF ShutdownInv, RefsTyped
    <3>2. \A r \in Services, k \in Launch : Exists(r, k)' <=> Exists(r, k)
      BY <2>1 DEF Exists
    <3> QED BY <1>1, <1>2, <2>1, <3>1, <3>2 DEF Fewer, Early, ShutdownInv
  <2>5. \A r \in Services : shutdownState'[r] = "gone"
           => shutdownState[r] = "gone" \/ ~HasProcess(r)
    BY <2>1, <2>2 DEF ShutdownInv, RefsTyped
  <2> QED BY <2>3, <2>4, <2>5, FewerKeeps
<1>4. CASE RequestStop(s)
  BY <1>1, <1>2, <1>4, PlainKeeps DEF RequestStop, mainvars, refs, ShutdownInv, RefsTyped,
     Exists
<1>5. CASE RequestTerminate(s) \/ SendStop(s) \/ SendInterrupt(s) \/ SendTerminate(s)
  <2>1. \/ phase' = phase
        \/ /\ phase' = [phase EXCEPT ![s][processId[s]] = "zombie"]
           /\ Running(s, processId[s])
    BY <1>5 DEF RequestTerminate, SendStop, SendInterrupt, SendTerminate, TerminateService, procs
  <2>2. /\ phase' \in [Services -> [Launch -> Phases]]
        /\ \A r \in Services, k \in Launch : Exists(r, k)' <=> Exists(r, k)
    <3>1. CASE phase' = phase
      BY <3>1 DEF ShutdownInv, RefsTyped, Exists
    <3>2. CASE /\ phase' = [phase EXCEPT ![s][processId[s]] = "zombie"]
               /\ Running(s, processId[s])
      <4>1. Exists(s, processId[s]) /\ processId[s] \in Launch /\ RefsTyped
        BY <3>2, LaunchesAssumption DEF Running, Exists, ShutdownInv, RefsTyped, Launch, NoProcess
      <4>2. "zombie" \in Phases \ {"none", "gone"}
        BY DEF Phases
      <4> QED BY <3>2, <4>1, <4>2, PhaseMoves
    <3> QED BY <2>1, <3>1, <3>2
  <2>3. /\ processId' = processId
        /\ shutdownState' \in
             [Services -> {"alive", "stopped", "interrupted", "terminated", "gone"}]
        /\ \A r \in Services : shutdownState'[r] = "gone" => shutdownState[r] = "gone"
        /\ main \in Early => shutdownState' = shutdownState
    BY <1>5 DEF RequestTerminate, SendStop, SendInterrupt, SendTerminate, ShuttingDown, refs,
       mainvars, ShutdownInv, RefsTyped, Early
  <2>4. RefsTyped'
    BY <1>1, <2>2, <2>3 DEF ShutdownInv, RefsTyped
  <2>5. Fewer
    BY <1>1, <1>2, <2>2, <2>3 DEF Fewer, ShutdownInv
  <2> QED BY <2>3, <2>4, <2>5, FewerKeeps
<1> QED BY <1>3, <1>4, <1>5

\* start_service: a process is there from Popen until its id is stored, and is the only
\* one of its service.
LEMMA ShutdownInvStarts ==
  ASSUME ShutdownInv, StarterInv, OneProcess, NothingUnderWay,
         NEW t \in Starters, StartService(t)
  PROVE  ShutdownInv'
<1>1. UNCHANGED <<main, shutdownState>> /\ RefsTyped
  BY DEF StartService, ShutdownWasRequested, AlreadyStarted, NotStarted, LaunchProcess,
     LaunchFails, MarkInitializing, RecordProcess, mainvars, ShutdownInv
<1>2. /\ DOMAIN spc = Starters /\ DOMAIN todo = Starters /\ DOMAIN mine = Starters
  BY <1>1 DEF StarterInv, RefsTyped
<1>a. Launch \subseteq 0 .. MaxLaunches
  BY LaunchesAssumption DEF Launch
<1>3. CASE ShutdownWasRequested(t) \/ AlreadyStarted(t) \/ NotStarted(t) \/ LaunchFails(t)
  <2>1. /\ UNCHANGED <<phase, processId, launches>>
        /\ spc[t] \in {"enter", "launch"} /\ spc'[t] \in {"idle", "enter", "launch"}
        /\ \A u \in Starters \ {t} : spc'[u] = spc[u] /\ todo'[u] = todo[u] /\ mine'[u] = mine[u]
        /\ todo' = [u \in Starters |-> todo'[u]] /\ mine' = [u \in Starters |-> mine'[u]]
    BY <1>1, <1>2, <1>3 DEF ShutdownWasRequested, AlreadyStarted, NotStarted, LaunchFails, Proceed,
       StarterMoves, refs, procs, RefsTyped
  <2>2. RefsTyped'
    BY <1>1, <2>1 DEF RefsTyped
  <2>3. \A u \in Starters, s \in Services :
          /\ Marking(u, s)' <=> Marking(u, s)
          /\ Marking(u, s) => mine'[u] = mine[u]
    BY <2>1 DEF Marking, Target
  <2>4. Fewer
    BY <1>1, <2>1, <2>3 DEF Fewer, Exists, Early, ShutdownInv
  <2> QED BY <1>1, <2>2, <2>4, FewerKeeps
<1>4. CASE MarkInitializing(t)
  <2>1. /\ UNCHANGED <<phase, processId, launches, todo, mine>>
        /\ spc[t] = "mark" /\ spc' = [spc EXCEPT ![t] = "record"]
    BY <1>4 DEF MarkInitializing, StarterMoves, refs, procs
  <2>2. Plain
    BY <1>2, <2>1 DEF Plain
  <2> QED BY <1>1, <2>1, <2>2, PlainKeeps DEF Exists, RefsTyped, Early
<1>5. CASE LaunchProcess(t)
  <2> DEFINE s == Target(t)
             k == launches[s] + 1
  <2>1. /\ spc[t] = "launch" /\ spc' = [spc EXCEPT ![t] = "mark"]
        /\ k <= MaxLaunches /\ mine' = [mine EXCEPT ![t] = k] /\ todo' = todo
        /\ launches' = [launches EXCEPT ![s] = k]
        /\ phase' = [phase EXCEPT ![s][k] = "starting"] /\ processId' = processId
    BY <1>5 DEF LaunchProcess, StarterMoves, refs
  <2>2. main # "shutdown"
    BY <2>1 DEF NothingUnderWay, LeniencyPassed, StarterInv, Starters
  <2>3. \A u \in Starters \ {t}, r \in Services :
          (Marking(u, r)' <=> Marking(u, r)) /\ mine'[u] = mine[u]
    BY <1>2, <2>1 DEF Marking, Target
  <2>4. \A r \in Services : ~Marking(t, r) /\ (Marking(t, r)' <=> r = s)
    BY <1>2, <2>1 DEF Marking, Target
  <2>5. CASE s \notin Services
    <3>1. UNCHANGED <<launches, phase>>
      BY <1>1, <2>1, <2>5 DEF RefsTyped
    <3>2. RefsTyped'
      BY <1>1, <2>1, <3>1 DEF RefsTyped
    <3>3. Fewer
      BY <1>1, <2>1, <2>3, <2>4, <2>5, <3>1 DEF Fewer, Exists, Early, ShutdownInv
    <3> QED BY <1>1, <3>2, <3>3, FewerKeeps
  <2>6. CASE s \in Services
    <3>1. k \in Launch /\ k # NoProcess
      BY <1>1, <2>1, <2>6, LaunchesAssumption DEF RefsTyped, Launch, NoProcess
    <3>2. \A r \in Services, l \in Launch :
            phase'[r][l] = IF r = s /\ l = k THEN "starting" ELSE phase[r][l]
      BY <1>1, <2>1, <2>6, <3>1 DEF RefsTyped
    <3>3. RefsTyped'
      <4>1. launches' \in [Services -> 0 .. MaxLaunches]
        <5>1. launches \in [Services -> 0 .. MaxLaunches] /\ k \in 0 .. MaxLaunches
          BY <1>1, <1>a, <3>1 DEF RefsTyped
        <5> HIDE DEF k, s
        <5> QED BY <2>1, <5>1
      <4>2. phase' \in [Services -> [Launch -> Phases]]
        BY <1>1, <2>1, <2>6, <3>1 DEF RefsTyped, Phases
      <4>3. todo' = [u \in Starters |-> todo'[u]] /\ mine' = [u \in Starters |-> mine'[u]]
        BY <1>1, <2>1 DEF RefsTyped
      <4> QED BY <1>1, <2>1, <4>1, <4>2, <4>3 DEF RefsTyped
    <3>4. mine'[t] = k
      BY <1>2, <2>1
    <3> HIDE DEF k, s
    <3>5. /\ \A r \in Services, l \in Launch : r = s /\ l = k => Exists(r, l)'
          /\ \A r \in Services, l \in Launch : Exists(r, l) => Exists(r, l)'
      BY <3>1, <3>2 DEF Exists
    <3>6. \A r \in Services, l \in Launch : Exists(r, l)' => Exists(r, l) \/ (r = s /\ l = k)
      BY <3>2 DEF Exists
    <3>7. \A u \in Starters, r \in Services :
            Marking(u, r)' => mine'[u] \in Launch /\ Exists(r, mine[u])'
      BY <2>3, <2>4, <3>1, <3>4, <3>5 DEF ShutdownInv
    <3>8. \A r \in Services, l \in Launch :
            Exists(r, l)' => processId'[r] = l \/ \E u \in Starters : Marking(u, r)' /\ mine'[u] = l
      <4> SUFFICES ASSUME NEW r \in Services, NEW l \in Launch, Exists(r, l)'
                   PROVE  processId'[r] = l \/ \E u \in Starters : Marking(u, r)' /\ mine'[u] = l
        OBVIOUS
      <4>1. CASE r = s /\ l = k
        BY <2>4, <3>4, <4>1
      <4>2. CASE Exists(r, l)
        <5>1. processId[r] = l \/ \E u \in Starters \ {t} : Marking(u, r) /\ mine[u] = l
          BY <2>4, <4>2 DEF ShutdownInv
        <5> QED BY <2>1, <2>3, <5>1
      <4> QED BY <3>6, <4>1, <4>2
    <3>9. main' # "shutdown" /\ (main' \in Early => \A r \in Services : shutdownState'[r] = "alive")
      BY <1>1, <2>2 DEF ShutdownInv
    <3> QED BY <3>3, <3>7, <3>8, <3>9 DEF ShutdownInv
  <2> QED BY <2>5, <2>6
<1>6. CASE RecordProcess(t)
  <2> DEFINE s == Target(t)
             k == mine[t]
  <2>1. /\ spc[t] = "record" /\ spc'[t] \in {"idle", "enter"}
        /\ processId' = [processId EXCEPT ![s] = k] /\ phase' = phase /\ launches' = launches
        /\ \A u \in Starters \ {t} : spc'[u] = spc[u] /\ todo'[u] = todo[u] /\ mine'[u] = mine[u]
        /\ todo' = [u \in Starters |-> todo'[u]] /\ mine' = [u \in Starters |-> mine'[u]]
    BY <1>1, <1>2, <1>6 DEF RecordProcess, Proceed, procs, RefsTyped
  <2>2. \A u \in Starters \ {t}, r \in Services : Marking(u, r)' <=> Marking(u, r)
    BY <2>1 DEF Marking, Target
  <2>3. \A r \in Services : ~Marking(t, r)' /\ (Marking(t, r) <=> r = s)
    BY <2>1 DEF Marking
  <2>4. \A r \in Services, l \in Launch : Exists(r, l)' <=> Exists(r, l)
    BY <2>1 DEF Exists
  <2>5. s \in Services => k \in Launch /\ Exists(s, k)
    BY <2>3 DEF ShutdownInv
  <2>6. RefsTyped'
    <3>1. processId' \in [Services -> 0 .. MaxLaunches]
      <4>1. processId \in [Services -> 0 .. MaxLaunches]
            /\ (s \in Services => k \in 0 .. MaxLaunches)
        BY <1>1, <1>a, <2>5 DEF RefsTyped
      <4> HIDE DEF k, s
      <4> QED BY <2>1, <4>1
    <3> QED BY <1>1, <2>1, <3>1 DEF RefsTyped
  <2>7. \A r \in Services : processId'[r] = IF r = s THEN k ELSE processId[r]
    BY <1>1, <2>1 DEF RefsTyped
  <2> HIDE DEF s, k
  <2>8. \A r \in Services, l \in Launch :
          Exists(r, l)' => processId'[r] = l \/ \E u \in Starters : Marking(u, r)' /\ mine'[u] = l
    <3> SUFFICES ASSUME NEW r \in Services, NEW l \in Launch, Exists(r, l)
                 PROVE  processId'[r] = l \/ \E u \in Starters : Marking(u, r)' /\ mine'[u] = l
      BY <2>4
    <3>1. CASE r = s
      BY <2>5, <2>7, <3>1 DEF OneProcess
    <3>2. CASE r # s
      <4>1. processId[r] = l \/ \E u \in Starters \ {t} : Marking(u, r) /\ mine[u] = l
        BY <2>3, <3>2 DEF ShutdownInv
      <4> QED BY <2>1, <2>2, <2>7, <3>2, <4>1
    <3> QED BY <3>1, <3>2
  <2>9. \A u \in Starters, r \in Services :
          Marking(u, r)' => mine'[u] \in Launch /\ Exists(r, mine[u])'
    BY <2>1, <2>2, <2>3, <2>4 DEF ShutdownInv
  <2>10. \A r \in Services : HasProcess(r)' <=> HasProcess(r)
    BY <2>4 DEF HasProcess
  <2>11. /\ main' \in Early => \A r \in Services : shutdownState'[r] = "alive"
         /\ main' = "shutdown" =>
              \A r \in Services : shutdownState'[r] = "gone" => ~HasProcess(r)'
    BY <1>1, <2>10 DEF ShutdownInv
  <2> QED BY <2>6, <2>8, <2>9, <2>11 DEF ShutdownInv
<1> QED BY <1>3, <1>4, <1>5, <1>6 DEF StartService

\* The monitor waits for the processes that it finds in launched_processes, and forgets an
\* id when there is no process.
LEMMA ShutdownInvMonitor ==
  ASSUME ShutdownInv, MonitorStep
  PROVE  ShutdownInv'
<1>1. UNCHANGED <<main, shutdownState, launches, spc, todo, mine>> /\ RefsTyped
  BY DEF MonitorStep, Reap, EndMonitor, LookForProcess, MarkCrashed, HeartbeatAsExpected,
     HeartbeatOld, HeartbeatAgain, MarkUnresponsive, MarkRecovered, mainvars, starter, procs,
     ShutdownInv
<1>2. Plain /\ \A t \in Starters, r \in Services : Marking(t, r)' <=> Marking(t, r)
  BY <1>1 DEF Plain, Marking, Target
<1>3. CASE Reap
  <2>1. /\ phase' = [s \in Services |-> [k \in Launch |->
              IF phase[s][k] = "zombie" /\ Launched(s, k) THEN "gone" ELSE phase[s][k]]]
        /\ processId' = processId
    BY <1>3 DEF Reap, refs
  <2>2. phase' \in [Services -> [Launch -> Phases]]
    BY <1>1, <2>1 DEF RefsTyped, Phases
  <2>3. RefsTyped'
    BY <1>1, <2>1, <2>2 DEF RefsTyped
  <2>4. \A s \in Services, k \in Launch : Exists(s, k)' => Exists(s, k)
    BY <2>1 DEF Exists
  <2>5. \A t \in Starters, s \in Services :
          Marking(t, s) => mine'[t] = mine[t] /\ Exists(s, mine[t])'
    <3> SUFFICES ASSUME NEW t \in Starters, NEW s \in Services, Marking(t, s)
                 PROVE  Exists(s, mine[t])'
      BY <1>1
    <3>1. mine[t] \in Launch /\ Exists(s, mine[t]) /\ ~Launched(s, mine[t])
      BY DEF ShutdownInv, Marking, Launched
    <3> QED BY <1>1, <2>1, <3>1 DEF Exists
  <2> QED BY <1>1, <1>2, <2>1, <2>3, <2>4, <2>5, FewerKeeps DEF Fewer, Early
<1>4. CASE LookForProcess
  <2>1. /\ phase' = phase
        /\ \/ processId' = processId
           \/ /\ processId' = [processId EXCEPT ![Watched] = NoProcess]
              /\ ~Exists(Watched, processId[Watched])
    BY <1>4 DEF LookForProcess, Crashed, NoProcessFound, Forget, procs
  <2>2. RefsTyped'
    BY <1>1, <2>1, LaunchesAssumption DEF RefsTyped, NoProcess
  <2>3. \A s \in Services : processId'[s] = processId[s] \/ ~Exists(s, processId[s])
    BY <1>1, <2>1 DEF RefsTyped
  <2>4. \A s \in Services, k \in Launch : Exists(s, k)' <=> Exists(s, k)
    BY <2>1 DEF Exists
  <2>5. Fewer
    BY <1>1, <1>2, <2>3, <2>4 DEF Fewer, Early, ShutdownInv
  <2> QED BY <1>1, <2>2, <2>5, FewerKeeps
<1>5. CASE \/ EndMonitor \/ MarkCrashed \/ HeartbeatAsExpected \/ HeartbeatOld
           \/ HeartbeatAgain \/ MarkUnresponsive \/ MarkRecovered
  <2>1. UNCHANGED <<phase, processId>>
    BY <1>5 DEF EndMonitor, MarkCrashed, HeartbeatAsExpected, HeartbeatOld, HeartbeatAgain,
       MarkUnresponsive, MarkRecovered, refs, procs
  <2> QED BY <1>1, <1>2, <2>1, PlainKeeps DEF RefsTyped, Exists, Early
<1> QED BY <1>3, <1>4, <1>5 DEF MonitorStep

\* A service process registers the id that it has, and goes from one phase to the next.
LEMMA ShutdownInvProcess ==
  ASSUME ShutdownInv, OneProcess, NEW s \in Services, NEW k \in Launch, ProcessStep(s, k)
  PROVE  ShutdownInv'
<1>1. /\ UNCHANGED <<main, shutdownState, launches, spc, todo, mine>> /\ RefsTyped
      /\ k # NoProcess /\ k \in 0 .. MaxLaunches
  BY LaunchesAssumption DEF ProcessStep, Register, Initialize, RefuseToOpen, BeginOpen, OpenThrows,
     BeginMain, ShutDownItself, MainReturns, MainThrows, BeginClose, EndClose, Exit, mainvars,
     starter, ShutdownInv, Launch, NoProcess
<1>2. Plain /\ \A t \in Starters, r \in Services : Marking(t, r)' <=> Marking(t, r)
  BY <1>1 DEF Plain, Marking, Target
<1>3. \/ phase' = phase
      \/ Exists(s, k) /\ \E to \in Phases \ {"none", "gone"} : phase' = [phase EXCEPT ![s][k] = to]
  BY <1>1 DEF ProcessStep, Register, Initialize, RefuseToOpen, BeginOpen, OpenThrows,
     BeginMain, ShutDownItself, MainReturns, MainThrows, BeginClose, EndClose, Exit,
     ProcessMoves, Running, Exists, Phases
<1>4. /\ phase' \in [Services -> [Launch -> Phases]]
      /\ \A r \in Services, l \in Launch : Exists(r, l)' <=> Exists(r, l)
  <2>1. CASE phase' = phase
    BY <1>1, <2>1 DEF RefsTyped, Exists
  <2> QED BY <1>1, <1>3, <2>1, PhaseMoves
<1>5. CASE Register(s, k)
  <2>1. processId' = [processId EXCEPT ![s] = k] /\ Exists(s, k)
    BY <1>1, <1>5 DEF Register, ProcessMoves, Exists
  <2>2. RefsTyped'
    BY <1>1, <1>4, <2>1 DEF RefsTyped
  <2>3. \A r \in Services : processId'[r] = IF r = s THEN k ELSE processId[r]
    BY <1>1, <2>1 DEF RefsTyped
  <2>4. \A r \in Services, l \in Launch :
          Exists(r, l)' => processId'[r] = l \/ \E t \in Starters : Marking(t, r)' /\ mine'[t] = l
    <3> SUFFICES ASSUME NEW r \in Services, NEW l \in Launch, Exists(r, l)
                 PROVE  processId'[r] = l \/ \E t \in Starters : Marking(t, r)' /\ mine'[t] = l
      BY <1>4
    <3>1. CASE r = s
      BY <2>1, <2>3, <3>1 DEF OneProcess
    <3>2. CASE r # s
      BY <1>1, <1>2, <2>3, <3>2 DEF ShutdownInv
    <3> QED BY <3>1, <3>2
  <2>5. \A t \in Starters, r \in Services :
          Marking(t, r)' => mine'[t] \in Launch /\ Exists(r, mine[t])'
    BY <1>1, <1>2, <1>4 DEF ShutdownInv
  <2>6. \A r \in Services : HasProcess(r)' <=> HasProcess(r)
    BY <1>4 DEF HasProcess
  <2>7. /\ main' \in Early => \A r \in Services : shutdownState'[r] = "alive"
        /\ main' = "shutdown" =>
             \A r \in Services : shutdownState'[r] = "gone" => ~HasProcess(r)'
    BY <1>1, <2>6 DEF ShutdownInv
  <2> QED BY <2>2, <2>4, <2>5, <2>7 DEF ShutdownInv
<1>6. CASE ~Register(s, k)
  <2>1. processId' = processId
    BY <1>6 DEF ProcessStep, Initialize, RefuseToOpen, BeginOpen, OpenThrows, BeginMain,
       ShutDownItself, MainReturns, MainThrows, BeginClose, EndClose, Exit, refs
  <2> QED BY <1>1, <1>2, <1>4, <2>1, PlainKeeps DEF Early
<1> QED BY <1>5, <1>6

LEMMA ShutdownInvNext ==
  ASSUME ShutdownInv, StarterInv, OneProcess, NothingUnderWay, [Next]_vars
  PROVE  ShutdownInv'
<1>1. CASE CheckRound \/ Refuse \/ Advance
  BY <1>1, ShutdownInvMain
<1>2. CASE Aside
  BY <1>2, ShutdownInvMain, ShutdownInvStops, ShutdownInvStarts, ShutdownInvMonitor,
     ShutdownInvProcess DEF Aside
<1> QED BY <1>1, <1>2, StepKinds

\* Only the shutdown changes how far a service is in it, and but for one that is gone, once
\* the dependents are gone.
LEMMA ShutdownSteps ==
  ASSUME ShutdownInv, [Next]_vars, NEW s \in Services,
         shutdownState'[s] \notin {shutdownState[s], "gone"}
  PROVE  DependentsGone(s) /\ main = "shutdown"
<1>1. ASSUME NEW r \in Services, SendStop(r) \/ SendInterrupt(r) \/ SendTerminate(r)
      PROVE  r = s /\ DependentsGone(r) /\ main = "shutdown"
  BY <1>1 DEF SendStop, SendInterrupt, SendTerminate, ShuttingDown, ShutdownInv, RefsTyped
<1>2. ASSUME NEW r \in Services, SeeGone(r) \/ AbortShutdown(r) PROVE FALSE
  BY <1>2 DEF SeeGone, AbortShutdown, ShuttingDown, ShutdownInv, RefsTyped
<1>3. CASE CheckRound \/ Refuse \/ UNCHANGED vars \/ RequestShutDown \/ MonitorStep
  BY <1>3 DEF CheckRound, Refuse, vars, RequestShutDown, MonitorStep, Reap, EndMonitor,
     LookForProcess, MarkCrashed, HeartbeatAsExpected, HeartbeatOld, HeartbeatAgain,
     MarkUnresponsive, MarkRecovered, mainvars
<1>4. CASE Advance
  BY <1>2, <1>4 DEF Advance, Accept, StartupNext, StartupDone, BeginShutdown,
     KeyboardInterrupt, AllShutDown, StopServer, Stop, mainvars
<1>5. ASSUME NEW r \in Services, RequestStart(r) \/ RequestStop(r) \/ RequestTerminate(r)
      PROVE  FALSE
  BY <1>5 DEF RequestStart, RequestStop, RequestTerminate, mainvars
<1>6. ASSUME NEW t \in Starters, StartService(t) PROVE FALSE
  BY <1>6 DEF StartService, ShutdownWasRequested, AlreadyStarted, NotStarted, LaunchProcess,
     LaunchFails, MarkInitializing, RecordProcess, mainvars
<1>7. ASSUME NEW r \in Services, NEW k \in Launch, ProcessStep(r, k) PROVE FALSE
  BY <1>7 DEF ProcessStep, Register, Initialize, RefuseToOpen, BeginOpen, OpenThrows,
     BeginMain, ShutDownItself, MainReturns, MainThrows, BeginClose, EndClose, Exit, mainvars
<1> QED BY <1>1, <1>2, <1>3, <1>4, <1>5, <1>6, <1>7, StepKinds DEF Aside

\* "All dependents have been shut down": when the shutdown tells a service to stop, or
\* kills it, no process of a dependent is running; in every run in which no service has two
\* processes at a time, and no start_service of a client is under way during the shutdown.
\* (The code prevents neither: see DependentsFirst.)
THEOREM ShutdownInOrder ==
  Spec /\ [](OneProcess /\ NothingUnderWay) => DependentsFirst
<1>1. ASSUME ShutdownInv, [Next]_vars
      PROVE  [\A s \in Services :
                shutdownState'[s] \notin {shutdownState[s], "gone"}
                  => \A d \in DependedOnBy(s), k \in Launch : ~Running(d, k)]_vars
  <2> SUFFICES ASSUME NEW s \in Services, shutdownState'[s] \notin {shutdownState[s], "gone"},
                      NEW d \in DependedOnBy(s), NEW k \in Launch, Running(d, k)
               PROVE  FALSE
    OBVIOUS
  <2>1. DependentsGone(s) /\ main = "shutdown"
    BY <1>1, ShutdownSteps
  <2>2. d \in Services
    BY SafetyAssumption DEF DependedOnBy
  <2>3. ~HasProcess(d)
    BY <1>1, <2>1, <2>2 DEF DependentsGone, ShutdownInv
  <2> QED BY <2>3 DEF HasProcess, Exists, Running
<1> QED BY <1>1, StarterInvInit, StarterInvNext, ShutdownInvInit, ShutdownInvNext, PTL
    DEF Spec, DependentsFirst

\* While no client asks for a start, only the main thread starts services.
LEMMA ServerIdle ==
  ASSUME \A s \in Services : <<"start", s>> \notin Requests,
         StarterInv, spc["server"] = "idle", [Next]_vars
  PROVE  spc'["server"] = "idle"
<1>1. ASSUME NEW t \in Starters, StartService(t)
      PROVE  spc'["server"] = "idle"
  <2>1. spc[t] # "idle" /\ \A u \in Starters : u # t => spc'[u] = spc[u]
    BY <1>1 DEF StarterInv, StartService, ShutdownWasRequested, AlreadyStarted,
       NotStarted, LaunchProcess, LaunchFails, MarkInitializing, RecordProcess, Proceed,
       StarterMoves
  <2> QED BY <2>1 DEF Starters
<1>2. CASE CheckRound \/ Refuse \/ Advance
  BY <1>2 DEF StarterInv, CheckRound, Refuse, Advance, Accept, StartupNext, StartupDone,
     BeginShutdown, KeyboardInterrupt, AllShutDown, StopServer, Stop, AbortShutdown, CallStart,
     Starters, starter
<1>3. ASSUME NEW s \in Services,
             RequestStart(s) \/ RequestStop(s) \/ RequestTerminate(s) \/ SeeGone(s)
             \/ SendStop(s) \/ SendInterrupt(s) \/ SendTerminate(s)
      PROVE  UNCHANGED spc
  BY <1>3 DEF RequestStart, RequestStop, RequestTerminate, SeeGone, SendStop,
     SendInterrupt, SendTerminate, starter
<1>4. MonitorStep \/ RequestShutDown \/ UNCHANGED vars => UNCHANGED spc
  BY DEF MonitorStep, Reap, EndMonitor, LookForProcess, MarkCrashed, HeartbeatAsExpected,
     HeartbeatOld, HeartbeatAgain, MarkUnresponsive, MarkRecovered, RequestShutDown, vars, starter
<1>5. ASSUME NEW s \in Services, NEW k \in Launch, ProcessStep(s, k)
      PROVE  UNCHANGED spc
  BY <1>5 DEF ProcessStep, Register, Initialize, RefuseToOpen, BeginOpen, OpenThrows,
     BeginMain, ShutDownItself, MainReturns, MainThrows, BeginClose, EndClose, Exit, starter
<1> QED BY <1>1, <1>2, <1>3, <1>4, <1>5, StepKinds DEF Aside

\* When only the main thread starts services and each is launched at most once, every
\* service is told to stop, or killed, after its dependents: no process of one is running
\* (shut_down_all_services); for any services, dependencies and startup services.
THEOREM DependentsShutDownFirst ==
  ASSUME \A s \in Services : <<"start", s>> \notin Requests, MaxLaunches = 1
  PROVE  Spec => DependentsFirst
<1>1. Init => spc["server"] = "idle"
  BY DEF Init, Starters
<1>2. StarterInv /\ spc["server"] = "idle" /\ [Next]_vars => (spc["server"] = "idle")'
  BY ServerIdle
<1>3. spc["server"] = "idle" => NothingUnderWay
  BY DEF NothingUnderWay, LeniencyPassed
<1>4. OneProcess
  BY DEF OneProcess, Launch
<1> QED BY <1>1, <1>2, <1>3, <1>4, StarterInvInit, StarterInvNext, ShutdownInOrder, PTL DEF Spec

-----------------------------------------------------------------------------
(* Types.                                                                   *)

LEMMA ServicesFinite == IsFiniteSet(Services)
<1>1. Order \in [1 .. Len(Order) -> Services] /\ Len(Order) \in Nat
  BY OrderAssumption, LenProperties
<1>2. Order \in Surjection(1 .. Len(Order), Services)
  BY <1>1, OrderAssumption DEF Surjection
<1>3. IsFiniteSet(1 .. Len(Order))
  BY <1>1, FS_Interval
<1> QED BY <1>2, <1>3, FS_Surjection

\* The dependencies of a service, as the sequence in which they are started.
LEMMA SetToSeqType ==
  ASSUME NEW S \in SUBSET Services
  PROVE  SetToSeq(S) \in Seq(Services)
<1>1. IsFiniteSet(S)
  BY ServicesFinite, FS_Subset
<1>2. Cardinality(S) \in Nat /\ ExistsBijection(1 .. Cardinality(S), S)
  BY <1>1, FS_CardinalityType
<1>3. \E f \in [1 .. Cardinality(S) -> S] : IsInjective(f)
  BY <1>2 DEF ExistsBijection, Bijection, Injection, IsInjective
<1>4. SetToSeq(S) \in [1 .. Cardinality(S) -> S]
  BY <1>3 DEF SetToSeq
<1>5. SetToSeq(S) \in [1 .. Cardinality(S) -> Services]
  BY <1>4
<1> QED BY <1>2, <1>5

MainStates == {"check", "refused", "startup", "serve", "shutdown", "joining", "closing", "stopped"}

\* What is the configuration's and the main thread's, what is the starters', what is the
\* monitor's, and what is about services and processes.
MainType ==
  /\ dependsOn \in Configs /\ toShutDown \subseteq Services
  /\ main \in MainStates /\ startupLeft \in Seq(Services) /\ shutdownRequested \in BOOLEAN
  /\ shutdownState \in
       [Services -> {"alive", "stopped", "interrupted", "terminated", "gone"}]
StarterType ==
  /\ spc  \in [Starters -> {"idle", "enter", "launch", "mark", "record"}]
  /\ todo \in [Starters -> Seq(Services)]
  /\ mine \in [Starters -> 0 .. MaxLaunches]
MonitorType ==
  /\ mpc \in {"reap", "look", "crashed", "heartbeat", "lost", "found", "done"}
  /\ mi \in DOMAIN Order
StateType == state \in [Services -> ServiceState]
RefsType ==
  /\ processId \in [Services -> 0 .. MaxLaunches]
  /\ port      \in [Services -> 0 .. MaxLaunches]
ProcessType ==
  /\ launches \in [Services -> 0 .. MaxLaunches]
  /\ phase  \in [Services -> [Launch -> Phases]]
  /\ ending \in [Services -> [Launch -> {"no", "told", "unsafe", "crashed"}]]

\* A thread that is inside start_service has a service to start.
Busy == \A t \in Starters : spc[t] # "idle" => todo[t] # <<>>

Typed == MainType /\ StarterType /\ MonitorType /\ StateType /\ RefsType /\ ProcessType /\ Busy

LEMMA TypedIsTypeOK == Typed => TypeOK
BY DEF Typed, MainType, StarterType, MonitorType, StateType, RefsType, ProcessType, TypeOK,
   MainStates, Phases

LEMMA OrderType ==
  ASSUME Services # {}
  PROVE  /\ Len(Order) \in Nat \ {0} /\ DOMAIN Order = 1 .. Len(Order)
         /\ \A i \in DOMAIN Order : Order[i] \in Services
<1>1. Order \in [1 .. Len(Order) -> Services] /\ Len(Order) \in Nat
  BY OrderAssumption, LenProperties
<1>2. DOMAIN Order # {}
  BY OrderAssumption
<1> QED BY <1>1, <1>2

LEMMA TypedInit == Services # {} /\ Init => Typed
<1> SUFFICES ASSUME Services # {}, Init PROVE Typed
  OBVIOUS
<1>1. 1 \in DOMAIN Order
  BY OrderType
<1>2. 0 \in 0 .. MaxLaunches
  BY LaunchesAssumption
<1>3. <<>> \in Seq(Services)
  OBVIOUS
<1> QED BY <1>1, <1>2, <1>3, StartupAssumption
    DEF Init, Typed, MainType, StarterType, MonitorType, StateType, RefsType, ProcessType, Busy,
        MainStates, Phases, ServiceState, NoProcess

\* The main thread, the check of the configuration and the shutdown.
LEMMA TypedMain ==
  ASSUME Typed,
         CheckRound \/ Refuse \/ Advance \/ RequestShutDown
           \/ (\E s \in Services : RequestStart(s)) \/ UNCHANGED vars
  PROVE  Typed'
<1>1. UNCHANGED <<mpc, mi, state, processId, port, launches, phase, ending, dependsOn>>
  BY DEF CheckRound, Refuse, Advance, Accept, StartupNext, StartupDone, BeginShutdown,
     KeyboardInterrupt, AllShutDown, StopServer, Stop, AbortShutdown, RequestShutDown,
     RequestStart, config, monitor, procs, refs, vars
<1>2. MainType'
  <2>1. toShutDown' \subseteq toShutDown
    BY DEF CheckRound, Refuse, Advance, Accept, StartupNext, StartupDone, BeginShutdown,
       KeyboardInterrupt, AllShutDown, StopServer, Stop, AbortShutdown, RequestShutDown,
       RequestStart, config, vars
  <2>2. main' \in MainStates /\ shutdownRequested' \in BOOLEAN
    BY Zenon DEF CheckRound, Refuse, Advance, Accept, StartupNext, StartupDone, BeginShutdown,
       KeyboardInterrupt, AllShutDown, StopServer, Stop, AbortShutdown, RequestShutDown,
       RequestStart, mainvars, vars, Typed, MainType, MainStates
  <2>3. startupLeft' \in Seq(Services)
    <3>1. StartupNext => startupLeft # <<>> /\ startupLeft' = Tail(startupLeft)
      BY DEF StartupNext
    <3>2. ~StartupNext => startupLeft' = startupLeft
      BY DEF CheckRound, Refuse, Advance, Accept, StartupDone, BeginShutdown,
         KeyboardInterrupt, AllShutDown, StopServer, Stop, AbortShutdown, RequestShutDown,
         RequestStart, mainvars, vars
    <3> QED BY <3>1, <3>2 DEF Typed, MainType
  <2>4. shutdownState' = shutdownState
    <3>1. ASSUME NEW s \in Services, AbortShutdown(s) PROVE shutdownState' = shutdownState
      BY <3>1 DEF AbortShutdown, ShuttingDown, Typed, MainType
    <3> QED BY <3>1 DEF CheckRound, Refuse, Advance, Accept, StartupNext, StartupDone,
       BeginShutdown, KeyboardInterrupt, AllShutDown, StopServer, Stop, RequestShutDown,
       RequestStart, mainvars, vars
  <2> QED BY <1>1, <2>1, <2>2, <2>3, <2>4 DEF Typed, MainType
<1>3. ASSUME NEW t \in Starters, NEW s \in Services, CallStart(t, s)
      PROVE  StarterType' /\ Busy'
  <2>1. <<s>> \in Seq(Services) /\ <<s>> # <<>>
    OBVIOUS
  <2> QED BY <1>3, <2>1 DEF CallStart, Typed, StarterType, Busy
<1>4. StarterType' /\ Busy'
  <2>1. CASE StartupNext
    <3>1. Head(startupLeft) \in Services
      BY <2>1 DEF StartupNext, Typed, MainType
    <3> QED BY <1>3, <2>1, <3>1 DEF StartupNext, Starters
  <2>2. CASE \E s \in Services : RequestStart(s)
    BY <1>3, <2>2 DEF RequestStart, Starters
  <2>3. CASE UNCHANGED starter
    BY <2>3 DEF starter, Typed, StarterType, Busy
  <2>4. StartupNext \/ (\E s \in Services : RequestStart(s)) \/ UNCHANGED starter
    BY DEF CheckRound, Refuse, Advance, Accept, StartupDone, BeginShutdown,
       KeyboardInterrupt, AllShutDown, StopServer, Stop, AbortShutdown, RequestShutDown, vars
  <2> QED BY <2>1, <2>2, <2>3, <2>4
<1> QED BY <1>1, <1>2, <1>4 DEF Typed, MonitorType, StateType, RefsType, ProcessType

\* A service that is stopped or killed, by a client or in the shutdown.
LEMMA TypedStops ==
  ASSUME Typed, NEW s \in Services,
         RequestStop(s) \/ RequestTerminate(s) \/ SeeGone(s) \/ SendStop(s)
         \/ SendInterrupt(s) \/ SendTerminate(s)
  PROVE  Typed'
<1>1. UNCHANGED <<dependsOn, toShutDown, main, startupLeft, shutdownRequested, spc, todo, mine,
                  mpc, mi, state, port, launches>>
  BY DEF RequestStop, RequestTerminate, SeeGone, SendStop, SendInterrupt, SendTerminate,
     ShuttingDown, config, mainvars, starter, monitor, refs, procs
<1>2. shutdownState' \in [Services -> {"alive", "stopped", "interrupted", "terminated", "gone"}]
  BY DEF RequestStop, RequestTerminate, SeeGone, SendStop, SendInterrupt, SendTerminate,
     ShuttingDown, mainvars, Typed, MainType
<1>3. processId' \in [Services -> 0 .. MaxLaunches]
  BY LaunchesAssumption DEF RequestStop, RequestTerminate, SeeGone, SendStop, SendInterrupt,
     SendTerminate, Forget, refs, NoProcess, Typed, RefsType
<1>4. StopService(s) => ending' \in [Services -> [Launch -> {"no", "told", "unsafe", "crashed"}]]
  <2>1. ending[s] \in [Launch -> {"no", "told", "unsafe", "crashed"}]
    BY DEF Typed, ProcessType
  <2>2. [ending[s] EXCEPT ![port[s]] = "told"] \in [Launch -> {"no", "told", "unsafe", "crashed"}]
    BY <2>1
  <2>3. StopService(s)
          => ending' \in {ending, [ending EXCEPT ![s] = [ending[s] EXCEPT ![port[s]] = "told"]]}
    BY DEF StopService
  <2> QED BY <2>2, <2>3 DEF Typed, ProcessType
<1>5. TerminateService(s) => phase' \in [Services -> [Launch -> Phases]]
  BY DEF TerminateService, Typed, ProcessType, Phases
<1>6. ProcessType'
  BY <1>1, <1>4, <1>5 DEF RequestStop, RequestTerminate, SeeGone, SendStop, SendInterrupt,
     SendTerminate, procs, Typed, ProcessType
<1> QED BY <1>1, <1>2, <1>3, <1>6 DEF Typed, MainType, StarterType, MonitorType, StateType, RefsType,
       Busy

LEMMA TypedStarts ==
  ASSUME Typed, NEW t \in Starters, StartService(t)
  PROVE  Typed'
<1>1. /\ UNCHANGED <<config, mainvars, monitor, ending>>
      /\ spc[t] # "idle" /\ todo[t] \in Seq(Services) /\ todo[t] # <<>>
  BY DEF StartService, ShutdownWasRequested, AlreadyStarted, NotStarted, LaunchProcess,
     LaunchFails, MarkInitializing, RecordProcess, StarterMoves, procs, Typed, StarterType, Busy
<1>2. Target(t) \in Services /\ Tail(todo[t]) \in Seq(Services)
  BY <1>1 DEF Target
<1>3. ASSUME NEW rest \in Seq(Services), Proceed(t, rest)
      PROVE  StarterType' /\ Busy'
  <2>1. 0 \in 0 .. MaxLaunches
    BY LaunchesAssumption
  <2> QED BY <1>3, <2>1 DEF Proceed, Typed, StarterType, Busy
<1>4. CASE ShutdownWasRequested(t) \/ AlreadyStarted(t) \/ LaunchFails(t)
  <2>1. <<>> \in Seq(Services)
    OBVIOUS
  <2>2. StarterType' /\ Busy' /\ UNCHANGED <<state, processId, port, launches, phase>>
    BY <1>2, <1>3, <1>4, <2>1 DEF ShutdownWasRequested, AlreadyStarted, LaunchFails, refs, procs
  <2> QED BY <1>1, <2>2 DEF Typed, MainType, MonitorType, StateType, RefsType, ProcessType, config,
       mainvars, monitor
<1>5. CASE NotStarted(t) \/ MarkInitializing(t)
  <2>1. /\ spc' \in [Starters -> {"idle", "enter", "launch", "mark", "record"}]
        /\ UNCHANGED <<todo, mine, processId, port, launches, phase>>
        /\ \A u \in Starters : u # t => spc'[u] = spc[u]
    BY <1>5 DEF NotStarted, MarkInitializing, StarterMoves, Typed, StarterType, refs, procs
  <2>2. StateType'
    BY <1>2, <1>5 DEF NotStarted, MarkInitializing, Typed, StateType, ServiceState
  <2>3. StarterType' /\ Busy'
    BY <1>1, <2>1 DEF Typed, StarterType, Busy
  <2> QED BY <1>1, <2>1, <2>2, <2>3 DEF Typed, MainType, MonitorType, RefsType, ProcessType, config,
       mainvars, monitor
<1>6. CASE LaunchProcess(t)
  <2> DEFINE s == Target(t)
             k == launches[s] + 1
  <2>1. /\ k <= MaxLaunches /\ mine' = [mine EXCEPT ![t] = k]
        /\ launches' = [launches EXCEPT ![s] = k]
        /\ phase' = [phase EXCEPT ![s][k] = "starting"]
        /\ spc' = [spc EXCEPT ![t] = "mark"] /\ UNCHANGED <<todo, state, processId, port>>
    BY <1>6 DEF LaunchProcess, StarterMoves, refs
  <2>2. s \in Services /\ launches[s] \in 0 .. MaxLaunches
    BY <1>2 DEF Typed, ProcessType
  <2>3. k \in Launch /\ k \in 0 .. MaxLaunches
    BY <2>1, <2>2, LaunchesAssumption DEF Launch
  <2> HIDE DEF k
  <2>4. ProcessType'
    BY <1>1, <2>1, <2>2, <2>3 DEF Typed, ProcessType, Phases
  <2>5. StarterType' /\ Busy'
    BY <1>1, <2>1, <2>3 DEF Typed, StarterType, Busy
  <2> QED BY <1>1, <2>1, <2>4, <2>5 DEF Typed, MainType, MonitorType, StateType, RefsType, config,
       mainvars, monitor
<1>7. CASE RecordProcess(t)
  <2>1. dependsOn[Target(t)] \in SUBSET Services
    BY <1>2, ConfigsAssumption DEF Typed, MainType
  <2>2. SetToSeq(dependsOn[Target(t)]) \o Tail(todo[t]) \in Seq(Services)
    BY <1>2, <2>1, SetToSeqType, ConcatProperties
  <2>3. StarterType' /\ Busy' /\ UNCHANGED <<state, launches, phase>>
    BY <1>3, <1>7, <2>2 DEF RecordProcess, procs
  <2>4. RefsType'
    BY <1>2, <1>7 DEF RecordProcess, Typed, RefsType, StarterType
  <2> QED BY <1>1, <2>3, <2>4 DEF Typed, MainType, MonitorType, StateType, ProcessType, config,
       mainvars, monitor
<1> QED BY <1>4, <1>5, <1>6, <1>7 DEF StartService

LEMMA TypedMonitor ==
  ASSUME Services # {}, Typed, MonitorStep
  PROVE  Typed'
<1>1. UNCHANGED <<config, mainvars, starter, port, launches, ending>>
  BY DEF MonitorStep, Reap, EndMonitor, LookForProcess, MarkCrashed, HeartbeatAsExpected,
     HeartbeatOld, HeartbeatAgain, MarkUnresponsive, MarkRecovered, refs, procs
<1>2. MonitorType'
  <2>1. mpc' \in {"reap", "look", "crashed", "heartbeat", "lost", "found", "done"}
        /\ (mi' = mi \/ mi' = 1 \/ (mi < Len(Order) /\ mi' = mi + 1))
    BY DEF MonitorStep, Reap, EndMonitor, LookForProcess, MarkCrashed, HeartbeatAsExpected,
       HeartbeatOld, HeartbeatAgain, MarkUnresponsive, MarkRecovered, MonitorMoves, NextService
  <2> QED BY <2>1, OrderType DEF Typed, MonitorType
<1>3. Watched \in Services
  BY OrderType DEF Watched, Typed, MonitorType
<1>4. StateType'
  BY <1>3 DEF MonitorStep, Reap, EndMonitor, LookForProcess, MarkCrashed, HeartbeatAsExpected,
     HeartbeatOld, HeartbeatAgain, MarkUnresponsive, MarkRecovered, Typed, StateType, ServiceState
<1>5. processId' \in [Services -> 0 .. MaxLaunches]
  BY <1>3, LaunchesAssumption DEF MonitorStep, Reap, EndMonitor, LookForProcess, MarkCrashed,
     HeartbeatAsExpected, HeartbeatOld, HeartbeatAgain, MarkUnresponsive, MarkRecovered, Forget,
     NoProcess, refs, Typed, RefsType
<1>6. phase' \in [Services -> [Launch -> Phases]]
  BY DEF MonitorStep, Reap, EndMonitor, LookForProcess, MarkCrashed, HeartbeatAsExpected,
     HeartbeatOld, HeartbeatAgain, MarkUnresponsive, MarkRecovered, procs, Typed, ProcessType, Phases
<1> QED BY <1>1, <1>2, <1>4, <1>5, <1>6 DEF Typed, MainType, StarterType, Busy, RefsType, ProcessType,
       config, mainvars, starter

LEMMA TypedProcess ==
  ASSUME Typed, NEW s \in Services, NEW k \in Launch, ProcessStep(s, k)
  PROVE  Typed'
<1>1. UNCHANGED <<config, mainvars, starter, monitor, launches>>
  BY DEF ProcessStep, Register, Initialize, RefuseToOpen, BeginOpen, OpenThrows, BeginMain,
     ShutDownItself, MainReturns, MainThrows, BeginClose, EndClose, Exit
<1>2. StateType'
  BY DEF ProcessStep, Register, Initialize, RefuseToOpen, BeginOpen, OpenThrows, BeginMain,
     ShutDownItself, MainReturns, MainThrows, BeginClose, EndClose, Exit, UpdateState, FinalState,
     Typed, StateType, ServiceState
<1>3. RefsType'
  <2>1. k \in 0 .. MaxLaunches
    BY LaunchesAssumption DEF Launch
  <2> QED BY <2>1 DEF ProcessStep, Register, Initialize, RefuseToOpen, BeginOpen, OpenThrows,
       BeginMain, ShutDownItself, MainReturns, MainThrows, BeginClose, EndClose, Exit, refs, Typed,
       RefsType
<1>4. ending' \in [Services -> [Launch -> {"no", "told", "unsafe", "crashed"}]]
  <2>1. ending' = ending \/ \E v \in {"no", "told", "unsafe", "crashed"} :
          ending' = [ending EXCEPT ![s][k] = v]
    <3>1. CASE ShutDownItself(s, k)
      BY <3>1 DEF ShutDownItself
    <3>2. CASE MainThrows(s, k) \/ EndClose(s, k) \/ Exit(s, k)
      BY <3>2 DEF MainThrows, EndClose, Exit
    <3>3. CASE \/ Register(s, k) \/ Initialize(s, k) \/ RefuseToOpen(s, k) \/ BeginOpen(s, k)
               \/ OpenThrows(s, k) \/ BeginMain(s, k) \/ MainReturns(s, k) \/ BeginClose(s, k)
      BY <3>3 DEF Register, Initialize, RefuseToOpen, BeginOpen, OpenThrows, BeginMain,
         MainReturns, BeginClose
    <3> QED BY <3>1, <3>2, <3>3 DEF ProcessStep
  <2>2. ASSUME NEW v \in {"no", "told", "unsafe", "crashed"}, ending' = [ending EXCEPT ![s][k] = v]
        PROVE  ending' \in [Services -> [Launch -> {"no", "told", "unsafe", "crashed"}]]
    BY <2>2 DEF Typed, ProcessType
  <2> QED BY <2>1, <2>2 DEF Typed, ProcessType
<1>5. phase' \in [Services -> [Launch -> Phases]]
  BY DEF ProcessStep, Register, Initialize, RefuseToOpen, BeginOpen, OpenThrows, BeginMain,
     ShutDownItself, MainReturns, MainThrows, BeginClose, EndClose, Exit, ProcessMoves, Typed,
     ProcessType, Phases
<1> QED BY <1>1, <1>2, <1>3, <1>4, <1>5 DEF Typed, MainType, StarterType, Busy, MonitorType,
       ProcessType, config, mainvars, starter, monitor

LEMMA TypedNext ==
  ASSUME Services # {}, Typed, [Next]_vars
  PROVE  Typed'
<1>1. CASE CheckRound \/ Refuse \/ Advance
  BY <1>1, TypedMain
<1>2. CASE Aside
  BY <1>2, TypedMain, TypedStops, TypedStarts, TypedMonitor, TypedProcess DEF Aside
<1> QED BY <1>1, <1>2, StepKinds

\* Every variable keeps its type; a thread that is inside start_service has a service to
\* start, and the monitor's index is that of a service, in every configuration with one.
THEOREM TypeCorrect ==
  ASSUME Services # {}
  PROVE  Spec => []TypeOK
<1>1. Init => Typed
  BY TypedInit
<1>2. Typed /\ [Next]_vars => Typed'
  BY TypedNext
<1> QED BY <1>1, <1>2, TypedIsTypeOK, PTL DEF Spec
================================================================================
