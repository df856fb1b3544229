-------------------------------- MODULE Testbed --------------------------------
(***************************************************************************)
(* The testbed server and the life of the services it manages              *)
(* (catkit2/testbed/testbed.py), with the service processes as far as the  *)
(* testbed sees them (catkit_core/Service.cpp).                            *)
(*                                                                         *)
(* The testbed runs three threads that share the service references        *)
(* without a lock: the main thread (startup services, then the shutdown),  *)
(* the server thread (clients' requests, one at a time) and the monitor.   *)
(* A service may be launched several times; its launches are numbered, and *)
(* a process is a pair of a service and a launch.  An action is at most    *)
(* one access to what the threads and processes share.                     *)
(***************************************************************************)
EXTENDS Integers, Sequences, FiniteSets, SequencesExt

CONSTANTS
  Services,      \* the services of the configuration
  Order,         \* the same, in the order of the services dictionary
  Configs,       \* the depends_on relations to consider, [Services -> SUBSET Services]
  Safety,        \* the safety service, or NoService
  Guarded,       \* the services that require safety
  Startup,       \* the startup services, a sequence
  Requests,      \* bound: the requests of clients, <<"start", "stop" or "terminate", service>>
  Stalling,      \* bound: the services whose heartbeats may stop coming for a while
  MaxLaunches,   \* bound: how often one service is launched
  NoService

ASSUME OrderAssumption ==
  /\ Order \in Seq(Services) /\ IsInjective(Order)
  /\ Services = {Order[i] : i \in DOMAIN Order}
ASSUME ConfigsAssumption  == Configs \subseteq [Services -> SUBSET Services]
ASSUME SafetyAssumption   ==
  Safety \in Services \cup {NoService} /\ Guarded \subseteq Services
ASSUME StartupAssumption  == Startup \in Seq(Services)
ASSUME RequestsAssumption ==
  /\ Requests \subseteq {"start", "stop", "terminate"} \X Services
  /\ Stalling \subseteq Services
ASSUME LaunchesAssumption == MaxLaunches \in Nat \ {0}

VARIABLES
  dependsOn,          \* depends_on of every service
  toShutDown,         \* services_to_shut_down, in the check of the configuration
  main,               \* what the main thread does
  startupLeft,        \* the startup services it has yet to start
  shutdownRequested,  \* the event of that name
  shutdownState,      \* shutdown_state, in shut_down_all_services
  spc, todo, mine,    \* start_service, in the main and in the server thread
  mpc, mi,            \* the monitor thread, and the index of the service it looks at
  state,              \* the services' state streams
  processId, port,    \* process_id and port of the service references, as a launch
  launches,           \* how often each service was launched
  phase, ending       \* the processes, and why each one's main function ends

config  == <<dependsOn, toShutDown>>
mainvars == <<main, startupLeft, shutdownRequested, shutdownState>>
starter == <<spc, todo, mine>>
monitor == <<mpc, mi>>
refs    == <<processId, port>>
procs   == <<launches, phase, ending>>
vars == <<config, mainvars, starter, monitor, state, refs, procs>>

Launch    == 1 .. MaxLaunches
NoProcess == 0
Starters  == {"main", "server"}

ServiceState == {"CLOSED", "INITIALIZING", "OPENING", "RUNNING", "CLOSING",
                 "UNRESPONSIVE", "CRASHED", "FAIL_SAFE"}
Dead == {"CLOSED", "CRASHED", "FAIL_SAFE"}

\* A process as the operating system shows it; a zombie still has its process id.
Running(s, k) == k # NoProcess /\ phase[s][k] \notin {"none", "zombie", "gone"}
Exists(s, k)  == k # NoProcess /\ phase[s][k] \notin {"none", "gone"}
HasProcess(s) == \E k \in Launch : Exists(s, k)

TypeOK ==
  /\ dependsOn \in Configs
  /\ toShutDown \subseteq Services
  /\ main \in {"check", "refused", "startup", "serve", "shutdown", "joining",
              "closing", "stopped"}
  /\ startupLeft \in Seq(Services)
  /\ shutdownRequested \in BOOLEAN
  /\ shutdownState \in
       [Services -> {"alive", "stopped", "interrupted", "terminated", "gone"}]
  /\ spc  \in [Starters -> {"idle", "enter", "launch", "mark", "record"}]
  /\ todo \in [Starters -> Seq(Services)]
  /\ mine \in [Starters -> 0 .. MaxLaunches]
  /\ mpc \in {"reap", "look", "crashed", "heartbeat", "lost", "found", "done"}
  /\ mi \in DOMAIN Order
  /\ state     \in [Services -> ServiceState]
  /\ processId \in [Services -> 0 .. MaxLaunches]
  /\ port      \in [Services -> 0 .. MaxLaunches]
  /\ launches  \in [Services -> 0 .. MaxLaunches]
  /\ phase  \in [Services -> [Launch ->
       {"none", "starting", "registered", "initializing", "opening", "running",
        "stopping", "closing", "exiting", "zombie", "gone"}]]
  /\ ending \in [Services -> [Launch -> {"no", "told", "unsafe", "crashed"}]]

Init ==
  /\ dependsOn \in Configs
  /\ toShutDown = Services
  /\ main = "check"
  /\ startupLeft = Startup
  /\ shutdownRequested = FALSE
  /\ shutdownState = [s \in Services |-> "alive"]
  /\ spc  = [t \in Starters |-> "idle"]
  /\ todo = [t \in Starters |-> <<>>]
  /\ mine = [t \in Starters |-> 0]
  /\ mpc = "reap" /\ mi = 1
  /\ state     = [s \in Services |-> "CLOSED"]
  /\ processId = [s \in Services |-> NoProcess]
  /\ port      = [s \in Services |-> NoProcess]
  /\ launches  = [s \in Services |-> 0]
  /\ phase  = [s \in Services |-> [k \in Launch |-> "none"]]
  /\ ending = [s \in Services |-> [k \in Launch |-> "no"]]

-----------------------------------------------------------------------------
(* Testbed.__init__: who depends on whom, and the check for cycles.         *)

\* depended_on_by: the services that must be down before s may be shut down.
DependedOnBy(s) ==
  {d \in Services : s \in dependsOn[d]} \cup (IF s = Safety THEN Guarded ELSE {})

\* Mutant: the services that require safety do not count as dependents.
ShutDownListConfigured ==
  {s \in toShutDown : {d \in Services : s \in dependsOn[d]} \cap toShutDown = {}}

\* One round: all services go on which no service that is left depends.
ShutDownList == {s \in toShutDown : DependedOnBy(s) \cap toShutDown = {}}

CheckRound ==
  /\ main = "check" /\ toShutDown # {} /\ ShutDownList # {}
  /\ toShutDown' = toShutDown \ ShutDownList
  /\ UNCHANGED <<dependsOn, mainvars, starter, monitor, state, refs, procs>>

\* "Circular dependencies detected."
Refuse ==
  /\ main = "check" /\ toShutDown # {} /\ ShutDownList = {}
  /\ main' = "refused"
  /\ UNCHANGED <<config, startupLeft, shutdownRequested, shutdownState, starter,
                 monitor, state, refs, procs>>

\* The configuration is accepted, and run() starts the server and the monitor.
Accept ==
  /\ main = "check" /\ toShutDown = {}
  /\ main' = "startup"
  /\ UNCHANGED <<config, startupLeft, shutdownRequested, shutdownState, starter,
                 monitor, state, refs, procs>>

Up == main \in {"startup", "serve", "shutdown", "joining"}

-----------------------------------------------------------------------------
(* start_service(s), called by thread t.  todo[t] holds the calls that are *)
(* pending: the one that runs, and the dependencies yet to be started.     *)

Target(t) == Head(todo[t])

StarterMoves(t, from, to) ==
  /\ spc[t] = from
  /\ spc' = [spc EXCEPT ![t] = to]

\* Starting more services, or returning to the caller when none is left.
Proceed(t, rest) ==
  /\ todo' = [todo EXCEPT ![t] = rest]
  /\ spc'  = [spc EXCEPT ![t] = IF rest = <<>> THEN "idle" ELSE "enter"]
  /\ mine' = [mine EXCEPT ![t] = 0]

\* Nothing is started once a shutdown was requested: the call raises.
ShutdownWasRequested(t) ==
  /\ spc[t] = "enter" /\ shutdownRequested
  /\ Proceed(t, <<>>)
  /\ UNCHANGED <<config, mainvars, monitor, state, refs, procs>>

\* A service whose state says it is alive "was already started".
AlreadyStarted(t) ==
  /\ spc[t] = "enter" /\ ~shutdownRequested /\ state[Target(t)] \notin Dead
  /\ Proceed(t, Tail(todo[t]))
  /\ UNCHANGED <<config, mainvars, monitor, state, refs, procs>>

NotStarted(t) ==
  /\ spc[t] = "enter" /\ ~shutdownRequested /\ state[Target(t)] \in Dead
  /\ StarterMoves(t, "enter", "launch")
  /\ UNCHANGED <<config, mainvars, todo, mine, monitor, state, refs, procs>>

\* Popen.
LaunchProcess(t) ==
  /\ StarterMoves(t, "launch", "mark")
  /\ LET s == Target(t)
         k == launches[s] + 1
     IN
     /\ k <= MaxLaunches
     /\ mine' = [mine EXCEPT ![t] = k]
     /\ launches' = [launches EXCEPT ![s] = k]
     /\ phase' = [phase EXCEPT ![s][k] = "starting"]
  /\ UNCHANGED <<config, mainvars, todo, monitor, state, refs, ending>>

\* No executable was found, or it could not be started: the call raises.
LaunchFails(t) ==
  /\ spc[t] = "launch"
  /\ Proceed(t, <<>>)
  /\ UNCHANGED <<config, mainvars, monitor, state, refs, procs>>

MarkInitializing(t) ==
  /\ StarterMoves(t, "mark", "record")
  /\ state' = [state EXCEPT ![Target(t)] = "INITIALIZING"]
  /\ UNCHANGED <<config, mainvars, todo, mine, monitor, refs, procs>>

\* The process id and the port are stored, then the dependencies are started.
RecordProcess(t) ==
  /\ spc[t] = "record"
  /\ processId' = [processId EXCEPT ![Target(t)] = mine[t]]
  /\ port' = [port EXCEPT ![Target(t)] = mine[t]]
  /\ Proceed(t, SetToSeq(dependsOn[Target(t)]) \o Tail(todo[t]))
  /\ UNCHANGED <<config, mainvars, monitor, state, procs>>

StartService(t) ==
  \/ ShutdownWasRequested(t) \/ AlreadyStarted(t) \/ NotStarted(t)
  \/ LaunchProcess(t) \/ LaunchFails(t) \/ MarkInitializing(t) \/ RecordProcess(t)

CallStart(t, s) ==
  /\ spc[t] = "idle"
  /\ spc'  = [spc EXCEPT ![t] = "enter"]
  /\ todo' = [todo EXCEPT ![t] = <<s>>]
  /\ UNCHANGED mine

-----------------------------------------------------------------------------
(* What the testbed does to one service: ServiceReference.                 *)

\* The server of a service answers between its start and its stop, in Run().
Answers(s, k) == k # NoProcess /\ phase[s][k] = "running"

\* stop() does nothing unless the state is RUNNING, and raises when the service,
\* at the port that was stored last, does not answer.
StopRaises(s) == state[s] = "RUNNING" /\ ~Answers(s, port[s])
StopService(s) ==
  IF state[s] = "RUNNING" /\ Answers(s, port[s]) /\ ending[s][port[s]] = "no"
    THEN ending' = [ending EXCEPT ![s][port[s]] = "told"]
    ELSE UNCHANGED ending

\* terminate() kills the process whose id is stored.
TerminateService(s) ==
  IF Running(s, processId[s])
    THEN phase' = [phase EXCEPT ![s][processId[s]] = "zombie"]
    ELSE UNCHANGED phase

-----------------------------------------------------------------------------
(* The server thread: requests of clients, one at a time.                  *)

Serving == Up /\ spc["server"] = "idle"

RequestStart(s) ==
  /\ Serving /\ <<"start", s>> \in Requests
  /\ CallStart("server", s)
  /\ UNCHANGED <<config, mainvars, monitor, state, refs, procs>>

RequestStop(s) ==
  /\ Serving /\ <<"stop", s>> \in Requests
  /\ StopService(s)
  /\ UNCHANGED <<config, mainvars, starter, monitor, state, refs, launches, phase>>

RequestTerminate(s) ==
  /\ Serving /\ <<"terminate", s>> \in Requests
  /\ TerminateService(s)
  /\ UNCHANGED <<config, mainvars, starter, monitor, state, refs, launches, ending>>

RequestShutDown ==
  /\ Serving
  /\ shutdownRequested' = TRUE
  /\ UNCHANGED <<config, main, startupLeft, shutdownState, starter, monitor, state,
                 refs, procs>>

-----------------------------------------------------------------------------
(* The main thread: run() and shut_down_all_services().                    *)

StartupNext ==
  /\ main = "startup" /\ startupLeft # <<>>
  /\ CallStart("main", Head(startupLeft))
  /\ startupLeft' = Tail(startupLeft)
  /\ UNCHANGED <<config, main, shutdownRequested, shutdownState, monitor, state,
                 refs, procs>>

StartupDone ==
  /\ main = "startup" /\ startupLeft = <<>> /\ spc["main"] = "idle"
  /\ main' = "serve"
  /\ UNCHANGED <<config, startupLeft, shutdownRequested, shutdownState, starter,
                 monitor, state, refs, procs>>

BeginShutdown ==
  /\ main = "serve" /\ shutdownRequested
  /\ main' = "shutdown"
  /\ UNCHANGED <<config, startupLeft, shutdownRequested, shutdownState, starter,
                 monitor, state, refs, procs>>

\* Ctrl+C at the testbed, between two calls of start_service.
KeyboardInterrupt ==
  /\ main \in {"startup", "serve"} /\ spc["main"] = "idle"
  /\ main' = "shutdown" /\ shutdownRequested' = TRUE
  /\ UNCHANGED <<config, startupLeft, shutdownState, starter, monitor, state, refs,
                 procs>>

\* Mutant: dependents that were told to stop count as gone.
DependentsTold(s) == \A d \in DependedOnBy(s) : shutdownState[d] # "alive"

\* Nobody depends on s any more, as far as the shutdown has seen.
DependentsGone(s) == \A d \in DependedOnBy(s) : shutdownState[d] = "gone"

\* The process property finds no process, and forgets the id of one that is gone.
NoProcessFound(s) == ~Exists(s, processId[s])
Forget(s) == processId' = [processId EXCEPT ![s] = NoProcess]

SeeGone(s) ==
  /\ main = "shutdown" /\ shutdownState[s] # "gone" /\ NoProcessFound(s)
  /\ Forget(s)
  /\ shutdownState' = [shutdownState EXCEPT ![s] = "gone"]
  /\ UNCHANGED <<config, main, startupLeft, shutdownRequested, starter, monitor,
                 state, port, procs>>

ShuttingDown(s, from, to) ==
  /\ main = "shutdown" /\ shutdownState[s] = from
  /\ ~NoProcessFound(s) /\ DependentsGone(s)
  /\ shutdownState' = [shutdownState EXCEPT ![s] = to]

\* Sixty seconds: a start_service that is under way does not take as long.
LeniencyPassed == spc["server"] \notin {"launch", "mark", "record"}

SendStop(s) ==
  /\ ~StopRaises(s)
  /\ ShuttingDown(s, "alive", "stopped")
  /\ StopService(s)
  /\ UNCHANGED <<config, main, startupLeft, shutdownRequested, starter, monitor,
                 state, refs, launches, phase>>

\* The exception leaves shut_down_all_services: the others are not shut down.
AbortShutdown(s) ==
  /\ StopRaises(s)
  /\ ShuttingDown(s, "alive", "alive")
  /\ main' = "joining"
  /\ UNCHANGED <<config, startupLeft, shutdownRequested, starter, monitor, state,
                 refs, procs>>

\* interrupt() reaches services on Windows only: here it does nothing.
SendInterrupt(s) ==
  /\ LeniencyPassed
  /\ ShuttingDown(s, "stopped", "interrupted")
  /\ UNCHANGED <<config, main, startupLeft, shutdownRequested, starter, monitor,
                 state, refs, procs>>

SendTerminate(s) ==
  /\ LeniencyPassed
  /\ ShuttingDown(s, "interrupted", "terminated")
  /\ TerminateService(s)
  /\ UNCHANGED <<config, main, startupLeft, shutdownRequested, starter, monitor,
                 state, refs, launches, ending>>

ShutDownService(s) ==
  SeeGone(s) \/ SendStop(s) \/ AbortShutdown(s) \/ SendInterrupt(s) \/ SendTerminate(s)

\* shutdown_flag is set, for the heartbeat and the monitor thread.
AllShutDown ==
  /\ main = "shutdown" /\ \A s \in Services : shutdownState[s] = "gone"
  /\ main' = "joining"
  /\ UNCHANGED <<config, startupLeft, shutdownRequested, shutdownState, starter,
                 monitor, state, refs, procs>>

\* The threads are joined, a zero heartbeat is sent and the server is told to stop.
StopServer ==
  /\ main = "joining" /\ mpc = "done"
  /\ main' = "closing"
  /\ UNCHANGED <<config, startupLeft, shutdownRequested, shutdownState, starter,
                 monitor, state, refs, procs>>

\* Mutant: the server thread is not waited for.
StopAtOnce ==
  /\ main = "closing"
  /\ main' = "stopped"
  /\ UNCHANGED <<config, startupLeft, shutdownRequested, shutdownState, starter,
                 monitor, state, refs, procs>>

\* The server thread has finished the request it was handling, and is joined.
Stop ==
  /\ main = "closing" /\ spc["server"] = "idle"
  /\ main' = "stopped"
  /\ UNCHANGED <<config, startupLeft, shutdownRequested, shutdownState, starter,
                 monitor, state, refs, procs>>

MainStep ==
  \/ CheckRound \/ Refuse \/ Accept \/ StartupNext \/ StartupDone
  \/ BeginShutdown \/ AllShutDown \/ StopServer \/ Stop

-----------------------------------------------------------------------------
(* The monitor thread: monitor_services().                                 *)

Watched == Order[mi]

MonitorMoves(from, to) == mpc = from /\ mpc' = to /\ UNCHANGED mi

\* The loop over the services goes on, or the next iteration begins.
NextService ==
  IF mi < Len(Order) THEN mpc' = "look" /\ mi' = mi + 1 ELSE mpc' = "reap" /\ mi' = 1

\* Processes are in launched_processes once start_service has recorded them.
Launched(s, k) ==
  \A t \in Starters : spc[t] \in {"mark", "record"} => <<Target(t), mine[t]>> # <<s, k>>

\* Mutant: processes that exited are not waited for.
ReapNothing ==
  /\ Up /\ main # "joining" /\ MonitorMoves("reap", "look")
  /\ UNCHANGED <<config, mainvars, starter, state, refs, procs>>

\* An iteration begins: processes that exited are waited for, and are gone.
Reap ==
  /\ Up /\ main # "joining" /\ MonitorMoves("reap", "look")
  /\ phase' = [s \in Services |-> [k \in Launch |->
       IF phase[s][k] = "zombie" /\ Launched(s, k) THEN "gone" ELSE phase[s][k]]]
  /\ UNCHANGED <<config, mainvars, starter, state, refs, launches, ending>>

EndMonitor ==
  /\ main = "joining" /\ MonitorMoves("reap", "done")
  /\ UNCHANGED <<config, mainvars, starter, state, refs, procs>>

\* Mutant: only running services can be found crashed.
CrashedRunning(s) == state[s] = "RUNNING" /\ NoProcessFound(s)

Crashed(s) == state[s] \notin Dead /\ NoProcessFound(s)

LookForProcess ==
  /\ MonitorMoves("look", IF Crashed(Watched) THEN "crashed" ELSE "heartbeat")
  /\ IF Crashed(Watched) THEN Forget(Watched) ELSE UNCHANGED processId
  /\ UNCHANGED <<config, mainvars, starter, state, port, procs>>

MarkCrashed ==
  /\ MonitorMoves("crashed", "heartbeat")
  /\ state' = [state EXCEPT ![Watched] = "CRASHED"]
  /\ UNCHANGED <<config, mainvars, starter, refs, procs>>

\* A heartbeat may be old or recent, whatever the state: services stall, and recover.
HeartbeatAsExpected ==
  /\ mpc = "heartbeat" /\ NextService
  /\ UNCHANGED <<config, mainvars, starter, state, refs, procs>>

HeartbeatOld ==
  /\ mpc = "heartbeat" /\ state[Watched] = "RUNNING" /\ Watched \in Stalling
  /\ MonitorMoves("heartbeat", "lost")
  /\ UNCHANGED <<config, mainvars, starter, state, refs, procs>>

HeartbeatAgain ==
  /\ mpc = "heartbeat" /\ state[Watched] = "UNRESPONSIVE"
  /\ MonitorMoves("heartbeat", "found")
  /\ UNCHANGED <<config, mainvars, starter, state, refs, procs>>

\* After this the state is looked at once more, for a heartbeat that came since.
MarkUnresponsive ==
  /\ MonitorMoves("lost", "heartbeat")
  /\ state' = [state EXCEPT ![Watched] = "UNRESPONSIVE"]
  /\ UNCHANGED <<config, mainvars, starter, refs, procs>>

MarkRecovered ==
  /\ mpc = "found" /\ NextService
  /\ state' = [state EXCEPT ![Watched] = "RUNNING"]
  /\ UNCHANGED <<config, mainvars, starter, refs, procs>>

MonitorStep ==
  \/ Reap \/ EndMonitor \/ LookForProcess \/ MarkCrashed \/ HeartbeatAsExpected
  \/ HeartbeatOld \/ HeartbeatAgain \/ MarkUnresponsive \/ MarkRecovered

-----------------------------------------------------------------------------
(* A service process: the constructor and Run() of Service.                *)

ProcessMoves(s, k, from, to) ==
  /\ phase[s][k] = from
  /\ phase' = [phase EXCEPT ![s][k] = to]

UpdateState(s, new) == state' = [state EXCEPT ![s] = new]

\* register_service, a request that the testbed's server handles.
Register(s, k) ==
  /\ Serving
  /\ ProcessMoves(s, k, "starting", "registered")
  /\ processId' = [processId EXCEPT ![s] = k]
  /\ port' = [port EXCEPT ![s] = k]
  /\ UNCHANGED <<config, mainvars, starter, monitor, state, launches, ending>>

Initialize(s, k) ==
  /\ ProcessMoves(s, k, "registered", "initializing")
  /\ UpdateState(s, "INITIALIZING")
  /\ UNCHANGED <<config, mainvars, starter, monitor, refs, launches, ending>>

\* The testbed is unsafe before the service is opened.
RefuseToOpen(s, k) ==
  /\ s \in Guarded
  /\ ProcessMoves(s, k, "initializing", "exiting")
  /\ UpdateState(s, "FAIL_SAFE")
  /\ UNCHANGED <<config, mainvars, starter, monitor, refs, launches, ending>>

BeginOpen(s, k) ==
  /\ ProcessMoves(s, k, "initializing", "opening")
  /\ UpdateState(s, "OPENING")
  /\ UNCHANGED <<config, mainvars, starter, monitor, refs, launches, ending>>

OpenThrows(s, k) ==
  /\ ProcessMoves(s, k, "opening", "exiting")
  /\ UpdateState(s, "CRASHED")
  /\ UNCHANGED <<config, mainvars, starter, monitor, refs, launches, ending>>

BeginMain(s, k) ==
  /\ ProcessMoves(s, k, "opening", "running")
  /\ UpdateState(s, "RUNNING")
  /\ UNCHANGED <<config, mainvars, starter, monitor, refs, launches, ending>>

\* The safety thread finds the testbed unsafe, or the heartbeat thread finds its
\* heartbeat too old; a service that does not override main() ends by itself.
ShutDownItself(s, k) ==
  /\ phase[s][k] = "running"
  /\ \/ s \in Guarded /\ ending' = [ending EXCEPT ![s][k] = "unsafe"]
     \/ ending[s][k] = "no" /\ ending' = [ending EXCEPT ![s][k] = "told"]
  /\ UNCHANGED <<config, mainvars, starter, monitor, state, refs, launches, phase>>

\* Main returns once it sees that it should shut down, and the server is stopped.
MainReturns(s, k) ==
  /\ ending[s][k] # "no"
  /\ ProcessMoves(s, k, "running", "stopping")
  /\ UNCHANGED <<config, mainvars, starter, monitor, state, refs, launches, ending>>

MainThrows(s, k) ==
  /\ ProcessMoves(s, k, "running", "stopping")
  /\ ending' = [ending EXCEPT ![s][k] = "crashed"]
  /\ UNCHANGED <<config, mainvars, starter, monitor, state, refs, launches>>

BeginClose(s, k) ==
  /\ ProcessMoves(s, k, "stopping", "closing")
  /\ UpdateState(s, "CLOSING")
  /\ UNCHANGED <<config, mainvars, starter, monitor, refs, launches, ending>>

FinalState(s, k) ==
  CASE ending[s][k] = "crashed" -> "CRASHED"
    [] ending[s][k] = "unsafe"  -> "FAIL_SAFE"
    [] OTHER                    -> "CLOSED"

EndClose(s, k) ==
  /\ ProcessMoves(s, k, "closing", "exiting")
  /\ UpdateState(s, FinalState(s, k))
  /\ ending' = [ending EXCEPT ![s][k] = "no"]
  /\ UNCHANGED <<config, mainvars, starter, monitor, refs, launches>>

\* The process exits by itself, or dies at any point; the monitor reaps it.
Exit(s, k) ==
  /\ Running(s, k)
  /\ phase' = [phase EXCEPT ![s][k] = "zombie"]
  /\ ending' = [ending EXCEPT ![s][k] = "no"]
  /\ UNCHANGED <<config, mainvars, starter, monitor, state, refs, launches>>

ProcessStep(s, k) ==
  \/ Register(s, k) \/ Initialize(s, k) \/ RefuseToOpen(s, k) \/ BeginOpen(s, k)
  \/ OpenThrows(s, k) \/ BeginMain(s, k) \/ ShutDownItself(s, k)
  \/ MainReturns(s, k) \/ MainThrows(s, k) \/ BeginClose(s, k) \/ EndClose(s, k)
  \/ Exit(s, k)

-----------------------------------------------------------------------------
Ended == main \in {"refused", "stopped"} /\ UNCHANGED vars

Next ==
  \/ MainStep \/ KeyboardInterrupt \/ RequestShutDown
  \/ \E s \in Services :
       RequestStart(s) \/ RequestStop(s) \/ RequestTerminate(s) \/ ShutDownService(s)
  \/ \E t \in Starters : StartService(t)
  \/ MonitorStep
  \/ \E s \in Services, k \in Launch : ProcessStep(s, k)
  \/ Ended

Spec == Init /\ [][Next]_vars

\* The testbed's threads keep running.  Services may hang wherever they are, and
\* nobody need ask the testbed for anything.
FairSpec ==
  /\ Spec
  /\ WF_vars(MainStep) /\ WF_vars(MonitorStep)
  /\ \A t \in Starters : WF_vars(StartService(t))
  /\ \A s \in Services : WF_vars(ShutDownService(s))

-----------------------------------------------------------------------------
(* Properties                                                              *)

\* Services that could not be shut down one after the other.
Deadlocked(C) == C # {} /\ \A s \in C : DependedOnBy(s) \cap C # {}

\* The check of the configuration accepts exactly the configurations for which
\* shut_down_all_services has an order.
ConfigCheckExact ==
  /\ main \notin {"check", "refused"} => \A C \in SUBSET Services : ~Deadlocked(C)
  /\ main = "refused"       => \E C \in SUBSET Services : Deadlocked(C)

\* "All dependents have been shut down": when the shutdown tells a service to stop,
\* or kills it, no process of a dependent is running.  That is so while only the
\* main thread starts services: a client's start_service that was under way when
\* the shutdown was requested may launch a dependent that was seen gone before.
DependentsFirst ==
  [][\A s \in Services :
       shutdownState'[s] \notin {shutdownState[s], "gone"}
         => \A d \in DependedOnBy(s), k \in Launch : ~Running(d, k)]_vars

\* A testbed that has stopped launches nothing.
StoppedLaunchesNothing == [][main = "stopped" => launches' = launches]_vars

\* A service whose process is gone is not shown alive for ever: the monitor
\* notices it, unless the service is launched again or the testbed stops.
CrashNoticed ==
  \A s \in Services :
    state[s] \notin Dead /\ ~HasProcess(s)
      ~> state[s] \in Dead \/ HasProcess(s) \/ main \in {"joining", "closing", "stopped"}

\* However its services hang, crash or are slow, a testbed that shuts down stops.
ShutdownCompletes == main = "shutdown" ~> main = "stopped"

-----------------------------------------------------------------------------
(* What a comment says and the code does not do.                           *)

\* "The process is not running anymore, but its state indicates it's alive: it has
\* crashed": the monitor marks a service crashed only when it has no process.  It
\* also marks one that start_service has launched and whose process id it has yet to store.
CrashedIsDead == mpc = "crashed" => ~HasProcess(Watched)
==============================================================================
