------------------------------- MODULE MainLoop -------------------------------
(***************************************************************************)
(* The life of the process (Main.cpp): start-up, the housekeeping loop,    *)
(* the ways to stop it (signals, the scheduled exit, the Windows service   *)
(* control) and the shutdown, together with the threads it starts and      *)
(* waits for: the network workers (AuthServer::Start and Stop), whose      *)
(* handlers queue statements, and the database's delay thread, which       *)
(* executes them.  A supervisor may start the process again.               *)
(*                                                                         *)
(* Time is counted in minutes of the local clock.  The schedule's library  *)
(* functions (MarkScheduledExitHandledIfMatching,                          *)
(* CheckAndMarkScheduledExit) and the database layer are external: a       *)
(* matching minute is reported once per ScheduledExitState, and a          *)
(* statement runs at once until async requests are allowed and is queued   *)
(* afterwards.                                                             *)
(***************************************************************************)
EXTENDS Integers

CONSTANTS
  Worker,        \* the network engine's threads
  Free, Main,    \* holders of socketsMutex that are no worker
  Scheduled,     \* the minutes that match ScheduledExit.DayOfWeek and Time
  NumLoops,      \* numLoops: turns of the loop between two pings
  MaxMinute,     \* bound: the clock stops here
  MaxRuns,       \* bound: how often the process is started
  MaxQueue       \* bound: statements waiting at a time

ASSUME MainAssumption ==
  /\ {Free, Main} \cap Worker = {} /\ Free # Main
  /\ Scheduled \subseteq Nat
  /\ NumLoops \in Nat \ {0}
  /\ MaxMinute \in Nat /\ MaxRuns \in Nat \ {0} /\ MaxQueue \in Nat

VARIABLES
  minute,
  mode,          \* ScheduledExit.Enable and Mode in the configuration
  main,          \* position of the main thread; "exited", "killed" at its end
  stopEvent, exitCode,
  result,        \* the exit status the supervisor sees
  handled,       \* s_scheduledExitState: the minute last marked, or -1
  hooked,        \* OnSignal is installed
  async,         \* AllowAsyncTransactions has been called
  loopCounter,
  serviceStatus, \* m_ServiceStatus
  worker,        \* what each network thread does
  stopping,      \* net::Server::stop has been called
  mutex,         \* holder of socketsMutex
  delay,         \* the delay thread
  delayQueue,    \* how many statements wait for it
  runs,          \* history: starts of the process
  failed,        \* history: this start gave up
  fired,         \* history: a scheduled exit fired in this run
  firedAt        \* history: how often one fired in each minute

scheduleVars == <<handled, fired, firedAt>>
netVars == <<worker, stopping, mutex>>
dbVars == <<async, delay, delayQueue>>
stopVars == <<stopEvent, exitCode>>
endVars == <<result, failed>>
worldVars == <<minute, mode, runs, serviceStatus>>
vars == <<main, scheduleVars, netVars, dbVars, stopVars, endVars, worldVars,
          hooked, loopCounter>>

REALMD_SHUTDOWN_EXIT_CODE == 0
REALMD_RESTART_EXIT_CODE == 2

Position ==
  {"command", "schedule", "database", "realms", "cleanup", "listen", "hook",
   "async", "loop", "update", "ping", "check", "service", "paused", "stop",
   "join", "clear", "halt", "return", "exited", "killed"}

TypeOK ==
  /\ minute \in 0 .. MaxMinute
  /\ mode \in {"disabled", "restart", "shutdown"}
  /\ main \in Position
  /\ stopEvent \in BOOLEAN
  /\ exitCode \in 0 .. 255
  /\ result \in 0 .. 255
  /\ handled \in -1 .. MaxMinute
  /\ hooked \in BOOLEAN
  /\ async \in BOOLEAN
  /\ loopCounter \in 0 .. NumLoops - 1
  /\ serviceStatus \in -1 .. 2
  /\ worker \in [Worker -> {"idle", "accept", "handler", "joined"}]
  /\ stopping \in BOOLEAN
  /\ mutex \in Worker \cup {Free, Main}
  /\ delay \in {"none", "running", "halting", "ended"}
  /\ delayQueue \in 0 .. MaxQueue
  /\ runs \in 1 .. MaxRuns
  /\ failed \in BOOLEAN
  /\ fired \in BOOLEAN
  /\ firedAt \in [0 .. MaxMinute -> Nat]

\* The process as it is started; status -1 is "not in service mode".
Init ==
  /\ main = "command" /\ hooked = FALSE /\ loopCounter = 0
  /\ stopEvent = FALSE /\ exitCode = REALMD_SHUTDOWN_EXIT_CODE
  /\ worker = [w \in Worker |-> "idle"] /\ stopping = FALSE /\ mutex = Free
  /\ async = FALSE /\ delay = "none" /\ delayQueue = 0
  /\ result = 0 /\ failed = FALSE
  /\ handled = -1 /\ fired = FALSE
  /\ firedAt = [m \in 0 .. MaxMinute |-> 0]
  /\ serviceStatus \in {-1, 1}
  /\ mode \in {"disabled", "restart", "shutdown"}
  /\ minute = 0 /\ runs = 1

-----------------------------------------------------------------------------
(* Start-up.                                                               *)

\* The main thread goes from one statement to another.
Step(from, to) == main = from /\ main' = to

\* main returns.
Exit(from, code) == Step(from, "exited") /\ result' = code

\* A step of the start-up fails: main returns 1.
GiveUp(from) == Exit(from, 1) /\ failed' = TRUE

\* A step of the start-up that may fail and changes nothing else here.
Attempt(from, to) ==
  \/ Step(from, to) /\ UNCHANGED endVars
  \/ GiveUp(from)

\* The command line and the configuration file; --version and "-s stop" end
\* the process here.
CommandLine ==
  /\ \/ Attempt("command", "schedule")
     \/ Exit("command", 0) /\ UNCHANGED failed
  /\ UNCHANGED <<scheduleVars, netVars, dbVars, stopVars, worldVars, hooked,
                 loopCounter>>

\* Mutation of SuppressedAtStart: the minute of the start is not marked.
SuppressedNever == FALSE

\* MarkScheduledExitHandledIfMatching at start-up.
SuppressedAtStart == mode # "disabled" /\ minute \in Scheduled

\* LoadScheduledExitConfig, and the PID file.
LoadScheduledExitConfig ==
  /\ Attempt("schedule", "database")
  /\ handled' = IF SuppressedAtStart THEN minute ELSE -1
  /\ UNCHANGED <<fired, firedAt, netVars, dbVars, stopVars, worldVars, hooked,
                 loopCounter>>

\* StartDB: a database of the wrong version has its delay thread halted.
StartDB ==
  /\ \/ Step("database", "realms") /\ delay' = "running" /\ UNCHANGED endVars
     \/ GiveUp("database") /\ delay' \in {"none", "ended"}
  /\ UNCHANGED <<scheduleVars, netVars, async, delayQueue, stopVars, worldVars,
                 hooked, loopCounter>>

\* The realm list must not be empty.
InitializeRealms ==
  /\ Attempt("realms", "cleanup")
  /\ UNCHANGED <<scheduleVars, netVars, dbVars, stopVars, worldVars, hooked,
                 loopCounter>>

\* Database::Execute and PExecute.
Execute ==
  /\ delayQueue < MaxQueue
  /\ delayQueue' = IF async THEN delayQueue + 1 ELSE delayQueue

\* Expired bans are dropped, in one transaction.
CleanupBans ==
  /\ Step("cleanup", "listen")
  /\ Execute
  /\ UNCHANGED <<scheduleVars, netVars, async, delay, stopVars, endVars,
                 worldVars, hooked, loopCounter>>

\* The patch policy is parsed and AuthServer::Start binds the port.
Listen ==
  /\ Attempt("listen", "hook")
  /\ UNCHANGED <<scheduleVars, netVars, dbVars, stopVars, worldVars, hooked,
                 loopCounter>>

HookSignals ==
  /\ Step("hook", "async")
  /\ hooked' = TRUE
  /\ UNCHANGED <<scheduleVars, netVars, dbVars, stopVars, endVars, worldVars,
                 loopCounter>>

AllowAsyncTransactions ==
  /\ Step("async", "loop")
  /\ async' = TRUE
  /\ UNCHANGED <<scheduleVars, netVars, delay, delayQueue, stopVars, endVars,
                 worldVars, hooked, loopCounter>>

-----------------------------------------------------------------------------
(* The housekeeping loop.                                                  *)

\* while (!stopEvent), and the sleep; AuthServer::Update takes the mutex.
LoopTop ==
  /\ \/ stopEvent /\ Step("loop", "stop") /\ UNCHANGED mutex
     \/ ~stopEvent /\ Step("loop", "update") /\ mutex = Free /\ mutex' = Main
  /\ UNCHANGED <<scheduleVars, worker, stopping, dbVars, stopVars, endVars,
                 worldVars, hooked, loopCounter>>

\* Update releases the mutex and expires sessions (module AuthServer).
Update ==
  /\ Step("update", "ping")
  /\ mutex' = Free
  /\ UNCHANGED <<scheduleVars, worker, stopping, dbVars, stopVars, endVars,
                 worldVars, hooked, loopCounter>>

\* Mutation of PingDue: the counter may reach numLoops.
PingDueLate == loopCounter + 1 > NumLoops

PingDue == loopCounter + 1 = NumLoops

\* The keep-alive ping.
Ping ==
  /\ Step("ping", "check")
  /\ loopCounter' = IF PingDue THEN 0 ELSE loopCounter + 1
  /\ UNCHANGED <<scheduleVars, netVars, dbVars, stopVars, endVars, worldVars,
                 hooked>>

\* CheckAndMarkScheduledExit: this minute matches and is not marked.
Match == minute \in Scheduled /\ handled # minute

\* Mutation of ExitCodeOf: every scheduled exit is a restart.
ExitCodeRestart == REALMD_RESTART_EXIT_CODE

ExitCodeOf == IF mode = "restart" THEN REALMD_RESTART_EXIT_CODE
                                  ELSE REALMD_SHUTDOWN_EXIT_CODE

\* CheckScheduledExit tests stopEvent, which a signal may set while the rest
\* runs.
CheckScheduledExit ==
  /\ Step("check", "service")
  /\ \/ /\ mode # "disabled" /\ ~stopEvent /\ Match
        /\ handled' = minute
        /\ fired' = TRUE
        /\ firedAt' = [firedAt EXCEPT ![minute] = @ + 1]
        /\ exitCode' = ExitCodeOf
        /\ stopEvent' = TRUE
     \/ /\ mode = "disabled" \/ stopEvent \/ ~Match
        /\ UNCHANGED <<scheduleVars, stopVars>>
  /\ UNCHANGED <<netVars, dbVars, endVars, worldVars, hooked, loopCounter>>

\* Mutation of ServiceControl: a stopped service goes on.
ServiceControlPauses ==
  /\ Step("service", IF serviceStatus = 2 THEN "paused" ELSE "loop")
  /\ UNCHANGED <<scheduleVars, netVars, dbVars, stopVars, endVars, worldVars,
                 hooked, loopCounter>>

\* The service was stopped or paused.
ServiceControl ==
  /\ Step("service", IF serviceStatus = 2 THEN "paused" ELSE "loop")
  /\ stopEvent' = (stopEvent \/ serviceStatus = 0)
  /\ UNCHANGED <<scheduleVars, netVars, dbVars, exitCode, endVars, worldVars,
                 hooked, loopCounter>>

Paused ==
  /\ Step("paused", "loop")
  /\ serviceStatus # 2
  /\ UNCHANGED <<scheduleVars, netVars, dbVars, stopVars, endVars, worldVars,
                 hooked, loopCounter>>

-----------------------------------------------------------------------------
(* Shutdown.                                                               *)

\* Mutation of ServerStop: the mutex is held while the workers are joined.
ServerStopLocked ==
  /\ Step("stop", "join")
  /\ mutex = Free
  /\ mutex' = Main
  /\ stopping' = TRUE
  /\ UNCHANGED <<scheduleVars, worker, dbVars, stopVars, endVars, worldVars,
                 hooked, loopCounter>>

\* AuthServer::Stop: the engine begins no further callbacks ...
ServerStop ==
  /\ Step("stop", "join")
  /\ stopping' = TRUE
  /\ UNCHANGED <<scheduleVars, worker, mutex, dbVars, stopVars, endVars,
                 worldVars, hooked, loopCounter>>

\* Mutation of AllReturned: the workers are not waited for.
NobodyWaitedFor == TRUE

AllReturned == \A w \in Worker : worker[w] = "idle"

\* ... and joins its workers when theirs have returned;
JoinWorkers ==
  /\ Step("join", "clear")
  /\ AllReturned
  /\ worker' = [w \in Worker |-> IF worker[w] = "idle" THEN "joined"
                                                       ELSE worker[w]]
  /\ UNCHANGED <<scheduleVars, stopping, mutex, dbVars, stopVars, endVars,
                 worldVars, hooked, loopCounter>>

\* the registry is cleared under the mutex, and the delay thread is told to
\* end.
ClearAndHalt ==
  /\ Step("clear", "halt")
  /\ mutex = Free
  /\ delay' = "halting"
  /\ UNCHANGED <<scheduleVars, netVars, async, delayQueue, stopVars, endVars,
                 worldVars, hooked, loopCounter>>

\* HaltDelayThread returns when the thread has ended; signals are unhooked.
UnhookSignals ==
  /\ Step("halt", "return")
  /\ delay = "ended"
  /\ hooked' = FALSE
  /\ UNCHANGED <<scheduleVars, netVars, dbVars, stopVars, endVars, worldVars,
                 loopCounter>>

Return ==
  /\ Exit("return", exitCode)
  /\ UNCHANGED <<scheduleVars, netVars, dbVars, stopVars, failed, worldVars,
                 hooked, loopCounter>>

StartUp ==
  \/ CommandLine \/ LoadScheduledExitConfig \/ StartDB \/ InitializeRealms
  \/ CleanupBans \/ Listen \/ HookSignals \/ AllowAsyncTransactions

Loop ==
  \/ LoopTop \/ Update \/ Ping \/ CheckScheduledExit \/ ServiceControl
  \/ Paused

ShutDown ==
  ServerStop \/ JoinWorkers \/ ClearAndHalt \/ UnhookSignals \/ Return

MainThread == StartUp \/ Loop \/ ShutDown

-----------------------------------------------------------------------------
(* The other threads and the outside.                                      *)

Ended == main \in {"exited", "killed"}
Listening == main \in Position \ {"command", "schedule", "database", "realms",
                                  "cleanup", "listen", "exited", "killed"}

\* A worker gets a connection to accept or input to handle.
WorkerBegin(w) ==
  /\ Listening /\ ~stopping
  /\ worker[w] = "idle"
  /\ \E task \in {"accept", "handler"} : worker' = [worker EXCEPT ![w] = task]
  /\ UNCHANGED <<main, scheduleVars, stopping, mutex, dbVars, stopVars,
                 endVars, worldVars, hooked, loopCounter>>

\* The session factory registers the session under the mutex; a handler
\* queues a statement, or none.
WorkerEnd(w) ==
  /\ ~Ended
  /\ \/ worker[w] = "accept" /\ mutex = Free /\ UNCHANGED delayQueue
     \/ worker[w] = "handler" /\ (Execute \/ UNCHANGED delayQueue)
  /\ worker' = [worker EXCEPT ![w] = "idle"]
  /\ UNCHANGED <<main, scheduleVars, stopping, mutex, async, delay, stopVars,
                 endVars, worldVars, hooked, loopCounter>>

\* The delay thread executes a statement, and ends once it was told to and
\* the queue is empty.
DelayThread ==
  /\ ~Ended
  /\ \/ /\ delay \in {"running", "halting"} /\ delayQueue > 0
        /\ delayQueue' = delayQueue - 1
        /\ UNCHANGED delay
     \/ /\ delay = "halting" /\ delayQueue = 0
        /\ delay' = "ended"
        /\ UNCHANGED delayQueue
  /\ UNCHANGED <<main, scheduleVars, netVars, async, stopVars, endVars,
                 worldVars, hooked, loopCounter>>

\* SIGINT or SIGTERM: OnSignal where it is installed, otherwise the end.
Signal ==
  /\ ~Ended
  /\ \/ hooked /\ stopEvent' = TRUE /\ UNCHANGED main
     \/ ~hooked /\ main' = "killed" /\ UNCHANGED stopEvent
  /\ UNCHANGED <<scheduleVars, netVars, dbVars, exitCode, endVars, worldVars,
                 hooked, loopCounter>>

\* The Windows service control; a stopped service is not started again.
ServiceCommand ==
  /\ ~Ended
  /\ \/ serviceStatus \in {1, 2} /\ serviceStatus' = 0
     \/ serviceStatus = 1 /\ serviceStatus' = 2
     \/ serviceStatus = 2 /\ serviceStatus' = 1
  /\ UNCHANGED <<main, scheduleVars, netVars, dbVars, stopVars, endVars,
                 minute, mode, runs, hooked, loopCounter>>

Tick ==
  /\ minute < MaxMinute
  /\ minute' = minute + 1
  /\ UNCHANGED <<main, scheduleVars, netVars, dbVars, stopVars, endVars, mode,
                 runs, serviceStatus, hooked, loopCounter>>

\* A supervisor starts the process again.
Restart ==
  /\ Ended
  /\ runs < MaxRuns
  /\ runs' = runs + 1
  /\ main' = "command" /\ hooked' = FALSE /\ loopCounter' = 0
  /\ stopEvent' = FALSE /\ exitCode' = REALMD_SHUTDOWN_EXIT_CODE
  /\ worker' = [w \in Worker |-> "idle"] /\ stopping' = FALSE /\ mutex' = Free
  /\ async' = FALSE /\ delay' = "none" /\ delayQueue' = 0
  /\ result' = 0 /\ failed' = FALSE
  /\ handled' = -1 /\ fired' = FALSE
  /\ serviceStatus' \in {-1, 1}
  /\ UNCHANGED <<minute, mode, firedAt>>

Environment == Signal \/ ServiceCommand \/ Tick \/ Restart

Next ==
  \/ MainThread
  \/ \E w \in Worker : WorkerBegin(w) \/ WorkerEnd(w)
  \/ DelayThread
  \/ Environment

Spec == Init /\ [][Next]_vars

\* Fairness: the threads run, and a callback that has begun returns once it
\* can have the mutex.
FairSpec ==
  /\ Spec
  /\ WF_vars(MainThread)
  /\ WF_vars(DelayThread)
  /\ \A w \in Worker : WF_vars(WorkerEnd(w))

-----------------------------------------------------------------------------
(* Properties.                                                             *)

\* No queued statement is lost, whatever ends the process: handlers queue
\* only once signals are caught (Main.cpp 509 before 563), the workers are
\* joined before the delay thread is halted (615 before 618), and signals
\* kill again only after that (621).
NoStatementLost == Ended => delayQueue = 0

\* A scheduled restart does not loop: an exit fires once in a matching
\* minute, however often a supervisor restarts the process in it (Main.cpp
\* 167-172).
NoRestartLoop == \A m \in 0 .. MaxMinute : firedAt[m] <= 1

\* The supervisor sees why the process ended: 1 for a start that gave up,
\* the restart code only when a scheduled restart fired, also when a signal
\* or the service control set stopEvent around it (Main.cpp 179-197).
ExitCodeIsCause ==
  main = "exited" =>
    /\ failed <=> result = 1
    /\ fired /\ mode = "restart" <=> result = REALMD_RESTART_EXIT_CODE

\* The threads the main thread stands still for: those whose callback it joins,
\* and the holder of the mutex it is about to take.
MainWaitsFor ==
  {w \in Worker : main = "join" /\ worker[w] # "idle"}
    \cup {t \in {mutex} \ {Free} : main \in {"loop", "clear"}}

\* A worker that accepts a connection stands still for the mutex's holder.
WorkerWaitsFor(w) == {t \in {mutex} \ {Free} : worker[w] = "accept"}

\* No thread waits for one that waits for it: AuthServer::Stop joins the
\* workers before it takes the mutex that their session factory needs
\* (AuthServer.cpp 118-119), nobody takes it twice, and the delay thread that
\* HaltDelayThread waits for has been told to end (Main.cpp 618).
NoCircularWait ==
  /\ Main \notin MainWaitsFor
  /\ \A w \in Worker \cap MainWaitsFor : Main \notin WorkerWaitsFor(w)
  /\ main = "halt" => delay \in {"halting", "ended"}

\* A stop that was asked for is carried out, unless the service stays paused:
\* no thread waits for one that waits for it (AuthServer.cpp 114-122,
\* Main.cpp 575-618).
StopIsHonoured ==
  <>[](serviceStatus # 2) => (stopEvent \/ serviceStatus = 0 ~> Ended)
=============================================================================
