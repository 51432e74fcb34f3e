--------------------------- MODULE MainLoopProofs ---------------------------
(***************************************************************************)
(* The life of the process, for any number of network threads, starts,     *)
(* queued statements and scheduled minutes: no queued statement is lost,   *)
(* no restart loops, the exit status tells the cause, no two threads wait  *)
(* for each other, and every variable keeps its type.                      *)
(***************************************************************************)
EXTENDS MainLoop, TLAPS

\* Where statements are queued and signals are caught.
Running ==
  {"loop", "update", "ping", "check", "service", "paused", "stop", "join",
   "clear", "halt"}

\* Statements.  They are queued only while signals are caught, and not once
\* the workers are joined; a delay thread that has ended left none.
Statements ==
  /\ main \in Position
  /\ delayQueue \in Nat
  /\ async \in BOOLEAN /\ hooked \in BOOLEAN
  /\ ~Ended => (async <=> main \in Running \cup {"return"})
  /\ hooked <=> main \in Running \cup {"async"}
  /\ ~async => delayQueue = 0
  /\ main \in {"clear", "halt", "return"} =>
       \A w \in Worker : worker[w] = "joined"
  /\ main = "halt" => delay \in {"halting", "ended"}
  /\ delay = "halting" => main = "halt"
  /\ main = "return" => delay = "ended"
  /\ delay = "ended" =>
       delayQueue = 0 /\ main \in {"halt", "return", "exited", "killed"}
  /\ NoStatementLost

\* Scheduled exits.  One fired only in a minute that matches; while the
\* process runs, past its start-up, the minute it fired in is marked.
Schedule ==
  /\ main \in Position
  /\ minute \in Nat
  /\ firedAt \in [0 .. MaxMinute -> Nat]
  /\ minute <= MaxMinute
  /\ \A m \in 0 .. MaxMinute : firedAt[m] > 0 =>
       /\ m <= minute /\ m \in Scheduled /\ mode # "disabled"
       /\ m = minute /\ main \notin {"command", "schedule", "exited", "killed"}
            => handled = minute
  /\ NoRestartLoop

\* Exit codes.
Cause ==
  /\ main \in Position
  /\ fired \in BOOLEAN /\ failed \in BOOLEAN
  /\ exitCode = IF fired /\ mode = "restart" THEN 2 ELSE 0
  /\ fired => main \in Running \cup {"return", "exited", "killed"}
  /\ failed => main = "exited"
  /\ ExitCodeIsCause

IInv == Statements /\ Schedule /\ Cause

-----------------------------------------------------------------------------

\* A process that has just been started for the first time.
LEMMA InitIInv ==
  Init => IInv
<1> SUFFICES ASSUME Init PROVE IInv
  OBVIOUS
<1>1. Statements
  BY DEF Init, Statements, NoStatementLost, Ended, Running, Position
<1>2. Schedule
  BY MainAssumption DEF Init, Schedule, NoRestartLoop, Position
<1>3. Cause
  BY DEF Init, Cause, ExitCodeIsCause, Position, REALMD_SHUTDOWN_EXIT_CODE
<1> QED  BY <1>1, <1>2, <1>3 DEF IInv

\* Every step keeps what is known of queued statements.
LEMMA StatementsStep ==
  Statements /\ [Next]_vars => Statements'
<1> SUFFICES ASSUME Statements, [Next]_vars PROVE Statements'
  OBVIOUS
<1> USE DEF Statements, NoStatementLost, Ended, Running, Position, Step, Exit,
    Attempt, GiveUp, netVars, dbVars, endVars
<1>1. ASSUME StartUp
      PROVE  Statements'
  <2>1. CASE CommandLine
    BY <2>1 DEF CommandLine
  <2>2. CASE LoadScheduledExitConfig
    BY <2>2 DEF LoadScheduledExitConfig
  <2>3. CASE StartDB
    BY <2>3 DEF StartDB
  <2>4. CASE InitializeRealms
    BY <2>4 DEF InitializeRealms
  <2>5. CASE CleanupBans
    BY <2>5 DEF CleanupBans, Execute
  <2>6. CASE Listen
    BY <2>6 DEF Listen
  <2>7. CASE HookSignals
    BY <2>7 DEF HookSignals
  <2>8. CASE AllowAsyncTransactions
    BY <2>8 DEF AllowAsyncTransactions
  <2> QED
    BY <1>1, <2>1, <2>2, <2>3, <2>4, <2>5, <2>6, <2>7, <2>8, Zenon DEF StartUp
<1>2. ASSUME Loop
      PROVE  Statements'
  <2>1. CASE LoopTop
    BY <2>1 DEF LoopTop
  <2>2. CASE Update
    BY <2>2 DEF Update
  <2>3. CASE Ping
    BY <2>3 DEF Ping
  <2>4. CASE CheckScheduledExit
    BY <2>4 DEF CheckScheduledExit
  <2>5. CASE ServiceControl
    BY <2>5 DEF ServiceControl
  <2>6. CASE Paused
    BY <2>6 DEF Paused
  <2> QED
    BY <1>2, <2>1, <2>2, <2>3, <2>4, <2>5, <2>6, Zenon DEF Loop
<1>3. ASSUME ShutDown
      PROVE  Statements'
  <2>1. CASE ServerStop
    BY <2>1 DEF ServerStop
  <2>2. CASE JoinWorkers
    BY <2>2 DEF JoinWorkers, AllReturned
  <2>3. CASE ClearAndHalt
    BY <2>3 DEF ClearAndHalt
  <2>4. CASE UnhookSignals
    BY <2>4 DEF UnhookSignals
  <2>5. CASE Return
    BY <2>5 DEF Return
  <2> QED
    BY <1>3, <2>1, <2>2, <2>3, <2>4, <2>5, Zenon DEF ShutDown
<1>4. ASSUME NEW w \in Worker, WorkerBegin(w) \/ WorkerEnd(w)
      PROVE  Statements'
  <2>1. main \notin {"clear", "halt", "return"}
    BY <1>4 DEF WorkerBegin, WorkerEnd
  <2>2. CASE WorkerBegin(w)
    BY <2>1, <2>2 DEF WorkerBegin
  <2>3. CASE WorkerEnd(w)
    BY <2>1, <2>3 DEF WorkerEnd, Execute
  <2> QED  BY <1>4, <2>2, <2>3
<1>5. ASSUME DelayThread
      PROVE  Statements'
  BY <1>5 DEF DelayThread
<1>6. ASSUME Environment
      PROVE  Statements'
  <2>1. CASE Signal
    BY <2>1 DEF Signal
  <2>2. CASE ServiceCommand
    BY <2>2 DEF ServiceCommand
  <2>3. CASE Tick
    BY <2>3 DEF Tick
  <2>4. CASE Restart
    BY <2>4 DEF Restart
  <2> QED  BY <1>6, <2>1, <2>2, <2>3, <2>4, Zenon DEF Environment
<1>7. CASE UNCHANGED vars
  BY <1>7 DEF vars
<1> QED
  BY <1>1, <1>2, <1>3, <1>4, <1>5, <1>6, <1>7, Zenon DEF Next, MainThread

\* Every step keeps what is known of scheduled exits.
LEMMA ScheduleStep ==
  Schedule /\ [Next]_vars => Schedule'
<1> SUFFICES ASSUME Schedule, [Next]_vars PROVE Schedule'
  OBVIOUS
<1> USE MainAssumption
    DEF Schedule, NoRestartLoop, Position, Step, Exit, Attempt, GiveUp,
        scheduleVars, worldVars
<1>1. ASSUME StartUp
      PROVE  Schedule'
  <2>1. CASE CommandLine
    BY <2>1 DEF CommandLine
  <2>2. CASE LoadScheduledExitConfig
    BY <2>2 DEF LoadScheduledExitConfig, SuppressedAtStart
  <2>3. CASE StartDB
    BY <2>3 DEF StartDB
  <2>4. CASE InitializeRealms
    BY <2>4 DEF InitializeRealms
  <2>5. CASE CleanupBans
    BY <2>5 DEF CleanupBans
  <2>6. CASE Listen
    BY <2>6 DEF Listen
  <2>7. CASE HookSignals
    BY <2>7 DEF HookSignals
  <2>8. CASE AllowAsyncTransactions
    BY <2>8 DEF AllowAsyncTransactions
  <2> QED
    BY <1>1, <2>1, <2>2, <2>3, <2>4, <2>5, <2>6, <2>7, <2>8, Zenon DEF StartUp
<1>2. ASSUME Loop
      PROVE  Schedule'
  <2>1. CASE LoopTop
    BY <2>1 DEF LoopTop
  <2>2. CASE Update
    BY <2>2 DEF Update
  <2>3. CASE Ping
    BY <2>3 DEF Ping
  <2>4. CASE CheckScheduledExit
    <3>1. CASE UNCHANGED scheduleVars
      BY <2>4, <3>1 DEF CheckScheduledExit
    <3>2. CASE /\ mode # "disabled" /\ Match
               /\ handled' = minute
               /\ firedAt' = [firedAt EXCEPT ![minute] = @ + 1]
      <4>1. minute \in 0 .. MaxMinute /\ firedAt[minute] = 0
        BY <2>4, <3>2 DEF CheckScheduledExit, Match
      <4>2. /\ firedAt' \in [0 .. MaxMinute -> Nat]
            /\ firedAt'[minute] = 1
            /\ \A m \in 0 .. MaxMinute : m # minute => firedAt'[m] = firedAt[m]
        BY <3>2, <4>1
      <4> QED  BY <2>4, <3>2, <4>1, <4>2 DEF CheckScheduledExit, Match
    <3> QED  BY <2>4, <3>1, <3>2 DEF CheckScheduledExit
  <2>5. CASE ServiceControl
    BY <2>5 DEF ServiceControl
  <2>6. CASE Paused
    BY <2>6 DEF Paused
  <2> QED
    BY <1>2, <2>1, <2>2, <2>3, <2>4, <2>5, <2>6, Zenon DEF Loop
<1>3. ASSUME ShutDown
      PROVE  Schedule'
  BY <1>3
  DEF ShutDown, ServerStop, JoinWorkers, ClearAndHalt, UnhookSignals, Return
<1>4. ASSUME NEW w \in Worker, WorkerBegin(w) \/ WorkerEnd(w)
      PROVE  Schedule'
  BY <1>4 DEF WorkerBegin, WorkerEnd
<1>5. ASSUME DelayThread
      PROVE  Schedule'
  BY <1>5 DEF DelayThread
<1>6. ASSUME Environment
      PROVE  Schedule'
  <2>1. CASE Signal
    BY <2>1 DEF Signal
  <2>2. CASE ServiceCommand
    BY <2>2 DEF ServiceCommand
  <2>3. CASE Tick
    BY <2>3 DEF Tick
  <2>4. CASE Restart
    BY <2>4 DEF Restart
  <2> QED  BY <1>6, <2>1, <2>2, <2>3, <2>4, Zenon DEF Environment
<1>7. CASE UNCHANGED vars
  BY <1>7 DEF vars
<1> QED
  BY <1>1, <1>2, <1>3, <1>4, <1>5, <1>6, <1>7, Zenon DEF Next, MainThread

\* A step of the start-up that succeeds or gives up: no exit has fired, and
\* status 1 is the one of a start that gave up.
LEMMA AttemptCause ==
  ASSUME Cause,
         NEW from \in Position \ (Running \cup {"return", "exited", "killed"}),
         NEW to \in Position \ {"exited"},
         Attempt(from, to),
         UNCHANGED <<fired, exitCode, mode>>
  PROVE  Cause'
<1> USE DEF Cause, ExitCodeIsCause, Position, Running, Step, Exit
<1>1. ~fired /\ ~failed
  BY DEF Attempt, GiveUp
<1>2. CASE Step(from, to) /\ UNCHANGED endVars
  BY <1>1, <1>2 DEF endVars
<1>3. CASE GiveUp(from)
  BY <1>1, <1>3 DEF GiveUp, REALMD_RESTART_EXIT_CODE
<1> QED  BY <1>2, <1>3 DEF Attempt

\* Every step keeps exit code and cause together.
LEMMA CauseStep ==
  Cause /\ [Next]_vars => Cause'
<1> SUFFICES ASSUME Cause, [Next]_vars PROVE Cause'
  OBVIOUS
<1> USE DEF Cause, ExitCodeIsCause, Position, Running, Step, Exit, Attempt,
        GiveUp, scheduleVars, worldVars, stopVars, endVars,
        REALMD_SHUTDOWN_EXIT_CODE, REALMD_RESTART_EXIT_CODE
<1>1. ASSUME StartUp
      PROVE  Cause'
  <2>1. CASE CommandLine
    <3>1. CASE Attempt("command", "schedule")
      BY <2>1, <3>1, AttemptCause DEF CommandLine
    <3>2. CASE Exit("command", 0) /\ UNCHANGED failed
      <4>1. ~fired /\ ~failed
        BY <3>2
      <4> QED  BY <2>1, <3>2, <4>1 DEF CommandLine
    <3> QED  BY <2>1, <3>1, <3>2, Zenon DEF CommandLine
  <2>2. CASE LoadScheduledExitConfig
    BY <2>2, AttemptCause DEF LoadScheduledExitConfig
  <2>3. CASE StartDB
    BY <2>3, AttemptCause DEF StartDB
  <2>4. CASE InitializeRealms
    BY <2>4, AttemptCause DEF InitializeRealms
  <2>5. CASE CleanupBans
    BY <2>5 DEF CleanupBans
  <2>6. CASE Listen
    BY <2>6, AttemptCause DEF Listen
  <2>7. CASE HookSignals
    BY <2>7 DEF HookSignals
  <2>8. CASE AllowAsyncTransactions
    BY <2>8 DEF AllowAsyncTransactions
  <2> QED
    BY <1>1, <2>1, <2>2, <2>3, <2>4, <2>5, <2>6, <2>7, <2>8, Zenon DEF StartUp
<1>2. ASSUME Loop
      PROVE  Cause'
  <2>1. CASE LoopTop
    BY <2>1 DEF LoopTop
  <2>2. CASE Update
    BY <2>2 DEF Update
  <2>3. CASE Ping
    BY <2>3 DEF Ping
  <2>4. CASE CheckScheduledExit
    <3>1. CASE UNCHANGED <<scheduleVars, stopVars>>
      BY <2>4, <3>1 DEF CheckScheduledExit
    <3>2. CASE fired' = TRUE /\ exitCode' = ExitCodeOf
      BY <2>4, <3>2 DEF CheckScheduledExit, ExitCodeOf
    <3> QED  BY <2>4, <3>1, <3>2 DEF CheckScheduledExit
  <2>5. CASE ServiceControl
    BY <2>5 DEF ServiceControl
  <2>6. CASE Paused
    BY <2>6 DEF Paused
  <2> QED
    BY <1>2, <2>1, <2>2, <2>3, <2>4, <2>5, <2>6, Zenon DEF Loop
<1>3. ASSUME ShutDown
      PROVE  Cause'
  <2>1. CASE ServerStop
    BY <2>1 DEF ServerStop
  <2>2. CASE JoinWorkers
    BY <2>2 DEF JoinWorkers
  <2>3. CASE ClearAndHalt
    BY <2>3 DEF ClearAndHalt
  <2>4. CASE UnhookSignals
    BY <2>4 DEF UnhookSignals
  <2>5. CASE Return
    BY <2>5 DEF Return
  <2> QED
    BY <1>3, <2>1, <2>2, <2>3, <2>4, <2>5, Zenon DEF ShutDown
<1>4. ASSUME NEW w \in Worker, WorkerBegin(w) \/ WorkerEnd(w)
      PROVE  Cause'
  BY <1>4 DEF WorkerBegin, WorkerEnd
<1>5. ASSUME DelayThread
      PROVE  Cause'
  BY <1>5 DEF DelayThread
<1>6. ASSUME Environment
      PROVE  Cause'
  <2>1. CASE Signal
    BY <2>1 DEF Signal, Ended
  <2>2. CASE ServiceCommand
    BY <2>2 DEF ServiceCommand
  <2>3. CASE Tick
    BY <2>3 DEF Tick
  <2>4. CASE Restart
    BY <2>4 DEF Restart
  <2> QED  BY <1>6, <2>1, <2>2, <2>3, <2>4, Zenon DEF Environment
<1>7. CASE UNCHANGED vars
  BY <1>7 DEF vars
<1> QED
  BY <1>1, <1>2, <1>3, <1>4, <1>5, <1>6, <1>7, Zenon DEF Next, MainThread

\* The mutex.  The main thread has it only while it takes its references in
\* AuthServer::Update, and a worker has given it back when its step is over.
Locking ==
  /\ main \in Position
  /\ mutex \in {Free, Main}
  /\ mutex = Main => main \in {"update", "killed"}

\* Every step keeps what is known of the mutex.
LEMMA LockingStep ==
  Locking /\ [Next]_vars => Locking'
<1> SUFFICES ASSUME Locking, [Next]_vars PROVE Locking'
  OBVIOUS
<1> USE MainAssumption
    DEF Locking, Position, Step, Exit, Attempt, GiveUp, netVars
<1>1. ASSUME StartUp
      PROVE  Locking'
  BY <1>1
  DEF StartUp, CommandLine, LoadScheduledExitConfig, StartDB, InitializeRealms,
      CleanupBans, Listen, HookSignals, AllowAsyncTransactions
<1>2. ASSUME Loop
      PROVE  Locking'
  <2>1. CASE LoopTop
    BY <2>1 DEF LoopTop
  <2>2. CASE Update
    BY <2>2 DEF Update
  <2>3. CASE Ping \/ CheckScheduledExit \/ ServiceControl \/ Paused
    BY <2>3 DEF Ping, CheckScheduledExit, ServiceControl, Paused
  <2> QED  BY <1>2, <2>1, <2>2, <2>3, Zenon DEF Loop
<1>3. ASSUME ShutDown
      PROVE  Locking'
  BY <1>3
  DEF ShutDown, ServerStop, JoinWorkers, ClearAndHalt, UnhookSignals, Return
<1>4. ASSUME NEW w \in Worker, WorkerBegin(w) \/ WorkerEnd(w)
      PROVE  Locking'
  BY <1>4 DEF WorkerBegin, WorkerEnd
<1>5. ASSUME DelayThread
      PROVE  Locking'
  BY <1>5 DEF DelayThread
<1>6. ASSUME Environment
      PROVE  Locking'
  BY <1>6 DEF Environment, Signal, ServiceCommand, Tick, Restart, Ended
<1>7. CASE UNCHANGED vars
  BY <1>7 DEF vars
<1> QED
  BY <1>1, <1>2, <1>3, <1>4, <1>5, <1>6, <1>7, Zenon DEF Next, MainThread

\* The process as it is started has the right types.
LEMMA TypeInit ==
  Init => TypeOK
<1> SUFFICES ASSUME Init PROVE TypeOK
  OBVIOUS
<1>1. /\ minute \in 0 .. MaxMinute /\ handled \in -1 .. MaxMinute
      /\ exitCode \in 0 .. 255 /\ result \in 0 .. 255
      /\ loopCounter \in 0 .. NumLoops - 1
      /\ serviceStatus \in -1 .. 2
      /\ delayQueue \in 0 .. MaxQueue /\ runs \in 1 .. MaxRuns
  BY MainAssumption, SMT DEF Init, REALMD_SHUTDOWN_EXIT_CODE
<1>2. /\ mode \in {"disabled", "restart", "shutdown"} /\ main \in Position
      /\ delay \in {"none", "running", "halting", "ended"}
      /\ mutex \in Worker \cup {Free, Main}
  BY DEF Init, Position
<1>3. /\ stopEvent \in BOOLEAN /\ hooked \in BOOLEAN /\ async \in BOOLEAN
      /\ stopping \in BOOLEAN /\ failed \in BOOLEAN /\ fired \in BOOLEAN
  BY DEF Init
<1>4. /\ worker \in [Worker -> {"idle", "accept", "handler", "joined"}]
      /\ firedAt \in [0 .. MaxMinute -> Nat]
  BY SMT DEF Init
<1> QED  BY <1>1, <1>2, <1>3, <1>4, SMT DEF TypeOK

\* An attempt of the start-up goes on, or ends the process with status 1.
LEMMA AttemptTypes ==
  ASSUME TypeOK, NEW from, NEW to \in Position, Attempt(from, to)
  PROVE  main' \in Position /\ result' \in 0 .. 255 /\ failed' \in BOOLEAN
<1>1. CASE Step(from, to) /\ UNCHANGED endVars
  BY <1>1 DEF Step, endVars, TypeOK
<1>2. CASE GiveUp(from)
  <2>1. main' = "exited" /\ result' = 1 /\ failed' = TRUE
    BY <1>2 DEF GiveUp, Exit, Step
  <2>2. 1 \in 0 .. 255
    BY SMT
  <2> QED  BY <2>1, <2>2 DEF Position
<1> QED  BY <1>1, <1>2 DEF Attempt

\* Every step keeps the types; among them that the loop counter stays below
\* NumLoops and the exit codes within the byte a supervisor sees.
LEMMA TypeStep ==
  TypeOK /\ [Next]_vars => TypeOK'
<1> SUFFICES ASSUME TypeOK, [Next]_vars PROVE TypeOK'
  OBVIOUS
<1> USE DEF scheduleVars, netVars, dbVars, stopVars, endVars, worldVars
<1>1. ASSUME StartUp
      PROVE  TypeOK'
  <2>1. CASE CommandLine
    <3>1. main' \in Position /\ result' \in 0 .. 255 /\ failed' \in BOOLEAN
      <4>1. "schedule" \in Position /\ "exited" \in Position /\ 0 \in 0 .. 255
        BY SMT DEF Position
      <4>2. CASE Attempt("command", "schedule")
        BY <4>1, <4>2, AttemptTypes
      <4>3. CASE Exit("command", 0) /\ UNCHANGED failed
        BY <4>1, <4>3 DEF Exit, Step, TypeOK
      <4> QED  BY <2>1, <4>2, <4>3 DEF CommandLine
    <3> QED  BY <2>1, <3>1, SMT DEF CommandLine, TypeOK
  <2>2. CASE LoadScheduledExitConfig
    <3>1. main' \in Position /\ result' \in 0 .. 255 /\ failed' \in BOOLEAN
      <4>1. "database" \in Position
        BY DEF Position
      <4> QED  BY <2>2, <4>1, AttemptTypes DEF LoadScheduledExitConfig
    <3>2. handled' \in -1 .. MaxMinute
      BY <2>2, MainAssumption, SMT DEF LoadScheduledExitConfig, TypeOK
    <3> QED  BY <2>2, <3>1, <3>2, SMT DEF LoadScheduledExitConfig, TypeOK
  <2>3. CASE StartDB
    <3>1. /\ main' \in Position /\ result' \in 0 .. 255 /\ failed' \in BOOLEAN
          /\ delay' \in {"none", "running", "halting", "ended"}
      <4>1. "realms" \in Position
        BY DEF Position
      <4>2. Attempt("database", "realms")
        BY <2>3 DEF StartDB, Attempt
      <4> QED  BY <2>3, <4>1, <4>2, AttemptTypes DEF StartDB
    <3> QED  BY <2>3, <3>1, SMT DEF StartDB, TypeOK
  <2>4. CASE InitializeRealms
    <3>1. main' \in Position /\ result' \in 0 .. 255 /\ failed' \in BOOLEAN
      <4>1. "cleanup" \in Position
        BY DEF Position
      <4> QED  BY <2>4, <4>1, AttemptTypes DEF InitializeRealms
    <3> QED  BY <2>4, <3>1, SMT DEF InitializeRealms, TypeOK
  <2>5. CASE CleanupBans
    BY <2>5, MainAssumption, SMT
    DEF CleanupBans, Execute, TypeOK, Step, Exit, Position
  <2>6. CASE Listen
    <3>1. main' \in Position /\ result' \in 0 .. 255 /\ failed' \in BOOLEAN
      <4>1. "hook" \in Position
        BY DEF Position
      <4> QED  BY <2>6, <4>1, AttemptTypes DEF Listen
    <3> QED  BY <2>6, <3>1, SMT DEF Listen, TypeOK
  <2>7. CASE HookSignals
    BY <2>7, MainAssumption, SMT
    DEF HookSignals, TypeOK, Step, Exit, Position
  <2>8. CASE AllowAsyncTransactions
    BY <2>8, MainAssumption, SMT
    DEF AllowAsyncTransactions, TypeOK, Step, Exit, Position
  <2> QED
    BY <1>1, <2>1, <2>2, <2>3, <2>4, <2>5, <2>6, <2>7, <2>8, Zenon DEF StartUp
<1>2. ASSUME Loop
      PROVE  TypeOK'
  <2>1. CASE LoopTop
    BY <2>1, MainAssumption, SMT
    DEF LoopTop, TypeOK, Step, Exit, Position
  <2>2. CASE Update
    BY <2>2, MainAssumption, SMT
    DEF Update, TypeOK, Step, Exit, Position
  <2>3. CASE Ping
    BY <2>3, MainAssumption, SMT
    DEF Ping, PingDue, TypeOK, Step, Exit, Position
  <2>4. CASE CheckScheduledExit
    <3>1. CASE UNCHANGED <<scheduleVars, stopVars>>
      BY <2>4, <3>1, SMT DEF CheckScheduledExit, Step, Position, TypeOK
    <3>2. CASE /\ handled' = minute /\ fired' = TRUE
               /\ firedAt' = [firedAt EXCEPT ![minute] = @ + 1]
               /\ exitCode' = ExitCodeOf /\ stopEvent' = TRUE
      <4>1. handled' \in -1 .. MaxMinute
        BY <3>2, MainAssumption, SMT DEF TypeOK
      <4>2. firedAt' \in [0 .. MaxMinute -> Nat]
        BY <3>2, SMT DEF TypeOK
      <4>3. exitCode' \in 0 .. 255
        BY <3>2, SMT
        DEF ExitCodeOf, REALMD_RESTART_EXIT_CODE, REALMD_SHUTDOWN_EXIT_CODE
      <4>4. main' \in Position
        BY <2>4 DEF CheckScheduledExit, Step, Position
      <4>5. UNCHANGED <<minute, mode, result, hooked, async, loopCounter,
                        serviceStatus, worker, stopping, mutex, delay,
                        delayQueue, runs, failed>>
        BY <2>4, Zenon DEF CheckScheduledExit
      <4>6. fired' \in BOOLEAN /\ stopEvent' \in BOOLEAN
        BY <3>2
      <4> QED
        BY <4>1, <4>2, <4>3, <4>4, <4>5, <4>6, SMT DEF TypeOK
    <3> QED  BY <2>4, <3>1, <3>2 DEF CheckScheduledExit
  <2>5. CASE ServiceControl
    BY <2>5, MainAssumption, SMT
    DEF ServiceControl, TypeOK, Step, Exit, Position
  <2>6. CASE Paused
    BY <2>6, MainAssumption, SMT
    DEF Paused, TypeOK, Step, Exit, Position
  <2> QED
    BY <1>2, <2>1, <2>2, <2>3, <2>4, <2>5, <2>6, Zenon DEF Loop
<1>3. ASSUME ShutDown
      PROVE  TypeOK'
  <2>1. CASE ServerStop
    BY <2>1, MainAssumption, SMT
    DEF ServerStop, TypeOK, Step, Exit, Position
  <2>2. CASE JoinWorkers
    BY <2>2, MainAssumption, SMT
    DEF JoinWorkers, TypeOK, Step, Exit, Position
  <2>3. CASE ClearAndHalt
    BY <2>3, MainAssumption, SMT
    DEF ClearAndHalt, TypeOK, Step, Exit, Position
  <2>4. CASE UnhookSignals
    <3>1. main' \in Position /\ hooked' \in BOOLEAN
      BY <2>4 DEF UnhookSignals, Step, Position
    <3> QED  BY <2>4, <3>1, SMT DEF UnhookSignals, TypeOK
  <2>5. CASE Return
    BY <2>5, MainAssumption, SMT
    DEF Return, TypeOK, Step, Exit, Position
  <2> QED
    BY <1>3, <2>1, <2>2, <2>3, <2>4, <2>5, Zenon DEF ShutDown
<1>4. ASSUME NEW w \in Worker, WorkerBegin(w) \/ WorkerEnd(w)
      PROVE  TypeOK'
  <2>1. CASE WorkerBegin(w)
    BY <2>1, MainAssumption, SMT
    DEF WorkerBegin, TypeOK, Step, Exit, Position
  <2>2. CASE WorkerEnd(w)
    BY <2>2, MainAssumption, SMT
    DEF WorkerEnd, Execute, TypeOK, Step, Exit, Position
  <2> QED  BY <1>4, <2>1, <2>2
<1>5. ASSUME DelayThread
      PROVE  TypeOK'
  BY <1>5, MainAssumption, SMT DEF DelayThread, TypeOK
<1>6. ASSUME Environment
      PROVE  TypeOK'
  <2>1. CASE Signal
    <3>1. main' \in Position /\ stopEvent' \in BOOLEAN
      BY <2>1 DEF Signal, Position, TypeOK
    <3> QED  BY <2>1, <3>1, SMT DEF Signal, TypeOK
  <2>2. CASE ServiceCommand
    BY <2>2, MainAssumption, SMT
    DEF ServiceCommand, TypeOK, Step, Exit, Position
  <2>3. CASE Tick
    BY <2>3, MainAssumption, SMT
    DEF Tick, TypeOK, Step, Exit, Position
  <2>4. CASE Restart
    <3>1. /\ runs' \in 1 .. MaxRuns /\ handled' \in -1 .. MaxMinute
          /\ exitCode' \in 0 .. 255 /\ result' \in 0 .. 255
          /\ loopCounter' \in 0 .. NumLoops - 1
          /\ serviceStatus' \in -1 .. 2 /\ delayQueue' \in 0 .. MaxQueue
      BY <2>4, MainAssumption, SMT
      DEF Restart, TypeOK, REALMD_SHUTDOWN_EXIT_CODE
    <3>2. /\ main' \in Position /\ mutex' \in Worker \cup {Free, Main}
          /\ delay' \in {"none", "running", "halting", "ended"}
      BY <2>4 DEF Restart, Position
    <3>3. /\ stopEvent' \in BOOLEAN /\ hooked' \in BOOLEAN
          /\ async' \in BOOLEAN /\ stopping' \in BOOLEAN
          /\ failed' \in BOOLEAN /\ fired' \in BOOLEAN
      BY <2>4 DEF Restart
    <3>4. worker' \in [Worker -> {"idle", "accept", "handler", "joined"}]
      BY <2>4, SMT DEF Restart
    <3> QED
      BY <2>4, <3>1, <3>2, <3>3, <3>4, SMT DEF Restart, TypeOK
  <2> QED  BY <1>6, <2>1, <2>2, <2>3, <2>4, Zenon DEF Environment
<1>7. CASE UNCHANGED vars
  BY <1>7, SMT DEF vars, TypeOK
<1> QED
  BY <1>1, <1>2, <1>3, <1>4, <1>5, <1>6, <1>7, Zenon DEF Next, MainThread

-----------------------------------------------------------------------------

\* The invariant holds in every reachable state.
LEMMA ProcessInvariance == Spec => []IInv
<1>1. IInv /\ [Next]_vars => IInv'
  BY StatementsStep, ScheduleStep, CauseStep DEF IInv
<1> QED  BY InitIInv, <1>1, PTL DEF Spec

\* However the process ends, every statement that was queued has been executed,
\* for any number of network threads and any interleaving of signals with
\* start-up and shutdown.
THEOREM StatementsSurvive == Spec => []NoStatementLost
<1>1. IInv => NoStatementLost
  BY DEF IInv, Statements
<1> QED  BY ProcessInvariance, <1>1, PTL

\* A scheduled exit fires at most once in each minute, however often the
\* process is started in it.
THEOREM RestartsDoNotLoop == Spec => []NoRestartLoop
<1>1. IInv => NoRestartLoop
  BY DEF IInv, Schedule
<1> QED  BY ProcessInvariance, <1>1, PTL

\* The exit status names the cause of the end, whatever raced with it.
THEOREM StatusTellsCause == Spec => []ExitCodeIsCause
<1>1. IInv => ExitCodeIsCause
  BY DEF IInv, Cause
<1> QED  BY ProcessInvariance, <1>1, PTL

\* Whatever number of network threads there is, no thread waits for one that
\* waits for it, at shutdown or before: the safety that StopIsHonoured rests
\* on.
THEOREM WaitsEnd == Spec => []NoCircularWait
<1>1. Init => Locking
  BY MainAssumption DEF Init, Locking, Position
<1>2. ASSUME Locking, IInv PROVE NoCircularWait
  <2>1. main = "halt" => delay \in {"halting", "ended"}
    BY <1>2 DEF IInv, Statements
  <2>2. main \in {"loop", "clear", "join"} => mutex = Free
    BY <1>2 DEF Locking
  <2>3. Main \notin Worker
    BY MainAssumption
  <2>4. Main \notin MainWaitsFor
    BY <2>2, <2>3 DEF MainWaitsFor
  <2>5. ASSUME NEW w \in Worker \cap MainWaitsFor
        PROVE  Main \notin WorkerWaitsFor(w)
    <3>1. main \in {"loop", "clear", "join"}
      BY DEF MainWaitsFor
    <3> QED  BY <2>2, <3>1 DEF WorkerWaitsFor
  <2> QED  BY <2>1, <2>4, <2>5 DEF NoCircularWait
<1> QED  BY <1>1, <1>2, LockingStep, ProcessInvariance, PTL DEF Spec

\* Every variable of the process keeps its type, through any number of
\* restarts: the loop counter never reaches NumLoops (Main.cpp 586), and the
\* status a supervisor sees fits the byte it reads.
THEOREM ProcessTypes == Spec => []TypeOK
BY TypeInit, TypeStep, PTL DEF Spec
=============================================================================
