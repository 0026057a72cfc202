----------------------------- MODULE Lifecycle -----------------------------
(***************************************************************************)
(* The life of a pc2sms process: main() reads the configuration and the    *)
(* options, becomes a daemon or a Windows service or stays in the          *)
(* foreground (daemonize.cpp), creates the server object, runs its event   *)
(* loop and deletes it.  A stop request deletes it too and exits; any      *)
(* other end leaves it to the system, and systemd starts a daemon again    *)
(* that was aborted.                                                       *)
(*                                                                         *)
(* In the foreground the stop request is SIGINT, and its handler runs on   *)
(* top of the main thread.  As a Windows service it is                     *)
(* SERVICE_CONTROL_STOP, and ServiceCtrlHandler runs on another thread     *)
(* than ServiceMain, beside the event loop.  Both call done(), which is    *)
(* modelled once, for the thread t that runs it.  A daemon and a Windows   *)
(* console have no stop request: they are killed.                          *)
(***************************************************************************)
EXTENDS Naturals, ServiceConfig

CONSTANTS
  MaxCompletions,   \* bound: completions in the queue, and calls in progress
  MaxRestarts       \* bound: how often systemd starts the daemon again

ASSUME LifecycleAssumption ==
  MaxCompletions \in Nat /\ MaxRestarts \in Nat

VARIABLES
  mode,          \* "foreground", "console" (on Windows), "daemon", "service"
  at,            \* the statement each thread is at
  server,        \* is the global pointer set?
  object,        \* the SMSServiceImpl
  listening,     \* did BuildAndStart() return a server?
  running,       \* SMSServiceImpl::running
  queuingMgr,    \* is SMSServiceImpl::queuingMgr set?
  serverDown,    \* was server->Shutdown() called?
  cqDown,        \* was cq->Shutdown() called?
  completions,   \* completions in cq
  calls,         \* calls whose handler object is not deleted yet
  serviceState,  \* gServiceStatus.dwCurrentState as last reported
  process,       \* "up", or how it ended
  launcher,      \* the process that forked the daemon
  pidFile,       \* whose number the pid file of a daemon holds
  restarts       \* how often systemd started the daemon again

objectVars == <<object, listening, running, queuingMgr, serverDown, cqDown>>
callVars == <<completions, calls>>
serverVars == <<server, objectVars, callVars>>
daemonVars == <<mode, launcher, pidFile, restarts>>
systemVars == <<daemonVars, serviceState, process>>
vars == <<at, serverVars, systemVars>>

Thread == {"main", "handler"}

(* The statements of done(), delete server and SMSServiceImpl::stop() *)
Deleting == {"shutdown server", "await calls", "shutdown cq", "delete manager",
             "free object", "clear pointer"}

InRun == {"construct", "assign", "spawn", "test", "next"}

Statement == InRun \cup Deleting
               \cup {"setup", "start", "session", "pid file", "done", "report",
                     "return", "idle", "exit"}

(***************************************************************************)
(* How a process ends: by exit() or return, with an error before it serves *)
(* ("failed"), by a signal that has no handler and that systemd takes for  *)
(* a clean end ("terminated", SIGTERM) or not ("killed", SIGKILL), by an   *)
(* assertion of gRPC, or by a segmentation fault, of a server that         *)
(* BuildAndStart() did not build ("unbuilt") or that is deleted            *)
(* ("crashed").                                                            *)
(***************************************************************************)
Ending == {"exited", "failed", "terminated", "killed", "aborted", "unbuilt",
           "crashed"}

TypeOK ==
  /\ mode \in {"foreground", "console", "daemon", "service"}
  /\ at \in [Thread -> Statement]
  /\ server \in BOOLEAN /\ listening \in BOOLEAN
  /\ object \in {"none", "live", "deleted"}
  /\ running \in BOOLEAN /\ queuingMgr \in BOOLEAN
  /\ serverDown \in BOOLEAN /\ cqDown \in BOOLEAN
  /\ completions \in Nat /\ calls \in Nat
  /\ serviceState \in {"none", "START_PENDING", "RUNNING", "STOP_PENDING",
                       "STOPPED"}
  /\ process \in {"up"} \cup Ending
  /\ launcher \in {"none", "forked", "succeeded"}
  /\ pidFile \in {"none", "own", "stale"}
  /\ restarts \in Nat

(* main(): what the lines of the configuration file and the option -d say *)
Mode(windows, lines, option) ==
  IF ParseService(lines).daemonize \/ option
  THEN IF windows THEN "service" ELSE "daemon"
  ELSE IF windows THEN "console" ELSE "foreground"

(* A process that just began, before main() *)
Begin ==
  /\ at' = [t \in Thread |-> IF t = "main" THEN "setup" ELSE "idle"]
  /\ server' = FALSE
  /\ object' = "none" /\ listening' = FALSE
  /\ running' = FALSE /\ queuingMgr' = FALSE
  /\ serverDown' = FALSE /\ cqDown' = FALSE
  /\ completions' = 0 /\ calls' = 0
  /\ serviceState' = "none"
  /\ process' = "up"
  /\ launcher' = "none"

Init ==
  /\ \E windows, option \in BOOLEAN,
        lines \in {<<>>, <<"", "", "", "daemonize">>,
                   <<"", "", "", "all", "daemonize">>} :
       mode = Mode(windows, lines, option)
  /\ at = [t \in Thread |-> IF t = "main" THEN "setup" ELSE "idle"]
  /\ server = FALSE
  /\ object = "none" /\ listening = FALSE
  /\ running = FALSE /\ queuingMgr = FALSE
  /\ serverDown = FALSE /\ cqDown = FALSE
  /\ completions = 0 /\ calls = 0
  /\ serviceState = "none"
  /\ process = "up"
  /\ launcher = "none" /\ restarts = 0
  /\ pidFile \in {"none", "stale"}

-----------------------------------------------------------------------------
(* A signal handler suspends the main thread; a service thread does not. *)
Runs(t) ==
  /\ process = "up"
  /\ t = "main" /\ mode # "service" => at["handler"] = "idle"

Goto(t, from, to) ==
  /\ Runs(t)
  /\ at[t] = from
  /\ at' = [at EXCEPT ![t] = to]

(* Thread t, at a statement that uses the object after it was deleted *)
UseAfterDelete(t) ==
  /\ Runs(t)
  /\ object = "deleted"
  /\ at[t] \in {"spawn", "test", "next"} \cup (Deleting \ {"clear pointer"})
  /\ process' = "crashed"
  /\ UNCHANGED <<at, serverVars, daemonVars, serviceState>>

-----------------------------------------------------------------------------
(* The main thread                                                         *)

(* --help, or an option that is wrong: ERR_CODE_COMMAND_LINE *)
ShowHelp ==
  /\ Runs("main") /\ at["main"] = "setup"
  /\ process' = "failed"
  /\ UNCHANGED <<at, serverVars, daemonVars, serviceState>>

(* Foreground: setSignalHandler() *)
Setup ==
  /\ mode \in {"foreground", "console"}
  /\ Goto("main", "setup", "construct")
  /\ UNCHANGED <<serverVars, systemVars>>

(* The dispatcher runs ServiceMain: statusStartPending(), statusStarted() *)
StartService ==
  /\ mode = "service"
  /\ \/ /\ Goto("main", "setup", "start")
        /\ serviceState' = "START_PENDING"
     \/ /\ Goto("main", "start", "construct")
        /\ serviceState' = "RUNNING"
  /\ UNCHANGED <<serverVars, daemonVars, process>>

(* StartServiceCtrlDispatcher() or RegisterServiceCtrlHandler() fails *)
NoService ==
  /\ mode = "service"
  /\ Goto("main", "setup", "return")
  /\ UNCHANGED <<serverVars, systemVars>>

(* The first fork(): the child goes on, its parent is to exit *)
Fork ==
  /\ mode = "daemon"
  /\ Goto("main", "setup", "session")
  /\ launcher' = "forked"
  /\ UNCHANGED <<serverVars, mode, pidFile, restarts, serviceState, process>>

(* exit(EXIT_SUCCESS) of the parent, beside all that its child does *)
LauncherExits ==
  /\ launcher = "forked"
  /\ launcher' = "succeeded"
  /\ UNCHANGED <<at, serverVars, mode, pidFile, restarts, serviceState,
                 process>>

(* setsid(), the second fork(), chdir(); no limit of descriptors is given *)
NewSession ==
  /\ Goto("main", "session", "pid file")
  /\ UNCHANGED <<serverVars, systemVars>>

(* fork() or setsid() fails: exit(EXIT_FAILURE) *)
ForkFails ==
  /\ Runs("main")
  /\ mode = "daemon" /\ at["main"] \in {"setup", "session"}
  /\ process' = "failed"
  /\ UNCHANGED <<at, serverVars, daemonVars, serviceState>>

(* A file that cannot be opened stays as it was, and nobody looks. *)
SetPidFile ==
  /\ Goto("main", "pid file", "construct")
  /\ pidFile' \in {"own", pidFile}
  /\ UNCHANGED <<serverVars, mode, launcher, restarts, serviceState, process>>

(***************************************************************************)
(* new SMSServiceImpl: start() builds the queue, the manager, the server.  *)
(* BuildAndStart() returns nullptr if the port is taken or the address     *)
(* wrong, and start() does not look.                                       *)
(***************************************************************************)
Construct ==
  /\ Goto("main", "construct", "assign")
  /\ object' = "live"
  /\ listening' \in BOOLEAN
  /\ queuingMgr' = TRUE
  /\ UNCHANGED <<server, running, serverDown, cqDown, callVars, systemVars>>

Assign ==
  /\ Goto("main", "assign", "spawn")
  /\ server' = TRUE
  /\ UNCHANGED <<objectVars, callVars, systemVars>>

(***************************************************************************)
(* run(): a handler object for each of the four methods, running = true.   *)
(* Their requests to a server that was shut down fail at once.             *)
(***************************************************************************)
Spawn ==
  /\ object = "live" /\ listening /\ ~cqDown
  /\ Goto("main", "spawn", "test")
  /\ running' = TRUE
  /\ completions' = IF serverDown THEN completions + 4 ELSE completions
  /\ UNCHANGED <<server, object, listening, queuingMgr, serverDown, cqDown,
                 calls, systemVars>>

(* The server that was not built is used, by run() or by stop(). *)
UseUnbuilt(t) ==
  /\ Runs(t)
  /\ object = "live" /\ ~listening
  /\ at[t] \in {"spawn", "shutdown server"}
  /\ process' = "unbuilt"
  /\ UNCHANGED <<at, serverVars, daemonVars, serviceState>>

(* Faulty form: the service reports STOPPED before it cleans up. *)
ReportsFirst == "report"

(* What main does when run() returned *)
AfterRun == "done"

(* while (running) *)
Test ==
  /\ object = "live"
  /\ Goto("main", "test", IF running THEN "next" ELSE AfterRun)
  /\ UNCHANGED <<serverVars, systemVars>>

(* Faulty form: the return value of cq->Next() is not checked. *)
Unchecked == TRUE

(* cq->Next() returns true *)
NextReturnsTag == completions > 0

(* ... and Proceed() handles the completion, the last one of a call or not *)
Serve ==
  /\ object = "live"
  /\ NextReturnsTag
  /\ Goto("main", "next", "test")
  /\ completions' = completions - 1
  /\ calls' \in {calls, calls - 1} /\ calls' >= 0
  /\ UNCHANGED <<server, objectVars, systemVars>>

(***************************************************************************)
(* The same while the server goes down.  Proceed() does not look at        *)
(* successfulEvent: it takes a cancelled request for a call and answers it *)
(* or sets up the next one, which gRPC refuses with an assertion, and it   *)
(* uses queuingMgr, which stop() sets to nullptr.                          *)
(***************************************************************************)
ServeCancelled ==
  /\ object = "live"
  /\ NextReturnsTag
  /\ serverDown
  /\ Runs("main") /\ at["main"] = "next"
  /\ process' = "crashed"
  /\ UNCHANGED <<at, serverVars, daemonVars, serviceState>>

(***************************************************************************)
(* An assertion of gRPC fails, as where SmsServiceFifo has OneByOne        *)
(* broken, or where run() gives a request to a queue that is shut down.    *)
(***************************************************************************)
Assertion ==
  /\ Runs("main")
  /\ object = "live"
  /\ \/ at["main"] = "next" /\ NextReturnsTag
     \/ at["main"] = "spawn" /\ cqDown
  /\ process' = "aborted"
  /\ UNCHANGED <<at, serverVars, daemonVars, serviceState>>

(* cq->Next() returns false: the queue is shut down and drained *)
Drained ==
  /\ object = "live"
  /\ cqDown /\ completions = 0
  /\ Goto("main", "next", AfterRun)
  /\ UNCHANGED <<serverVars, systemVars>>

(* ServiceMain: statusStopped() *)
Report ==
  /\ Goto("main", "report", "return")
  /\ serviceState' = IF mode = "service" THEN "STOPPED" ELSE serviceState
  /\ UNCHANGED <<serverVars, daemonVars, process>>

(* main() returns; for a service, when the dispatcher does *)
Return ==
  /\ Runs("main") /\ at["main"] = "return"
  /\ process' = "exited"
  /\ UNCHANGED <<at, serverVars, daemonVars, serviceState>>

-----------------------------------------------------------------------------
(* done() and the destructor, run by thread t                              *)

(* Faulty form: stop() returns to what it interrupted. *)
Resumes(t) == IF t = "main" THEN "report" ELSE "idle"

(* What follows done(): main goes on, stop() calls exit(SMS_OK) *)
AfterDone(t) == IF t = "main" THEN "report" ELSE "exit"

(* if (server) delete server *)
Done(t) ==
  /\ Goto(t, "done", IF server THEN "shutdown server" ELSE AfterDone(t))
  /\ UNCHANGED <<serverVars, systemVars>>

(***************************************************************************)
(* running = false, server->Shutdown(timeout).  The time {10, 0} is ten    *)
(* seconds after the epoch and long past, so gRPC cancels at once the four *)
(* requests, if there are any, and the calls in progress, what these wait  *)
(* for included.                                                           *)
(***************************************************************************)
ShutdownServer(t) ==
  /\ object = "live" /\ listening
  /\ Goto(t, "shutdown server", "await calls")
  /\ running' = FALSE
  /\ serverDown' = TRUE
  /\ IF serverDown \/ at["main"] \notin {"test", "next"}
     THEN UNCHANGED completions
     ELSE \E cancelled \in 0..(2 * calls) :
            completions' = completions + 4 + cancelled
  /\ UNCHANGED <<server, object, listening, queuingMgr, cqDown, calls,
                 systemVars>>

(***************************************************************************)
(* Shutdown() returns when the last call is gone, with the handler object  *)
(* that holds it, and to the thread that called it second after the first. *)
(***************************************************************************)
ShutdownReturns(t) ==
  /\ object = "live"
  /\ calls = 0
  /\ t = "main" => at["handler"] # "await calls"
  /\ Goto(t, "await calls", "shutdown cq")
  /\ UNCHANGED <<serverVars, systemVars>>

ShutdownCq(t) ==
  /\ object = "live"
  /\ Goto(t, "shutdown cq", "delete manager")
  /\ cqDown' = TRUE
  /\ UNCHANGED <<server, object, listening, running, queuingMgr, serverDown,
                 callVars, systemVars>>

(* if (queuingMgr) delete it *)
DeleteManager(t) ==
  /\ object = "live"
  /\ Goto(t, "delete manager", "free object")
  /\ queuingMgr' = FALSE
  /\ UNCHANGED <<server, object, listening, running, serverDown, cqDown,
                 callVars, systemVars>>

FreeObject(t) ==
  /\ object = "live"
  /\ Goto(t, "free object", "clear pointer")
  /\ object' = "deleted"
  /\ UNCHANGED <<server, listening, running, queuingMgr, serverDown, cqDown,
                 callVars, systemVars>>

ClearPointer(t) ==
  /\ Goto(t, "clear pointer", AfterDone(t))
  /\ server' = FALSE
  /\ UNCHANGED <<objectVars, callVars, systemVars>>

-----------------------------------------------------------------------------
(* Stop requests                                                           *)

(* Faulty form: stop() exits and leaves the server as it is. *)
ExitAtOnce == "exit"

(* stop() begins with done(). *)
StopEntry == "done"

(* SIGINT, once the handler is installed *)
Interrupt ==
  /\ mode = "foreground" /\ at["main"] # "setup"
  /\ Goto("handler", "idle", StopEntry)
  /\ UNCHANGED <<serverVars, systemVars>>

(* SERVICE_CONTROL_STOP, heeded only in the state SERVICE_RUNNING *)
ServiceCtrlHandler ==
  /\ serviceState = "RUNNING"
  /\ Goto("handler", "idle", StopEntry)
  /\ serviceState' = "STOP_PENDING"
  /\ UNCHANGED <<serverVars, daemonVars, process>>

(* exit(SMS_OK) *)
Exit ==
  /\ Runs("handler") /\ at["handler"] = "exit"
  /\ process' = "exited"
  /\ UNCHANGED <<at, serverVars, daemonVars, serviceState>>

(* Any signal that has no handler in this mode *)
Kill ==
  /\ process = "up"
  /\ process' \in {"terminated", "killed"}
  /\ UNCHANGED <<at, serverVars, daemonVars, serviceState>>

(* systemd, Restart=on-abort: a daemon that a signal ended uncleanly *)
Restart ==
  /\ mode = "daemon" /\ launcher = "succeeded"
  /\ process \in {"killed", "aborted", "unbuilt", "crashed"}
  /\ restarts < MaxRestarts
  /\ restarts' = restarts + 1
  /\ pidFile' = IF pidFile = "own" THEN "stale" ELSE pidFile
  /\ Begin
  /\ UNCHANGED mode

(***************************************************************************)
(* Once run() asked for calls: a call comes in, unless the server goes     *)
(* down, or a call or an alarm that is there has something to handle.      *)
(***************************************************************************)
Complete ==
  /\ process = "up"
  /\ object = "live" /\ at["main"] \in {"test", "next"}
  /\ completions < MaxCompletions
  /\ completions' = completions + 1
  /\ \/ UNCHANGED calls
     \/ ~serverDown /\ calls < MaxCompletions /\ calls' = calls + 1
  /\ UNCHANGED <<at, server, objectVars, systemVars>>

-----------------------------------------------------------------------------
MainStep ==
  \/ ShowHelp
  \/ Setup
  \/ StartService
  \/ NoService
  \/ Fork
  \/ NewSession
  \/ ForkFails
  \/ SetPidFile
  \/ Construct
  \/ Assign
  \/ Spawn
  \/ Test
  \/ Serve
  \/ ServeCancelled
  \/ Assertion
  \/ Drained
  \/ Report
  \/ Return

DoneStep(t) ==
  \/ Done(t)
  \/ ShutdownServer(t)
  \/ ShutdownReturns(t)
  \/ ShutdownCq(t)
  \/ DeleteManager(t)
  \/ FreeObject(t)
  \/ ClearPointer(t)
  \/ UseAfterDelete(t)
  \/ UseUnbuilt(t)

Next ==
  \/ MainStep
  \/ \E t \in Thread : DoneStep(t)
  \/ Exit
  \/ Interrupt
  \/ ServiceCtrlHandler
  \/ Complete
  \/ LauncherExits
  \/ Kill
  \/ Restart

Spec == Init /\ [][Next]_vars

(***************************************************************************)
(* The thread that handles the stop request runs.  Of the main thread, of  *)
(* the calls and of what Shutdown() waits for nothing is assumed.          *)
(***************************************************************************)
FairSpec == Spec /\ WF_vars(DoneStep("handler") \/ Exit)

-----------------------------------------------------------------------------
(***************************************************************************)
(* Unless it is a Windows service, no stop request, whenever it comes,     *)
(* makes the event loop or a second done() use the deleted server: stop()  *)
(* never returns to the thread it interrupted.                             *)
(***************************************************************************)
NoUseAfterDelete == mode # "service" => process # "crashed"

(***************************************************************************)
(* Unless it is a Windows service, the process exits with a server that    *)
(* still serves only if the stop request came before run() stored the      *)
(* pointer: otherwise the port is closed and the calls are cancelled       *)
(* first.                                                                  *)
(***************************************************************************)
OrderlyExit ==
  mode # "service" /\ process = "exited" /\ object = "live" =>
    at["main"] = "assign"

(***************************************************************************)
(* The service reports SERVICE_STOPPED only when the server is gone: no    *)
(* thread is in the event loop, and the object is deleted or the process   *)
(* about to be.                                                            *)
(***************************************************************************)
StoppedMeansGone ==
  serviceState = "STOPPED" => object = "deleted" /\ at["main"] \notin InRun

(***************************************************************************)
(* To the system around it the process behaves as ServerLife says, however *)
(* its threads interleave: it closes the port only when asked, comes to no *)
(* other ends than those, and reports the states of a service in order.    *)
(***************************************************************************)
Port == IF ~listening THEN "closed" ELSE IF serverDown THEN "closing" ELSE "open"

Life == INSTANCE ServerLife WITH
  port     <- Port,
  asked    <- at["handler"] # "idle",
  reported <- serviceState,
  ending   <- process

ImplementsServerLife == Life!Spec

(* Shutdown() waits, in a stop request, for calls in progress. *)
Stuck == process = "up" /\ at["handler"] = "await calls" /\ calls # 0

(***************************************************************************)
(* A stop request that was accepted ends the process, whatever the event   *)
(* loop does in the meantime, or waits for good in Shutdown() for calls    *)
(* whose completions the event loop does not take any more: there is no    *)
(* third way, such as a return to the loop or a wait of the two threads    *)
(* for each other.                                                         *)
(***************************************************************************)
StopEnds == at["handler"] = "done" ~> (process # "up" \/ []Stuck)

(***************************************************************************)
(* pc2sms.service has systemd find the daemon by its pid file once the     *)
(* process it started exits: by then the file names it.                    *)
(***************************************************************************)
PidFileInTime == launcher = "succeeded" /\ process = "up" => pidFile = "own"

(***************************************************************************)
(* daemonize.cpp calls done the "function to clean after runner exit": the *)
(* server is not taken apart while the event loop runs.                    *)
(***************************************************************************)
CleanAfterRunner ==
  mode = "service" /\ at["handler"] \in Deleting => at["main"] \notin InRun

=============================================================================
