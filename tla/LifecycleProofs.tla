-------------------------- MODULE LifecycleProofs --------------------------
(***************************************************************************)
(* Proofs about Lifecycle, in every mode, for any number of completions    *)
(* and of restarts.                                                        *)
(***************************************************************************)
EXTENDS Lifecycle, TLAPS

(* No action changes the mode. *)
LEMMA ModeKept == [Next]_vars => mode' = mode
<1>. SUFFICES ASSUME [Next]_vars PROVE mode' = mode
  OBVIOUS
<1>. USE DEF daemonVars, systemVars
<1>1. CASE MainStep
  BY <1>1 DEF MainStep, ShowHelp, Setup, StartService, NoService, Fork,
     NewSession, ForkFails, SetPidFile, Construct, Assign, Spawn, Test, Serve,
     ServeCancelled, Assertion, Drained, Report, Return
<1>2. ASSUME NEW t \in Thread, DoneStep(t) PROVE mode' = mode
  BY <1>2 DEF DoneStep, Done, ShutdownServer, ShutdownReturns, ShutdownCq,
     DeleteManager, FreeObject, ClearPointer, UseAfterDelete, UseUnbuilt
<1>. QED
  BY <1>1, <1>2 DEF Next, Exit, Interrupt, ServiceCtrlHandler, Complete,
     LauncherExits, Kill, Restart, vars

-----------------------------------------------------------------------------
(* The statements that the threads go to *)
LEMMA Statements ==
  /\ {"setup", "start", "session", "pid file", "construct", "assign", "spawn",
      "test", "next", "done", "report", "return", "idle", "exit"} \subseteq Statement
  /\ Deleting \subseteq Statement
  /\ {"shutdown server", "await calls", "shutdown cq", "delete manager",
      "free object", "clear pointer"} \subseteq Statement
BY DEF Statement, InRun, Deleting

LEMMA GotoTyped ==
  ASSUME at \in [Thread -> Statement],
         NEW t \in Thread, NEW from, NEW to \in Statement, Goto(t, from, to)
  PROVE  at' \in [Thread -> Statement]
BY DEF Goto

(* Threads stay at statements of the program. *)
LEMMA AtTyped ==
  ASSUME at \in [Thread -> Statement], [Next]_vars
  PROVE  at' \in [Thread -> Statement]
<1>. USE Statements DEF callVars, serverVars, systemVars
<1>0. "main" \in Thread /\ "handler" \in Thread
  BY DEF Thread
<1>1. CASE MainStep
  <2>1. CASE \/ ShowHelp \/ ForkFails \/ ServeCancelled \/ Assertion \/ Return
    BY <2>1 DEF ShowHelp, ForkFails, ServeCancelled, Assertion, Return
  <2>2. CASE Setup \/ StartService \/ NoService \/ Fork \/ NewSession \/ SetPidFile
    BY <1>0, <2>2, GotoTyped DEF Setup, StartService, NoService, Fork, NewSession,
       SetPidFile
  <2>3. CASE Construct \/ Assign \/ Spawn \/ Serve
    BY <1>0, <2>3, GotoTyped DEF Construct, Assign, Spawn, Serve
  <2>4. CASE Test \/ Drained \/ Report
    <3>. (IF running THEN "next" ELSE AfterRun) \in Statement
      BY DEF AfterRun
    <3>. QED
      BY <1>0, <2>4, GotoTyped DEF Test, Drained, AfterRun, Report
  <2>. QED
    BY <1>1, <2>1, <2>2, <2>3, <2>4 DEF MainStep
<1>2. ASSUME NEW t \in Thread, DoneStep(t) PROVE at' \in [Thread -> Statement]
  <2>1. AfterDone(t) \in Statement
    BY DEF AfterDone
  <2>2. (IF server THEN "shutdown server" ELSE AfterDone(t)) \in Statement
    BY <2>1
  <2>3. CASE Done(t) \/ ShutdownServer(t) \/ ShutdownReturns(t) \/ ShutdownCq(t)
    BY <2>2, <2>3, GotoTyped DEF Done, ShutdownServer, ShutdownReturns, ShutdownCq
  <2>4. CASE DeleteManager(t) \/ FreeObject(t) \/ ClearPointer(t)
    BY <2>1, <2>4, GotoTyped DEF DeleteManager, FreeObject, ClearPointer
  <2>. QED
    BY <1>2, <2>3, <2>4 DEF DoneStep, UseAfterDelete, UseUnbuilt
<1>3. CASE Interrupt \/ ServiceCtrlHandler
  BY <1>0, <1>3, GotoTyped DEF Interrupt, ServiceCtrlHandler, StopEntry
<1>4. CASE Restart
  BY <1>4 DEF Restart, Begin
<1>. QED
  BY <1>1, <1>2, <1>3, <1>4 DEF Next, Exit, Complete, LauncherExits, Kill, vars

(* The other variables, but for the flags *)
DataTyped ==
  /\ mode \in {"foreground", "console", "daemon", "service"}
  /\ object \in {"none", "live", "deleted"}
  /\ completions \in Nat /\ calls \in Nat /\ restarts \in Nat
  /\ serviceState \in {"none", "START_PENDING", "RUNNING", "STOP_PENDING",
                       "STOPPED"}
  /\ process \in {"up", "exited", "failed", "terminated", "killed", "aborted",
                  "unbuilt", "crashed"}
  /\ launcher \in {"none", "forked", "succeeded"}
  /\ pidFile \in {"none", "own", "stale"}

FlagsTyped ==
  /\ server \in BOOLEAN /\ listening \in BOOLEAN
  /\ running \in BOOLEAN /\ queuingMgr \in BOOLEAN
  /\ serverDown \in BOOLEAN /\ cqDown \in BOOLEAN

LEMMA DataKeepTypes ==
  ASSUME DataTyped, [Next]_vars PROVE DataTyped'
<1>. USE DEF DataTyped, objectVars, callVars, serverVars, daemonVars, systemVars
<1>1. CASE \/ ShowHelp \/ Setup \/ StartService \/ NoService \/ Fork \/ NewSession
           \/ ForkFails \/ SetPidFile
  BY <1>1 DEF ShowHelp, Setup, StartService, NoService, Fork, NewSession,
     ForkFails, SetPidFile
<1>2. CASE Construct \/ Assign \/ Spawn \/ Test
  BY <1>2 DEF Construct, Assign, Spawn, Test
<1>3. CASE Serve \/ ServeCancelled \/ Assertion \/ Drained \/ Report \/ Return
  BY <1>3 DEF Serve, ServeCancelled, Assertion, Drained, Report, Return,
     NextReturnsTag
<1>4. ASSUME NEW t \in Thread, DoneStep(t) PROVE DataTyped'
  <2>1. CASE ShutdownServer(t)
    <3>1. UNCHANGED <<mode, object, calls, serviceState, process, launcher,
         pidFile,
                     restarts>>
      BY <2>1 DEF ShutdownServer
    <3>2. completions' \in Nat
      <4>1. CASE UNCHANGED completions
        BY <4>1
      <4>2. ASSUME NEW cancelled \in 0..(2 * calls),
                   completions' = completions + 4 + cancelled
            PROVE  completions' \in Nat
        BY <4>2
      <4>. QED
        BY <2>1, <4>1, <4>2 DEF ShutdownServer
    <3>. QED
      BY <3>1, <3>2
  <2>2. CASE Done(t) \/ ShutdownReturns(t) \/ ShutdownCq(t) \/ DeleteManager(t)
    BY <2>2 DEF Done, ShutdownReturns, ShutdownCq, DeleteManager
  <2>3. CASE FreeObject(t) \/ ClearPointer(t) \/ UseAfterDelete(t) \/ UseUnbuilt(t)
    BY <2>3 DEF FreeObject, ClearPointer, UseAfterDelete, UseUnbuilt
  <2>. QED
    BY <1>4, <2>1, <2>2, <2>3 DEF DoneStep
<1>5. CASE Exit \/ Interrupt \/ ServiceCtrlHandler \/ Complete
  BY <1>5 DEF Exit, Interrupt, ServiceCtrlHandler, Complete
<1>6. CASE LauncherExits \/ Kill \/ Restart \/ UNCHANGED vars
  BY <1>6 DEF LauncherExits, Kill, Restart, Begin, vars
<1>. QED
  BY <1>1, <1>2, <1>3, <1>4, <1>5, <1>6 DEF Next, MainStep

LEMMA FlagsKeepTypes ==
  ASSUME FlagsTyped, [Next]_vars PROVE FlagsTyped'
<1>. USE DEF FlagsTyped, objectVars, callVars, serverVars, systemVars
<1>1. CASE \/ ShowHelp \/ Setup \/ StartService \/ NoService \/ Fork \/ NewSession
           \/ ForkFails \/ SetPidFile
  BY <1>1 DEF ShowHelp, Setup, StartService, NoService, Fork, NewSession,
     ForkFails, SetPidFile
<1>2. CASE Construct \/ Assign \/ Spawn \/ Test
  BY <1>2 DEF Construct, Assign, Spawn, Test
<1>3. CASE Serve \/ ServeCancelled \/ Assertion \/ Drained \/ Report \/ Return
  BY <1>3 DEF Serve, ServeCancelled, Assertion, Drained, Report, Return,
     NextReturnsTag
<1>4. ASSUME NEW t \in Thread, DoneStep(t) PROVE FlagsTyped'
  BY <1>4 DEF DoneStep, Done, ShutdownServer, ShutdownReturns, ShutdownCq,
     DeleteManager, FreeObject, ClearPointer, UseAfterDelete, UseUnbuilt
<1>5. CASE Exit \/ Interrupt \/ ServiceCtrlHandler \/ Complete
  BY <1>5 DEF Exit, Interrupt, ServiceCtrlHandler, Complete
<1>6. CASE LauncherExits \/ Kill \/ Restart \/ UNCHANGED vars
  BY <1>6 DEF LauncherExits, Kill, Restart, Begin, vars
<1>. QED
  BY <1>1, <1>2, <1>3, <1>4, <1>5, <1>6 DEF Next, MainStep

(* The state keeps its types: completions are taken only if there are any. *)
THEOREM TypeCorrect == Spec => []TypeOK
<1>1. TypeOK <=> at \in [Thread -> Statement] /\ DataTyped /\ FlagsTyped
  BY DEF TypeOK, DataTyped, FlagsTyped, Ending
<1>2. Init => TypeOK
  <2>. SUFFICES ASSUME Init PROVE TypeOK
    OBVIOUS
  <2>1. mode \in {"foreground", "console", "daemon", "service"}
    BY DEF Init, Mode
  <2>2. at \in [Thread -> Statement]
    BY Statements DEF Init
  <2>. QED
    BY <2>1, <2>2 DEF Init, TypeOK
<1>3. TypeOK /\ [Next]_vars => TypeOK'
  <2>1. TypeOK' <=> (at \in [Thread -> Statement])' /\ DataTyped' /\ FlagsTyped'
    BY DEF TypeOK, DataTyped, FlagsTyped, Ending
  <2>. QED
    BY <1>1, <2>1, AtTyped, DataKeepTypes, FlagsKeepTypes
<1>. QED
  BY <1>2, <1>3, PTL DEF Spec

-----------------------------------------------------------------------------
(***************************************************************************)
(* Where the two threads can be unless the process is a Windows service.   *)
(* The main thread never leaves run(): only stop() lets it, and stop()     *)
(* does not return.  So whenever it runs, the server is whole.             *)
(***************************************************************************)
BeforeRun == {"setup", "session", "pid file"}

MainInRun ==
  /\ at["main"] \in InRun \cup BeforeRun
  /\ at["main"] \in BeforeRun \cup {"construct"} <=> object = "none"
  /\ at["main"] \in {"test", "next"} => running \/ at["handler"] # "idle"
  /\ running => object # "none"

HandlerDeletes ==
  /\ at["handler"] \in Deleting \cup {"idle", "done", "exit"}
  /\ at["handler"] = "idle" => object # "deleted" /\ ~serverDown /\ ~cqDown
  /\ object = "deleted" => at["handler"] \in {"clear pointer", "exit"}
  /\ at["handler"] = "clear pointer" => object = "deleted"

PointerSet ==
  /\ at["handler"] \in Deleting => server
  /\ object = "live" /\ ~server => at["main"] = "assign"
  /\ object = "live" /\ at["handler"] = "exit" => ~server
  /\ server => object # "none"

ProcessInv ==
  mode # "service" =>
    /\ MainInRun
    /\ HandlerDeletes
    /\ PointerSet
    /\ serviceState = "none"
    /\ process # "crashed"
    /\ process = "exited" => at["handler"] = "exit"

(* ProcessInv holds initially and in every step. *)
LEMMA ProcessInvariant == Spec => []ProcessInv
<1>1. Init => ProcessInv
  BY DEF Init, ProcessInv, MainInRun, HandlerDeletes, PointerSet, Thread, InRun,
     Deleting, BeforeRun
<1>2. TypeOK /\ ProcessInv /\ [Next]_vars => ProcessInv'
  <2>. SUFFICES ASSUME TypeOK, ProcessInv, [Next]_vars, mode' # "service"
                PROVE ProcessInv'
    BY DEF ProcessInv
  <2>0. mode # "service" /\ mode' = mode
    BY ModeKept
  <2>a. at \in [Thread -> Statement] /\ object \in {"none", "live", "deleted"}
    BY DEF TypeOK
  <2>. HIDE DEF TypeOK
  <2>. USE <2>0, <2>a DEF ProcessInv, MainInRun, HandlerDeletes, PointerSet,
           BeforeRun, Thread, Statement, InRun, Deleting,
           objectVars, callVars, serverVars, daemonVars, systemVars
  <2>1. CASE MainStep
    <3>1. at["handler"] = "idle" /\ process = "up"
      BY <2>1 DEF MainStep, ShowHelp, Setup, StartService, NoService, Fork,
         NewSession, ForkFails, SetPidFile, Construct, Assign, Spawn, Test, Serve,
         ServeCancelled, Assertion, Drained, Report, Return, Goto, Runs
    <3>2. CASE Setup
      BY <3>1, <3>2 DEF Setup, Goto
    <3>3. CASE Fork \/ NewSession \/ SetPidFile
      BY <3>1, <3>3 DEF Fork, NewSession, SetPidFile, Goto
    <3>4. CASE Construct
      BY <3>1, <3>4 DEF Construct, Goto
    <3>5. CASE Assign
      BY <3>1, <3>5 DEF Assign, Goto
    <3>6. CASE Spawn
      BY <3>1, <3>6 DEF Spawn, Goto
    <3>7. CASE Test
      <4>1. at' = [at EXCEPT !["main"] = "next"]
        BY <3>1, <3>7 DEF Test, Goto
      <4>. QED
        BY <3>1, <3>7, <4>1 DEF Test, Goto
    <3>8. CASE Serve
      BY <3>1, <3>8 DEF Serve, Goto
    <3>9. CASE ShowHelp \/ ForkFails \/ Assertion
      BY <3>1, <3>9 DEF ShowHelp, ForkFails, Assertion
    <3>10. CASE \/ StartService \/ NoService \/ ServeCancelled \/ Drained
                \/ Report \/ Return
      BY <3>1, <3>10 DEF StartService, NoService, ServeCancelled, Drained, Report,
         Return, Goto
    <3>. QED
      BY <2>1, <3>2, <3>3, <3>4, <3>5, <3>6, <3>7, <3>8, <3>9,
              <3>10 DEF MainStep
  <2>2. CASE DoneStep("main")
    <3>1. at["main"] \notin Deleting \cup {"done"}
      OBVIOUS
    <3>2. UseUnbuilt("main")
      BY <2>2, <3>1 DEF DoneStep, Done, ShutdownServer, ShutdownReturns,
         ShutdownCq, DeleteManager, FreeObject, ClearPointer, UseAfterDelete,
         Goto, Runs
    <3>. QED
      BY <3>2 DEF UseUnbuilt, Runs
  <2>3. CASE DoneStep("handler")
    <3>1. ~UseAfterDelete("handler")
      BY DEF UseAfterDelete
    <3>2. CASE Done("handler")
      BY <3>2 DEF Done, Goto, Runs, AfterDone
    <3>3. CASE \/ ShutdownServer("handler") \/ ShutdownReturns("handler")
               \/ ShutdownCq("handler") \/ DeleteManager("handler")
      BY <3>3 DEF ShutdownServer, ShutdownReturns, ShutdownCq, DeleteManager,
         Goto, Runs
    <3>4. CASE FreeObject("handler") \/ ClearPointer("handler")
      BY <3>4 DEF FreeObject, ClearPointer, Goto, Runs, AfterDone
    <3>5. CASE UseUnbuilt("handler")
      BY <3>5 DEF UseUnbuilt, Runs
    <3>. QED
      BY <2>3, <3>1, <3>2, <3>3, <3>4, <3>5 DEF DoneStep
  <2>4. CASE Exit
    BY <2>4 DEF Exit, Runs
  <2>5. CASE Interrupt
    BY <2>5 DEF Interrupt, Goto, Runs, StopEntry
  <2>6. CASE ServiceCtrlHandler
    BY <2>6 DEF ServiceCtrlHandler
  <2>7. CASE Complete \/ LauncherExits \/ UNCHANGED vars
    <3>1. UNCHANGED <<at, server, object, running, serverDown, cqDown, pidFile,
                     serviceState, process>>
      BY <2>7 DEF Complete, LauncherExits, vars
    <3>. QED
      BY <3>1
  <2>8. CASE Kill
    BY <2>8 DEF Kill
  <2>9. CASE Restart
    BY <2>9 DEF Restart, Begin
  <2>. QED
    BY <2>1, <2>2, <2>3, <2>4, <2>5, <2>6, <2>7, <2>8, <2>9 DEF Next
<1>. QED
  BY <1>1, <1>2, TypeCorrect, PTL DEF Spec

(***************************************************************************)
(* SIGINT, whenever it comes, never leaves a thread with a deleted server, *)
(* and the process exits with a live one only if it came before run()      *)
(* stored the pointer.                                                     *)
(***************************************************************************)
THEOREM StopsOrderly == Spec => [](NoUseAfterDelete /\ OrderlyExit)
<1>1. ProcessInv => NoUseAfterDelete /\ OrderlyExit
  BY DEF ProcessInv, MainInRun, HandlerDeletes, PointerSet, NoUseAfterDelete,
     OrderlyExit
<1>. QED
  BY <1>1, ProcessInvariant, PTL

(* The second half on its own: a server that serves is not left behind. *)
COROLLARY ExitsOrderly == Spec => []OrderlyExit
BY StopsOrderly, PTL

-----------------------------------------------------------------------------
(***************************************************************************)
(* Of a Windows service: its main thread reports STOPPED once run() and    *)
(* done() are over, when it or the control thread has deleted the server.  *)
(***************************************************************************)
ServiceInv ==
  /\ at["main"] \in {"setup", "start", "session", "pid file", "construct"}
       => object = "none"
  /\ object = "none"
       => at["main"] \in {"setup", "start", "session", "pid file", "construct",
                         "return"}
  /\ object = "live" /\ ~server => at["main"] = "assign"
  /\ server => object # "none"
  /\ at["main"] = "clear pointer" => object = "deleted"
  /\ at["handler"] = "clear pointer" => object = "deleted"
  /\ at["main"] \in Deleting => object # "none"
  /\ at["handler"] \in Deleting => object # "none"
  /\ at["main"] = "report" => object = "deleted"
  /\ at["handler"] # "report"
  /\ serviceState = "STOPPED" => object = "deleted" /\ at["main"] = "return"

(* ServiceInv holds initially and in every step. *)
LEMMA ServiceInvariant == Spec => []ServiceInv
<1>1. Init => ServiceInv
  BY DEF Init, ServiceInv, Thread, Deleting
<1>2. TypeOK /\ ServiceInv /\ [Next]_vars => ServiceInv'
  <2>. SUFFICES ASSUME TypeOK, ServiceInv, [Next]_vars PROVE ServiceInv'
    OBVIOUS
  <2>a. at \in [Thread -> Statement] /\ object \in {"none", "live", "deleted"}
    BY DEF TypeOK
  <2>. USE <2>a DEF ServiceInv, Thread, Deleting, Goto, objectVars,
           callVars, serverVars, daemonVars, systemVars
  <2>1. CASE \/ ShowHelp \/ Setup \/ StartService \/ NoService \/ Fork \/ NewSession
             \/ ForkFails \/ SetPidFile
    <3>1. UNCHANGED <<server, object>>
      BY <2>1 DEF ShowHelp, Setup, StartService, NoService, Fork, NewSession,
         ForkFails, SetPidFile
    <3>2. serviceState' = "STOPPED" => serviceState = "STOPPED"
      BY <2>1 DEF ShowHelp, Setup, StartService, NoService, Fork, NewSession,
         ForkFails, SetPidFile
    <3>3. \/ UNCHANGED at
          \/ /\ at["main"] \in {"setup", "start", "session", "pid file"}
             /\ \E to \in {"start", "session", "pid file", "construct", "return"} :
                  at' = [at EXCEPT !["main"] = to]
      <4>1. CASE ShowHelp \/ ForkFails
        BY <4>1 DEF ShowHelp, ForkFails
      <4>2. CASE Setup \/ StartService \/ NoService
        BY <4>2 DEF Setup, StartService, NoService
      <4>3. CASE Fork \/ NewSession \/ SetPidFile
        BY <4>3 DEF Fork, NewSession, SetPidFile
      <4>. QED
        BY <2>1, <4>1, <4>2, <4>3
    <3>. QED
      BY <3>1, <3>2, <3>3
  <2>2. CASE MainStep /\ ~Report /\ ~Return
    <3>1. CASE Construct
      BY <3>1 DEF Construct
    <3>2. CASE Assign
      BY <3>2 DEF Assign
    <3>3. CASE Spawn
      BY <3>3 DEF Spawn
    <3>4. CASE Test
      <4>1. at' = [at EXCEPT !["main"] = "next"] \/ at' = [at EXCEPT !["main"] = "done"]
        BY <3>4 DEF Test, AfterRun
      <4>. QED
        BY <3>4, <4>1 DEF Test
    <3>5. CASE Serve
      BY <3>5 DEF Serve
    <3>6. CASE ServeCancelled \/ Assertion
      BY <3>6 DEF ServeCancelled, Assertion
    <3>7. CASE Drained
      BY <3>7 DEF Drained, AfterRun
    <3>. QED
      BY <2>1, <2>2, <3>1, <3>2, <3>3, <3>4, <3>5, <3>6, <3>7 DEF MainStep
  <2>3. CASE Report \/ Return
    <3>1. CASE Report
      <4>1. /\ at["main"] = "report" /\ at' = [at EXCEPT !["main"] = "return"]
            /\ UNCHANGED <<server, object>>
        BY <3>1 DEF Report
      <4>. QED
        BY <4>1
    <3>2. CASE Return
      BY <3>2 DEF Return
    <3>. QED
      BY <2>3, <3>1, <3>2
  <2>4. ASSUME NEW t \in Thread, Done(t) PROVE ServiceInv'
    <3>1. CASE server /\ at' = [at EXCEPT ![t] = "shutdown server"]
      BY <2>4, <3>1 DEF Done
    <3>2. CASE ~server /\ at' = [at EXCEPT ![t] = AfterDone(t)]
      BY <2>4, <3>2 DEF Done, AfterDone
    <3>. QED
      BY <2>4, <3>1, <3>2 DEF Done
  <2>5. ASSUME NEW t \in Thread, DoneStep(t), ~Done(t) PROVE ServiceInv'
    <3>1. CASE \/ ShutdownServer(t) \/ ShutdownReturns(t) \/ ShutdownCq(t)
               \/ DeleteManager(t)
      <4>1. UNCHANGED <<server, object, serviceState>> /\ object = "live"
        BY <3>1 DEF ShutdownServer, ShutdownReturns, ShutdownCq, DeleteManager
      <4>2. \/ at[t] = "shutdown server" /\ at' = [at EXCEPT ![t] = "await calls"]
            \/ at[t] = "await calls" /\ at' = [at EXCEPT ![t] = "shutdown cq"]
            \/ at[t] = "shutdown cq" /\ at' = [at EXCEPT ![t] = "delete manager"]
            \/ at[t] = "delete manager" /\ at' = [at EXCEPT ![t] = "free object"]
        BY <3>1 DEF ShutdownServer, ShutdownReturns, ShutdownCq, DeleteManager
      <4>. QED
        BY <4>1, <4>2
    <3>2. CASE FreeObject(t)
      BY <3>2 DEF FreeObject
    <3>3. CASE ClearPointer(t)
      BY <3>3 DEF ClearPointer, AfterDone
    <3>4. CASE UseAfterDelete(t) \/ UseUnbuilt(t)
      BY <3>4 DEF UseAfterDelete, UseUnbuilt
    <3>. QED
      BY <2>5, <3>1, <3>2, <3>3, <3>4 DEF DoneStep
  <2>6. CASE Exit \/ Interrupt \/ ServiceCtrlHandler \/ Complete
    <3>1. UNCHANGED <<server, object>>
      BY <2>6 DEF Exit, Interrupt, ServiceCtrlHandler, Complete
    <3>2. serviceState' = "STOPPED" => serviceState = "STOPPED"
      BY <2>6 DEF Exit, Interrupt, ServiceCtrlHandler, Complete
    <3>3. UNCHANGED at \/ at' = [at EXCEPT !["handler"] = "done"]
      BY <2>6 DEF Exit, Interrupt, ServiceCtrlHandler, Complete, StopEntry
    <3>. QED
      BY <3>1, <3>2, <3>3
  <2>7. CASE LauncherExits \/ Kill \/ UNCHANGED vars
    <3>1. UNCHANGED <<at, server, object, serviceState>>
      BY <2>7 DEF LauncherExits, Kill, vars
    <3>. QED
      BY <3>1
  <2>8. CASE Restart
    BY <2>8 DEF Restart, Begin
  <2>. QED
    BY <2>1, <2>2, <2>3, <2>4, <2>5, <2>6, <2>7, <2>8 DEF Next, MainStep
<1>. QED
  BY <1>1, <1>2, TypeCorrect, PTL DEF Spec

(* SERVICE_STOPPED is reported only when the server is gone. *)
THEOREM StoppedIsGone == Spec => []StoppedMeansGone
<1>1. ServiceInv => StoppedMeansGone
  BY DEF ServiceInv, StoppedMeansGone, InRun
<1>. QED
  BY <1>1, ServiceInvariant, PTL
-----------------------------------------------------------------------------
(***************************************************************************)
(* When the port is open, and who closes it: the event loop is entered     *)
(* only by a server that listens and left only by one that was shut down,  *)
(* and a server is shut down first by a stop request.                      *)
(***************************************************************************)
Unbuilt == {"setup", "start", "session", "pid file", "construct"}

PortInv ==
  /\ at["main"] \in Unbuilt => ~listening
  /\ at["main"] \in {"test", "next", "done", "report"} \cup Deleting => listening
  /\ serverDown => listening /\ at["handler"] # "idle"
  /\ object = "deleted" => serverDown
  /\ cqDown => serverDown
  /\ at["main"] \in {"done", "report"} \cup Deleting => serverDown
  /\ at["main"] \in {"test", "next"} /\ ~running => serverDown
  /\ at["handler"] \in Deleting \ {"shutdown server"} => serverDown
  /\ at["main"] = "return" => serverDown \/ (mode = "service" /\ ~listening)

LEMMA PortInvariant == Spec => []PortInv
<1>1. Init => PortInv
  BY DEF Init, PortInv, Thread, Unbuilt, Deleting
<1>2. TypeOK /\ PortInv /\ [Next]_vars => PortInv'
  <2>. SUFFICES ASSUME TypeOK, PortInv, [Next]_vars PROVE PortInv'
    OBVIOUS
  <2>a. at \in [Thread -> Statement]
    BY DEF TypeOK
  <2>b. mode' = mode
    BY ModeKept
  <2>. HIDE DEF TypeOK
  <2>. USE <2>a, <2>b DEF PortInv, Unbuilt, Thread, Deleting, Goto, objectVars,
           callVars, serverVars, daemonVars, systemVars
  <2>1. CASE \/ ShowHelp \/ Setup \/ StartService \/ NoService \/ Fork \/ NewSession
             \/ ForkFails \/ SetPidFile
    <3>1. UNCHANGED <<object, listening, running, serverDown, cqDown>>
      BY <2>1 DEF ShowHelp, Setup, StartService, NoService, Fork, NewSession,
         ForkFails, SetPidFile
    <3>2. \/ UNCHANGED at
          \/ /\ at["main"] \in {"setup", "start", "session", "pid file"}
             /\ \E to \in {"start", "session", "pid file", "construct"} :
                  at' = [at EXCEPT !["main"] = to]
          \/ /\ at["main"] = "setup" /\ mode = "service"
             /\ at' = [at EXCEPT !["main"] = "return"]
      <4>1. CASE ShowHelp \/ ForkFails
        BY <4>1 DEF ShowHelp, ForkFails
      <4>2. CASE Setup \/ StartService \/ NoService
        BY <4>2 DEF Setup, StartService, NoService
      <4>3. CASE Fork \/ NewSession \/ SetPidFile
        BY <4>3 DEF Fork, NewSession, SetPidFile
      <4>. QED
        BY <2>1, <4>1, <4>2, <4>3
    <3>. QED
      BY <3>1, <3>2
  <2>2. CASE Construct \/ Assign \/ Spawn
    <3>1. CASE Construct
      BY <3>1 DEF Construct
    <3>2. CASE Assign
      BY <3>2 DEF Assign
    <3>3. CASE Spawn
      BY <3>3 DEF Spawn
    <3>. QED
      BY <2>2, <3>1, <3>2, <3>3
  <2>3. CASE Test
    <3>1. CASE running
      <4>1. at' = [at EXCEPT !["main"] = "next"]
        BY <2>3, <3>1 DEF Test
      <4>. QED
        BY <2>3, <4>1 DEF Test
    <3>2. CASE ~running
      <4>1. at' = [at EXCEPT !["main"] = "done"]
        BY <2>3, <3>2 DEF Test, AfterRun
      <4>. QED
        BY <2>3, <3>2, <4>1 DEF Test
    <3>. QED
      BY <3>1, <3>2
  <2>4. CASE Serve \/ Drained \/ Report
    <3>1. CASE Serve
      BY <3>1 DEF Serve
    <3>2. CASE Drained
      BY <3>2 DEF Drained, AfterRun
    <3>3. CASE Report
      BY <3>3 DEF Report
    <3>. QED
      BY <2>4, <3>1, <3>2, <3>3
  <2>5. CASE \/ ServeCancelled \/ Assertion \/ Return \/ Exit \/ Complete
             \/ LauncherExits \/ Kill \/ UNCHANGED vars
    <3>1. UNCHANGED <<at, object, listening, running, serverDown, cqDown>>
      BY <2>5 DEF ServeCancelled, Assertion, Return, Exit, Complete,
         LauncherExits, Kill, vars
    <3>. QED
      BY <3>1
  <2>6. ASSUME NEW t \in Thread, DoneStep(t) PROVE PortInv'
    <3>1. CASE Done(t)
      <4>1. CASE server /\ at' = [at EXCEPT ![t] = "shutdown server"]
        BY <3>1, <4>1 DEF Done
      <4>2. CASE ~server /\ at' = [at EXCEPT ![t] = AfterDone(t)]
        BY <3>1, <4>2 DEF Done, AfterDone
      <4>. QED
        BY <3>1, <4>1, <4>2 DEF Done
    <3>2. CASE ShutdownServer(t)
      BY <3>2 DEF ShutdownServer
    <3>3. CASE ShutdownReturns(t)
      BY <3>3 DEF ShutdownReturns
    <3>4. CASE ShutdownCq(t)
      BY <3>4 DEF ShutdownCq
    <3>5. CASE DeleteManager(t)
      BY <3>5 DEF DeleteManager
    <3>6. CASE FreeObject(t)
      BY <3>6 DEF FreeObject
    <3>7. CASE ClearPointer(t)
      BY <3>7 DEF ClearPointer, AfterDone
    <3>8. CASE UseAfterDelete(t) \/ UseUnbuilt(t)
      <4>1. UNCHANGED <<at, object, listening, running, serverDown, cqDown>>
        BY <3>8 DEF UseAfterDelete, UseUnbuilt
      <4>. QED
        BY <4>1
    <3>. QED
      BY <2>6, <3>1, <3>2, <3>3, <3>4, <3>5, <3>6, <3>7, <3>8 DEF DoneStep
  <2>7. CASE Interrupt \/ ServiceCtrlHandler
    <3>1. /\ UNCHANGED <<object, listening, running, serverDown, cqDown>>
          /\ at["handler"] = "idle" /\ at' = [at EXCEPT !["handler"] = "done"]
      BY <2>7 DEF Interrupt, ServiceCtrlHandler, StopEntry
    <3>. QED
      BY <3>1
  <2>8. CASE Restart
    BY <2>8 DEF Restart, Begin
  <2>. QED
    BY <2>1, <2>2, <2>3, <2>4, <2>5, <2>6, <2>7, <2>8 DEF Next, MainStep
<1>. QED
  BY <1>1, <1>2, TypeCorrect, PTL DEF Spec

(* What every step does of a stop request that waits in Shutdown() *)
WaitsOn == mode # "service" /\ Stuck => Stuck' \/ process' # "up"

(***************************************************************************)
(* Unless the process is a Windows service, a stop request that waits in   *)
(* Shutdown() for calls in progress waits until the process is killed: the *)
(* handler has suspended the thread that would take their completions.     *)
(***************************************************************************)
THEOREM StuckForGood == Spec => [][WaitsOn]_vars
<1>1. PortInv /\ [Next]_vars => [WaitsOn]_vars
  <2>. SUFFICES ASSUME PortInv, [Next]_vars, mode # "service", Stuck
                PROVE  Stuck' \/ process' # "up"
    BY DEF WaitsOn
  <2>. USE DEF Stuck, Runs, Goto
  <2>1. CASE MainStep
    BY <2>1 DEF MainStep, ShowHelp, Setup, StartService, NoService, Fork,
       NewSession, ForkFails, SetPidFile, Construct, Assign, Spawn, Test, Serve,
       ServeCancelled, Assertion, Drained, Report, Return
  <2>2. ASSUME NEW t \in Thread, DoneStep(t) PROVE Stuck' \/ process' # "up"
    <3>1. CASE t = "main"
      BY <2>2, <3>1 DEF DoneStep, Done, ShutdownServer, ShutdownReturns,
         ShutdownCq, DeleteManager, FreeObject, ClearPointer, UseAfterDelete,
         UseUnbuilt
    <3>2. CASE t = "handler"
      <4>1. ~ShutdownReturns(t)
        BY DEF ShutdownReturns
      <4>2. UseAfterDelete(t)
        BY <2>2, <3>2, <4>1 DEF DoneStep, Done, ShutdownServer, ShutdownCq,
           DeleteManager, FreeObject, ClearPointer, UseUnbuilt
      <4>. QED
        BY <4>2 DEF UseAfterDelete
    <3>. QED
      BY <3>1, <3>2 DEF Thread
  <2>3. CASE Exit \/ Interrupt \/ ServiceCtrlHandler \/ Kill \/ Restart
    BY <2>3 DEF Exit, Interrupt, ServiceCtrlHandler, Kill, Restart
  <2>4. CASE Complete
    <3>1. serverDown
      BY DEF PortInv, Deleting
    <3>. QED
      BY <2>4, <3>1 DEF Complete, systemVars
  <2>5. CASE LauncherExits \/ UNCHANGED vars
    BY <2>5 DEF LauncherExits, vars, serverVars, callVars, systemVars
  <2>. QED
    BY <2>1, <2>2, <2>3, <2>4, <2>5 DEF Next
<1>. QED
  BY <1>1, PortInvariant, PTL DEF Spec

(* What a Windows service has reported at the points where it reports again *)
ReportInv ==
  /\ at["main"] = "setup" => serviceState = "none"
  /\ at["main"] = "start" => serviceState = "START_PENDING"
  /\ mode = "service" /\ at["handler"] # "idle"
       => serviceState \in {"STOP_PENDING", "STOPPED"}

LEMMA ReportInvariant == Spec => []ReportInv
<1>1. Init => ReportInv
  BY DEF Init, ReportInv, Thread
<1>2. TypeOK /\ PortInv /\ ReportInv /\ [Next]_vars => ReportInv'
  <2>. SUFFICES ASSUME TypeOK, PortInv, ReportInv, [Next]_vars PROVE ReportInv'
    OBVIOUS
  <2>a. at \in [Thread -> Statement]
    BY DEF TypeOK
  <2>b. mode' = mode
    BY ModeKept
  <2>. HIDE DEF TypeOK
  <2>. USE <2>a, <2>b DEF ReportInv, Thread, Goto, systemVars
  <2>1. CASE StartService
    BY <2>1 DEF StartService
  <2>2. CASE MainStep /\ ~StartService /\ ~Report
    <3>1. UNCHANGED serviceState
      BY <2>2 DEF MainStep, ShowHelp, Setup, NoService, Fork, NewSession,
         ForkFails, SetPidFile, Construct, Assign, Spawn, Test, Serve,
         ServeCancelled, Assertion, Drained, Return
    <3>2. \/ UNCHANGED at
          \/ \E to \in {"session", "pid file", "construct", "assign", "spawn",
                        "test", "next", "done", "return"} :
               at' = [at EXCEPT !["main"] = to]
      <4>1. CASE ShowHelp \/ ForkFails \/ ServeCancelled \/ Assertion \/ Return
        BY <4>1 DEF ShowHelp, ForkFails, ServeCancelled, Assertion, Return
      <4>2. CASE Setup \/ NoService \/ Fork \/ NewSession \/ SetPidFile
        BY <4>2 DEF Setup, NoService, Fork, NewSession, SetPidFile
      <4>3. CASE Construct \/ Assign \/ Spawn \/ Serve
        BY <4>3 DEF Construct, Assign, Spawn, Serve
      <4>4. CASE Test \/ Drained
        BY <4>4 DEF Test, Drained, AfterRun
      <4>. QED
        BY <2>2, <4>1, <4>2, <4>3, <4>4 DEF MainStep
    <3>. QED
      BY <3>1, <3>2
  <2>3. CASE Report
    BY <2>3 DEF Report, PortInv
  <2>4. ASSUME NEW t \in Thread, DoneStep(t) PROVE ReportInv'
    <3>1. UNCHANGED serviceState
      BY <2>4 DEF DoneStep, Done, ShutdownServer, ShutdownReturns, ShutdownCq,
         DeleteManager, FreeObject, ClearPointer, UseAfterDelete, UseUnbuilt
    <3>2. \/ UNCHANGED at
          \/ /\ at[t] \in Deleting \cup {"done"}
             /\ \E to \in Deleting \cup {"report", "exit"} : at' = [at EXCEPT ![t] = to]
      BY <2>4 DEF DoneStep, Done, ShutdownServer, ShutdownReturns, ShutdownCq,
         DeleteManager, FreeObject, ClearPointer, UseAfterDelete, UseUnbuilt,
         AfterDone, Deleting
    <3>. QED
      BY <3>1, <3>2 DEF Deleting
  <2>5. CASE Interrupt
    BY <2>5 DEF Interrupt
  <2>6. CASE ServiceCtrlHandler
    BY <2>6 DEF ServiceCtrlHandler, StopEntry
  <2>7. CASE Exit \/ Complete \/ LauncherExits \/ Kill \/ UNCHANGED vars
    <3>1. UNCHANGED <<at, serviceState>>
      BY <2>7 DEF Exit, Complete, LauncherExits, Kill, vars
    <3>. QED
      BY <3>1
  <2>8. CASE Restart
    BY <2>8 DEF Restart, Begin
  <2>. QED
    BY <2>1, <2>2, <2>3, <2>4, <2>5, <2>6, <2>7, <2>8 DEF Next, MainStep
<1>. QED
  BY <1>1, <1>2, TypeCorrect, PortInvariant, PTL DEF Spec
-----------------------------------------------------------------------------
(* The refinement of ServerLife *)

LEMMA PortIs ==
  /\ ~listening => Port = "closed"
  /\ listening /\ ~serverDown => Port = "open"
  /\ listening /\ serverDown => Port = "closing"
BY DEF Port

LEMMA PortBecomes ==
  /\ ~listening' => Port' = "closed"
  /\ listening' /\ ~serverDown' => Port' = "open"
  /\ listening' /\ serverDown' => Port' = "closing"
BY DEF Port

LEMMA PortStays ==
  ASSUME UNCHANGED <<listening, serverDown>> PROVE Port' = Port
BY DEF Port

(* Steps that change neither the port, nor what is asked or reported *)
LEMMA Unnoticed ==
  ASSUME UNCHANGED <<mode, listening, serverDown, serviceState, process>>,
         at'["handler"] # "idle" <=> at["handler"] # "idle"
  PROVE  UNCHANGED Life!lifeVars
BY PortStays DEF Life!lifeVars

(* The ways in which a process ends *)
LEMMA EndsAsAllowed ==
  ASSUME PortInv, process = "up",
         UNCHANGED <<at, mode, listening, serverDown, serviceState>>,
         \/ /\ process' = "exited"
            /\ at["handler"] # "idle" \/ (mode = "service" /\ ~listening)
         \/ process' \in {"failed", "unbuilt"} /\ ~listening
         \/ process' = "aborted" /\ listening
         \/ process' = "crashed" /\ mode = "service" /\ serverDown
         \/ process' \in {"terminated", "killed"}
  PROVE  Life!Next
<1>1. Port' = Port
  BY PortStays
<1>2. /\ ~listening => Port = "closed"
      /\ listening => Port # "closed"
      /\ serverDown => Port = "closing" /\ at["handler"] # "idle"
  BY PortIs DEF PortInv
<1>3. Life!End
  BY <1>1, <1>2 DEF Life!End
<1>. QED
  BY <1>3 DEF Life!Next

(* A statement of done() that moves thread t on is not a new stop request. *)
LEMMA MovesOn ==
  ASSUME at \in [Thread -> Statement], NEW t \in Thread, NEW to,
         at[t] # "idle", to # "idle", at' = [at EXCEPT ![t] = to]
  PROVE  at'["handler"] # "idle" <=> at["handler"] # "idle"
BY DEF Thread

(***************************************************************************)
(* Every step of the threads is one that the system around the process may *)
(* expect, or one that it does not see.                                    *)
(***************************************************************************)
LEMMA StepAllowed ==
  ASSUME TypeOK, PortInv, ReportInv, ProcessInv, ProcessInv', [Next]_vars
  PROVE  [Life!Next]_(Life!lifeVars)
<1>a. at \in [Thread -> Statement] /\ "main" \in Thread /\ "handler" \in Thread
  BY DEF TypeOK, Thread
<1>b. mode' = mode
  BY ModeKept
<1>c. /\ mode # "service" => serviceState = "none"
      /\ mode # "service" => process # "crashed" /\ process' # "crashed"
  BY <1>b DEF ProcessInv
<1>. HIDE DEF TypeOK, ProcessInv
<1>. USE <1>a, <1>b DEF objectVars, callVars, serverVars, daemonVars, systemVars
<1>1. CASE ShowHelp \/ ForkFails
  <2>1. at["main"] \in Unbuilt
    BY <1>1 DEF ShowHelp, ForkFails, Unbuilt
  <2>2. Life!Next
    BY <1>1, <2>1, EndsAsAllowed DEF ShowHelp, ForkFails, Runs, PortInv
  <2>. QED
    BY <2>2
<1>2. CASE Setup \/ NoService \/ Fork \/ NewSession \/ SetPidFile
  BY <1>2, Unnoticed DEF Setup, NoService, Fork, NewSession, SetPidFile, Goto
<1>3. CASE StartService
  <2>1. ~listening /\ UNCHANGED <<listening, serverDown>> /\ process = "up"
    BY <1>3 DEF StartService, Goto, Runs, PortInv, Unbuilt
  <2>2. Port = "closed" /\ Port' = Port
    BY <2>1, PortIs, PortStays
  <2>3. Life!Report
    BY <1>3, <2>1, <2>2 DEF Life!Report, StartService, Goto, ReportInv
  <2>. QED
    BY <2>3 DEF Life!Next
<1>4. CASE Construct
  <2>1. /\ process = "up" /\ ~listening /\ ~serverDown /\ ~serverDown'
        /\ listening' \in BOOLEAN
        /\ at'["handler"] = at["handler"]
        /\ UNCHANGED <<mode, serviceState, process>>
    BY <1>4 DEF Construct, Goto, Runs, PortInv, Unbuilt
  <2>2. CASE listening'
    <3>1. Life!Open
      BY <2>1, <2>2, PortIs, PortBecomes DEF Life!Open
    <3>. QED
      BY <3>1 DEF Life!Next
  <2>3. CASE ~listening'
    BY <2>1, <2>3, PortIs, PortBecomes DEF Life!lifeVars
  <2>. QED
    BY <2>2, <2>3
<1>5. CASE Assign \/ Spawn \/ Test \/ Serve \/ Drained
  BY <1>5, Unnoticed DEF Assign, Spawn, Test, Serve, Drained, Goto
<1>6. CASE ServeCancelled \/ Assertion
  BY <1>6, <1>c, EndsAsAllowed DEF ServeCancelled, Assertion, Runs, PortInv
<1>7. CASE Report
  <2>1. /\ serverDown /\ listening /\ at["handler"] # "idle"
        /\ process = "up" /\ at'["handler"] = at["handler"]
        /\ UNCHANGED <<mode, listening, serverDown, process>>
    BY <1>7 DEF Report, Goto, Runs, PortInv
  <2>2. Port = "closing" /\ Port' = Port
    BY <2>1, PortIs, PortStays
  <2>3. CASE mode = "service"
    <3>1. serviceState' = "STOPPED" /\ serviceState \in {"STOP_PENDING",
         "STOPPED"}
      BY <1>7, <2>1, <2>3 DEF Report, ReportInv
    <3>2. CASE serviceState = "STOPPED"
      BY <2>1, <2>2, <3>1, <3>2 DEF Life!lifeVars
    <3>3. CASE serviceState = "STOP_PENDING"
      <4>1. Life!Report
        BY <2>1, <2>2, <2>3, <3>1, <3>3 DEF Life!Report
      <4>. QED
        BY <4>1 DEF Life!Next
    <3>. QED
      BY <3>1, <3>2, <3>3
  <2>4. CASE mode # "service"
    BY <1>7, <2>1, <2>4, Unnoticed DEF Report
  <2>. QED
    BY <2>3, <2>4
<1>8. CASE Return \/ Exit
  BY <1>8, EndsAsAllowed DEF Return, Exit, Runs, PortInv
<1>9. ASSUME NEW t \in Thread, DoneStep(t) PROVE [Life!Next]_(Life!lifeVars)
  <2>1. CASE \/ Done(t) \/ ShutdownReturns(t) \/ ShutdownCq(t)
             \/ DeleteManager(t) \/ FreeObject(t) \/ ClearPointer(t)
    <3>1. UNCHANGED <<mode, listening, serverDown, serviceState, process>>
      BY <2>1 DEF Done, ShutdownReturns, ShutdownCq, DeleteManager, FreeObject,
         ClearPointer
    <3>2. at[t] # "idle" /\ \E to : to # "idle" /\ at' = [at EXCEPT ![t] = to]
      BY <2>1 DEF Done, ShutdownReturns, ShutdownCq, DeleteManager, FreeObject,
         ClearPointer, Goto, AfterDone
    <3>. QED
      BY <3>1, <3>2, MovesOn, Unnoticed
  <2>2. CASE ShutdownServer(t)
    <3>1. /\ process = "up" /\ listening /\ listening' /\ serverDown'
          /\ UNCHANGED <<mode, serviceState, process>>
          /\ at[t] = "shutdown server" /\ at' = [at EXCEPT ![t] = "await calls"]
      BY <2>2 DEF ShutdownServer, Goto, Runs
    <3>2. at'["handler"] # "idle" <=> at["handler"] # "idle"
      BY <3>1, MovesOn
    <3>3. CASE serverDown
      BY <3>1, <3>2, <3>3, PortIs, PortBecomes DEF Life!lifeVars
    <3>4. CASE ~serverDown
      <4>1. at["handler"] # "idle"
        BY <3>1, <3>4 DEF PortInv, Deleting, Thread
      <4>2. Life!Close
        BY <3>1, <3>2, <3>4, <4>1, PortIs, PortBecomes DEF Life!Close
      <4>. QED
        BY <4>2 DEF Life!Next
    <3>. QED
      BY <3>3, <3>4
  <2>3. CASE UseAfterDelete(t)
    BY <2>3, <1>c, EndsAsAllowed DEF UseAfterDelete, Runs, PortInv
  <2>4. CASE UseUnbuilt(t)
    BY <2>4, EndsAsAllowed DEF UseUnbuilt, Runs
  <2>. QED
    BY <1>9, <2>1, <2>2, <2>3, <2>4 DEF DoneStep
<1>10. CASE Interrupt \/ ServiceCtrlHandler
  <2>1. /\ process = "up"
        /\ at["handler"] = "idle" /\ at'["handler"] = "done"
        /\ UNCHANGED <<listening, serverDown, process>>
    BY <1>10 DEF Interrupt, ServiceCtrlHandler, StopEntry, Goto, Runs
  <2>2. Life!Ask
    BY <1>10, <1>c, <2>1, PortStays DEF Life!Ask, Interrupt, ServiceCtrlHandler
  <2>. QED
    BY <2>2 DEF Life!Next
<1>11. CASE Complete \/ LauncherExits \/ UNCHANGED vars
  BY <1>11, Unnoticed DEF Complete, LauncherExits, vars
<1>12. CASE Kill
  BY <1>12, EndsAsAllowed DEF Kill
<1>13. CASE Restart
  <2>1. /\ mode = "daemon" /\ process \in {"killed", "aborted", "unbuilt"} /\ process' = "up"
        /\ ~listening' /\ at'["handler"] = "idle" /\ serviceState' = serviceState
    BY <1>13, <1>c DEF Restart, Begin, Thread
  <2>2. Life!Again
    BY <2>1, PortBecomes DEF Life!Again
  <2>. QED
    BY <2>2 DEF Life!Next
<1>. QED
  BY <1>1, <1>2, <1>3, <1>4, <1>5, <1>6, <1>7, <1>8, <1>9, <1>10, <1>11, <1>12,
          <1>13
     DEF Next, MainStep

(***************************************************************************)
(* What a launcher, a user and the service manager of Windows may rely on: *)
(* the two threads, interleaved as they may be, implement ServerLife.      *)
(***************************************************************************)
THEOREM ServerLifeImplemented == Spec => ImplementsServerLife
<1>1. Init => Life!Init
  <2>. SUFFICES ASSUME Init PROVE Life!Init
    OBVIOUS
  <2>1. mode \in {"foreground", "console", "daemon", "service"}
    BY DEF Init, Mode
  <2>. QED
    BY <2>1, PortIs DEF Init, Life!Init, Thread
<1>. QED
  BY <1>1, StepAllowed, TypeCorrect, PortInvariant, ReportInvariant,
     ProcessInvariant, PTL DEF Spec, ImplementsServerLife, Life!Spec
=============================================================================
