# Specification of pc2sms

`pc2sms` is a gRPC server that takes SMS from programs on a PC and hands them to
Android phones, which send them.  `send-sms` is its command line client.  This
directory holds TLA+ modules that model both, the TLC runs that check them and
TLAPS proofs about them.  Paths below are relative to the repository.

## Inventory

| part | state | operations | what makes it correct |
|---|---|---|---|
| registry of phones `sms-listener.cpp` (`ListenSMS`) | vector of `ListenData*`, `lastResponder`, policy | `put`, `rm`, `enqueue` | holds exactly the live listeners; the choice is fair |
| stream handler `service-raw.cpp` 262-361 (`ListenData`) | `status`, `new_responder_created`, queue `result`, the call behind `ctx` | `Proceed` on every completion, `enqueue`, `writeNext`, `wakeUp` | writes in order, one at a time; finishes only for a phone that is gone; deleted once, after its last completion |
| queue of waiting SMS 363-452 (`QueuingMgr`) | vector `result` | `enqueue`, `wakeUp`, `Proceed`, `smsCountReady2Send`, `firstSmsCountReady2Send` | no SMS stuck, doubled or dropped |
| unary handlers 110-260 (`RequestToSendData`, `CountSMSToSendData`, `LastSMSToSendData`) | `status`, `new_responder_created`, the answer | `Proceed` | one waiting per method at any time; answers each call once; a refused caller leaves no trace |
| event loop 29-114 (`SMSServiceImpl`) | completion queue `cq`, `server`, `running` | `start`, `run`, `stop` | no completion reaches a deleted object; stops cleanly |
| life cycle `pc2sms.cpp`, `daemonize.cpp`, `systemd/` | global `server`, signal handlers, pid file, service state | `main`, two forks, `setPidFile`, SIGINT, service control, `stop`, `done`, restart by systemd | a stop is safe at every point of the loop and ends the process; the service state tells the truth; the pid file is there when it is read |
| configuration `pc2sms-config.cpp`, `send-sms-config.cpp`, `config-filename.cpp` | none; reads five lines of the first file it finds | search, parse | a server and a client that read one file agree on what it says |
| client `send-sms.cpp` | options, the channel, what it printed | send, count, listen, SIGINT | ends; what it prints tells the outcome (its exit status is 0 once a call was made) |
| errors `errlist.cpp` | two tables | `strerror_sms` | a code finds its text |
| helpers `utilstring.cpp`, `file-helper.cpp` | none | strings, directories, URL | pure functions |

How they interact: everything in the server happens in one thread.  `run()` takes a
completion from `cq` and calls `Proceed()` on the object whose address is the tag.
`requestToSend` appends an SMS to `QueuingMgr` and sets an alarm with `QueuingMgr`
as the tag.  When that alarm comes out of `cq`, the manager hands its whole batch
to the registry, which picks one listener (round robin) or all of them (`all`),
copies the SMS into their queues and sets an alarm for those that are not writing.
A listener writes one SMS per completion it gets.  When a phone calls, the
`ListenData` that was waiting creates its successor, whose constructor wakes the
manager if SMS wait, and registers itself.

What is hard: completions carry no type and nobody reads their success flag, so
`ListenData::Proceed` has to guess from `status` whether a completion is an alarm,
a finished Write or a hang-up; objects delete themselves while gRPC and the
registry hold their address; wake-ups are set and consumed by different handlers;
phones come and go at any moment; the server keeps its queue in memory only, and
systemd starts it again after an abort; the stop request comes on top of the event
loop, or beside it on another thread.  `PROJECT.json` lists these as hazards, each
with the properties that watch it.

## Modules

* `ListenSMS` - the registry: `Put`, `Rm`, `Choose`, `Recipients`.  A `ListenData`
  is named by its heap address, since that is what the registry stores, compares
  and keeps in `lastResponder` after the object is gone.  The policy is a variable
  that never changes, so that one run covers both.
* `SmsService` (EXTENDS `ListenSMS`) - `ListenData`, `QueuingMgr` and the two unary
  calls that move SMS.  One action per path through a handler:

  | code | action |
  |---|---|
  | `RequestToSendData::Proceed`, PROCESS, allowed | `RequestToSend` |
  | `LastSMSToSendData::Proceed`, PROCESS, allowed | `LastSMSToSend` |
  | `QueuingMgr::Proceed`, `ListenSMS::enqueue`, `ListenData::enqueue` | `NotifyListeners` |
  | `ListenData::Proceed`, LISTEN_COMMAND, first time, with the successor's CREATE | `AcceptListener` |
  | LISTEN_COMMAND, nothing to write | `FinishStream` |
  | LISTEN_COMMAND or LISTEN_COMMAND_SENT, `writeNext()` writes | `WriteNext` |
  | LISTEN_COMMAND_SENT, nothing to write | `StopWriting` |
  | FINISH | `DeleteThis` |
  | a completion for a deleted object, a Write or Finish without a call, a Write during a Write | `FaultFreed`, `FaultNoCall`, `FaultOverlap` |
  | gRPC ends the stream, done tag | `HangUp` |

  `events[a][k]` counts the completions of kind `k` that carry address `a` and are
  still to be delivered.  The kinds exist for gRPC's side only: `Proceed(a, k)`
  branches on `status`, never on `k`, except that a call is bound to the object by
  its "request".  They are delivered in any order.  A completion survives the
  object it names and reaches whatever lives at the address then.  Memory of a
  deleted object may be handed out by any later `new`.
* `SmsServiceFifo` (EXTENDS `SmsService`) - puts the completion queue in place:
  alarms are posted by the call that sets them, in the order in which `enqueue()`
  goes through the vector (`Alarms`), other operations post when they end
  (`Complete`), and `Take` delivers the oldest completion.
* `SmsRelay` - the abstract specification: SMS are queued, handed to one connected
  phone or to all, sent in order, and a phone is dropped only with nothing left to
  send to it.  No completion or object occurs in it.  `SmsService` implements it
  with `waiting <- mgrResult`, `outbox <- result`, `sent <- written`,
  `connected <- Registered` and `toAll <- NotifyAll`: acceptance, hang-up and the
  alarms are steps of the implementation that the relay does not see.
* `RoundRobin` (EXTENDS `ListenSMS`) - the registry under phones that join and
  leave, with history of who was chosen while whom waited: what `NP_ROUND_ROBIN`
  promises, apart from the event loop.
* `SmsTurns` (EXTENDS `SmsServiceFifo`) - the event loop with that history recorded
  beside it (`Record`, which changes nothing else): a step that registers a listener
  is a `Join`, one that removes it a `Leave`, and a batch that `QueuingMgr` hands out
  an `Enqueue`; all others are stutters.  So it implements `RoundRobin`.
* `UnaryCalls` - the three calls with one answer, from the request to the deletion
  of the handler object, with credentials, connections that break at any moment and
  a server that aborts and starts again with an empty queue.  A phone is one step,
  `HandOver`; `SmsService` follows the SMS on to it.

  | code | action |
  |---|---|
  | a stub of a client calls | `MakeCall` |
  | `Proceed()`, PROCESS, of the three handlers: credentials, queue, successor, `Finish` | `Process` |
  | `Proceed()`, FINISH | `Release` |
  | `QueuingMgr::Proceed()` with a phone connected | `HandOver` |
  | the answer arrives, or the connection breaks | `Receive`, `Break` |
  | an assertion ends the process, `run()` of the next one | `Abort`, `Restart` |

  A request may be lost with the connection before its handler is bound to it, since
  gRPC may drop a pending call that is cancelled.

* `SmsQueue` - the abstract specification of those calls: between a call and its
  answer there is one moment at which it takes effect on a queue of SMS, with the
  method and the credentials the program chose, and once at most; the program learns
  that effect or nothing.  SMS leave the queue for a program or for the phones, and are
  lost in one step only, the one that ends the server.  Messages, handler objects,
  connections and files are not in it.  `SendSms` implements it with `asked <- Asked`, computed from the options and
  the file of the caller, `effect <- answer` and `seen <- call`.
* `ServiceConfig` - the configuration file: where it is searched for on either
  platform, and what its lines mean to the server and to the client.  A file that is
  missing differs from an empty one, which hides the files behind it.  The fourth
  line selects a policy for all listeners, the fifth the daemon; the search for the
  letters `a` and `d` in them is kept, so a fourth line "daemonize" selects `all`.
* `ErrList` - the tables of `errlist.cpp`, `strerror_sms()` with the code's bounds,
  the pairing of codes and texts in `errlist.h`, and what a parent sees of an exit
  status.
* `SendSms` (EXTENDS `UnaryCalls`, `ServiceConfig`, `ErrList`) - the clients composed
  with the server: `Init` chooses the files both sides find and what the one in `/etc`
  holds (`Contents`, any set of files for the proofs); each client parses its
  options (`ShowHelp`, `ParseCmd`), reads stdin (`ReadStdin`), calls (`Run`), waits
  (`Answered`, `Failed`), listens until the stream breaks or the server ends it
  (`StreamEnds`), prints and exits (`Report`), and may
  be interrupted anywhere (`Interrupt`).  `send-sms` never calls `lastSMSToSend`, so
  another program does (`OtherProgram`).
* `Lifecycle` (EXTENDS `ServiceConfig`) - a `pc2sms` process, statement by statement,
  for the two threads that use the server object.  `mode` follows from platform,
  configuration and options: in the foreground the "handler" is the SIGINT handler,
  which suspends the main thread; as a Windows service it is `ServiceCtrlHandler` on
  the dispatcher's thread, beside `ServiceMain`; a daemon and a Windows console have
  none and are killed (`Kill`).  The daemon's two forks (`Fork`, `NewSession`,
  `ForkFails`), the exit of its launcher and the pid file are steps of their own, and
  `Restart` is systemd's, after any end that `Restart=on-abort` takes for an unclean
  one: `Kill` so tells SIGTERM from SIGKILL.  `SetPidFile` may fail, and nobody looks.
  `calls` counts the calls in progress: `server->Shutdown` is two steps, one that
  cancels what is pending (`ShutdownServer`) and one that returns (`ShutdownReturns`)
  once no call is left.  `done()` and the destructor with `stop()` are modelled
  once, for the thread that runs them (`DoneStep(t)`).  Four faults end the process:
  a statement that uses the object after it was freed (`UseAfterDelete`), a
  completion taken of a server that was shut down (`ServeCancelled`), a server that
  `BuildAndStart()` did not build (`UseUnbuilt`), and an assertion of gRPC
  (`Assertion`), as where `SmsServiceFifo` has `OneByOne` violated.
* `ServerLife` - the abstract specification of a process: what systemd, the service
  manager of Windows and the user at a terminal see of it.  The port is closed, open,
  then closing; it closes only when the process was asked to stop; each way to end
  comes only from where it may; a service reports its states in order.  `Lifecycle`
  implements it with `port <- Port`, `asked <- at["handler"] # "idle"`,
  `reported <- serviceState` and `ending <- process`: the statements of the two
  threads are steps it does not see.
* `ListenSMSProofs`, `SmsServiceProofs`, `CompletionProofs`, `RoundRobinProofs`,
  `SmsTurnsProofs`, `UnaryCallsProofs`, `SendSmsProofs`, `LifecycleProofs` - theorems.
* `MC*` - symmetry sets and file contents for TLC.

Every `Faulty form` operator next to a definition is a plausible bug of that
definition; the runs were repeated with each put in its place and each time the
property it aims at was violated.

## Runs

| run | checks | shows |
|---|---|---|
| `server` | `TypeOK`, `RegistryExact`, `NoLostWakeUp`, `NoStalledListener`, `AlwaysAccepting`, `InOrderOnce`, `OnePhoneEach`, `NothingDropped`, `ImplementsRelay` | whatever the order of completions and under either policy, SMS do not get stuck, doubled, reordered or dropped between `requestToSend` and `Write`, the server keeps accepting phones, and every handler is a step of `SmsRelay` |
| `turns` | `CompletionsCounted`, `FinishMeansHungUp`, `NoStrayCompletion`, `FaultsInWrite`, `HandedInTurn`, `ImplementsRoundRobin` | with a first-in first-out queue the guess of `Proceed()` is right: how many completions a listener is due in each state, that only a phone that hung up is finished, that an object is deleted after its last completion, and in which two cases a Write overlaps another; batches go to the phones in the turn of `RoundRobin` |
| `fifo_live` | `Dispatched`, `Drained`, `Released` | SMS are handed out when a phone is connected, queues empty, objects of gone phones are deleted |
| `round_robin` | `TurnTypeOK`, `InTurn`, `Served` | the turn is fair unless the phone chosen last leaves; nobody waits for ever once phones stop leaving |
| `client` | `TypeOK`, `Accounted`, `SharedFileAgrees`, `OutcomePrinted`, `AcknowledgedKept`, `ImplementsSmsQueue`, `ClientEnds` | an SMS is in one place and once, whatever breaks; a count that was answered can be relied on until the server aborts; refused callers leave nothing; each call takes effect at one moment or never, as `SmsQueue` says; with a shared file no client is refused, and it calls the host the server listens on exactly if the file names one; the client ends and its user can read what became of the call |
| `lifecycle` | `TypeOK`, `NoUseAfterDelete`, `OrderlyExit`, `StoppedMeansGone`, `StopEnds`, `ImplementsServerLife` | a stop at any statement of `main`, of the loop and of the destructor is safe, because `stop()` never returns to it; the Windows service reports SERVICE_STOPPED only after its server is gone; a stop request ends the process or waits for good in `Shutdown()` for calls nobody handles, and there is no third way; no interleaving shows the system anything `ServerLife` does not allow |
| `fifo_overlap`, `fifo_hangup`, `strict_turn`, `service_clean`, `pid_in_time`, `error_text` | one property each | what a text of the repository says and the code does not do; see below |

Bounds.  Three heap addresses (`Addr`) give an acceptor and two phones, or an
acceptor, one phone and one object that is deleted and whose address is reused;
the third call (`MaxCalls`) is one on a reused address.  Three SMS (`MaxSms`) are
the least with which one is being written, one waits in the listener and one in
the manager.  `turns`, whose states also hold the queue and the record of the turn,
has two calls, enough for an object that is deleted while another listens, and for
a turn that is used up by the phone that was not served last (`MaxLeaves = 2`).  With
two calls a phone at a reused address is never registered in `turns`; that a
`lastResponder` left at such an address is harmless is proved
(`RoundRobinImplemented`, `HandedOutInTurn`) and model-checked in `round_robin` only.
`fifo_live` has two calls and two
SMS under round robin to keep the graph small.  In `RoundRobin`, `MaxLeaves = 4`
lets every phone leave and the last responder leave twice.

In `client`, two callers are the least with which one takes or counts the SMS of
the other; one abort (`MaxAborts`) lets a call fall before, into and after the gap.
The network fails with one code, UNAVAILABLE.  A client has at most one kind of
option that departs from its file: an address given empty, or a user and password.
Every placement of the configuration files is an initial state: the shared one in
`/etc` there or not, and on each side any of those in the working, home and program
directory (empty); the shared one is filled or has an empty first line
(`SomeContents`).

In `lifecycle`, `MaxCompletions = 2` bounds completions in the queue and calls in
progress.  `Lifecycle` does not look into them, so what counts is none, the last one
and one more; `Shutdown` cancels up to two completions per call.  One restart (`MaxRestarts`) is enough for a stale
pid file; `Init` also has one left behind before.

`CHECK_DEADLOCK FALSE` is set because a server without calls or at the bounds
really has nothing to do, and a process that ended does nothing.

Symmetry: addresses are interchangeable, so safety runs use `SYMMETRY`; the
liveness runs do not.

Fairness:

* `FifoFairSpec`: the loop keeps taking completions (`run()` is a `while`), and
  every operation that was started ends, because flow control drains or the
  keepalive that `start()` configures (30 s, 60 s) closes the connection.  Nothing
  is assumed of phones: they need not call nor hang up.
* `RoundRobin`: `Served` assumes only that batches keep arriving.
* `FairSpec` of `SendSms`: the loop handles a call that reached it; answers travel;
  a call that the server does not hold and has not answered is ended by the
  keepalive of the channel; a client that has its outcome goes on.  Nothing makes a
  user start a client, a phone connect, a stream end, or the server start again.
* `FairSpec` of `Lifecycle`: the thread that handles a stop request runs.  Of
  `server->Shutdown` nothing is assumed: it returns when no call is left, and what
  takes the calls' completions is the event loop, which may be the suspended thread.

### Disagreements between text and code

* `fifo_overlap`: `README.md:9` says SMS go to the phone one by one.
  `ListenData::enqueue` sets an alarm whenever `status` is LISTEN_COMMAND, also
  when the alarm of the previous batch was not taken yet.  With the manager's
  alarm of an earlier `requestToSend` still in the queue, a second batch arrives
  before the first alarm; its alarm finds LISTEN_COMMAND_SENT and starts a Write
  while one is outstanding, which gRPC does not allow.
* `fifo_hangup`: `service-raw.cpp:306` says that `Proceed()` must check
  `ctx.IsCancelled()`.  It does not: if a phone hangs up during a Write and more
  SMS wait in its queue, the done tag starts the next Write.
* `strict_turn`: `README.md:30` says phones are selected in turn.  When the phone
  chosen last hangs up, the choice starts over at the first phone.
* `service_clean`: `daemonize.cpp:46` calls `done` the function "to clean after
  runner exit".  `ServiceCtrlHandler` calls `daemonStopRequest()`, which is `stop()`
  of `pc2sms.cpp` and starts with `done()`: the server is deleted on the control
  thread while `ServiceMain` is still in `run()`.
* `pid_in_time`: `systemd/pc2sms.service:7` has systemd identify the daemon by its
  pid file, once the process it started exits.  That process exits right after the
  first `fork()`; its grandchild writes the file later, and nobody waits for it, nor
  looks whether it could be written (`daemonize.cpp:248`).  systemd may look for a
  late file again: the run is about the moment at which the process exits.
* `error_text`: `errlist.h` pairs code 14 with "The service is currently
  unavailable"; `strerror_sms(14)` is the text of code 15, because the table starts
  with code 1 and is indexed with the code.

Seen on the way and without a run of their own: a fourth line "daemonize" of the
configuration selects the policy `all` and makes no daemon
(`pc2sms-config.cpp:32`, `pc2sms.cpp:149`); `send-sms` prints that a message is
empty and sends it (`send-sms.cpp:361`); its default server is not the
`localhost:50053` its help names (`send-sms.cpp:112`), and with an empty first line in
one shared file the server listens on `0.0.0.0:50053` and the client calls
`82.97.249.193:50053` (`pc2sms-config.cpp:21`, `send-sms-config.cpp:29`); a listener
whose stream the server ended prints nothing and exits with 0; a server whose port is
taken crashes in `run()` or on a stop request (`service-raw.cpp:77`, `UseUnbuilt`).

The one that matters most is the deadlock in `stop()` (`service-raw.cpp:44-46`).
`server->Shutdown` waits for the calls in progress, and a call ends only when its
handler took its completions.  On SIGINT the handler runs on top of the event loop, so
nobody takes them.  The deadline does not help: `{10, 0}` is not ten seconds from now
but ten seconds after 1970, and when it has passed gRPC cancels the calls and goes on
waiting.  A phone that listens when SIGINT comes is enough: the process hangs until it
is killed.  `StopEnds` without `Stuck` is violated; with it the run shows that there
is no other way not to end, and `StuckForGood` that nothing but a kill resolves it.

`FinishMeansHungUp` and `NoStrayCompletion` are not claimed of `Spec` of
`SmsService`: if an alarm could arrive after the completion of a Write that was
started later, an alarm too many would finish a live stream.  They hold with the
queue in place.

## Proofs

The theorems hold for any non-empty set of addresses, any set of policies, callers
and bounds.  They assume what the modules state of their constants and no more:
`ListenSMSAssumption`, `SmsServiceAssumption`, `SmsServiceFifoAssumption`,
`RoundRobinAssumption`, `SmsTurnsAssumption` (the bound on phones that leave is not
below the bound on calls), `UnaryCallsAssumption`, `LifecycleAssumption`.  TLC
evaluates each in the runs.

* `ListenSMSProofs`: lemmas about the registry.  `rm()` takes out the pointer and no
  other and keeps the order (`RmExact`), `put()` adds it (`PutExact`), a batch goes to
  registered listeners, and to one if there is one (`RecipientsRegistered`).
* `SmsServiceProofs`, about `Spec`, where completions come in any order:
  `TypeCorrect`; `WakeUpNotLost`; `NoSmsDropped`; `ListenersNotStalled` and
  `RegistryIsExact` from `ListenerInv`, which adds `ObjectsClean` (what a free, a
  waiting and an unregistered object may hold): without it nothing says that a new
  object at a reused address starts empty.  `RelayImplemented` maps every handler to a
  step of `SmsRelay` or to none.  `OrderKept` and `OnePhoneOnly` come from `OrderInv`, which takes the
  order of `written`, `result` and `mgrResult` apart and bounds each by `accepted`,
  and `ApartInv`, which does the same for two phones under round robin.  What
  `QueuingMgr` holds is above what any phone got, so a batch is new to all of them.
* `CompletionProofs`: `QueueRefines`, that `FifoSpec` implements `Spec`, brings what
  is proved of any order of completions to the real one.  `AcceptsPhones`, about `Spec`: a request is with gRPC only for
  an object that no call was bound to (`RequestsOut`), so a stray completion on a
  reused address can neither double nor lose the request of the acceptor.
  `CompletionsAreCounted`, `FinishesHungUp` and `NoneStray`, about `FifoSpec`, come
  from one invariant, `CompletionInv`, with two parts.  `Counts` is what is due to a
  listener in each state.  It is not inductive alone: a Write that goes on in
  LISTEN_COMMAND_SENT keeps the sum of what is due and shortens the queue, so a third
  completion behind the last SMS would break it.  `Ordered` excludes that: each alarm
  that is due is in the queue (`alarm.Set` posts at once), at most one Write and one
  hang-up are due, and in the middle of a Write no alarm stands behind its end.  So
  when the end of a Write is taken every alarm was taken before it
  (`WriteEndsClean`), and two completions at most are left.  `PostedTail` counts the
  queue as one completion leaves it and others join, `WokeInOrder` says that each
  listener that was woken is among those posted.
  `FaultsAreInWrite` adds to it that an idle listener has no Write under way
  (`IdleWritten`): a Write overlaps another only if an alarm set before it is taken
  during it, or if the phone hung up.  `OneByOneWhenTaken` turns this round: in every
  behaviour in which no listener has two alarms due (`OneAlarmDue`), no Write to a
  connected phone overlaps another (`OneByOne`).  Alarms that accumulate are so the
  whole cause of what `fifo_overlap` finds, and the place to mend it.
* `RoundRobinProofs`: `TurnTypeCorrect`; `TurnsAreFair` from `RoundInv`: as long as the
  phone chosen last stays, those chosen since a phone last had its turn lie between
  it and the last one, going round the vector.
* `SmsTurnsProofs`: `RoundRobinImplemented` maps each step of the event loop, with its
  queue, to a `Join`, a `Leave`, an `Enqueue` or none.  It needs `ListenerInv`, for
  `put()` and `rm()` are called for a listener that is not, or is, registered, and
  that every call is counted (`CallsCounted`), which bounds the phones that leave;
  and that under round robin a batch lengthens the queue of one listener, the one
  chosen (`HandingOutEnqueues`).  `HandedOutInTurn` follows with `TurnsAreFair`.
* `UnaryCallsProofs`: `SmsAccounted` from `UnaryInv`, which adds that a caller has one
  call and that only a call that arrived queues its SMS (`CalledOnce`).
* `SendSmsProofs`: `TypeCorrect`; `AcknowledgedIsKept`; `SharedFileSuffices`, for
  any `Contents`, because the settings never change, a call carries what its caller
  read, and the two parsers differ only in the address they take when the file names
  none; and `OutcomeIsPrinted`, because each outcome is printed by one step that looks at what
  the client got.  `SmsQueueImplemented` shows that each call takes effect in one step:
  `Process` is that step, and the request it finds in the handler carries what the
  caller chose, since options and files do not change after the call.  `TextsShifted`
  is about `strerror_sms()` and every integer: which codes find their own text, that
  each code of gRPC but the last finds the text of the next one, and that -503 and 16,
  and no others, read beside a table.
* `LifecycleProofs`: `TypeCorrect`; `StopsOrderly` and `ExitsOrderly` from
  `ProcessInv`, which says for each statement the main thread may be at what is
  alive; both are conditional on `mode # "service"`, since `service_clean`
  shows that the Windows service deletes its server beside the event loop.
  `StoppedIsGone` from `ServiceInv`, about the two threads of the service.
  `ServerLifeImplemented` in every mode, from `PortInv` (the event loop is entered only
  by a server that listens and left only by one that was shut down, and it is shut
  down first by a stop request) and `ReportInv` (what a service has reported where it
  reports again); `ProcessInv` excludes that a daemon misuses memory.
  `StuckForGood` is the action property behind the second half of `StopEnds`: no step
  of any thread ends the wait in `Shutdown()` but the end of the process.

All safety properties of the passing runs are proved.  Only model-checked: the
liveness properties (`Dispatched`, `Drained`, `Released`,
`Served`, `ClientEnds`, `StopEnds`), which the prover does not reach,
and the six runs that refute a text.

## Not modelled

* What became of a Write.  `Proceed()` does not read it: SMS that are written after
  the connection broke, and those still in the queue of the listener, are gone with
  it.  `Drained` only says that the queue empties.  No text of the repository says
  what should become of them, so there is nothing to check it against.
* How gRPC keeps `server->Shutdown`: `ShutdownServer` and `ShutdownReturns` follow what
  it documents, that it cancels the calls once the deadline passed and returns when
  they ended.
* What follows from things that really happen and that no text speaks of, so that no
  property could be held against the code: phones that leave and return can take every
  turn (`Served` is about phones that stop leaving), and a server that
  `BuildAndStart()` did not build crashes (`ServerLife` admits the ending "unbuilt").
* `file-helper.cpp` and the parts of `utilstring.cpp` that no modelled path calls;
  `notifyClients()`, `printListenResponders()` and the form of
  `QueuingMgr::enqueue()` that takes a batch, which have no caller.
* The closing of descriptors, `umask` and `chdir` of the daemon, the stack trace that
  the client prints on SIGSEGV, verbose output.
* The stubs that `proto/` generates, the build, the packages and the vendored
  argtable3.

## Plan

The modules above cover the server and its client.  What is left, in this order:

1. What the liveness properties rest on, as far as it is safety: that the thread
   which handles a stop request always has a step to take and each of them brings it
   nearer to `exit`, and that each completion taken for a listener brings its queue
   nearer to empty.
2. The exact condition, as for `OneByOne`, under which `HangUpHarmless` and
   `PidFileInTime` hold.
3. `SmsServiceFifo` with `UnaryCalls` in place of `CallSend` and `CallLast`, so that
   a refused call and the deletion of its handler pass through the same queue.
4. Liveness of `SmsServiceFifo` with a third call, if the graph can be kept small.
5. `file-helper.cpp`, once something calls it.
