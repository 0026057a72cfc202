------------------------------ MODULE SendSms ------------------------------
(***************************************************************************)
(* The command line client send-sms (send-sms.cpp) against the server of   *)
(* UnaryCalls: how it finds its configuration, what its options change,    *)
(* the one call it makes, and what it tells its user.  Other programs call *)
(* lastSMSToSend, which send-sms has no option for.                        *)
(*                                                                         *)
(* The server and the clients may run on different machines or as          *)
(* different users: they share /etc, or no file at all.                    *)
(***************************************************************************)
EXTENDS UnaryCalls, ServiceConfig, ErrList

CONSTANT Contents   \* what a configuration file in /etc may hold, as lines

VARIABLES
  settings,   \* what the server and the clients read, and from what file
  pc,         \* where a client is
  opts,       \* its command line
  result,     \* r of main()
  printed,    \* what it printed
  status      \* its exit status, or -1 while it runs

clientVars == <<pc, opts, result, printed, status>>
vars == <<unaryVars, settings, clientVars>>

(* "last" is another program, which calls lastSMSToSend. *)
Command == {"none", "send", "count", "listen", "last"}

NoOptions(command) ==
  [command |-> command, service |-> "config", user |-> "config"]

(* -s given as the empty string, or -u and -p given, or none of them; a     *)
(* listener is followed no further than its own process.  The other        *)
(* program has no -s, but may have other credentials.                      *)
Options ==
  {NoOptions(command) : command \in Command}
    \cup [command : {"send", "count"}, service : {""}, user : {"config"}]
    \cup [command : {"send", "count", "last"}, service : {"config"}, user : {"wrong"}]

(* grpc::StatusCode::UNAVAILABLE, of a connection that breaks *)
UNAVAILABLE == 14

Codes == {SMS_OK, UNAVAILABLE}

Position == {"start", "stdin", "call", "wait", "listen", "report", "exited"}

TypeOK ==
  /\ UnaryTypeOK
  /\ settings.shared \in BOOLEAN
  /\ pc \in [Caller -> Position]
  /\ opts \in [Caller -> Options]
  /\ result \in [Caller -> Codes]
  /\ status \in [Caller -> {-1, 0, 12}]

(* An empty file, which hides the one that may be shared *)
OtherFile == <<>>

(* The files of one side, and the one in /etc if `etc` *)
Files(places, etc, shared) ==
  [p \in places \cup (IF etc THEN {"etc"} ELSE {}) |->
     IF p = "etc" THEN shared ELSE OtherFile]

Private == {"cwd", "home", "program"}

(* main() of both: getDefaultConfigFileName(), file2string(), parse.  Does *)
(* the file of the server name an address?                                 *)
ReadSettings(server, client) ==
  [service |-> ParseService(ReadLines(FALSE, server)),
   client  |-> ParseClient(ReadLines(FALSE, client)),
   named   |-> Line(ReadLines(FALSE, server), 1) # "",
   shared  |-> FoundAt(FALSE, server) = "etc" /\ FoundAt(FALSE, client) = "etc"]

Init ==
  /\ UnaryInit
  /\ \E etc \in BOOLEAN, shared \in Contents,
        s \in SUBSET Private, c \in SUBSET Private :
       settings = ReadSettings(Files(s, etc, shared), Files(c, etc, shared))
  /\ pc = [c \in Caller |-> "start"]
  /\ opts = [c \in Caller |-> NoOptions("none")]
  /\ result = [c \in Caller |-> SMS_OK]
  /\ printed = [c \in Caller |-> {}]
  /\ status = [c \in Caller |-> -1]

-----------------------------------------------------------------------------
(* mkServiceUrl() of the address that is configured or given *)
Target(o) ==
  IF o.service = "config" THEN settings.client.address ELSE "localhost:50053"

(* What the network makes of it: server and client on one machine *)
Reaches(target) ==
  \/ target = settings.service.address
  \/ /\ settings.service.address = "0.0.0.0:50053"
     /\ target = "localhost:50053"

Credentials(o) ==
  CASE o.user = "config" -> settings.client
    [] o.user = "wrong"  -> [login |-> settings.service.login, password |-> "-"]

MethodOf(o) ==
  CASE o.command = "count" -> "countSMSToSend"
    [] o.command = "last"  -> "lastSMSToSend"
    [] OTHER               -> "requestToSend"

Goto(c, to) == pc' = [pc EXCEPT ![c] = to]

Prints(c, texts) == printed' = [printed EXCEPT ![c] = @ \cup texts]

Exits(c, code) ==
  /\ Goto(c, "exited")
  /\ status' = [status EXCEPT ![c] = ExitStatus(code)]

(* What comes after the options: the message is read if it is not given. *)
AfterOptions(o, message) ==
  CASE o.command = "listen" -> "listen"
    [] o.command = "send" /\ ~message -> "stdin"
    [] OTHER -> "call"

(* parseCmd(): --help, or an option that is wrong *)
ShowHelp(c) ==
  /\ pc[c] = "start"
  /\ Prints(c, {"usage"})
  /\ Exits(c, ERR_CODE_COMMAND_LINE)
  /\ UNCHANGED <<unaryVars, settings, opts, result>>

ParseCmd(c) ==
  /\ pc[c] = "start"
  /\ \E o \in Options, message \in BOOLEAN :
       /\ o.command \in {"send", "count", "listen"}
       /\ opts' = [opts EXCEPT ![c] = o]
       /\ Goto(c, AfterOptions(o, message))
  /\ UNCHANGED <<unaryVars, settings, result, printed, status>>

(* Another program, which is configured alike, calls lastSMSToSend. *)
OtherProgram(c) ==
  /\ pc[c] = "start"
  /\ \E o \in Options :
       /\ o.command = "last"
       /\ opts' = [opts EXCEPT ![c] = o]
  /\ Goto(c, "call")
  /\ UNCHANGED <<unaryVars, settings, result, printed, status>>

(* An empty message is an error that is printed; the SMS is sent anyway. *)
ReadStdin(c) ==
  /\ pc[c] = "stdin"
  /\ \E empty \in BOOLEAN :
       Prints(c, IF empty THEN {Strerror(ERR_CODE_MESSAGE_EMPTY)} ELSE {})
  /\ Goto(c, "call")
  /\ UNCHANGED <<unaryVars, settings, opts, result, status>>

(* run(): sendSMS(), countSMS() *)
Run(c) ==
  /\ pc[c] = "call"
  /\ MakeCall(c, MethodOf(opts[c]),
              IsAllowed(settings.service, Credentials(opts[c])),
              Reaches(Target(opts[c])))
  /\ Goto(c, "wait")
  /\ UNCHANGED <<settings, opts, result, printed, status>>

Answered(c) ==
  /\ pc[c] = "wait"
  /\ Receive(c)
  /\ Prints(c, {"answer"})
  /\ Goto(c, "report")
  /\ UNCHANGED <<settings, opts, result, status>>

(* Faulty form: the code is negative, as those of the program itself are. *)
Negated(code) == -code

(* Faulty form: the code of a call that failed is not returned. *)
Swallowed(code) == SMS_OK

(* sendSMS(), countSMS(), listenSMS(): status.error_code() *)
ReturnCode(code) == code

(* !status.ok() *)
Failed(c) ==
  /\ pc[c] = "wait"
  /\ Break(c)
  /\ result' = [result EXCEPT ![c] = ReturnCode(UNAVAILABLE)]
  /\ Goto(c, "report")
  /\ UNCHANGED <<settings, opts, printed, status>>

(***************************************************************************)
(* listenSMS(): Read() fails, and Finish() tells why: the connection broke *)
(* or the server ended the stream, which is no error.                      *)
(***************************************************************************)
StreamEnds(c) ==
  /\ pc[c] = "listen"
  /\ \E code \in Codes : result' = [result EXCEPT ![c] = ReturnCode(code)]
  /\ Goto(c, "report")
  /\ UNCHANGED <<unaryVars, settings, opts, printed, status>>

(* The end of main(): done() is exit(0), the exit(r) after it never runs. *)
Report(c) ==
  /\ pc[c] = "report"
  /\ Prints(c, IF result[c] # SMS_OK THEN {Strerror(result[c])} ELSE {})
  /\ Exits(c, SMS_OK)
  /\ UNCHANGED <<unaryVars, settings, opts, result>>

(* SIGINT: stop() and done(), which exits; SIGHUP has no effect *)
Interrupt(c) ==
  /\ pc[c] \notin {"start", "exited"}
  /\ Prints(c, {"Interrupted"})
  /\ Exits(c, SMS_OK)
  /\ IF call[c] = "open" THEN Break(c) ELSE UNCHANGED unaryVars
  /\ UNCHANGED <<settings, opts, result>>

ClientStep(c) ==
  \/ ShowHelp(c)
  \/ ParseCmd(c)
  \/ OtherProgram(c)
  \/ ReadStdin(c)
  \/ Run(c)
  \/ Answered(c)
  \/ Failed(c)
  \/ StreamEnds(c)
  \/ Report(c)
  \/ Interrupt(c)

ServerStep ==
  \/ \E q \in arrived : Process(q)
  \/ \E c \in Caller : Release(c)
  \/ HandOver
  \/ Abort
  \/ Restart

Next ==
  \/ \E c \in Caller : ClientStep(c)
  \/ ServerStep /\ UNCHANGED <<settings, clientVars>>

Spec == Init /\ [][Next]_vars

(***************************************************************************)
(* The event loop takes completions, answers travel, and the keepalive of  *)
(* the channel (30 s, 60 s) ends a call whose server is gone.  Nothing     *)
(* makes a user start a client, a phone connect, a stream end, or the      *)
(* server start again.                                                     *)
(***************************************************************************)
Lost(c) == (~up \/ Unserved(c)) /\ Failed(c)

FairSpec ==
  /\ Spec
  /\ \A c \in Caller :
       /\ WF_vars(Answered(c) \/ Lost(c) \/ Report(c))
       /\ WF_vars((\E q \in arrived : q.caller = c /\ Process(q))
                   /\ UNCHANGED <<settings, clientVars>>)

-----------------------------------------------------------------------------
(***************************************************************************)
(* A server and a client that read the same file, whatever it holds, agree *)
(* on the credentials: no client is refused unless its user says so.  They *)
(* agree on the address exactly if the file names one: their defaults      *)
(* differ, and the client calls another host than its server listens on.   *)
(***************************************************************************)
SharedFileAgrees ==
  settings.shared =>
    /\ Reaches(settings.client.address) <=> settings.named
    /\ \A c \in Caller : opts[c].user # "wrong" => answer[c].kind # "refused"

(***************************************************************************)
(* What a client printed that sends or counts and was not interrupted      *)
(* tells what became of its call, and nothing else does, as its exit       *)
(* status is 0 in any case: an answer and no error text for a call that    *)
(* was answered, an error text and no answer for one that failed.  Not so  *)
(* of a listener: it prints nothing if the server ended its stream.        *)
(***************************************************************************)
OutcomePrinted ==
  \A c \in Caller :
    LET texts == printed[c] \ {Strerror(ERR_CODE_MESSAGE_EMPTY)}
    IN /\ opts[c].command \in {"send", "count"}
       /\ pc[c] = "exited" /\ "Interrupted" \notin printed[c] /\ status[c] = 0
       =>
         /\ call[c] = "answered" <=> texts = {"answer"}
         /\ call[c] # "answered" => "answer" \notin texts /\ texts # {}

(***************************************************************************)
(* A client that was answered "count 1" can rely on it while the server    *)
(* does not abort: its SMS waits, or was handed to phones or to a caller   *)
(* of lastSMSToSend.  One that was refused, or exited before it called,    *)
(* left no SMS behind.                                                     *)
(***************************************************************************)
AcknowledgedKept ==
  \A c \in Caller :
    /\ call[c] = "answered" /\ opts[c].command = "send"
         => (c \in queued <=> answer[c] = Count(1))
    /\ c \in queued /\ aborts = 0
         => c \in ToSet(waiting) \cup ToSet(taken) \cup handed
    /\ c \in queued => opts[c].command = "send" /\ pc[c] \notin {"start", "stdin", "call"}

(***************************************************************************)
(* What the user of a client asked for when the client called, and whether *)
(* the server's configuration allows it                                    *)
(***************************************************************************)
Asked ==
  [c \in Caller |->
     IF call[c] = "none" THEN [method |-> "none", allowed |-> FALSE]
     ELSE [method  |-> MethodOf(opts[c]),
           allowed |-> IsAllowed(settings.service, Credentials(opts[c]))]]

(***************************************************************************)
(* Clients, network and handlers implement the queue: a call takes effect  *)
(* in one step, as its user asked and with the credentials of the          *)
(* configuration, once at most and never before the call, whoever else     *)
(* calls, gives up or is refused, and however often the server aborts; SMS *)
(* are lost only when it does.                                             *)
(***************************************************************************)
Queue == INSTANCE SmsQueue WITH asked <- Asked, effect <- answer, seen <- call

ImplementsSmsQueue == Queue!Spec

(***************************************************************************)
(* A client that made its call ends, whether the server answers, aborts    *)
(* in between or was never reached.  While a call waits in the server      *)
(* nothing but its answer or the end of the server ends the client: each   *)
(* handler must have left its successor for the next caller.               *)
(***************************************************************************)
ClientEnds == \A c \in Caller : pc[c] = "wait" ~> pc[c] = "exited"

(***************************************************************************)
(* errlist.h pairs the codes with their texts; strerror_sms() is to print  *)
(* the text of the code it is given.                                       *)
(***************************************************************************)
TextNamesCode ==
  \A c \in Caller :
    result[c] # SMS_OK /\ pc[c] = "exited" /\ "Interrupted" \notin printed[c]
      => TextOf(result[c]) \in printed[c]
=============================================================================
