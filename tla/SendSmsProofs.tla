--------------------------- MODULE SendSmsProofs ---------------------------
(***************************************************************************)
(* Proofs about the clients of SendSms and what the server did for them:   *)
(* a count that was answered stands for an SMS that the server has, and a  *)
(* client that was not answered so left none.                              *)
(***************************************************************************)
EXTENDS UnaryCallsProofs

(* The options and the place of each client, of which TypeOK tells more *)
ClientsTyped == pc \in [Caller -> Position] /\ opts \in [Caller -> Options]

Calling == {"send", "count", "last"}

(***************************************************************************)
(* A client has its options before it calls, a request carries the method  *)
(* of its client's options, and it was not answered yet.                   *)
(***************************************************************************)
RequestsMatch ==
  /\ \A c \in Caller : pc[c] \in {"start", "stdin", "call"} =>
       call[c] = "none"
  /\ \A c \in Caller : pc[c] \in {"stdin", "call"} => opts[c].command \in Calling
  /\ \A c \in Caller : call[c] = "none" => answer[c] = NoAnswer
  /\ \A q \in arrived :
       /\ q.method = MethodOf(opts[q.caller])
       /\ opts[q.caller].command \in Calling
       /\ answer[q.caller] = NoAnswer

(* The answer "count 1" of a sender and its SMS go together. *)
CountMeansQueued ==
  /\ \A c \in queued : opts[c].command = "send" /\ answer[c] = Count(1)
  /\ \A c \in Caller :
       opts[c].command = "send" /\ answer[c] = Count(1) => c \in queued

LostByAbort == aborts = 0 => lost = {}

ClientInv == ClientsTyped /\ RequestsMatch /\ CountMeansQueued /\ LostByAbort

-----------------------------------------------------------------------------
(***************************************************************************)
(* What a client does that matters to the server: it takes its options     *)
(* before it calls, and goes on from where it is.                          *)
(***************************************************************************)
ParsesOptions(c) ==
  /\ pc[c] = "start" /\ UNCHANGED unaryVars
  /\ \E o \in Options, to \in Position :
       /\ opts' = [opts EXCEPT ![c] = o]
       /\ pc' = [pc EXCEPT ![c] = to]
       /\ to \in {"stdin", "call"} => o.command \in Calling
       /\ to # "start"

GoesOn(c) ==
  /\ opts' = opts
  /\ \E to \in {"call", "wait", "report", "exited"} :
       /\ pc' = [pc EXCEPT ![c] = to]
       /\ to = "call" => pc[c] = "stdin"
  /\ \/ UNCHANGED unaryVars
     \/ pc'[c] # "call" /\ (Receive(c) \/ Break(c))

Calls(c) ==
  /\ pc[c] = "call" /\ opts' = opts /\ pc' = [pc EXCEPT ![c] = "wait"]
  /\ \E reached \in BOOLEAN :
       MakeCall(c, MethodOf(opts[c]),
                IsAllowed(settings.service, Credentials(opts[c])), reached)

ServerOnly == UNCHANGED <<pc, opts>> /\ (ServerStep \/ UNCHANGED unaryVars)

LEMMA ClientParts ==
  ASSUME ClientsTyped, [Next]_vars
  PROVE  ServerOnly \/ \E c \in Caller : ParsesOptions(c) \/ GoesOn(c) \/ Calls(c)
<1>. USE DEF ClientsTyped, Goto, Exits
<1>1. ASSUME NEW c \in Caller, ClientStep(c)
      PROVE  ParsesOptions(c) \/ GoesOn(c) \/ Calls(c)
  <2>1. CASE ParseCmd(c)
    <3>1. PICK o \in Options, message \in BOOLEAN :
            /\ o.command \in {"send", "count", "listen"}
            /\ opts' = [opts EXCEPT ![c] = o]
            /\ pc' = [pc EXCEPT ![c] = AfterOptions(o, message)]
      BY <2>1 DEF ParseCmd
    <3>2. /\ AfterOptions(o, message) \in {"stdin", "call", "listen"}
          /\ AfterOptions(o, message) \in {"stdin", "call"} => o.command \in Calling
      BY <3>1 DEF AfterOptions, Calling
    <3>3. pc[c] = "start" /\ UNCHANGED unaryVars
      BY <2>1 DEF ParseCmd
    <3>. QED
      BY <3>1, <3>2, <3>3 DEF ParsesOptions, Position
  <2>2. CASE OtherProgram(c)
    <3>1. PICK o \in Options :
            o.command = "last" /\ opts' = [opts EXCEPT ![c] = o]
      BY <2>2 DEF OtherProgram
    <3>2. pc[c] = "start" /\ UNCHANGED unaryVars /\ pc' = [pc EXCEPT ![c] = "call"]
      BY <2>2 DEF OtherProgram
    <3>. QED
      BY <3>1, <3>2 DEF ParsesOptions, Position, Calling
  <2>3. CASE Run(c)
    <3>1. Reaches(Target(opts[c])) \in BOOLEAN
      BY DEF Reaches
    <3>2. /\ pc[c] = "call" /\ opts' = opts /\ pc' = [pc EXCEPT ![c] = "wait"]
          /\ MakeCall(c, MethodOf(opts[c]),
                      IsAllowed(settings.service, Credentials(opts[c])),
                      Reaches(Target(opts[c])))
      BY <2>3 DEF Run
    <3>. QED
      BY <3>1, <3>2 DEF Calls
  <2>4. CASE ReadStdin(c)
    BY <2>4 DEF ReadStdin, GoesOn
  <2>5. CASE Answered(c) \/ Failed(c)
    BY <2>5 DEF Answered, Failed, GoesOn
  <2>6. CASE ShowHelp(c) \/ StreamEnds(c) \/ Report(c)
    BY <2>6 DEF ShowHelp, StreamEnds, Report, GoesOn
  <2>7. CASE Interrupt(c)
    BY <2>7 DEF Interrupt, GoesOn
  <2>. QED
    BY <1>1, <2>1, <2>2, <2>3, <2>4, <2>5, <2>6, <2>7 DEF ClientStep
<1>2. CASE ServerStep /\ UNCHANGED <<settings, clientVars>>
  BY <1>2 DEF ServerOnly, clientVars
<1>3. CASE UNCHANGED vars
  BY <1>3 DEF ServerOnly, vars, clientVars
<1>. QED
  BY <1>1, <1>2, <1>3 DEF Next

-----------------------------------------------------------------------------
(* Answers of different kinds differ. *)
LEMMA AnswersDiffer == NoAnswer # Count(1) /\ Refused # Count(1)
BY DEF NoAnswer, Refused, Count

(* Requests and counts, where options and answers stay as they are *)
LEMMA ParsingKeeps ==
  ASSUME ClientsTyped, RequestsMatch, CountMeansQueued, CallsTyped, CalledOnce,
         QueueTyped, NEW c \in Caller, ParsesOptions(c)
  PROVE  ClientsTyped' /\ RequestsMatch' /\ CountMeansQueued'
<1>1. PICK o \in Options, to \in Position :
        /\ opts' = [opts EXCEPT ![c] = o]
        /\ pc' = [pc EXCEPT ![c] = to]
        /\ to \in {"stdin", "call"} => o.command \in Calling
        /\ to # "start"
  BY DEF ParsesOptions
<1>2. UNCHANGED <<call, answer, arrived, queued>>
  BY DEF ParsesOptions, unaryVars, queueVars, serverVars, callVars
<1>3. call[c] = "none" /\ answer[c] = NoAnswer
  BY DEF ParsesOptions, RequestsMatch
<1>4. c \notin queued /\ \A q \in arrived : q.caller # c /\ q.caller \in Caller
  BY <1>3 DEF CalledOnce, CallsTyped, Request
<1>5. /\ ClientsTyped'
      /\ opts'[c] = o /\ pc'[c] = to
      /\ \A d \in Caller : d # c => opts'[d] = opts[d] /\ pc'[d] = pc[d]
  BY <1>1 DEF ClientsTyped
<1>6. RequestsMatch'
  <2>1. \A d \in Caller : pc'[d] \in {"start", "stdin", "call"} => call'[d] = "none"
    BY <1>2, <1>3, <1>5 DEF RequestsMatch
  <2>2. \A d \in Caller : pc'[d] \in {"stdin", "call"} => opts'[d].command \in Calling
    BY <1>1, <1>5 DEF RequestsMatch
  <2>3. \A q \in arrived : opts'[q.caller] = opts[q.caller]
    BY <1>4, <1>5
  <2>4. \A q \in arrived' : /\ q.method = MethodOf(opts'[q.caller])
                            /\ opts'[q.caller].command \in Calling
                            /\ answer'[q.caller] = NoAnswer
    BY <1>2, <2>3 DEF RequestsMatch
  <2>5. \A d \in Caller : call'[d] = "none" => answer'[d] = NoAnswer
    BY <1>2 DEF RequestsMatch
  <2>. QED
    BY <2>1, <2>2, <2>4, <2>5 DEF RequestsMatch, MethodOf
<1>7. CountMeansQueued'
  <2>1. \A d \in queued : d \in Caller /\ d # c
    BY <1>4 DEF QueueTyped
  <2>. QED
    BY <1>2, <1>3, <1>5, <2>1, AnswersDiffer DEF CountMeansQueued, Count
<1>. QED
  BY <1>5, <1>6, <1>7

LEMMA GoingOnKeeps ==
  ASSUME ClientsTyped, RequestsMatch, CountMeansQueued, CallsTyped,
         NEW c \in Caller, GoesOn(c)
  PROVE  ClientsTyped' /\ RequestsMatch' /\ CountMeansQueued'
<1>1. PICK to \in {"call", "wait", "report", "exited"} :
        /\ pc' = [pc EXCEPT ![c] = to]
        /\ to = "call" => pc[c] = "stdin"
  BY DEF GoesOn
<1>2. /\ opts' = opts /\ UNCHANGED <<answer, queued>>
      /\ arrived' \subseteq arrived
      /\ \/ call' = call
         \/ /\ pc'[c] # "call"
            /\ \/ call' = [call EXCEPT ![c] = "answered"]
               \/ call' = [call EXCEPT ![c] = "failed"]
  BY DEF GoesOn, Receive, Break, unaryVars, queueVars, serverVars, callVars
<1>3. /\ ClientsTyped' /\ pc'[c] = to
      /\ \A d \in Caller : d # c => pc'[d] = pc[d]
  BY <1>1, <1>2 DEF ClientsTyped, Position
<1>4. /\ \A d \in Caller : d # c => call'[d] = call[d]
      /\ \/ call'[c] = call[c]
         \/ pc'[c] # "call" /\ call'[c] # "none"
  BY <1>2 DEF CallsTyped
<1>5. RequestsMatch'
  <2>1. \A d \in Caller : pc'[d] \in {"start", "stdin", "call"} => call'[d] = "none"
    BY <1>1, <1>3, <1>4 DEF RequestsMatch
  <2>2. \A d \in Caller : pc'[d] \in {"stdin", "call"} => opts'[d].command \in Calling
    BY <1>1, <1>2, <1>3 DEF RequestsMatch
  <2>3. \A d \in Caller : call'[d] = "none" => answer'[d] = NoAnswer
    BY <1>2, <1>4 DEF RequestsMatch
  <2>. QED
    BY <1>2, <2>1, <2>2, <2>3 DEF RequestsMatch, MethodOf
<1>6. CountMeansQueued'
  BY <1>2 DEF CountMeansQueued, Count
<1>. QED
  BY <1>3, <1>5, <1>6

LEMMA CallingKeeps ==
  ASSUME ClientsTyped, RequestsMatch, CountMeansQueued, CallsTyped,
         NEW c \in Caller, Calls(c)
  PROVE  ClientsTyped' /\ RequestsMatch' /\ CountMeansQueued'
<1>. DEFINE allowed == IsAllowed(settings.service, Credentials(opts[c]))
<1>1. PICK reached \in BOOLEAN : MakeCall(c, MethodOf(opts[c]), allowed, reached)
  BY DEF Calls
<1>. DEFINE r == [caller |-> c, method |-> MethodOf(opts[c]), allowed |-> allowed]
<1>2. r.caller = c /\ r.method = MethodOf(opts[c])
  OBVIOUS
<1>3. /\ arrived' = arrived \cup {r} \/ arrived' = arrived
      /\ call' = [call EXCEPT ![c] = "open"]
      /\ UNCHANGED <<answer, queued>>
  BY <1>1 DEF MakeCall, queueVars
<1>. HIDE DEF r
<1>4. /\ pc[c] = "call" /\ opts' = opts /\ pc' = [pc EXCEPT ![c] = "wait"]
      /\ call[c] = "none" /\ answer[c] = NoAnswer /\ opts[c].command \in Calling
  BY DEF Calls, RequestsMatch
<1>5. /\ ClientsTyped' /\ pc'[c] = "wait" /\ call'[c] = "open"
      /\ \A d \in Caller : d # c => pc'[d] = pc[d] /\ call'[d] = call[d]
  BY <1>3, <1>4 DEF ClientsTyped, CallsTyped, Position
<1>6. RequestsMatch'
  <2>1. \A d \in Caller : pc'[d] \in {"start", "stdin", "call"} => call'[d] = "none"
    BY <1>5 DEF RequestsMatch
  <2>2. \A d \in Caller : pc'[d] \in {"stdin", "call"} => opts'[d].command \in Calling
    BY <1>4, <1>5 DEF RequestsMatch
  <2>3. \A d \in Caller : call'[d] = "none" => answer'[d] = NoAnswer
    BY <1>3, <1>4, <1>5 DEF RequestsMatch
  <2>4. \A q \in arrived' : /\ q.method = MethodOf(opts[q.caller])
                            /\ opts[q.caller].command \in Calling
                            /\ answer[q.caller] = NoAnswer
    BY <1>2, <1>3, <1>4 DEF RequestsMatch
  <2>. QED
    BY <1>3, <1>4, <2>1, <2>2, <2>3, <2>4 DEF RequestsMatch, MethodOf
<1>7. CountMeansQueued'
  BY <1>3, <1>4 DEF CountMeansQueued, Count
<1>. QED
  BY <1>5, <1>6, <1>7

LEMMA ServingKeeps ==
  ASSUME ClientsTyped, RequestsMatch, CountMeansQueued, CallsTyped, CalledOnce,
         QueueTyped, ServerOnly
  PROVE  ClientsTyped' /\ RequestsMatch' /\ CountMeansQueued'
<1>. pc' = pc /\ opts' = opts
  BY DEF ServerOnly
<1>1. ClientsTyped'
  BY DEF ClientsTyped
<1>2. ASSUME NEW q \in arrived, Process(q)
      PROVE  RequestsMatch' /\ CountMeansQueued'
  <2>. DEFINE c == q.caller
              reply == IF q.allowed THEN Granted(q) ELSE Refused
  <2>1. c \in Caller /\ call[c] # "none" /\ c \notin queued
    BY DEF CallsTyped, Request, CalledOnce
  <2>2. q.method = MethodOf(opts[c]) /\ opts[c].command \in Calling
    BY DEF RequestsMatch
  <2>3. /\ arrived' = arrived \ {q} /\ call' = call
        /\ answer' = [answer EXCEPT ![c] = reply]
        /\ queued' = IF Queues(q) THEN queued \cup {c} ELSE queued
    BY <1>2 DEF Process, callVars
  <2>4. \A r \in arrived' : r \in arrived /\ r.caller \in Caller /\ r.caller # c
    BY <2>3 DEF CalledOnce, CallsTyped, Request
  <2>5. Queues(q) => opts[c].command = "send" /\ reply = Count(1)
    BY <2>2 DEF Queues, Granted, MethodOf, Calling
  <2>6. opts[c].command = "send" /\ ~Queues(q) => reply = Refused
    BY <2>2 DEF Queues, MethodOf
  <2>. HIDE DEF c, reply
  <2>7. answer'[c] = reply /\ \A d \in Caller : d # c => answer'[d] = answer[d]
    BY <2>1, <2>3 DEF CallsTyped
  <2>8. RequestsMatch'
    <3>1. \A d \in Caller : call'[d] = "none" => answer'[d] = NoAnswer
      BY <2>1, <2>3, <2>7 DEF RequestsMatch
    <3>2. \A r \in arrived' : answer'[r.caller] = NoAnswer
      BY <2>4, <2>7 DEF RequestsMatch
    <3>. QED
      BY <2>3, <2>4, <3>1, <3>2 DEF RequestsMatch, MethodOf
  <2>9. CountMeansQueued'
    <3>1. ASSUME NEW d \in queued'
          PROVE  opts[d].command = "send" /\ answer'[d] = Count(1)
      <4>1. CASE d = c
        BY <2>1, <2>3, <2>5, <2>7, <4>1
      <4>2. CASE d # c
        <5>1. d \in queued /\ d \in Caller
          BY <2>3, <4>2 DEF QueueTyped
        <5>. QED
          BY <2>7, <4>2, <5>1 DEF CountMeansQueued
      <4>. QED
        BY <4>1, <4>2
    <3>2. ASSUME NEW d \in Caller, opts[d].command = "send", answer'[d] = Count(1)
          PROVE  d \in queued'
      <4>1. CASE d = c
        BY <2>3, <2>6, <2>7, <3>2, <4>1, AnswersDiffer
      <4>2. CASE d # c
        BY <2>3, <2>7, <3>2, <4>2 DEF CountMeansQueued
      <4>. QED
        BY <4>1, <4>2
    <3>. QED
      BY <3>1, <3>2 DEF CountMeansQueued, Count
  <2>. QED
    BY <2>8, <2>9
<1>3. CASE \/ \E c \in Caller : Release(c)
           \/ HandOver \/ Abort \/ Restart \/ UNCHANGED unaryVars
  <2>1. /\ UNCHANGED <<call, answer, queued>>
        /\ arrived' \subseteq arrived
    BY <1>3 DEF Release, HandOver, Abort, Restart, unaryVars, queueVars,
       serverVars, callVars
  <2>. QED
    BY <1>1, <2>1 DEF RequestsMatch, CountMeansQueued, MethodOf, Count
<1>. QED
  BY <1>1, <1>2, <1>3 DEF ServerOnly, ServerStep

(* Only an abort loses SMS that wait. *)
LEMMA LossesCounted ==
  ASSUME UnaryStep, HandlersTyped, LostByAbort
  PROVE  LostByAbort'
<1>1. CASE Abort
  <2>1. aborts' = aborts + 1 /\ aborts \in Nat
    BY <1>1 DEF Abort, HandlersTyped
  <2>2. aborts' # 0
    BY <2>1
  <2>. QED
    BY <2>2 DEF LostByAbort
<1>2. CASE ~Abort
  <2>1. UNCHANGED <<aborts, lost>>
    BY <1>2 DEF UnaryStep, MakeCall, Process, Release, Receive, Break, HandOver,
       Restart, unaryVars, queueVars, serverVars, callVars
  <2>. QED
    BY <2>1 DEF LostByAbort
<1>. QED
  BY <1>1, <1>2

LEMMA ClientInvariant == Spec => []ClientInv
<1>1. Init => ClientInv
  <2>. SUFFICES ASSUME Init PROVE ClientInv
    OBVIOUS
  <2>. USE DEF Init, UnaryInit
  <2>1. NoOptions("none") \in Options
    BY DEF Options, Command
  <2>2. ClientsTyped
    BY <2>1 DEF ClientsTyped, Position
  <2>3. RequestsMatch
    BY DEF RequestsMatch
  <2>4. CountMeansQueued
    BY AnswersDiffer DEF CountMeansQueued
  <2>. QED
    BY <2>2, <2>3, <2>4 DEF ClientInv, LostByAbort
<1>2. UnaryInv /\ ClientInv /\ [Next]_vars => ClientInv'
  <2>. SUFFICES ASSUME UnaryInv, ClientInv, [Next]_vars PROVE ClientInv'
    OBVIOUS
  <2>1. QueueTyped /\ CallsTyped /\ HandlersTyped /\ CalledOnce
    BY TypeParts DEF UnaryInv
  <2>2. ClientsTyped /\ RequestsMatch /\ CountMeansQueued /\ LostByAbort
    BY DEF ClientInv
  <2>3. ClientsTyped' /\ RequestsMatch' /\ CountMeansQueued'
    BY <2>1, <2>2, ClientParts, ParsingKeeps, GoingOnKeeps, CallingKeeps,
       ServingKeeps
  <2>4. LostByAbort'
    BY <2>1, <2>2, Restricted, LossesCounted
  <2>. QED
    BY <2>3, <2>4 DEF ClientInv
<1>. QED
  BY <1>1, <1>2, UnaryInvariant, PTL DEF Spec

(***************************************************************************)
(* A sender that was answered "count 1" finds its SMS with the server, the *)
(* phones or a caller of lastSMSToSend until the server aborts; one that   *)
(* was refused, or did not call yet, has left none.                        *)
(***************************************************************************)
THEOREM AcknowledgedIsKept == Spec => []AcknowledgedKept
<1>1. UnaryInv /\ ClientInv => AcknowledgedKept
  <2>. SUFFICES ASSUME UnaryInv, ClientInv, NEW c \in Caller
       PROVE  /\ call[c] = "answered" /\ opts[c].command = "send"
                   => (c \in queued <=> answer[c] = Count(1))
              /\ c \in queued /\ aborts = 0
                   => c \in ToSet(waiting) \cup ToSet(taken) \cup handed
              /\ c \in queued => /\ opts[c].command = "send"
                                 /\ pc[c] \notin {"start", "stdin", "call"}
    BY DEF AcknowledgedKept
  <2>1. /\ c \in queued => opts[c].command = "send" /\ answer[c] = Count(1)
        /\ opts[c].command = "send" /\ answer[c] = Count(1) => c \in queued
    BY DEF ClientInv, CountMeansQueued
  <2>2. c \in queued /\ aborts = 0
          => c \in ToSet(waiting) \cup ToSet(taken) \cup handed
    BY DEF UnaryInv, Accounted, ClientInv, LostByAbort
  <2>3. c \in queued => pc[c] \notin {"start", "stdin", "call"}
    BY DEF UnaryInv, CalledOnce, ClientInv, RequestsMatch
  <2>. QED
    BY <2>1, <2>2, <2>3
<1>. QED
  BY <1>1, UnaryInvariant, ClientInvariant, PTL

-----------------------------------------------------------------------------
(* Files that both sides read                                              *)

(* One of a few positions is the first. *)
LEMMA FirstOfFour ==
  ASSUME NEW I \in SUBSET (1..4), I # {}
  PROVE  Min(I) \in I
<1>1. \E i \in I : \A j \in I : i <= j
  <2>1. CASE 1 \in I BY <2>1
  <2>2. CASE 1 \notin I /\ 2 \in I BY <2>2
  <2>3. CASE 1 \notin I /\ 2 \notin I /\ 3 \in I BY <2>3
  <2>4. CASE 1 \notin I /\ 2 \notin I /\ 3 \notin I
    <3>1. PICK i \in I : TRUE
      OBVIOUS
    <3>2. \A j \in I : j = 4
      BY <2>4
    <3>. QED
      BY <3>1, <3>2
  <2>. QED
    BY <2>1, <2>2, <2>3, <2>4
<1>. QED
  BY <1>1 DEF Min

(* The place that is found has a file. *)
LEMMA FoundHasFile ==
  ASSUME NEW files, FoundAt(FALSE, files) = "etc"
  PROVE  "etc" \in DOMAIN files
<1>. DEFINE order == SearchOrder(FALSE)
            I == {i \in 1..Len(order) : order[i] \in DOMAIN files}
            n == IF I # {} THEN Min(I) ELSE 0
<1>1. FoundAt(FALSE, files) = IF n = 0 THEN "none" ELSE order[n]
  BY Zenon DEF FoundAt, SelectInSeq
<1>2. Len(order) = 4
  BY DEF SearchOrder
<1>. HIDE DEF order
<1>3. I # {}
  BY <1>1
<1>4. I \in SUBSET (1..4)
  BY <1>2
<1>5. Min(I) \in I
  <2>. HIDE DEF I
  <2>. QED
    BY <1>3, <1>4, FirstOfFour
<1>6. FoundAt(FALSE, files) = order[Min(I)]
  <2>1. n = Min(I)
    BY <1>3
  <2>2. n \in 1..4
    BY <1>4, <1>5, <2>1
  <2>. HIDE DEF n
  <2>. QED
    BY <1>1, <2>1, <2>2
<1>. QED
  BY <1>5, <1>6

SettingsAgree ==
  /\ settings.shared \in BOOLEAN /\ settings.named \in BOOLEAN
  /\ settings.shared =>
       /\ settings.named =>
            settings.client.address = settings.service.address
       /\ ~settings.named =>
            /\ settings.client.address = "82.97.249.193:50053"
            /\ settings.service.address = "0.0.0.0:50053"
       /\ settings.client.login = settings.service.login
       /\ settings.client.password = settings.service.password

(* A file that is there at /etc is the shared one, whichever side reads it. *)
LEMMA SharedLines ==
  ASSUME NEW places, NEW etc, NEW shared,
         FoundAt(FALSE, Files(places, etc, shared)) = "etc"
  PROVE  ReadLines(FALSE, Files(places, etc, shared)) = shared
<1>. DEFINE files == Files(places, etc, shared)
<1>1. "etc" \in DOMAIN files
  BY FoundHasFile
<1>2. ReadLines(FALSE, files) = files["etc"]
  BY DEF ReadLines
<1>. QED
  BY <1>1, <1>2 DEF Files

LEMMA InitAgrees == Init => SettingsAgree
<1>. SUFFICES ASSUME Init PROVE SettingsAgree
  OBVIOUS
<1>1. PICK etc \in BOOLEAN, shared \in Contents,
           s \in SUBSET Private, c \in SUBSET Private :
        settings = ReadSettings(Files(s, etc, shared), Files(c, etc, shared))
  BY DEF Init
<1>. DEFINE server == Files(s, etc, shared)
            client == Files(c, etc, shared)
            a == ReadLines(FALSE, server)
            b == ReadLines(FALSE, client)
<1>2. /\ settings.service = ParseService(a)
      /\ settings.client = ParseClient(b)
      /\ settings.shared =
           (FoundAt(FALSE, server) = "etc" /\ FoundAt(FALSE, client) = "etc")
      /\ settings.named = (Line(a, 1) # "")
  BY <1>1 DEF ReadSettings
<1>3. settings.shared \in BOOLEAN /\ settings.named \in BOOLEAN
  BY <1>2
<1>4. settings.shared => a = shared /\ b = shared
  BY <1>2, SharedLines
<1>5. /\ ParseService(shared).login = ParseClient(shared).login
      /\ ParseService(shared).password = ParseClient(shared).password
      /\ ParseService(shared).address = OrElse(Line(shared, 1), "0.0.0.0:50053")
      /\ ParseClient(shared).address
           = OrElse(Line(shared, 1), "82.97.249.193:50053")
  BY Zenon DEF ParseService, ParseClient
<1>6. \A d : /\ Line(shared, 1) # "" => OrElse(Line(shared, 1), d) = Line(shared, 1)
             /\ Line(shared, 1) = "" => OrElse(Line(shared, 1), d) = d
  BY DEF OrElse
<1>. HIDE DEF a, b, server, client
<1>. SUFFICES ASSUME settings.shared
              PROVE  /\ settings.named =>
                          settings.client.address = settings.service.address
                     /\ ~settings.named =>
                          /\ settings.client.address = "82.97.249.193:50053"
                          /\ settings.service.address = "0.0.0.0:50053"
                     /\ settings.client.login = settings.service.login
                     /\ settings.client.password = settings.service.password
  BY <1>3 DEF SettingsAgree
<1>7. a = shared /\ b = shared
  BY <1>4
<1>8. /\ settings.service = ParseService(shared)
      /\ settings.client = ParseClient(shared)
      /\ settings.named = (Line(shared, 1) # "")
  BY <1>2, <1>7
<1>9. CASE settings.named
  <2>1. Line(shared, 1) # ""
    BY <1>8, <1>9
  <2>2. /\ OrElse(Line(shared, 1), "0.0.0.0:50053") = Line(shared, 1)
        /\ OrElse(Line(shared, 1), "82.97.249.193:50053") = Line(shared, 1)
    BY <1>6, <2>1, Zenon
  <2>3. /\ settings.service.address = Line(shared, 1)
        /\ settings.client.address = Line(shared, 1)
    BY <1>5, <1>8, <2>2
  <2>. QED
    BY <1>5, <1>8, <1>9, <2>3
<1>10. CASE ~settings.named
  <2>1. Line(shared, 1) = ""
    BY <1>8, <1>10
  <2>2. /\ settings.service.address = "0.0.0.0:50053"
        /\ settings.client.address = "82.97.249.193:50053"
    BY <1>5, <1>6, <1>8, <2>1
  <2>. QED
    BY <1>5, <1>8, <1>10, <2>2
<1>. QED
  BY <1>9, <1>10

-----------------------------------------------------------------------------
(* Who is refused                                                          *)

(* Allowed are the requests with the configured credentials, and no others, *)
(* and nobody is refused who is allowed.                                    *)
Judged ==
  /\ \A q \in arrived :
       q.allowed <=> IsAllowed(settings.service, Credentials(opts[q.caller]))
  /\ \A c \in Caller : answer[c].kind = "refused" =>
       ~IsAllowed(settings.service, Credentials(opts[c]))

LEMMA SettingsStay == [Next]_vars => settings' = settings
BY DEF Next, ClientStep, ShowHelp, ParseCmd, OtherProgram, ReadStdin, Run, Answered,
   Failed, StreamEnds, Report, Interrupt, vars

LEMMA JudgedKept ==
  ASSUME ClientsTyped, RequestsMatch, CallsTyped, CalledOnce, Judged, [Next]_vars
  PROVE  Judged'
<1>. settings' = settings
  BY SettingsStay
<1>1. ASSUME NEW c \in Caller, ParsesOptions(c) PROVE Judged'
  <2>1. call[c] = "none" /\ answer[c].kind = "none"
    BY <1>1 DEF ParsesOptions, RequestsMatch, NoAnswer
  <2>2. \A q \in arrived : q.caller # c /\ q.caller \in Caller
    BY <2>1 DEF CalledOnce, CallsTyped, Request
  <2>3. \A d \in Caller : d # c => opts'[d] = opts[d]
    BY <1>1 DEF ParsesOptions, ClientsTyped
  <2>4. answer' = answer /\ arrived' = arrived
    BY <1>1 DEF ParsesOptions, unaryVars, serverVars, callVars
  <2>5. \A q \in arrived : opts'[q.caller] = opts[q.caller]
    BY <2>2, <2>3
  <2>6. \A d \in Caller : answer'[d].kind = "refused" => d # c
    BY <2>1, <2>4
  <2>. QED
    BY <2>3, <2>4, <2>5, <2>6 DEF Judged, Credentials
<1>2. ASSUME NEW c \in Caller, GoesOn(c) PROVE Judged'
  <2>1. UNCHANGED <<opts, answer>> /\ arrived' \subseteq arrived
    BY <1>2 DEF GoesOn, Receive, Break, unaryVars, queueVars, serverVars, callVars
  <2>. QED
    BY <2>1 DEF Judged, Credentials
<1>3. ASSUME NEW c \in Caller, Calls(c) PROVE Judged'
  <2>. DEFINE allowed == IsAllowed(settings.service, Credentials(opts[c]))
              r == [caller |-> c, method |-> MethodOf(opts[c]), allowed |-> allowed]
  <2>1. /\ opts' = opts /\ answer' = answer
        /\ arrived' = arrived \cup {r} \/ arrived' = arrived
    BY <1>3 DEF Calls, MakeCall
  <2>2. r.caller = c /\ (r.allowed <=> allowed)
    <3>. HIDE DEF allowed
    <3>. QED
      OBVIOUS
  <2>. HIDE DEF r
  <2>. QED
    BY <2>1, <2>2 DEF Judged, Credentials
<1>4. ASSUME NEW q \in arrived, Process(q), opts' = opts PROVE Judged'
  <2>. DEFINE c == q.caller
              reply == IF q.allowed THEN Granted(q) ELSE Refused
  <2>1. c \in Caller /\ arrived' = arrived \ {q}
        /\ answer' = [answer EXCEPT ![c] = reply]
    BY <1>4 DEF Process, CallsTyped, Request
  <2>2. reply.kind = "refused" => ~IsAllowed(settings.service, Credentials(opts[c]))
    <3>1. Granted(q).kind # "refused"
      <4>1. q.method \in Method
        BY DEF CallsTyped, Request
      <4>. QED
        BY <4>1 DEF Method, Granted, Count, FirstOf
    <3>2. IsAllowed(settings.service, Credentials(opts[c])) => q.allowed
      BY DEF Judged
    <3>. QED
      BY <3>1, <3>2
  <2>. HIDE DEF c, reply
  <2>3. answer'[c] = reply /\ \A d \in Caller : d # c => answer'[d] = answer[d]
    BY <2>1 DEF CallsTyped
  <2>4. \A d \in Caller : answer'[d].kind = "refused" =>
          ~IsAllowed(settings.service, Credentials(opts[d]))
    BY <2>2, <2>3 DEF Judged
  <2>. QED
    BY <1>4, <2>1, <2>4 DEF Judged, Credentials
<1>5. ASSUME ServerOnly, ~ \E q \in arrived : Process(q) PROVE Judged'
  <2>1. /\ UNCHANGED <<opts, answer>>
        /\ arrived' \subseteq arrived
    BY <1>5 DEF ServerOnly, ServerStep, Release, HandOver, Abort, Restart,
       unaryVars, queueVars, serverVars, callVars
  <2>. QED
    BY <2>1 DEF Judged, Credentials
<1>. QED
  BY <1>1, <1>2, <1>3, <1>4, <1>5, ClientParts DEF ServerOnly

LEMMA JudgedInvariant == Spec => [](SettingsAgree /\ Judged)
<1>. DEFINE Inv == SettingsAgree /\ Judged
<1>1. Init => Inv
  <2>. SUFFICES ASSUME Init PROVE Judged
    BY InitAgrees
  <2>1. arrived = {} /\ \A c \in Caller : answer[c].kind = "none"
    BY DEF Init, UnaryInit, NoAnswer
  <2>. QED
    BY <2>1 DEF Judged
<1>2. UnaryInv /\ ClientInv /\ Inv /\ [Next]_vars => Inv'
  <2>. SUFFICES ASSUME UnaryInv, ClientInv, Inv, [Next]_vars PROVE Inv'
    OBVIOUS
  <2>1. CallsTyped /\ CalledOnce /\ ClientsTyped /\ RequestsMatch
    BY TypeParts DEF UnaryInv, ClientInv
  <2>2. Judged'
    BY <2>1, JudgedKept
  <2>3. SettingsAgree'
    BY SettingsStay DEF SettingsAgree
  <2>. QED
    BY <2>2, <2>3
<1>. QED
  BY <1>1, <1>2, UnaryInvariant, ClientInvariant, PTL DEF Spec

(***************************************************************************)
(* A client that reads the file its server reads, whatever the file holds, *)
(* reaches the server exactly if the file names an address, and is not     *)
(* refused if its user leaves the credentials alone.                       *)
(***************************************************************************)
THEOREM SharedFileSuffices == Spec => []SharedFileAgrees
<1>. DEFINE Inv == SettingsAgree /\ Judged
<1>1. ClientInv /\ Inv => SharedFileAgrees
  <2>. SUFFICES ASSUME ClientInv, Inv, settings.shared
       PROVE  /\ Reaches(settings.client.address) <=> settings.named
              /\ \A c \in Caller :
                   opts[c].user # "wrong" => answer[c].kind # "refused"
    BY DEF SharedFileAgrees
  <2>1. ASSUME NEW c \in Caller, opts[c].user # "wrong"
        PROVE  answer[c].kind # "refused"
    <3>. DEFINE o == opts[c]
    <3>1. o.user = "config"
      <4>1. o \in Options
        BY DEF ClientInv, ClientsTyped
      <4>2. CASE o \in {NoOptions(command) : command \in Command}
        BY <4>2 DEF NoOptions
      <4>3. CASE o \in [command : {"send", "count"}, service : {""},
                        user : {"config"}]
        BY <4>3
      <4>4. CASE o \in [command : {"send", "count", "last"}, service : {"config"},
                        user : {"wrong"}]
        BY <2>1, <4>4
      <4>. HIDE DEF o
      <4>. QED
        BY <4>1, <4>2, <4>3, <4>4 DEF Options
    <3>2. IsAllowed(settings.service, Credentials(opts[c]))
      BY <3>1 DEF Credentials, IsAllowed, SettingsAgree
    <3>. QED
      BY <3>2 DEF Judged
  <2>2. CASE settings.named
    BY <2>1, <2>2 DEF Reaches, SettingsAgree
  <2>3. CASE ~settings.named
    BY <2>1, <2>3 DEF Reaches, SettingsAgree
  <2>. QED
    BY <2>2, <2>3
<1>. QED
  BY <1>1, ClientInvariant, JudgedInvariant, PTL

-----------------------------------------------------------------------------
(* What the user reads                                                     *)

(* The texts that strerror_sms() has for the two errors a client meets *)
LEMMA TextsFound ==
  /\ Strerror(ERR_CODE_MESSAGE_EMPTY) = "MESSAGE_EMPTY"
  /\ Strerror(UNAVAILABLE) = "DATA_LOSS"
<1>1. Len(errlist) = 3 /\ errlist[3] = "MESSAGE_EMPTY"
  BY DEF errlist
<1>2. Len(errGRPClist) = 16 /\ errGRPClist[15] = "DATA_LOSS"
  BY DEF errGRPClist
<1>3. Entry(errlist, 2) = "MESSAGE_EMPTY" /\ Entry(errGRPClist, 14) = "DATA_LOSS"
  BY <1>1, <1>2 DEF Entry
<1>. QED
  BY <1>1, <1>2, <1>3 DEF Strerror, ERR_CODE_MESSAGE_EMPTY, UNAVAILABLE

LEMMA StatusSeen ==
  ExitStatus(SMS_OK) = 0 /\ ExitStatus(ERR_CODE_COMMAND_LINE) = 12
<1>1. ExitStatus(SMS_OK) = 0
  BY DEF ExitStatus, SMS_OK
<1>2. \A q \in Int : (256 * q + 12) % 256 = 12
  OBVIOUS
<1>3. PICK q \in Int : q = -2
  OBVIOUS
<1>4. 256 * q + 12 = ERR_CODE_COMMAND_LINE
  BY <1>3 DEF ERR_CODE_COMMAND_LINE
<1>5. (256 * q + 12) % 256 = 12
  BY <1>2
<1>. QED
  BY <1>1, <1>4, <1>5, Zenon DEF ExitStatus

Wording == {"usage", "answer", "Interrupted", "MESSAGE_EMPTY", "DATA_LOSS"}

OutputTyped ==
  /\ result \in [Caller -> Codes]
  /\ status \in [Caller -> {-1, 0, 12}]
  /\ printed \in [Caller -> SUBSET Wording]

(* What was printed, but for the complaint about an empty message *)
Texts(c) == printed[c] \ {"MESSAGE_EMPTY"}

Succeeded(c) == call[c] = "answered" /\ result[c] = SMS_OK /\ Texts(c) = {"answer"}

CameToNothing(c) ==
  call[c] # "answered" /\ result[c] = UNAVAILABLE /\ Texts(c) = {}

(***************************************************************************)
(* What a client that is at some place of main() has printed, and what it  *)
(* knows of its call                                                       *)
(***************************************************************************)
Told(c) ==
  /\ pc[c] \in {"start", "stdin", "listen"} => printed[c] = {} /\ call[c] = "none"
  /\ pc[c] \in {"call", "wait"} => Texts(c) = {}
  /\ pc[c] = "wait" => call[c] = "open"
  /\ pc[c] = "listen" => opts[c].command = "listen"
  /\ pc[c] \notin {"report", "exited"} => result[c] = SMS_OK
  /\ pc[c] = "report" /\ opts[c].command # "listen"
       => Succeeded(c) \/ CameToNothing(c)
  /\ pc[c] = "exited" /\ opts[c].command # "listen" =>
       \/ "Interrupted" \in printed[c]
       \/ status[c] = 12
       \/ call[c] = "answered" /\ Texts(c) = {"answer"}
       \/ call[c] # "answered" /\ Texts(c) = {"DATA_LOSS"}

(* A step of client c leaves the others alone. *)
LEMMA OwnStep ==
  ASSUME ClientsTyped, CallsTyped, OutputTyped, NEW c \in Caller, ClientStep(c)
  PROVE  /\ OutputTyped'
         /\ \A d \in Caller \ {c} :
              /\ pc'[d] = pc[d] /\ call'[d] = call[d] /\ result'[d] = result[d]
              /\ opts'[d] = opts[d]
              /\ printed'[d] = printed[d] /\ status'[d] = status[d]
<1>1. \A d \in Caller \ {c} : pc'[d] = pc[d]
  BY DEF ClientsTyped, ClientStep, ShowHelp, ParseCmd, OtherProgram, ReadStdin, Run,
     Answered, Failed, StreamEnds, Report, Interrupt, Goto, Exits
<1>2. \A d \in Caller \ {c} : call'[d] = call[d]
  BY DEF CallsTyped, ClientStep, ShowHelp, ParseCmd, OtherProgram, ReadStdin, Run,
     Answered, Failed, StreamEnds, Report, Interrupt, MakeCall, Receive, Break,
     unaryVars, callVars
<1>3. \/ result' = result
      \/ \E code \in Codes : result' = [result EXCEPT ![c] = code]
  BY DEF ClientStep, ShowHelp, ParseCmd, OtherProgram, ReadStdin, Run,
     Answered, Failed, StreamEnds, Report, Interrupt, ReturnCode, Codes
<1>8. \A d \in Caller \ {c} : opts'[d] = opts[d]
  BY DEF ClientsTyped, ClientStep, ShowHelp, ParseCmd, OtherProgram, ReadStdin,
     Run, Answered, Failed, StreamEnds, Report, Interrupt
<1>4. \/ status' = status
      \/ status' = [status EXCEPT ![c] = 0]
      \/ status' = [status EXCEPT ![c] = 12]
  BY StatusSeen DEF ClientStep, ShowHelp, ParseCmd, OtherProgram, ReadStdin, Run,
     Answered, Failed, StreamEnds, Report, Interrupt, Exits
<1>5. \E texts \in SUBSET Wording :
        printed' = printed \/ printed' = [printed EXCEPT ![c] = @ \cup texts]
  <2>1. result[c] # SMS_OK => Strerror(result[c]) = "DATA_LOSS"
    BY TextsFound DEF OutputTyped, Codes
  <2>2. \/ printed' = printed
        \/ Prints(c, {"usage"}) \/ Prints(c, {"answer"}) \/ Prints(c, {"Interrupted"})
        \/ Prints(c, {"MESSAGE_EMPTY"}) \/ Prints(c, {}) \/ Prints(c, {"DATA_LOSS"})
    <3>1. CASE ReadStdin(c)
      <4>1. PICK empty \in BOOLEAN :
              Prints(c, IF empty THEN {Strerror(ERR_CODE_MESSAGE_EMPTY)} ELSE {})
        BY <3>1 DEF ReadStdin
      <4>. QED
        BY <4>1, TextsFound
    <3>2. CASE Report(c)
      <4>1. Prints(c, IF result[c] # SMS_OK THEN {Strerror(result[c])} ELSE {})
        BY <3>2 DEF Report
      <4>. QED
        BY <2>1, <4>1
    <3>3. CASE ShowHelp(c) \/ Answered(c) \/ Interrupt(c)
      BY <3>3 DEF ShowHelp, Answered, Interrupt
    <3>4. CASE ParseCmd(c) \/ OtherProgram(c) \/ Run(c) \/ Failed(c) \/ StreamEnds(c)
      BY <3>4 DEF ParseCmd, OtherProgram, Run, Failed, StreamEnds
    <3>. QED
      BY <3>1, <3>2, <3>3, <3>4 DEF ClientStep
  <2>3. CASE printed' = printed
    <3>1. {} \in SUBSET Wording
      OBVIOUS
    <3>. QED
      BY <2>3, <3>1
  <2>4. \A texts \in SUBSET Wording :
          Prints(c, texts) => printed' = [printed EXCEPT ![c] = @ \cup texts]
    BY DEF Prints
  <2>5. \A texts \in {{"usage"}, {"answer"}, {"Interrupted"}, {"MESSAGE_EMPTY"}, {},
                      {"DATA_LOSS"}} : texts \in SUBSET Wording
    BY DEF Wording
  <2>. QED
    BY <2>2, <2>3, <2>4, <2>5, Zenon
<1>6. OutputTyped'
  BY <1>3, <1>4, <1>5 DEF OutputTyped, Codes
<1>7. \A d \in Caller \ {c} :
        result'[d] = result[d] /\ printed'[d] = printed[d] /\ status'[d] = status[d]
  BY <1>3, <1>4, <1>5 DEF OutputTyped
<1>. QED
  BY <1>1, <1>2, <1>6, <1>7, <1>8

LEMMA ToldKept ==
  ASSUME ClientsTyped, CallsTyped, OutputTyped, NEW c \in Caller, ClientStep(c),
         RequestsMatch, Told(c)
  PROVE  Told(c)'
<1>. USE DEF Told, Texts
<1>1. CASE ShowHelp(c)
  <2>1. pc'[c] = "exited" /\ status'[c] = 12
    BY <1>1, StatusSeen DEF ShowHelp, Exits, Goto, ClientsTyped, OutputTyped
  <2>. QED
    BY <2>1
<1>2. CASE ParseCmd(c) \/ OtherProgram(c)
  <2>1. /\ pc[c] = "start" /\ pc'[c] \in {"stdin", "call", "listen"}
        /\ UNCHANGED <<call, printed, result>>
    BY <1>2 DEF ParseCmd, OtherProgram, AfterOptions, Goto, ClientsTyped, unaryVars,
       callVars
  <2>2. pc'[c] = "listen" => opts'[c].command = "listen"
    BY <1>2 DEF ParseCmd, OtherProgram, AfterOptions, Goto, ClientsTyped
  <2>. QED
    BY <2>1, <2>2
<1>3. CASE ReadStdin(c)
  <2>1. PICK empty \in BOOLEAN :
          Prints(c, IF empty THEN {Strerror(ERR_CODE_MESSAGE_EMPTY)} ELSE {})
    BY <1>3 DEF ReadStdin
  <2>2. printed'[c] \subseteq printed[c] \cup {"MESSAGE_EMPTY"}
    BY <2>1, TextsFound DEF Prints, OutputTyped
  <2>3. pc[c] = "stdin" /\ pc'[c] = "call" /\ result' = result
    BY <1>3 DEF ReadStdin, Goto, ClientsTyped
  <2>. QED
    BY <2>2, <2>3
<1>4. CASE Run(c)
  <2>1. /\ pc[c] = "call" /\ pc'[c] = "wait" /\ call'[c] = "open"
        /\ UNCHANGED <<printed, result>>
    BY <1>4 DEF Run, Goto, MakeCall, ClientsTyped, CallsTyped
  <2>. QED
    BY <2>1
<1>5. CASE Answered(c)
  <2>1. /\ pc[c] = "wait" /\ pc'[c] = "report" /\ call'[c] = "answered"
        /\ printed'[c] = printed[c] \cup {"answer"} /\ result' = result
    BY <1>5 DEF Answered, Receive, Prints, Goto, ClientsTyped, CallsTyped, OutputTyped
  <2>2. Succeeded(c)'
    BY <2>1 DEF Succeeded
  <2>. QED
    BY <2>1, <2>2
<1>6. CASE Failed(c)
  <2>1. /\ pc[c] = "wait" /\ pc'[c] = "report"
        /\ result'[c] = UNAVAILABLE /\ printed' = printed
        /\ call'[c] # "answered"
    BY <1>6 DEF Failed, Break, Goto, ReturnCode, ClientsTyped, CallsTyped, OutputTyped
  <2>2. CameToNothing(c)'
    BY <2>1 DEF CameToNothing
  <2>. QED
    BY <2>1, <2>2
<1>9. CASE StreamEnds(c)
  <2>1. /\ pc[c] = "listen" /\ pc'[c] = "report"
        /\ opts[c].command = "listen" /\ opts' = opts
    BY <1>9 DEF StreamEnds, Goto, ClientsTyped
  <2>. QED
    BY <2>1
<1>7. CASE Report(c)
  <2>1. /\ pc[c] = "report" /\ pc'[c] = "exited" /\ call' = call /\ opts' = opts
        /\ Prints(c, IF result[c] # SMS_OK THEN {Strerror(result[c])} ELSE {})
    BY <1>7 DEF Report, Exits, Goto, ClientsTyped, unaryVars, callVars
  <2>2. CASE Succeeded(c)
    <3>1. printed'[c] = printed[c]
      BY <2>1, <2>2 DEF Succeeded, Prints, OutputTyped
    <3>. QED
      BY <2>1, <2>2, <3>1 DEF Succeeded
  <2>3. CASE CameToNothing(c)
    <3>1. result[c] = UNAVAILABLE /\ UNAVAILABLE # SMS_OK
      BY <2>3 DEF CameToNothing, UNAVAILABLE, SMS_OK
    <3>2. printed'[c] = printed[c] \cup {"DATA_LOSS"}
      BY <2>1, <3>1, TextsFound DEF Prints, OutputTyped
    <3>. QED
      BY <2>1, <2>3, <3>2 DEF CameToNothing
  <2>4. CASE opts[c].command = "listen"
    BY <2>1, <2>4
  <2>. QED
    BY <2>1, <2>2, <2>3, <2>4
<1>8. CASE Interrupt(c)
  <2>1. pc'[c] = "exited" /\ "Interrupted" \in printed'[c]
    BY <1>8 DEF Interrupt, Prints, Exits, Goto, ClientsTyped, OutputTyped
  <2>. QED
    BY <2>1
<1>. QED
  BY <1>1, <1>2, <1>3, <1>4, <1>5, <1>6, <1>7, <1>8, <1>9 DEF ClientStep

LEMMA OutputInvariant == Spec => [](OutputTyped /\ \A c \in Caller : Told(c))
<1>. DEFINE Inv == OutputTyped /\ \A c \in Caller : Told(c)
<1>1. Init => Inv
  BY DEF Init, UnaryInit, OutputTyped, Codes, Told
<1>2. UnaryInv /\ ClientInv /\ Inv /\ [Next]_vars => Inv'
  <2>. SUFFICES ASSUME UnaryInv, ClientInv, Inv, [Next]_vars PROVE Inv'
    OBVIOUS
  <2>1. CallsTyped /\ ClientsTyped /\ RequestsMatch
    BY TypeParts DEF UnaryInv, ClientInv
  <2>2. ASSUME NEW c \in Caller, ClientStep(c) PROVE Inv'
    <3>1. Told(c)'
      BY <2>1, <2>2, ToldKept
    <3>2. ASSUME NEW d \in Caller, d # c PROVE Told(d)'
      BY <2>1, <2>2, <3>2, OwnStep DEF Told, Texts, Succeeded, CameToNothing
    <3>. QED
      BY <2>1, <2>2, <3>1, <3>2, OwnStep
  <2>3. CASE \/ ServerStep /\ UNCHANGED <<settings, clientVars>>
             \/ UNCHANGED vars
    <3>1. UNCHANGED <<pc, opts, result, printed, status, call>>
      BY <2>3 DEF ServerStep, Process, Release, HandOver, Abort, Restart, vars,
         clientVars, unaryVars, callVars, serverVars, queueVars
    <3>. QED
      BY <3>1 DEF OutputTyped, Told, Texts, Succeeded, CameToNothing
  <2>. QED
    BY <2>2, <2>3 DEF Next
<1>. QED
  BY <1>1, <1>2, UnaryInvariant, ClientInvariant, PTL DEF Spec

(***************************************************************************)
(* From what a client that sends or counts printed before it ended by      *)
(* itself its user can tell whether the call was answered.                 *)
(***************************************************************************)
THEOREM OutcomeIsPrinted == Spec => []OutcomePrinted
<1>1. OutputTyped /\ (\A c \in Caller : Told(c)) => OutcomePrinted
  BY TextsFound DEF Told, Texts, OutcomePrinted
<1>. QED
  BY <1>1, OutputInvariant, PTL

(***************************************************************************)
(* The variables of the server and of its clients stay in their types.     *)
(***************************************************************************)
THEOREM TypeCorrect == Spec => []TypeOK
<1>. DEFINE Shared == settings.shared \in BOOLEAN
<1>1. Init => Shared
  BY InitAgrees DEF SettingsAgree
<1>2. Shared /\ [Next]_vars => Shared'
  BY SettingsStay
<1>3. UnaryInv /\ ClientInv /\ OutputTyped /\ Shared => TypeOK
  BY DEF UnaryInv, ClientInv, ClientsTyped, OutputTyped, TypeOK
<1>. QED
  BY <1>1, <1>2, <1>3, UnaryInvariant, ClientInvariant, OutputInvariant, PTL DEF Spec

-----------------------------------------------------------------------------
(* The queue that the callers see                                          *)

(* What a client asked for does not change after it called. *)
LEMMA AskedStays ==
  ASSUME settings' = settings,
         \A c \in Caller : /\ call'[c] = "none" <=> call[c] = "none"
                           /\ call[c] # "none" => opts'[c] = opts[c]
  PROVE  Asked' = Asked
<1>. DEFINE wish(c) == [method  |-> MethodOf(opts[c]),
                        allowed |-> IsAllowed(settings.service, Credentials(opts[c]))]
<1>1. ASSUME NEW c \in Caller, call[c] # "none" PROVE wish(c)' = wish(c)
  BY <1>1 DEF Credentials
<1>. HIDE DEF wish
<1>2. Asked = [c \in Caller |-> IF call[c] = "none"
                 THEN [method |-> "none", allowed |-> FALSE] ELSE wish(c)]
  BY DEF Asked, wish
<1>3. Asked' = [c \in Caller |-> IF call'[c] = "none"
                  THEN [method |-> "none", allowed |-> FALSE] ELSE wish(c)']
  BY DEF Asked, wish
<1>. QED
  BY <1>1, <1>2, <1>3

(* A call is asked for as its client was told to. *)
LEMMA CallAsks ==
  ASSUME ClientsTyped, CallsTyped, settings' = settings,
         NEW c \in Caller, Calls(c)
  PROVE  Queue!Ask(c)
<1>. DEFINE w == [method  |-> MethodOf(opts[c]),
                  allowed |-> IsAllowed(settings.service, Credentials(opts[c]))]
<1>1. /\ call[c] = "none" /\ call' = [call EXCEPT ![c] = "open"]
      /\ UNCHANGED <<opts, waiting, up, handed, lost, answer>>
  BY DEF Calls, MakeCall, queueVars
<1>2. call'[c] = "open" /\ \A d \in Caller : d # c => call'[d] = call[d]
  BY <1>1 DEF CallsTyped
<1>3. w \in Queue!Wish
  <2>1. IsAllowed(settings.service, Credentials(opts[c])) \in BOOLEAN
    BY DEF IsAllowed
  <2>2. MethodOf(opts[c]) \in {"requestToSend", "countSMSToSend", "lastSMSToSend"}
    BY DEF MethodOf
  <2>. QED
    BY <2>1, <2>2 DEF Queue!Wish
<1>4. Asked' = [Asked EXCEPT ![c] = w]
  <2>1. \A d \in Caller : Credentials(opts[d])' = Credentials(opts[d])
    BY <1>1 DEF Credentials
  <2>. QED
    BY <1>1, <1>2, <2>1 DEF Asked
<1>. HIDE DEF w
<1>. QED
  BY <1>1, <1>3, <1>4 DEF Queue!Ask, Queue!serverVars

(* An object in PROCESS gives the call of its client the effect it asked for. *)
LEMMA ProcessServes ==
  ASSUME CallsTyped, CalledOnce, RequestsMatch, Judged, settings' = settings,
         opts' = opts, NEW q \in arrived, Process(q)
  PROVE  \E c \in Caller : \/ Queue!Refuse(c) \/ Queue!Enqueue(c) \/ Queue!CountAll(c)
                           \/ Queue!TakeFirst(c) \/ Queue!FindNone(c)
<1>. DEFINE c == q.caller
            reply == IF q.allowed THEN Granted(q) ELSE Refused
            granted == IsAllowed(settings.service, Credentials(opts[c]))
<1>1. /\ c \in Caller /\ q.method \in Method /\ call[c] # "none"
      /\ answer[c] = NoAnswer /\ q.method = MethodOf(opts[c])
      /\ q.allowed <=> granted
  BY DEF CallsTyped, Request, CalledOnce, RequestsMatch, Judged
<1>2. granted \in BOOLEAN
  BY DEF IsAllowed
<1>3. /\ answer' = [answer EXCEPT ![c] = reply] /\ call' = call
      /\ waiting' = IF Queues(q) THEN Append(waiting, c)
                    ELSE IF Takes(q) THEN Erased(waiting) ELSE waiting
  BY DEF Process
<1>. HIDE DEF c, granted
<1>4. Asked' = Asked
  BY <1>3, AskedStays
<1>5. Asked[c] = [method |-> q.method, allowed |-> granted]
  BY <1>1 DEF Asked, granted
<1>6. Asked[c] # Queue!Nothing
  BY <1>1, <1>5 DEF Queue!Nothing, Method
<1>10. up /\ UNCHANGED <<up, handed, lost>>
  BY DEF Process
<1>7. ASSUME NEW e, reply = e PROVE Queue!Takes(c, e)
  BY <1>1, <1>3, <1>4, <1>7, <1>10 DEF Queue!Takes, Queue!NoEffect, Queue!Effect,
     Queue!serverVars, NoAnswer
<1>8. CASE ~granted
  <2>1. ~q.allowed /\ ~Asked[c].allowed
    BY <1>1, <1>5, <1>8
  <2>2. reply = Queue!Effect("refused", 0, <<>>)
    BY <2>1 DEF Refused, Queue!Effect
  <2>3. waiting' = waiting
    BY <1>3, <2>1 DEF Queues, Takes
  <2>. QED
    BY <1>1, <1>6, <1>7, <2>1, <2>2, <2>3 DEF Queue!Refuse
<1>9. CASE granted
  <2>1. q.allowed /\ Asked[c] = [method |-> q.method, allowed |-> TRUE]
    BY <1>1, <1>2, <1>5, <1>9
  <2>2. reply = Granted(q)
    BY <2>1
  <2>. HIDE DEF reply
  <2>3. CASE q.method = "requestToSend"
    <3>1. reply = Queue!Effect("count", 1, <<>>)
      BY <2>2, <2>3 DEF Granted, Count, Queue!Effect
    <3>2. waiting' = Append(waiting, c)
      BY <1>3, <2>1, <2>3 DEF Queues
    <3>. QED
      BY <1>1, <1>7, <2>1, <2>3, <3>1, <3>2 DEF Queue!Enqueue, Queue!Wants
  <2>4. CASE q.method = "countSMSToSend"
    <3>1. reply = Queue!Effect("count", Len(waiting), <<>>)
      BY <2>2, <2>4 DEF Granted, Count, Queue!Effect
    <3>2. waiting' = waiting
      BY <1>3, <2>4 DEF Queues, Takes
    <3>. QED
      BY <1>1, <1>7, <2>1, <2>4, <3>1, <3>2 DEF Queue!CountAll, Queue!Wants
  <2>5. CASE q.method = "lastSMSToSend" /\ waiting # <<>>
    <3>1. reply = Queue!Effect("sms", 0, <<Head(waiting)>>)
      BY <2>2, <2>5 DEF Granted, FirstOf, Queue!Effect
    <3>2. waiting' = Tail(waiting)
      BY <1>3, <2>1, <2>5 DEF Queues, Takes, Erased
    <3>. QED
      BY <1>1, <1>7, <2>1, <2>5, <3>1, <3>2 DEF Queue!TakeFirst, Queue!Wants
  <2>6. CASE q.method = "lastSMSToSend" /\ waiting = <<>>
    <3>1. reply = Queue!Effect("sms", 0, <<>>)
      BY <2>2, <2>6 DEF Granted, FirstOf, Queue!Effect
    <3>2. waiting' = waiting
      BY <1>3, <2>6 DEF Queues, Takes
    <3>. QED
      BY <1>1, <1>7, <2>1, <2>6, <3>1, <3>2 DEF Queue!FindNone, Queue!Wants
  <2>. QED
    BY <1>1, <2>3, <2>4, <2>5, <2>6 DEF Method
<1>. QED
  BY <1>8, <1>9

LEMMA QueueStep ==
  ASSUME UnaryInv, ClientInv, Judged, [Next]_vars
  PROVE  [Queue!Next]_Queue!queueVars
<1>. USE DEF Queue!queueVars, Queue!serverVars
<1>1. CallsTyped /\ CalledOnce /\ ClientsTyped /\ RequestsMatch
  BY TypeParts DEF UnaryInv, ClientInv
<1>2. settings' = settings
  BY SettingsStay
<1>3. ASSUME opts' = opts, call' = call PROVE Asked' = Asked
  BY <1>2, <1>3, AskedStays
<1>4. ASSUME NEW c \in Caller, ParsesOptions(c) PROVE UNCHANGED Queue!queueVars
  <2>1. call[c] = "none" /\ UNCHANGED <<waiting, up, handed, lost, answer, call>>
    BY <1>1, <1>4 DEF ParsesOptions, RequestsMatch, unaryVars, queueVars, serverVars,
       callVars
  <2>2. \A d \in Caller : d # c => opts'[d] = opts[d]
    BY <1>1, <1>4 DEF ParsesOptions, ClientsTyped
  <2>3. Asked' = Asked
    BY <1>2, <2>1, <2>2, AskedStays
  <2>. QED
    BY <2>1, <2>3
<1>5. ASSUME NEW c \in Caller, GoesOn(c)
      PROVE  UNCHANGED Queue!queueVars \/ Queue!Learn(c) \/ Queue!GiveUp(c)
  <2>1. opts' = opts
    BY <1>5 DEF GoesOn
  <2>2. CASE UNCHANGED unaryVars
    BY <1>3, <2>1, <2>2 DEF unaryVars, queueVars, serverVars, callVars
  <2>3. CASE Receive(c) \/ Break(c)
    <3>1. /\ call[c] = "open" /\ UNCHANGED <<waiting, up, handed, lost, answer>>
          /\ \/ call' = [call EXCEPT ![c] = "answered"] /\ answer[c] # NoAnswer
             \/ call' = [call EXCEPT ![c] = "failed"]
      BY <2>3 DEF Receive, Break, queueVars, serverVars
    <3>2. \A d \in Caller : call'[d] = "none" <=> call[d] = "none"
      BY <1>1, <3>1 DEF CallsTyped
    <3>3. Asked' = Asked
      BY <1>2, <2>1, <3>2, AskedStays
    <3>. QED
      BY <3>1, <3>3 DEF Queue!Learn, Queue!GiveUp, Queue!NoEffect, Queue!Effect, NoAnswer
  <2>. QED
    BY <1>5, <2>2, <2>3 DEF GoesOn
<1>6. ASSUME ServerOnly, ~ \E q \in arrived : Process(q)
      PROVE  UNCHANGED Queue!queueVars \/ Queue!Next
  <2>1. UNCHANGED <<opts, answer, call>>
    BY <1>6 DEF ServerOnly, ServerStep, Release, HandOver, Abort, Restart, unaryVars,
       serverVars, callVars
  <2>2. Asked' = Asked
    BY <1>3, <2>1
  <2>3. CASE HandOver
    BY <2>1, <2>2, <2>3
       DEF HandOver, serverVars, ToSet, Queue!ToSet, Queue!HandOver, Queue!Next
  <2>4. CASE Abort
    BY <2>1, <2>2, <2>4 DEF Abort, ToSet, Queue!ToSet, Queue!End, Queue!Next
  <2>5. CASE Restart
    BY <2>1, <2>2, <2>5 DEF Restart, queueVars, Queue!Start, Queue!Next
  <2>6. CASE UNCHANGED unaryVars \/ \E c \in Caller : Release(c)
    BY <2>1, <2>2, <2>6 DEF Release, unaryVars, queueVars, serverVars
  <2>. QED
    BY <1>6, <2>3, <2>4, <2>5, <2>6 DEF ServerOnly, ServerStep
<1>7. ASSUME NEW q \in arrived, Process(q), opts' = opts PROVE Queue!Next
  BY <1>1, <1>2, <1>7, ProcessServes DEF Queue!Next
<1>8. ASSUME NEW c \in Caller, Calls(c) PROVE Queue!Next
  BY <1>1, <1>2, <1>8, CallAsks DEF Queue!Next
<1>. QED
  BY <1>1, <1>4, <1>5, <1>6, <1>7, <1>8, ClientParts DEF ServerOnly, Queue!Next

(***************************************************************************)
(* A program that makes a call sees a queue on which each call takes       *)
(* effect once at most and at one moment after it was made, and that loses *)
(* SMS only when the server ends, for any number of clients, configuration *)
(* and number of aborts.                                                   *)
(***************************************************************************)
THEOREM SmsQueueImplemented == Spec => ImplementsSmsQueue
<1>1. Init => Queue!Init
  BY DEF Init, UnaryInit, Asked, Queue!Init, Queue!Nothing, Queue!NoEffect,
     Queue!Effect, NoAnswer
<1>2. UnaryInv /\ ClientInv /\ Judged /\ [Next]_vars => [Queue!Next]_Queue!queueVars
  BY QueueStep
<1>. QED
  BY <1>1, <1>2, UnaryInvariant, ClientInvariant, JudgedInvariant, PTL
     DEF Spec, ImplementsSmsQueue, Queue!Spec

-----------------------------------------------------------------------------
(* Which text strerror_sms() has for which code                            *)

LEMMA TablesFilled ==
  /\ Len(errlist) = 3 /\ Len(errGRPClist) = 16
  /\ \A i \in 1..3 : errlist[i] # "garbage"
  /\ \A i \in 1..16 : errGRPClist[i] # "garbage"
<1>1. Len(errlist) = 3 /\ \A i \in 1..3 : errlist[i] # "garbage"
  BY DEF errlist
<1>2. Len(errGRPClist) = 16
  BY DEF errGRPClist
<1>3. \A i \in 1..16 : errGRPClist[i] # "garbage"
  BY DEF errGRPClist
<1>. QED
  BY <1>1, <1>2, <1>3

LEMMA OwnCode ==
  ASSUME NEW code \in -503..-500
  PROVE  Strerror(code) = Entry(errlist, -(code + 500))
<1>1. code <= -500 /\ code >= -500 - Len(errlist) /\ code \notin 0..Len(errGRPClist)
  BY TablesFilled
<1>. QED
  BY <1>1 DEF Strerror

LEMMA GrpcCode ==
  ASSUME NEW code \in 0..16
  PROVE  Strerror(code) = Entry(errGRPClist, code)
<1>1. ~(code <= -500) /\ code \in 0..Len(errGRPClist)
  BY TablesFilled
<1>. QED
  BY <1>1 DEF Strerror

LEMMA OtherCode ==
  ASSUME NEW code \in Int, code \notin -503..-500, code \notin 0..16
  PROVE  Strerror(code) = "strerror"
<1>1. ~(code <= -500 /\ code >= -500 - Len(errlist)) /\ code \notin 0..Len(errGRPClist)
  BY TablesFilled
<1>. QED
  BY <1>1 DEF Strerror

(***************************************************************************)
(* Over all codes: the program's own errors have the text that errlist.h   *)
(* defines beside them, each code of gRPC has the text of the next one,    *)
(* and both tables are read one entry behind their end, at -503 and at     *)
(* UNAUTHENTICATED, 16, and nowhere else.                                  *)
(***************************************************************************)
THEOREM TextsShifted ==
  /\ \A code \in -502..-500 : Strerror(code) = TextOf(code)
  /\ \A code \in 0..15 : Strerror(code) = TextOf(code + 1)
  /\ \A code \in Int : Strerror(code) = "garbage" <=> code \in {-503, 16}
<1>1. ASSUME NEW code \in -502..-500 PROVE Strerror(code) = TextOf(code)
  <2>1. Strerror(code) = Entry(errlist, -(code + 500))
    BY OwnCode
  <2>2. -(code + 500) < Len(errlist) /\ -(code + 500) + 1 = -code - 499
    BY TablesFilled
  <2>3. Entry(errlist, -(code + 500)) = errlist[-code - 499]
    BY <2>2 DEF Entry
  <2>4. code \notin 1..16
    OBVIOUS
  <2>5. TextOf(code) = errlist[-code - 499]
    BY <2>4 DEF TextOf
  <2>. QED
    BY <2>1, <2>3, <2>5
<1>2. ASSUME NEW code \in 0..15 PROVE Strerror(code) = TextOf(code + 1)
  <2>1. Strerror(code) = Entry(errGRPClist, code) /\ code < Len(errGRPClist)
    BY GrpcCode, TablesFilled
  <2>2. code + 1 \in 1..16 /\ code + 1 \notin -502..-500
    OBVIOUS
  <2>3. TextOf(code + 1) = errGRPClist[code + 1]
    BY <2>2 DEF TextOf
  <2>. QED
    BY <2>1, <2>3 DEF Entry
<1>3. ASSUME NEW code \in Int
      PROVE  Strerror(code) = "garbage" <=> code \in {-503, 16}
  <2>1. CASE code \in -503..-500
    <3>1. Strerror(code) = Entry(errlist, -(code + 500))
      BY <2>1, OwnCode
    <3>2. CASE code = -503
      BY <3>1, <3>2, TablesFilled DEF Entry
    <3>3. CASE code # -503
      <4>. DEFINE i == -(code + 500) + 1
      <4>1. i \in 1..3 /\ -(code + 500) < Len(errlist)
        BY <2>1, <3>3, TablesFilled
      <4>2. Strerror(code) = errlist[i]
        BY <3>1, <4>1 DEF Entry
      <4>. HIDE DEF i
      <4>3. Strerror(code) # "garbage"
        BY <4>1, <4>2, TablesFilled
      <4>. QED
        BY <2>1, <3>3, <4>3
    <3>. QED
      BY <3>2, <3>3
  <2>2. CASE code \in 0..16
    <3>1. Strerror(code) = Entry(errGRPClist, code)
      BY <2>2, GrpcCode
    <3>2. CASE code = 16
      BY <3>1, <3>2, TablesFilled DEF Entry
    <3>3. CASE code # 16
      <4>. DEFINE i == code + 1
      <4>1. i \in 1..16 /\ code < Len(errGRPClist)
        BY <2>2, <3>3, TablesFilled
      <4>2. Strerror(code) = errGRPClist[i]
        BY <3>1, <4>1 DEF Entry
      <4>. HIDE DEF i
      <4>3. Strerror(code) # "garbage"
        BY <4>1, <4>2, TablesFilled
      <4>. QED
        BY <2>2, <3>3, <4>3
    <3>. QED
      BY <3>2, <3>3
  <2>3. CASE code \notin -503..-500 /\ code \notin 0..16
    <3>1. Strerror(code) = "strerror"
      BY <2>3, OtherCode
    <3>2. "strerror" # "garbage" /\ code # -503 /\ code # 16
      BY <2>3
    <3>. QED
      BY <3>1, <3>2
  <2>. QED
    BY <2>1, <2>2, <2>3
<1>. QED
  BY <1>1, <1>2, <1>3
=============================================================================
