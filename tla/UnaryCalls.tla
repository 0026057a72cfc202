----------------------------- MODULE UnaryCalls -----------------------------
(***************************************************************************)
(* The calls that return one answer (service-raw.cpp 110-260, 406-452):    *)
(* requestToSend, countSMSToSend and lastSMSToSend, from the request that  *)
(* reaches gRPC to the deletion of the object that handled it, and what    *)
(* they do to the queue of QueuingMgr.  SmsService follows the SMS on to   *)
(* the phones; here a phone is one step, HandOver.                         *)
(*                                                                         *)
(* Each method has one handler object in PROCESS that waits for the next   *)
(* request.  A caller makes one call; the SMS it sends is named by it.     *)
(* Connections break, also between the queuing of an SMS and the answer,   *)
(* and the server aborts and is started again with an empty queue.         *)
(***************************************************************************)
EXTENDS Naturals, Sequences, FiniteSets, SequencesExt

CONSTANTS
  Caller,     \* programs that call the server, once each
  MaxAborts   \* bound: aborts of the server

ASSUME UnaryCallsAssumption == MaxAborts \in Nat

VARIABLES
  up,         \* is there a server process?
  aborts,     \* how often it aborted
  waiting,    \* QueuingMgr::result
  handlers,   \* handlers[m]: objects of method m that wait for a request
  arrived,    \* calls gRPC holds for the server: who calls what, allowed?
  finishing,  \* callers whose handler object is in FINISH
  answer,     \* what Finish() sent to a caller
  call,       \* how the call stands for the caller
  queued,     \* history: SMS that entered the queue,
  taken,      \*   left it as an answer of lastSMSToSend, in this order,
  handed,     \*   were handed to phones,
  lost        \*   were in the queue of a server that aborted

queueVars  == <<waiting, queued, taken, handed, lost>>
serverVars == <<up, aborts, handlers, arrived, finishing>>
callVars   == <<answer, call>>
unaryVars == <<queueVars, serverVars, callVars>>

Method == {"requestToSend", "countSMSToSend", "lastSMSToSend"}

Request == [caller : Caller, method : Method, allowed : BOOLEAN]

(* A count, -1 or "N/A" for a caller that is refused, the SMS that is taken *)
Answer == [kind : {"none", "count", "refused", "sms"}, n : Nat,
           sms : Seq(Caller)]

NoAnswer   == [kind |-> "none", n |-> 0, sms |-> <<>>]
Refused    == [kind |-> "refused", n |-> 0, sms |-> <<>>]
Count(n)   == [kind |-> "count", n |-> n, sms |-> <<>>]
FirstOf(s) == [kind |-> "sms", n |-> 0,
               sms |-> IF s = <<>> THEN <<>> ELSE <<Head(s)>>]

CallState == {"none", "open", "answered", "failed"}

UnaryTypeOK ==
  /\ up \in BOOLEAN /\ aborts \in Nat
  /\ waiting \in Seq(Caller)
  /\ handlers \in [Method -> Nat]
  /\ arrived \subseteq Request
  /\ finishing \subseteq Caller
  /\ answer \in [Caller -> Answer]
  /\ call \in [Caller -> CallState]
  /\ queued \subseteq Caller
  /\ taken \in Seq(Caller)
  /\ handed \subseteq Caller
  /\ lost \subseteq Caller

UnaryInit ==
  /\ up = TRUE /\ aborts = 0
  /\ waiting = <<>>
  /\ handlers = [m \in Method |-> 1]
  /\ arrived = {} /\ finishing = {}
  /\ answer = [c \in Caller |-> NoAnswer]
  /\ call = [c \in Caller |-> "none"]
  /\ queued = {} /\ taken = <<>> /\ handed = {} /\ lost = {}

-----------------------------------------------------------------------------
(* A caller calls method m of a server it can reach or not. *)
MakeCall(c, m, allowed, reached) ==
  /\ call[c] = "none"
  /\ call' = [call EXCEPT ![c] = "open"]
  /\ arrived' = IF reached /\ up
       THEN arrived \cup {[caller |-> c, method |-> m, allowed |-> allowed]}
       ELSE arrived
  /\ UNCHANGED <<queueVars, up, aborts, handlers, finishing, answer>>

(* Faulty form: no object for the next call of the method is created. *)
NoSuccessor == 0

(* new RequestToSendData(service) and its CREATE: the next one is armed *)
Successor == 1

(* Faulty form: the credentials are looked at after the SMS is queued. *)
QueuesAny(q) == q.method = "requestToSend"

Queues(q) == q.method = "requestToSend" /\ q.allowed

(* firstSmsCountReady2Send() finds an SMS. *)
Takes(q) == q.method = "lastSMSToSend" /\ q.allowed /\ waiting # <<>>

(* Faulty form: erase() is forgotten. *)
KeepsFirst(s) == s

Erased(s) == Tail(s)

(* The answer of an allowed call *)
Granted(q) ==
  CASE q.method = "requestToSend"  -> Count(1)
    [] q.method = "countSMSToSend" -> Count(Len(waiting))
    [] q.method = "lastSMSToSend"  -> FirstOf(waiting)

(* Proceed(), PROCESS, of the object that gRPC bound to request q *)
Process(q) ==
  /\ up
  /\ q \in arrived
  /\ handlers[q.method] > 0
  /\ arrived' = arrived \ {q}
  /\ waiting' = IF Queues(q) THEN Append(waiting, q.caller)
                ELSE IF Takes(q) THEN Erased(waiting) ELSE waiting
  /\ queued' = IF Queues(q) THEN queued \cup {q.caller} ELSE queued
  /\ taken' = IF Takes(q) THEN Append(taken, Head(waiting)) ELSE taken
  /\ handlers' = [handlers EXCEPT ![q.method] = @ - 1 + Successor]
  /\ finishing' = finishing \cup {q.caller}
  /\ answer' = [answer EXCEPT ![q.caller] =
                  IF q.allowed THEN Granted(q) ELSE Refused]
  /\ UNCHANGED <<handed, lost, up, aborts, call>>

(* Proceed(), FINISH: the completion of Finish() arrives, delete this *)
Release(c) ==
  /\ up
  /\ c \in finishing
  /\ finishing' = finishing \ {c}
  /\ UNCHANGED <<queueVars, up, aborts, handlers, arrived, callVars>>

(* QueuingMgr::Proceed() while a phone is connected: see SmsService *)
HandOver ==
  /\ up
  /\ waiting # <<>>
  /\ handed' = handed \cup ToSet(waiting)
  /\ waiting' = <<>>
  /\ UNCHANGED <<queued, taken, lost, serverVars, callVars>>

-----------------------------------------------------------------------------
(* The answer reaches the caller. *)
Receive(c) ==
  /\ call[c] = "open"
  /\ answer[c] # NoAnswer
  /\ call' = [call EXCEPT ![c] = "answered"]
  /\ UNCHANGED <<queueVars, serverVars, answer>>

(***************************************************************************)
(* The connection breaks.  The server does not notice, but gRPC may drop a *)
(* request that no object was bound to yet.                                *)
(***************************************************************************)
Break(c) ==
  /\ call[c] = "open"
  /\ call' = [call EXCEPT ![c] = "failed"]
  /\ arrived' \in {arrived, {q \in arrived : q.caller # c}}
  /\ UNCHANGED <<queueVars, up, aborts, handlers, finishing, answer>>

(***************************************************************************)
(* An assertion of gRPC or a stop ends the process, and its memory with    *)
(* it.                                                                     *)
(***************************************************************************)
Abort ==
  /\ up
  /\ aborts < MaxAborts
  /\ up' = FALSE
  /\ aborts' = aborts + 1
  /\ waiting' = <<>>
  /\ lost' = lost \cup ToSet(waiting)
  /\ handlers' = [m \in Method |-> 0]
  /\ arrived' = {} /\ finishing' = {}
  /\ UNCHANGED <<queued, taken, handed, callVars>>

(* systemd or a user starts the server again: run() creates the handlers. *)
Restart ==
  /\ ~up
  /\ up' = TRUE
  /\ handlers' = [m \in Method |-> 1]
  /\ UNCHANGED <<queueVars, aborts, arrived, finishing, callVars>>

(* No call of c is on its way in the server, nor an answer to it. *)
Unserved(c) ==
  /\ \A q \in arrived : q.caller # c
  /\ answer[c] = NoAnswer

-----------------------------------------------------------------------------
(* Safety                                                                  *)

(***************************************************************************)
(* Every SMS that was queued is in one place and once: it waits, it was    *)
(* answered to one caller of lastSMSToSend, handed to phones, or in the    *)
(* queue of a server that aborted.                                         *)
(***************************************************************************)
Accounted ==
  /\ queued = ToSet(waiting) \cup ToSet(taken) \cup handed \cup lost
  /\ IsInjective(waiting) /\ IsInjective(taken)
  /\ ToSet(waiting) \cap (ToSet(taken) \cup handed \cup lost) = {}
  /\ ToSet(taken) \cap (handed \cup lost) = {}
  /\ handed \cap lost = {}
=============================================================================
