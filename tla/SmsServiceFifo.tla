--------------------------- MODULE SmsServiceFifo ---------------------------
(***************************************************************************)
(* SmsService with the one completion queue of the server (cq) in place:   *)
(* run() takes completions in the order they were posted.  An alarm set    *)
(* with the deadline "now" is posted by alarm.Set() itself; a Write, a     *)
(* Finish, a hang-up and a call of a client are posted by gRPC some time   *)
(* after they happened.                                                    *)
(***************************************************************************)
EXTENDS SmsService, FiniteSets

CONSTANTS
  QueuingMgr,         \* the tag of the manager's alarms
  RequestToSendData,  \* the tag of a requestToSend call
  LastSMSToSendData   \* the tag of a lastSMSToSend call

ASSUME SmsServiceFifoAssumption ==
  /\ {QueuingMgr, RequestToSendData, LastSMSToSendData} \cap Addr = {}
  /\ RequestToSendData # LastSMSToSendData

VARIABLE cq   \* posted completions, <<tag, kind>>, oldest first

fifoVars == <<vars, cq>>

Batch    == <<QueuingMgr, "alarm">>
SendCall == <<RequestToSendData, "request">>
LastCall == <<LastSMSToSendData, "request">>

(* How often completion e is in the queue. *)
Posted(e) == Cardinality({i \in DOMAIN cq : cq[i] = e})

FifoInit == Init /\ cq = <<>>

-----------------------------------------------------------------------------
(* The operation behind a completion ends and gRPC posts the completion. *)
Complete(a, k) ==
  /\ k # "alarm"
  /\ Posted(<<a, k>>) < events[a][k]
  /\ k = "request" => calls < MaxCalls
  /\ cq' = Append(cq, <<a, k>>)
  /\ UNCHANGED vars

(* A program calls requestToSend *)
CallSend ==
  /\ Posted(SendCall) + accepted < MaxSms
  /\ cq' = Append(cq, SendCall)
  /\ UNCHANGED vars

(* A program calls lastSMSToSend; bound: one call waits at a time *)
CallLast ==
  /\ Posted(LastCall) = 0
  /\ accepted < MaxSms
  /\ cq' = Append(cq, LastCall)
  /\ UNCHANGED vars

(* LastSMSToSendData::Proceed when there is no SMS: the answer is empty *)
LastSMSNone == fault = "none" /\ mgrResult = <<>> /\ UNCHANGED vars

(* The alarm of the manager, if the handler that runs sets it *)
BatchAlarm == IF mgrAlarms' > mgrAlarms THEN <<Batch>> ELSE <<>>

(* The positions of the listeners that it wakes, *)
Woke ==
  {i \in DOMAIN listenResponders :
     LET a == listenResponders[i]
     IN events'[a]["alarm"] > events[a]["alarm"]}

(* in the order in which enqueue() goes through the vector *)
InOrder(positions) ==
  {s \in SetToSeqs(positions) : \A i, j \in DOMAIN s : i < j => s[i] < s[j]}

(* alarm.Set posts at once: what the handler adds to the queue. *)
Alarms(order) ==
  BatchAlarm \o [i \in DOMAIN order |-> <<listenResponders[order[i]], "alarm">>]

(* cq->Next() in run(): the oldest completion goes to its handler *)
Take ==
  /\ cq # <<>>
  /\ \/ Head(cq) = Batch /\ NotifyListeners
     \/ Head(cq) = SendCall /\ RequestToSend
     \/ Head(cq) = LastCall /\ (LastSMSToSend \/ LastSMSNone)
     \/ \E a \in Addr, k \in Kind : Head(cq) = <<a, k>> /\ Proceed(a, k)
  /\ \E order \in InOrder(Woke) : cq' = Tail(cq) \o Alarms(order)

PhoneHangsUp(a) == HangUp(a) /\ UNCHANGED cq

FifoNext ==
  \/ Take
  \/ CallSend
  \/ CallLast
  \/ \E a \in Addr, k \in Kind : Complete(a, k)
  \/ \E a \in Addr : PhoneHangsUp(a)

FifoSpec == FifoInit /\ [][FifoNext]_fifoVars

(***************************************************************************)
(* The loop keeps taking completions, and each operation but the wait for  *)
(* a call ends: a Write or a Finish by flow control, or because the        *)
(* keepalive that start() configures closes a dead connection.             *)
(***************************************************************************)
FifoFairSpec ==
  /\ FifoSpec
  /\ WF_fifoVars(Take)
  /\ \A a \in Addr, k \in Kind \ {"request"} : WF_fifoVars(Complete(a, k))

-----------------------------------------------------------------------------
(* SMS wait in QueuingMgr only for want of a connected phone. *)
Dispatched ==
  mgrResult # <<>> /\ listenResponders # <<>>
    ~> mgrResult = <<>> \/ listenResponders = <<>> \/ fault # "none"

(* A listener writes out its queue, also when the phone is gone meanwhile. *)
Drained ==
  \A a \in Addr : result[a] # <<>> ~> result[a] = <<>> \/ fault # "none"

(* The object of a phone that hung up is deleted and not leaked. *)
Released ==
  \A a \in Addr : call[a] = "hungup" ~> status[a] = "FREE" \/ fault # "none"
=============================================================================
