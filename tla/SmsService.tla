----------------------------- MODULE SmsService -----------------------------
(***************************************************************************)
(* The event loop of the pc2sms server (service-raw.cpp): the ListenData   *)
(* objects that each stream SMS to one phone, the QueuingMgr that holds    *)
(* the SMS nobody took yet, and the completion queue between them.         *)
(*                                                                         *)
(* SMSServiceImpl::run() takes one completion at a time and calls          *)
(* Proceed() on the object whose address is the tag, so a handler is one   *)
(* step.  The completion queue carries no type: Proceed() cannot tell a    *)
(* finished Write from an alarm or from a hang-up, and no Proceed() reads  *)
(* the success flag.  The model keeps, per address, how many completions   *)
(* of each kind are still to be delivered; they are delivered in any       *)
(* order, since gRPC orders completions of different operations in no way. *)
(* A completion outlives the object it names: delivered to a freed address *)
(* it is a fault, delivered to a reused one it reaches the new object.     *)
(***************************************************************************)
EXTENDS ListenSMS

CONSTANTS
  MaxSms,     \* bound: SMS accepted by requestToSend
  MaxCalls    \* bound: listenSMSToSend calls made by phones

ASSUME SmsServiceAssumption == MaxSms \in Nat /\ MaxCalls \in Nat

VARIABLES
  status,               \* CommonCallData::status of the object, or "FREE"
  newResponderCreated,  \* ListenData::new_responder_created
  result,               \* ListenData::result, SMS still to be written
  call,                 \* the stream behind ctx and responder
  written,              \* SMS passed to responder.Write() of this object
  events,               \* completions to be delivered, by tag and kind
  mgrResult,            \* QueuingMgr::result
  mgrAlarms,            \* alarms to be delivered with the QueuingMgr as tag
  accepted,             \* SMS accepted so far; the n-th one is the number n
  calls,                \* listenSMSToSend calls that arrived so far
  fault                 \* what ended the process, or "none"

objectVars == <<status, newResponderCreated, result, call, written>>
mgrVars    == <<mgrResult, mgrAlarms, accepted>>
vars == <<registryVars, objectVars, events, mgrVars, calls, fault>>

(***************************************************************************)
(* The completions whose tag is a ListenData: a phone called (the          *)
(* operation is RequestlistenSMSToSend), its alarm fired, a Write ended,   *)
(* the stream is over (AsyncNotifyWhenDone), Finish ended.                 *)
(***************************************************************************)
Kind == {"request", "alarm", "write", "done", "finish"}

Status == {"FREE", "LISTEN_COMMAND", "LISTEN_COMMAND_SENT", "FINISH"}

\* "none": nobody called yet; "ended": the server finished an open stream
Call == {"none", "open", "hungup", "ended"}

Fault == {"none", "freed object", "no call",
          "overlapping write", "write after hang-up"}

TypeOK ==
  /\ RegistryTypeOK
  /\ status \in [Addr -> Status]
  /\ newResponderCreated \in [Addr -> BOOLEAN]
  /\ result \in [Addr -> Seq(Nat)]
  /\ call \in [Addr -> Call]
  /\ written \in [Addr -> Seq(Nat)]
  /\ events \in [Addr -> [Kind -> Nat]]
  /\ mgrResult \in Seq(Nat)
  /\ mgrAlarms \in Nat
  /\ accepted \in Nat
  /\ calls \in Nat
  /\ fault \in Fault

(* The ListenData that waits for the next phone to call. *)
IsAcceptor(a) == status[a] = "LISTEN_COMMAND" /\ ~newResponderCreated[a]

(* ev with one more completion of kind k, tag a, to be delivered *)
More(ev, a, k) == [ev EXCEPT ![a][k] = @ + 1]

-----------------------------------------------------------------------------
(* The server after run() built its handlers, before the first completion. *)
Init ==
  /\ RegistryInit
  /\ \E a \in Addr :
       /\ status = [x \in Addr |-> IF x = a THEN "LISTEN_COMMAND" ELSE "FREE"]
       /\ events = [x \in Addr |-> [k \in Kind |->
                      IF x = a /\ k = "request" THEN 1 ELSE 0]]
  /\ newResponderCreated = [x \in Addr |-> FALSE]
  /\ result = [x \in Addr |-> <<>>]
  /\ call = [x \in Addr |-> "none"]
  /\ written = [x \in Addr |-> <<>>]
  /\ mgrResult = <<>>
  /\ mgrAlarms = 0
  /\ accepted = 0
  /\ calls = 0
  /\ fault = "none"

-----------------------------------------------------------------------------
(* Requests of programs that send SMS, allowed by isAllowed().             *)

(* RequestToSendData::Proceed, PROCESS: queue the SMS and wake the manager *)
RequestToSend ==
  /\ fault = "none"
  /\ accepted < MaxSms
  /\ accepted' = accepted + 1
  /\ mgrResult' = Append(mgrResult, accepted + 1)
  /\ mgrAlarms' = mgrAlarms + 1
  /\ UNCHANGED <<registryVars, objectVars, events, calls, fault>>

(* LastSMSToSendData::Proceed, PROCESS: the caller takes the oldest SMS *)
LastSMSToSend ==
  /\ fault = "none"
  /\ mgrResult # <<>>
  /\ mgrResult' = Tail(mgrResult)
  /\ UNCHANGED <<registryVars, objectVars, events, mgrAlarms, accepted, calls,
                 fault>>

-----------------------------------------------------------------------------
(* QueuingMgr::Proceed and what it calls.                                  *)

(* Faulty forms: wake no listener; wake one that is already writing. *)
NeverWakes(a) == 0
WakesAlways(a) == 1

(* ListenData::enqueue raises an alarm only between two Writes. *)
Wakes(a) == IF status[a] = "LISTEN_COMMAND" THEN 1 ELSE 0

Woken(a) == [events[a] EXCEPT !["alarm"] = @ + Wakes(a)]

(* Faulty forms: keep SMS that were handed over; drop SMS nobody took. *)
KeepsAll == mgrResult
KeepsNone == <<>>

(* The batch is cleared when at least one listener took it. *)
MgrLeft == IF Recipients = {} THEN mgrResult ELSE <<>>

(* QueuingMgr::Proceed: hand the whole batch to the recipients *)
NotifyListeners ==
  /\ fault = "none"
  /\ mgrAlarms > 0
  /\ mgrAlarms' = mgrAlarms - 1
  /\ IF mgrResult = <<>>
     THEN UNCHANGED <<lastResponder, result, events, mgrResult>>
     ELSE /\ Choose
          /\ result' = [a \in Addr |-> IF a \in Recipients
                          THEN result[a] \o mgrResult ELSE result[a]]
          /\ events' = [a \in Addr |-> IF a \in Recipients
                          THEN Woken(a) ELSE events[a]]
          /\ mgrResult' = MgrLeft
  /\ UNCHANGED <<listenResponders, policy, status, newResponderCreated, call,
                 written, accepted, calls, fault>>

-----------------------------------------------------------------------------
(* ListenData::Proceed, one action per path through it.                    *)

(***************************************************************************)
(* Completion k with tag a is taken from the queue.  A "request" is a      *)
(* phone calling: gRPC binds the stream to the object as the completion    *)
(* is taken, so CallAt is the stream Proceed() finds, Left the             *)
(* completions that remain.                                                *)
(***************************************************************************)
Delivered(a, k) ==
  /\ fault = "none"
  /\ events[a][k] > 0
  /\ k = "request" => calls < MaxCalls
  /\ calls' = IF k = "request" THEN calls + 1 ELSE calls

CallAt(a, k) == IF k = "request" THEN "open" ELSE call[a]

Left(a, k) == [events EXCEPT ![a][k] = @ - 1]

(* Faulty form: the next acceptor is not armed. *)
NotArmed(ev, b) == ev

(* CREATE of the next ListenData: RequestlistenSMSToSend with b as the tag *)
Armed(ev, b) == More(ev, b, "request")

(* Faulty form: SMS that wait for a phone are not announced to it. *)
NoWakeUp == mgrAlarms

(* CREATE of the next ListenData: wakeUp() when SMS wait for a phone *)
WakeUpIfPending == IF mgrResult # <<>> THEN mgrAlarms + 1 ELSE mgrAlarms

(* The first completion of a: create the next acceptor, register this one *)
AcceptListener(a, k) ==
  /\ Delivered(a, k)
  /\ IsAcceptor(a)
  /\ \E b \in Addr :
       /\ status[b] = "FREE"
       /\ status' = [status EXCEPT ![b] = "LISTEN_COMMAND"]
       /\ events' = Armed(Left(a, k), b)
  /\ newResponderCreated' = [newResponderCreated EXCEPT ![a] = TRUE]
  /\ call' = [call EXCEPT ![a] = CallAt(a, k)]
  /\ mgrAlarms' = WakeUpIfPending
  /\ Put(a)
  /\ UNCHANGED <<lastResponder, policy, result, written, mgrResult, accepted,
                 fault>>

(* LISTEN_COMMAND, nothing to write: taken for a hang-up, finish the stream *)
FinishStream(a, k) ==
  /\ Delivered(a, k)
  /\ status[a] = "LISTEN_COMMAND" /\ newResponderCreated[a]
  /\ result[a] = <<>>
  /\ CallAt(a, k) # "none"
  /\ status' = [status EXCEPT ![a] = "FINISH"]
  /\ Rm(a)
  /\ IF CallAt(a, k) = "open"
     THEN /\ call' = [call EXCEPT ![a] = "ended"]
          /\ events' = More(More(Left(a, k), a, "finish"), a, "done")
     ELSE /\ events' = More(Left(a, k), a, "finish")
          /\ UNCHANGED call
  /\ UNCHANGED <<lastResponder, policy, newResponderCreated, result, written,
                 mgrVars, fault>>

(* Faulty form: front() without pop(). *)
PopForgets(q) == q

Popped(q) == Tail(q)

(* writeNext() with an SMS to write, in either of the two listening states *)
WriteNext(a, k) ==
  /\ Delivered(a, k)
  /\ status[a] \in {"LISTEN_COMMAND", "LISTEN_COMMAND_SENT"}
  /\ newResponderCreated[a]
  /\ result[a] # <<>>
  /\ CallAt(a, k) # "none"
  /\ Left(a, k)[a]["write"] = 0
  /\ status' = [status EXCEPT ![a] = "LISTEN_COMMAND_SENT"]
  /\ result' = [result EXCEPT ![a] = Popped(@)]
  /\ written' = [written EXCEPT ![a] = Append(@, Head(result[a]))]
  /\ events' = More(Left(a, k), a, "write")
  /\ call' = [call EXCEPT ![a] = CallAt(a, k)]
  /\ UNCHANGED <<registryVars, newResponderCreated, mgrVars, fault>>

(* LISTEN_COMMAND_SENT, nothing to write: wait for the next enqueue() *)
StopWriting(a, k) ==
  /\ Delivered(a, k)
  /\ status[a] = "LISTEN_COMMAND_SENT"
  /\ result[a] = <<>>
  /\ status' = [status EXCEPT ![a] = "LISTEN_COMMAND"]
  /\ events' = Left(a, k)
  /\ call' = [call EXCEPT ![a] = CallAt(a, k)]
  /\ UNCHANGED <<registryVars, newResponderCreated, result, written, mgrVars,
                 fault>>

(* FINISH: delete this *)
DeleteThis(a, k) ==
  /\ Delivered(a, k)
  /\ status[a] = "FINISH"
  /\ status' = [status EXCEPT ![a] = "FREE"]
  /\ newResponderCreated' = [newResponderCreated EXCEPT ![a] = FALSE]
  /\ result' = [result EXCEPT ![a] = <<>>]
  /\ call' = [call EXCEPT ![a] = "none"]
  /\ written' = [written EXCEPT ![a] = <<>>]
  /\ events' = Left(a, k)
  /\ UNCHANGED <<registryVars, mgrVars, fault>>

-----------------------------------------------------------------------------
(* Misuse of the heap or of gRPC, whose assertions abort the process.      *)

Stops(reason) ==
  /\ fault' = reason
  /\ UNCHANGED <<registryVars, objectVars, events, mgrVars>>

(* Proceed() on an object that was deleted *)
FaultFreed(a, k) ==
  /\ Delivered(a, k)
  /\ status[a] = "FREE"
  /\ Stops("freed object")

(* Write() or Finish() on a responder that no call was bound to *)
FaultNoCall(a, k) ==
  /\ Delivered(a, k)
  /\ status[a] = "LISTEN_COMMAND" /\ newResponderCreated[a]
  /\ CallAt(a, k) = "none"
  /\ Stops("no call")

(* writeNext() while the completion of the previous Write is still due:    *)
(* "only one write may be outstanding", also when the phone has hung up    *)
FaultOverlap(a, k) ==
  /\ Delivered(a, k)
  /\ status[a] \in {"LISTEN_COMMAND", "LISTEN_COMMAND_SENT"}
  /\ newResponderCreated[a]
  /\ result[a] # <<>>
  /\ CallAt(a, k) # "none"
  /\ Left(a, k)[a]["write"] > 0
  /\ Stops(IF CallAt(a, k) = "hungup" THEN "write after hang-up"
           ELSE "overlapping write")

-----------------------------------------------------------------------------
(* The phone or the network ends the stream; gRPC posts the done tag. *)
HangUp(a) ==
  /\ fault = "none"
  /\ call[a] = "open"
  /\ call' = [call EXCEPT ![a] = "hungup"]
  /\ events' = More(events, a, "done")
  /\ UNCHANGED <<registryVars, status, newResponderCreated, result, written,
                 mgrVars, calls, fault>>

(* ListenData::Proceed *)
Proceed(a, k) ==
  \/ AcceptListener(a, k)
  \/ FinishStream(a, k)
  \/ WriteNext(a, k)
  \/ StopWriting(a, k)
  \/ DeleteThis(a, k)
  \/ FaultFreed(a, k)
  \/ FaultNoCall(a, k)
  \/ FaultOverlap(a, k)

(* Every step but the manager's own *)
OtherNext ==
  \/ RequestToSend
  \/ LastSMSToSend
  \/ \E a \in Addr, k \in Kind : Proceed(a, k)
  \/ \E a \in Addr : HangUp(a)

Next == NotifyListeners \/ OtherNext

Spec == Init /\ [][Next]_vars

-----------------------------------------------------------------------------
(* Safety                                                                  *)

(***************************************************************************)
(* The registry holds, once each, the listeners that accepted a call and   *)
(* did not start Finish: enqueue() of QueuingMgr never reaches a ListenData *)
(* that is deleted, finishing or still waiting for a phone.                *)
(***************************************************************************)
RegistryExact ==
  /\ IsInjective(listenResponders)
  /\ \A a \in Addr : a \in Registered <=>
       /\ newResponderCreated[a]
       /\ status[a] \in {"LISTEN_COMMAND", "LISTEN_COMMAND_SENT"}

(***************************************************************************)
(* SMS are never left in QueuingMgr while a phone is connected and no      *)
(* alarm of the manager is on its way: every way to queue an SMS or to     *)
(* register a phone (the CREATE path of the next ListenData) wakes it.     *)
(***************************************************************************)
NoLostWakeUp ==
  mgrResult # <<>> /\ listenResponders # <<>> => mgrAlarms > 0

(***************************************************************************)
(* A listener that has SMS to write, or believes a Write is under way, has *)
(* a completion to come: enqueue() skips the alarm only when Proceed()     *)
(* will run anyway.                                                        *)
(***************************************************************************)
NoStalledListener ==
  \A a \in Addr :
    status[a] = "LISTEN_COMMAND_SENT" \/ result[a] # <<>>
      => \E k \in {"alarm", "write", "done"} : events[a][k] > 0

(***************************************************************************)
(* Exactly one ListenData waits for the next phone, and its request is     *)
(* with gRPC: the server neither stops accepting phones nor doubles.       *)
(***************************************************************************)
AlwaysAccepting ==
  \E a \in Addr :
    /\ IsAcceptor(a)
    /\ events[a]["request"] = 1
    /\ \A b \in Addr : IsAcceptor(b) => b = a

(***************************************************************************)
(* Each phone gets SMS in the order they were accepted and none twice, and *)
(* no SMS still held by QueuingMgr went to a phone.                        *)
(***************************************************************************)
InOrderOnce ==
  \A a \in Addr :
    LET s == written[a] \o result[a] \o mgrResult
    IN \A i, j \in DOMAIN s : i < j => s[i] < s[j]

(* NP_ROUND_ROBIN hands an SMS to one phone only. *)
OnePhoneEach ==
  ~NotifyAll =>
    \A a, b \in Addr : a # b =>
      ToSet(written[a] \o result[a]) \cap ToSet(written[b] \o result[b]) = {}

(***************************************************************************)
(* An SMS leaves QueuingMgr only into the queue of a registered listener   *)
(* or, one at a time from the front, as the answer of lastSMSToSend: then  *)
(* no alarm is spent and no listener is given or denied anything.          *)
(***************************************************************************)
NothingDropped ==
  [][ Len(mgrResult') < Len(mgrResult) =>
        \/ /\ mgrResult' = Tail(mgrResult)
           /\ UNCHANGED <<registryVars, objectVars, events, mgrAlarms>>
        \/ /\ mgrResult' = <<>>
           /\ \E a \in Registered : result'[a] = result[a] \o mgrResult ]_vars

(***************************************************************************)
(* The completions that will still reach listener a, the done tag of an    *)
(* open stream included.                                                   *)
(***************************************************************************)
Due(a) ==
  events[a]["alarm"] + events[a]["write"] + events[a]["done"]
    + (IF call[a] = "open" THEN 1 ELSE 0)

(* A ListenData that accepted a call and did not start Finish *)
Listening(a) ==
  /\ newResponderCreated[a]
  /\ status[a] \in {"LISTEN_COMMAND", "LISTEN_COMMAND_SENT"}

(***************************************************************************)
(* What the untyped completions of a listener mean when they come in the   *)
(* order they were posted (SmsServiceFifo): one is due, the hang-up, while *)
(* there is nothing to write, two while there is something to write or a   *)
(* Write under way, and at most one more for each SMS behind the first,    *)
(* from a batch that came before the alarm of another was taken.           *)
(* Proceed() counts them down right: none but the Finish is left when the  *)
(* object waits to be deleted, none at all when it is deleted.             *)
(***************************************************************************)
CompletionsCounted ==
  \A a \in Addr :
    /\ events[a]["request"] = IF IsAcceptor(a) THEN 1 ELSE 0
    /\ events[a]["finish"] = IF status[a] = "FINISH" THEN 1 ELSE 0
    /\ ~Listening(a) => Due(a) = 0
    /\ Listening(a) =>
         /\ call[a] \in {"open", "hungup"}
         /\ IF status[a] = "LISTEN_COMMAND_SENT"
            THEN Due(a) \in 2..(Len(result[a]) + 2)
            ELSE Due(a) \in (IF result[a] = <<>> THEN {1} ELSE 2..(Len(result[a]) + 1))

(***************************************************************************)
(* A stream is finished only for a phone that hung up: an empty queue in   *)
(* LISTEN_COMMAND is taken for ctx.IsCancelled() (service-raw.cpp:332).    *)
(***************************************************************************)
FinishMeansHungUp == \A a \in Addr : call[a] # "ended"

(* No completion is delivered to a deleted ListenData, or to one no phone  *)
(* called: each object outlives the RPC it serves, and never longer.       *)
NoStrayCompletion == fault \notin {"freed object", "no call"}

(***************************************************************************)
(* In that order, a Write is started during another one in two cases only. *)
(* An alarm comes during a Write to a connected phone: one that was set    *)
(* before the Write, since enqueue() sets none in LISTEN_COMMAND_SENT.  Or *)
(* a phone hung up during a Write and more SMS are queued for it.          *)
(***************************************************************************)
FaultsInWrite ==
  fault \in {"overlapping write", "write after hang-up"} =>
    \E a \in Addr :
      /\ events[a]["write"] = 1 /\ result[a] # <<>>
      /\ IF fault = "overlapping write"
         THEN /\ call[a] = "open" /\ status[a] = "LISTEN_COMMAND_SENT"
              /\ events[a]["alarm"] > 0
         ELSE call[a] = "hungup"

(***************************************************************************)
(* To a connected phone SMS are written one by one: no Write while the     *)
(* completion of the previous one is due (writeNext()).                    *)
(***************************************************************************)
OneByOne == fault # "overlapping write"

(***************************************************************************)
(* A phone that hangs up with SMS in its queue does not take the server    *)
(* down: Proceed() finds out that it is gone before it writes again.       *)
(***************************************************************************)
HangUpHarmless == fault # "write after hang-up"

(***************************************************************************)
(* The event loop implements the relay: handing out a batch is one step    *)
(* whatever the alarms do, a connected phone is a registered listener, and *)
(* no completion that comes early, late or twice loses, repeats or moves   *)
(* an SMS, or drops a phone that SMS are queued for.                       *)
(***************************************************************************)
Relay == INSTANCE SmsRelay WITH
  Phone     <- Addr,
  toAll     <- NotifyAll,
  queued    <- accepted,
  waiting   <- mgrResult,
  connected <- Registered,
  outbox    <- result,
  sent      <- written

ImplementsRelay == Relay!Spec
=============================================================================
