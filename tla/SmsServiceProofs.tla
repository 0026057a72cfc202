-------------------------- MODULE SmsServiceProofs --------------------------
(***************************************************************************)
(* Proofs about SmsService for every heap, policy and number of SMS and    *)
(* calls.                                                                  *)
(***************************************************************************)
EXTENDS SmsService, ListenSMSProofs

(* Setting up an operation adds one completion and touches no other. *)
LEMMA MoreEvents ==
  ASSUME NEW ev \in [Addr -> [Kind -> Nat]], NEW a \in Addr, NEW k \in Kind
  PROVE  /\ More(ev, a, k) \in [Addr -> [Kind -> Nat]]
         /\ \A x \in Addr, i \in Kind :
              More(ev, a, k)[x][i] =
                IF x = a /\ i = k THEN ev[x][i] + 1 ELSE ev[x][i]
BY DEF More

(***************************************************************************)
(* Type correctness of the event loop: in particular no completion is      *)
(* taken from an empty count and pop() never runs on an empty queue.       *)
(***************************************************************************)
THEOREM TypeCorrect == Spec => []TypeOK
<1>1. Init => TypeOK
  BY DEF Init, TypeOK, RegistryInit, RegistryTypeOK, Status, Call, Fault
<1>2. TypeOK /\ [Next]_vars => TypeOK'
  <2>. SUFFICES ASSUME TypeOK, [Next]_vars PROVE TypeOK'
    OBVIOUS
  <2>. USE DEF TypeOK, RegistryTypeOK
  <2>1. CASE NotifyListeners
    <3>1. CASE mgrResult = <<>>
      BY <2>1, <3>1 DEF NotifyListeners
    <3>2. CASE mgrResult # <<>>
      <4>1. result' \in [Addr -> Seq(Nat)]
        <5>1. \A x \in Addr : result[x] \o mgrResult \in Seq(Nat)
          OBVIOUS
        <5>. QED
          BY <2>1, <3>2, <5>1 DEF NotifyListeners
      <4>2. events' \in [Addr -> [Kind -> Nat]]
        <5>1. ASSUME NEW x \in Addr PROVE Woken(x) \in [Kind -> Nat]
          <6>1. Wakes(x) \in Nat
            BY DEF Wakes
          <6>2. events[x] \in [Kind -> Nat] /\ events[x]["alarm"] \in Nat
            BY DEF Kind
          <6>3. events[x]["alarm"] + Wakes(x) \in Nat
            BY <6>1, <6>2
          <6>. QED
            BY <6>2, <6>3 DEF Woken
        <5>. QED
          BY <2>1, <3>2, <5>1 DEF NotifyListeners
      <4>3. lastResponder' \in Addr \cup {NullPtr}
        BY <2>1, <3>2, NextResponderRegistered DEF NotifyListeners, Choose
      <4>4. mgrResult' \in Seq(Nat) /\ mgrAlarms' \in Nat
        <5>1. MgrLeft \in Seq(Nat)
          BY DEF MgrLeft
        <5>. QED
          BY <2>1, <3>2, <5>1 DEF NotifyListeners
      <4>. QED
        BY <2>1, <4>1, <4>2, <4>3, <4>4 DEF NotifyListeners
    <3>. QED
      BY <3>1, <3>2
  <2>2. CASE RequestToSend
    BY <2>2 DEF RequestToSend, registryVars, objectVars
  <2>3. CASE LastSMSToSend
    BY <2>3 DEF LastSMSToSend, registryVars, objectVars
  <2>4. ASSUME NEW a \in Addr, NEW k \in Kind, Proceed(a, k)
        PROVE  TypeOK'
    <3>1. Delivered(a, k)
      BY <2>4 DEF Proceed, AcceptListener, FinishStream, WriteNext, StopWriting,
              DeleteThis, FaultFreed, FaultNoCall, FaultOverlap
    <3>2. /\ calls' \in Nat
          /\ Left(a, k) \in [Addr -> [Kind -> Nat]]
          /\ CallAt(a, k) \in Call
      BY <3>1 DEF Delivered, Left, CallAt, Call
    <3>3. CASE AcceptListener(a, k)
      <4>1. PICK b \in Addr : status' = [status EXCEPT ![b] = "LISTEN_COMMAND"]
                              /\ events' = Armed(Left(a, k), b)
        BY <3>3 DEF AcceptListener
      <4>2. events' \in [Addr -> [Kind -> Nat]]
        BY <4>1, <3>2, MoreEvents DEF Armed, Kind
      <4>3. status' \in [Addr -> Status] /\ mgrAlarms' \in Nat
        BY <3>3, <4>1 DEF AcceptListener, Status, WakeUpIfPending
      <4>4. listenResponders' \in Seq(Addr)
        BY <3>3, PutExact DEF AcceptListener, Put
      <4>. QED
        BY <3>2, <3>3, <4>2, <4>3, <4>4 DEF AcceptListener
    <3>4. CASE FinishStream(a, k)
      <4>1. events' \in [Addr -> [Kind -> Nat]]
        <5>1. More(Left(a, k), a, "finish") \in [Addr -> [Kind -> Nat]]
          BY <3>2, MoreEvents DEF Kind
        <5>2. More(More(Left(a, k), a, "finish"), a, "done")
                \in [Addr -> [Kind -> Nat]]
          BY <5>1, MoreEvents DEF Kind
        <5>. QED
          BY <3>4, <5>1, <5>2 DEF FinishStream
      <4>2. listenResponders' \in Seq(Addr)
        BY <3>4, RmType DEF FinishStream, Rm
      <4>. QED
        BY <3>2, <3>4, <4>1, <4>2 DEF FinishStream, mgrVars, Status, Call
    <3>5. CASE WriteNext(a, k)
      <4>1. events' \in [Addr -> [Kind -> Nat]]
        BY <3>2, <3>5, MoreEvents DEF WriteNext, Kind
      <4>2. result' \in [Addr -> Seq(Nat)] /\ written' \in [Addr -> Seq(Nat)]
        BY <3>5 DEF WriteNext, Popped
      <4>. QED
        BY <3>2, <3>5, <4>1, <4>2 DEF WriteNext, mgrVars, registryVars, Status
    <3>6. CASE StopWriting(a, k)
      BY <3>2, <3>6 DEF StopWriting, mgrVars, registryVars, Status
    <3>7. CASE DeleteThis(a, k)
      BY <3>2, <3>7 DEF DeleteThis, mgrVars, registryVars, Status, Call
    <3>8. CASE FaultFreed(a, k) \/ FaultNoCall(a, k) \/ FaultOverlap(a, k)
      BY <3>2, <3>8 DEF FaultFreed, FaultNoCall, FaultOverlap, Stops, Fault,
              mgrVars, registryVars, objectVars
    <3>. QED
      BY <2>4, <3>3, <3>4, <3>5, <3>6, <3>7, <3>8 DEF Proceed
  <2>5. ASSUME NEW a \in Addr, HangUp(a)
        PROVE  TypeOK'
    <3>1. events' \in [Addr -> [Kind -> Nat]]
      BY <2>5, MoreEvents DEF HangUp, Kind
    <3>. QED
      BY <2>5, <3>1 DEF HangUp, mgrVars, registryVars, Call
  <2>6. CASE UNCHANGED vars
    BY <2>6 DEF vars, registryVars, objectVars, mgrVars
  <2>. QED
    BY <2>1, <2>2, <2>3, <2>4, <2>5, <2>6 DEF Next, OtherNext
<1>. QED
  BY <1>1, <1>2, PTL DEF Spec

-----------------------------------------------------------------------------
(***************************************************************************)
(* SMS are not left in QueuingMgr while a phone is connected and no alarm  *)
(* of the manager is due.  NoLostWakeUp is inductive relative to TypeOK:   *)
(* whoever queues SMS or registers a phone while SMS wait sets an alarm,   *)
(* and an alarm taken while a phone is registered empties the queue.       *)
(***************************************************************************)
THEOREM WakeUpNotLost == Spec => []NoLostWakeUp
<1>1. Init => NoLostWakeUp
  BY DEF Init, NoLostWakeUp
<1>2. TypeOK /\ NoLostWakeUp /\ [Next]_vars => NoLostWakeUp'
  <2>. SUFFICES ASSUME TypeOK, NoLostWakeUp, [Next]_vars PROVE NoLostWakeUp'
    OBVIOUS
  <2>. USE DEF NoLostWakeUp
  <2>0. /\ mgrAlarms \in Nat /\ mgrResult \in Seq(Nat)
        /\ RegistryTypeOK
    BY DEF TypeOK
  <2>1. CASE NotifyListeners
    <3>1. listenResponders # <<>> => MgrLeft = <<>>
      BY <2>0, RecipientsRegistered DEF MgrLeft
    <3>. QED
      BY <2>1, <3>1 DEF NotifyListeners
  <2>2. CASE RequestToSend
    BY <2>0, <2>2 DEF RequestToSend
  <2>3. CASE LastSMSToSend
    BY <2>3 DEF LastSMSToSend, registryVars
  <2>4. ASSUME NEW a \in Addr, NEW k \in Kind, Proceed(a, k)
        PROVE  NoLostWakeUp'
    <3>1. CASE AcceptListener(a, k)
      BY <2>0, <3>1 DEF AcceptListener, WakeUpIfPending
    <3>2. CASE FinishStream(a, k)
      <4>1. listenResponders = <<>> => listenResponders' = <<>>
        BY <3>2 DEF FinishStream, Rm, RemoveFirst
      <4>. QED
        BY <3>2, <4>1 DEF FinishStream, mgrVars
    <3>3. CASE \/ WriteNext(a, k) \/ StopWriting(a, k) \/ DeleteThis(a, k)
      BY <3>3 DEF WriteNext, StopWriting, DeleteThis, mgrVars, registryVars
    <3>4. CASE FaultFreed(a, k) \/ FaultNoCall(a, k) \/ FaultOverlap(a, k)
      BY <3>4 DEF FaultFreed, FaultNoCall, FaultOverlap, Stops, mgrVars,
              registryVars
    <3>. QED
      BY <2>4, <3>1, <3>2, <3>3, <3>4 DEF Proceed
  <2>5. ASSUME NEW a \in Addr, HangUp(a)
        PROVE  NoLostWakeUp'
    BY <2>5 DEF HangUp, mgrVars, registryVars
  <2>6. CASE UNCHANGED vars
    BY <2>6 DEF vars, mgrVars, registryVars
  <2>. QED
    BY <2>1, <2>2, <2>3, <2>4, <2>5, <2>6 DEF Next, OtherNext
<1>. QED
  BY <1>1, <1>2, TypeCorrect, PTL DEF Spec

(***************************************************************************)
(* An SMS leaves QueuingMgr only into a registered listener's queue or as  *)
(* the answer of lastSMSToSend, which touches no listener and no alarm.    *)
(***************************************************************************)
THEOREM NoSmsDropped == Spec => NothingDropped
<1>. DEFINE Kept == Len(mgrResult') < Len(mgrResult) =>
        \/ /\ mgrResult' = Tail(mgrResult)
           /\ UNCHANGED <<registryVars, objectVars, events, mgrAlarms>>
        \/ /\ mgrResult' = <<>>
           /\ \E a \in Registered : result'[a] = result[a] \o mgrResult
<1>1. TypeOK /\ [Next]_vars => [Kept]_vars
  <2>. SUFFICES ASSUME TypeOK, Next PROVE Kept
    OBVIOUS
  <2>0. mgrResult \in Seq(Nat) /\ RegistryTypeOK
    BY DEF TypeOK
  <2>1. CASE NotifyListeners /\ mgrResult # <<>>
    <3>1. CASE listenResponders = <<>>
      <4>1. MgrLeft = mgrResult
        BY <2>0, <3>1, RecipientsRegistered DEF MgrLeft
      <4>. QED
        BY <2>0, <2>1, <4>1 DEF NotifyListeners
    <3>2. CASE listenResponders # <<>>
      <4>1. PICK a \in Recipients : a \in Registered /\ a \in Addr
        BY <2>0, <3>2, RecipientsRegistered
      <4>2. MgrLeft = <<>>
        BY <4>1 DEF MgrLeft
      <4>3. mgrResult' = <<>> /\ result'[a] = result[a] \o mgrResult
        BY <2>1, <4>1, <4>2 DEF NotifyListeners
      <4>. QED
        BY <4>1, <4>3
    <3>. QED
      BY <3>1, <3>2
  <2>2. CASE RequestToSend
    BY <2>0, <2>2 DEF RequestToSend
  <2>3. CASE LastSMSToSend
    BY <2>3 DEF LastSMSToSend
  <2>4. CASE mgrResult' = mgrResult
    BY <2>0, <2>4
  <2>5. ASSUME NEW a \in Addr, NEW k \in Kind, Proceed(a, k)
        PROVE  mgrResult' = mgrResult
    BY <2>5 DEF Proceed, AcceptListener, FinishStream, WriteNext, StopWriting,
            DeleteThis, FaultFreed, FaultNoCall, FaultOverlap, Stops, mgrVars
  <2>6. ASSUME NEW a \in Addr, HangUp(a)
        PROVE  mgrResult' = mgrResult
    BY <2>6 DEF HangUp, mgrVars
  <2>7. NotifyListeners /\ mgrResult = <<>> => mgrResult' = mgrResult
    BY DEF NotifyListeners
  <2>. QED
    BY <2>1, <2>2, <2>3, <2>4, <2>5, <2>6, <2>7 DEF Next, OtherNext
<1>. QED
  BY <1>1, TypeCorrect, PTL DEF Spec, NothingDropped

-----------------------------------------------------------------------------
(***************************************************************************)
(* RegistryExact and NoStalledListener need to know more of the objects:   *)
(* a free address is as if no phone had called, only a listener that       *)
(* accepted a call writes, and only a registered one has SMS to write.     *)
(***************************************************************************)
ObjectsClean ==
  \A a \in Addr :
    /\ status[a] = "FREE" => ~newResponderCreated[a]
    /\ status[a] = "LISTEN_COMMAND_SENT" => newResponderCreated[a]
    /\ a \notin Registered => result[a] = <<>>

ListenerInv == TypeOK /\ RegistryExact /\ ObjectsClean /\ NoStalledListener

(* Taking a completion lowers one count and no other. *)
LEMMA LeftEvents ==
  ASSUME TypeOK, NEW a \in Addr, NEW k \in Kind, Delivered(a, k)
  PROVE  /\ Left(a, k) \in [Addr -> [Kind -> Nat]]
         /\ \A x \in Addr, i \in Kind :
              Left(a, k)[x][i] =
                IF x = a /\ i = k THEN events[x][i] - 1 ELSE events[x][i]
BY DEF Left, Delivered, TypeOK

(* enqueue() adds an alarm for the listeners that wait and for no other. *)
LEMMA WokenEvents ==
  ASSUME TypeOK, NEW a \in Addr
  PROVE  \A i \in Kind :
           Woken(a)[i] = IF i = "alarm" /\ status[a] = "LISTEN_COMMAND"
                         THEN events[a][i] + 1 ELSE events[a][i]
BY DEF Woken, Wakes, TypeOK, Kind

(* QueuingMgr::Proceed keeps the invariant. *)
LEMMA NotifyKeepsListeners ==
  ASSUME ListenerInv, TypeOK', NotifyListeners
  PROVE  ListenerInv'
<1>. USE DEF ListenerInv
<1>1. CASE mgrResult = <<>>
  BY <1>1 DEF NotifyListeners, RegistryExact, ObjectsClean, NoStalledListener,
          Registered
<1>2. CASE mgrResult # <<>>
  <2>1. /\ UNCHANGED <<listenResponders, status, newResponderCreated>>
        /\ \A a \in Addr :
             /\ result'[a] = IF a \in Recipients THEN result[a] \o mgrResult
                             ELSE result[a]
             /\ events'[a] = IF a \in Recipients THEN Woken(a) ELSE events[a]
    BY <1>2 DEF NotifyListeners
  <2>2. Recipients \subseteq Registered
    BY RecipientsRegistered DEF TypeOK
  <2>3. RegistryExact'
    BY <2>1 DEF RegistryExact, Registered
  <2>4. ObjectsClean'
    BY <2>1, <2>2 DEF ObjectsClean, Registered
  <2>5. ASSUME NEW a \in Addr,
               status[a] = "LISTEN_COMMAND_SENT" \/ result'[a] # <<>>
        PROVE  \E k \in {"alarm", "write", "done"} : events'[a][k] > 0
    <3>1. \A k \in Kind : events[a][k] \in Nat
      BY DEF TypeOK
    <3>2. CASE a \in Recipients /\ status[a] = "LISTEN_COMMAND"
      BY <2>1, <3>1, <3>2, WokenEvents DEF Kind
    <3>3. CASE a \in Recipients /\ status[a] # "LISTEN_COMMAND"
      <4>1. status[a] = "LISTEN_COMMAND_SENT"
        BY <2>2, <3>3 DEF RegistryExact
      <4>. QED
        BY <2>1, <3>1, <3>3, <4>1, WokenEvents DEF NoStalledListener, Kind
    <3>4. CASE a \notin Recipients
      BY <2>1, <2>5, <3>4 DEF NoStalledListener
    <3>. QED
      BY <3>2, <3>3, <3>4
  <2>. QED
    BY <2>1, <2>3, <2>4, <2>5 DEF NoStalledListener
<1>. QED
  BY <1>1, <1>2

(* Registering the listener that accepted a call keeps the invariant. *)
LEMMA AcceptKeepsListeners ==
  ASSUME ListenerInv, TypeOK', NEW a \in Addr, NEW k \in Kind,
         AcceptListener(a, k)
  PROVE  ListenerInv'
<1>. USE DEF ListenerInv
<1>1. PICK b \in Addr : /\ status[b] = "FREE"
                        /\ status' = [status EXCEPT ![b] = "LISTEN_COMMAND"]
                        /\ events' = More(Left(a, k), b, "request")
  BY DEF AcceptListener, Armed
<1>0. Delivered(a, k)
  BY DEF AcceptListener
<1>2. /\ IsAcceptor(a)
      /\ newResponderCreated' = [newResponderCreated EXCEPT ![a] = TRUE]
      /\ listenResponders' = Append(listenResponders, a)
      /\ UNCHANGED result
  BY DEF AcceptListener, Put
<1>3. a # b /\ status[a] = "LISTEN_COMMAND" /\ ~newResponderCreated[a]
  BY <1>1, <1>2 DEF IsAcceptor
<1>4. a \notin Registered /\ b \notin Registered
  BY <1>1, <1>3 DEF RegistryExact
<1>5. Registered' = Registered \cup {a} /\ IsInjective(listenResponders')
  BY <1>2, <1>4, PutExact DEF Registered, TypeOK, RegistryTypeOK, RegistryExact
<1>6. RegistryExact'
  BY <1>1, <1>2, <1>3, <1>5 DEF RegistryExact, TypeOK, ObjectsClean
<1>7. ObjectsClean'
  BY <1>1, <1>2, <1>3, <1>5 DEF ObjectsClean, TypeOK
<1>8. ASSUME NEW x \in Addr,
             status'[x] = "LISTEN_COMMAND_SENT" \/ result'[x] # <<>>
      PROVE  \E i \in {"alarm", "write", "done"} : events'[x][i] > 0
  <2>1. x # a /\ x # b
    BY <1>1, <1>2, <1>3, <1>4, <1>8 DEF ObjectsClean, TypeOK
  <2>2. PICK i \in {"alarm", "write", "done"} : events[x][i] > 0
    BY <1>1, <1>2, <1>8, <2>1 DEF NoStalledListener, TypeOK
  <2>3. /\ Left(a, k) \in [Addr -> [Kind -> Nat]]
        /\ Left(a, k)[x][i] = events[x][i]
    BY <1>0, <2>1, LeftEvents DEF Kind
  <2>4. More(Left(a, k), b, "request")[x][i] = events[x][i]
    BY <2>1, <2>3, MoreEvents DEF Kind
  <2>. QED
    BY <1>1, <2>2, <2>4
<1>. QED
  BY <1>6, <1>7, <1>8 DEF NoStalledListener

(* Finishing a stream takes an idle listener out of the registry. *)
LEMMA FinishKeepsListeners ==
  ASSUME ListenerInv, TypeOK', NEW a \in Addr, NEW k \in Kind,
         FinishStream(a, k)
  PROVE  ListenerInv'
<1>. USE DEF ListenerInv
<1>0. Delivered(a, k)
  BY DEF FinishStream
<1>1. /\ status[a] = "LISTEN_COMMAND" /\ newResponderCreated[a]
      /\ result[a] = <<>>
      /\ status' = [status EXCEPT ![a] = "FINISH"]
      /\ listenResponders' = RemoveFirst(listenResponders, a)
      /\ UNCHANGED <<newResponderCreated, result>>
      /\ \/ events' = More(Left(a, k), a, "finish")
         \/ events' = More(More(Left(a, k), a, "finish"), a, "done")
  BY DEF FinishStream, Rm
<1>2. Registered' = Registered \ {a} /\ IsInjective(listenResponders')
  BY <1>1, RmExact DEF Registered, TypeOK, RegistryTypeOK, RegistryExact
<1>3. RegistryExact'
  BY <1>1, <1>2 DEF RegistryExact, TypeOK
<1>4. ObjectsClean'
  BY <1>1, <1>2 DEF ObjectsClean, TypeOK
<1>5. ASSUME NEW x \in Addr,
             status'[x] = "LISTEN_COMMAND_SENT" \/ result'[x] # <<>>
      PROVE  \E i \in {"alarm", "write", "done"} : events'[x][i] > 0
  <2>1. x # a
    BY <1>1, <1>5 DEF TypeOK
  <2>2. PICK i \in {"alarm", "write", "done"} : events[x][i] > 0
    BY <1>1, <1>5, <2>1 DEF NoStalledListener, TypeOK
  <2>3. /\ Left(a, k) \in [Addr -> [Kind -> Nat]]
        /\ Left(a, k)[x][i] = events[x][i]
    BY <1>0, <2>1, LeftEvents DEF Kind
  <2>4. /\ More(Left(a, k), a, "finish") \in [Addr -> [Kind -> Nat]]
        /\ More(Left(a, k), a, "finish")[x][i] = events[x][i]
    BY <2>1, <2>3, MoreEvents DEF Kind
  <2>5. More(More(Left(a, k), a, "finish"), a, "done")[x][i] = events[x][i]
    BY <2>1, <2>4, MoreEvents DEF Kind
  <2>. QED
    BY <1>1, <2>2, <2>4, <2>5
<1>. QED
  BY <1>3, <1>4, <1>5 DEF NoStalledListener

(* The steps of a listener between two Writes keep the invariant. *)
LEMMA WriteKeepsListeners ==
  ASSUME ListenerInv, TypeOK', NEW a \in Addr, NEW k \in Kind,
         WriteNext(a, k) \/ StopWriting(a, k) \/ DeleteThis(a, k)
  PROVE  ListenerInv'
<1>. USE DEF ListenerInv
<1>1. Delivered(a, k) /\ UNCHANGED listenResponders
  BY DEF WriteNext, StopWriting, DeleteThis, registryVars
<1>2. RegistryExact' /\ ObjectsClean'
  <2>1. CASE WriteNext(a, k)
    BY <2>1 DEF WriteNext, registryVars, RegistryExact, ObjectsClean, TypeOK,
            Registered
  <2>2. CASE StopWriting(a, k)
    BY <2>2 DEF StopWriting, registryVars, RegistryExact, ObjectsClean, TypeOK,
            Registered
  <2>3. CASE DeleteThis(a, k)
    BY <2>3 DEF DeleteThis, registryVars, RegistryExact, ObjectsClean, TypeOK,
            Registered
  <2>. QED
    BY <2>1, <2>2, <2>3
<1>3. ASSUME NEW x \in Addr,
             status'[x] = "LISTEN_COMMAND_SENT" \/ result'[x] # <<>>
      PROVE  \E i \in {"alarm", "write", "done"} : events'[x][i] > 0
  <2>1. CASE x = a
    <3>1. WriteNext(a, k)
      BY <1>3, <2>1 DEF StopWriting, DeleteThis, TypeOK
    <3>2. events' = More(Left(a, k), a, "write")
      BY <3>1 DEF WriteNext
    <3>3. events'[a]["write"] > 0
      BY <1>1, <3>2, LeftEvents, MoreEvents DEF Kind
    <3>. QED
      BY <2>1, <3>3
  <2>2. CASE x # a
    <3>1. PICK i \in {"alarm", "write", "done"} : events[x][i] > 0
      BY <1>3, <2>2 DEF NoStalledListener, TypeOK, WriteNext, StopWriting,
              DeleteThis
    <3>2. /\ Left(a, k) \in [Addr -> [Kind -> Nat]]
          /\ Left(a, k)[x][i] = events[x][i]
      BY <1>1, <2>2, LeftEvents DEF Kind
    <3>3. More(Left(a, k), a, "write")[x][i] = events[x][i]
      BY <2>2, <3>2, MoreEvents DEF Kind
    <3>4. events' = More(Left(a, k), a, "write") \/ events' = Left(a, k)
      BY DEF WriteNext, StopWriting, DeleteThis
    <3>. QED
      BY <3>1, <3>2, <3>3, <3>4
  <2>. QED
    BY <2>1, <2>2
<1>. QED
  BY <1>2, <1>3 DEF NoStalledListener

(* The objects, the registry and the completions agree in every reachable  *)
(* state.                                                                  *)
THEOREM ListenersAgree == Spec => []ListenerInv
<1>1. Init => ListenerInv
  <2>. SUFFICES ASSUME Init PROVE ListenerInv
    OBVIOUS
  <2>1. TypeOK
    BY DEF Init, TypeOK, RegistryInit, RegistryTypeOK, Status, Call, Fault
  <2>2. listenResponders = <<>> /\ Registered = {}
    BY DEF Init, RegistryInit, Registered, ToSet
  <2>. QED
    BY <2>1, <2>2 DEF Init, ListenerInv, RegistryExact, ObjectsClean,
            NoStalledListener, IsInjective
<1>2. ListenerInv /\ TypeOK' /\ [Next]_vars => ListenerInv'
  <2>. SUFFICES ASSUME ListenerInv, TypeOK', [Next]_vars PROVE ListenerInv'
    OBVIOUS
  <2>1. CASE NotifyListeners
    BY <2>1, NotifyKeepsListeners
  <2>2. ASSUME NEW a \in Addr, NEW k \in Kind, Proceed(a, k)
        PROVE  ListenerInv'
    <3>1. CASE FaultFreed(a, k) \/ FaultNoCall(a, k) \/ FaultOverlap(a, k)
      BY <3>1 DEF FaultFreed, FaultNoCall, FaultOverlap, Stops, registryVars,
              objectVars, ListenerInv, RegistryExact, ObjectsClean,
              NoStalledListener, Registered
    <3>. QED
      BY <2>2, <3>1, AcceptKeepsListeners, FinishKeepsListeners,
         WriteKeepsListeners DEF Proceed
  <2>3. CASE RequestToSend \/ LastSMSToSend \/ UNCHANGED vars
    BY <2>3 DEF RequestToSend, LastSMSToSend, vars, registryVars, objectVars,
            ListenerInv, RegistryExact, ObjectsClean, NoStalledListener,
            Registered
  <2>4. ASSUME NEW a \in Addr, HangUp(a)
        PROVE  ListenerInv'
    <3>1. /\ UNCHANGED <<listenResponders, status, newResponderCreated, result>>
          /\ events' = More(events, a, "done")
      BY <2>4 DEF HangUp, registryVars
    <3>2. RegistryExact' /\ ObjectsClean'
      BY <3>1 DEF ListenerInv, RegistryExact, ObjectsClean, Registered
    <3>3. \A x \in Addr, i \in Kind : events[x][i] > 0 => events'[x][i] > 0
      <4>1. events \in [Addr -> [Kind -> Nat]]
        BY DEF ListenerInv, TypeOK
      <4>2. "done" \in Kind
        BY DEF Kind
      <4>3. \A x \in Addr, i \in Kind :
              More(events, a, "done")[x][i] =
                IF x = a /\ i = "done" THEN events[x][i] + 1 ELSE events[x][i]
        BY <4>1, <4>2, MoreEvents
      <4>. QED
        BY <3>1, <4>1, <4>3
    <3>. QED
      BY <3>1, <3>2, <3>3 DEF ListenerInv, NoStalledListener, Kind
  <2>. QED
    BY <2>1, <2>2, <2>3, <2>4 DEF Next, OtherNext
<1>. QED
  BY <1>1, <1>2, TypeCorrect, PTL DEF Spec

(***************************************************************************)
(* The registry holds exactly the listeners that may be written to, and a  *)
(* listener with SMS in its queue, or in the middle of a Write, always has *)
(* a completion to come, whatever the order of completions.                *)
(***************************************************************************)
THEOREM ListenersNotStalled == Spec => [](RegistryExact /\ NoStalledListener)
<1>1. ListenerInv => RegistryExact /\ NoStalledListener
  BY DEF ListenerInv
<1>. QED
  BY <1>1, ListenersAgree, PTL

(***************************************************************************)
(* The registry on its own: enqueue() never calls a ListenData that is     *)
(* deleted, finishing or still waits for a phone.                          *)
(***************************************************************************)
THEOREM RegistryIsExact == Spec => []RegistryExact
BY ListenersNotStalled, PTL

-----------------------------------------------------------------------------
(* A step of a handler is a step of the relay, or none. *)
LEMMA RelayStep ==
  ASSUME ListenerInv, [Next]_vars
  PROVE  [Relay!Next]_Relay!relayVars
<1>. USE DEF NotifyAll
<1>0. /\ RegistryTypeOK
      /\ \A a \in Addr : a \notin Registered => result[a] = <<>>
  BY DEF ListenerInv, TypeOK, ObjectsClean
<1>1. CASE NotifyListeners
  <2>1. CASE mgrResult = <<>>
    BY <1>1, <2>1 DEF NotifyListeners, Relay!relayVars, Registered
  <2>2. CASE mgrResult # <<>> /\ Recipients = {}
    <3>1. \A a \in Addr : result'[a] = result[a]
      BY <1>1, <2>2 DEF NotifyListeners
    <3>2. result' = result
      BY <1>1, <2>2, <3>1 DEF NotifyListeners, ListenerInv, TypeOK
    <3>. QED
      BY <1>1, <2>2, <3>2 DEF NotifyListeners, MgrLeft, Relay!relayVars,
              Registered
  <2>3. CASE mgrResult # <<>> /\ Recipients # {}
    <3>1. IF NotifyAll THEN Recipients = Registered
          ELSE \E a \in Registered : Recipients = {a}
      BY <2>3, <1>0, NextResponderRegistered DEF Recipients
    <3>2. Relay!Dispatch(Recipients)
      BY <1>1, <2>3, <3>1 DEF NotifyListeners, MgrLeft, Relay!Dispatch,
              Registered
    <3>3. Recipients \in SUBSET Addr
      BY <1>0, RecipientsRegistered
    <3>. QED
      BY <3>2, <3>3 DEF Relay!Next
  <2>. QED
    BY <2>1, <2>2, <2>3
<1>2. CASE RequestToSend
  BY <1>2 DEF RequestToSend, registryVars, objectVars, Relay!Next,
          Relay!Submit, Registered
<1>3. CASE LastSMSToSend
  BY <1>3 DEF LastSMSToSend, registryVars, objectVars, Relay!Next,
          Relay!TakeBack, Registered
<1>4. ASSUME NEW a \in Addr, NEW k \in Kind, Proceed(a, k)
      PROVE  Relay!Next \/ UNCHANGED Relay!relayVars
  <2>1. CASE AcceptListener(a, k)
    <3>1. a \notin Registered
      BY <2>1 DEF AcceptListener, IsAcceptor, ListenerInv, RegistryExact
    <3>2. Registered' = Registered \cup {a}
      BY <1>0, <2>1, PutExact DEF AcceptListener, Put, Registered,
              RegistryTypeOK
    <3>3. Relay!Connect(a)
      BY <2>1, <3>1, <3>2 DEF AcceptListener, Relay!Connect
    <3>. QED
      BY <3>3 DEF Relay!Next
  <2>2. CASE FinishStream(a, k)
    <3>1. a \in Registered /\ result[a] = <<>>
      BY <2>2 DEF FinishStream, ListenerInv, RegistryExact
    <3>2. Registered' = Registered \ {a}
      BY <1>0, <2>2, RmExact DEF FinishStream, Rm, Registered, ListenerInv,
              RegistryExact, RegistryTypeOK
    <3>3. Relay!Disconnect(a)
      BY <2>2, <3>1, <3>2 DEF FinishStream, mgrVars, Relay!Disconnect
    <3>. QED
      BY <3>3 DEF Relay!Next
  <2>3. CASE WriteNext(a, k)
    <3>1. a \in Registered
      BY <2>3 DEF WriteNext, ListenerInv, RegistryExact
    <3>2. Relay!Send(a)
      BY <2>3, <3>1 DEF WriteNext, Popped, mgrVars, registryVars, Relay!Send,
              Registered
    <3>. QED
      BY <3>2 DEF Relay!Next
  <2>4. CASE DeleteThis(a, k)
    <3>1. a \notin Registered
      BY <2>4 DEF DeleteThis, ListenerInv, RegistryExact
    <3>2. result' = result
      BY <1>0, <2>4, <3>1 DEF DeleteThis, ListenerInv, TypeOK
    <3>3. Relay!Forget(a)
      BY <2>4, <3>1, <3>2 DEF DeleteThis, mgrVars, registryVars,
              Relay!Forget, Registered
    <3>. QED
      BY <3>3 DEF Relay!Next
  <2>5. CASE \/ StopWriting(a, k) \/ FaultFreed(a, k) \/ FaultNoCall(a, k)
             \/ FaultOverlap(a, k)
    BY <2>5 DEF StopWriting, FaultFreed, FaultNoCall, FaultOverlap, Stops,
            mgrVars, registryVars, objectVars, Relay!relayVars, Registered
  <2>. QED
    BY <1>4, <2>1, <2>2, <2>3, <2>4, <2>5 DEF Proceed
<1>5. ASSUME NEW a \in Addr, HangUp(a)
      PROVE  UNCHANGED Relay!relayVars
  BY <1>5 DEF HangUp, mgrVars, registryVars, Relay!relayVars, Registered
<1>6. CASE UNCHANGED vars
  BY <1>6 DEF vars, mgrVars, registryVars, objectVars, Relay!relayVars,
          Registered
<1>. QED
  BY <1>1, <1>2, <1>3, <1>4, <1>5, <1>6 DEF Next, OtherNext

(***************************************************************************)
(* The event loop implements the relay: every handler, on every path and   *)
(* with any completion, is one step of the relay or none.                  *)
(***************************************************************************)
THEOREM RelayImplemented == Spec => ImplementsRelay
<1>1. Init => Relay!Init
  BY DEF Init, RegistryInit, Relay!Init, Registered, ToSet, NotifyAll
<1>2. ListenerInv /\ [Next]_vars => [Relay!Next]_Relay!relayVars
  BY RelayStep
<1>. QED
  BY <1>1, <1>2, ListenersAgree, PTL DEF Spec, ImplementsRelay, Relay!Spec

-----------------------------------------------------------------------------
(***************************************************************************)
(* SMS keep their order and go to one phone each.  The proof uses only the *)
(* steps of the relay, which the event loop was shown to take.             *)
(***************************************************************************)

(* s ascends; all of s is below all of t; all of s is at most n.           *)
Ascends(s) == \A i, j \in DOMAIN s : i < j => s[i] < s[j]
Below(s, t) == \A i \in DOMAIN s, j \in DOMAIN t : s[i] < t[j]
AtMost(s, n) == \A i \in DOMAIN s : s[i] <= n
Apart(s, t) == \A i \in DOMAIN s, j \in DOMAIN t : s[i] # t[j]

(* The elements of a concatenation: those of s, then those of t *)
LEMMA Concatenation ==
  ASSUME NEW s \in Seq(Nat), NEW t \in Seq(Nat)
  PROVE  /\ s \o t \in Seq(Nat)
         /\ \A i \in DOMAIN s : i \in DOMAIN (s \o t) /\ (s \o t)[i] = s[i]
         /\ \A i \in DOMAIN t : /\ Len(s) + i \in DOMAIN (s \o t)
                                /\ (s \o t)[Len(s) + i] = t[i]
OBVIOUS

LEMMA ConcatenationHolds ==
  ASSUME NEW s \in Seq(Nat), NEW t \in Seq(Nat)
  PROVE  /\ \A i \in DOMAIN s : i \in DOMAIN (s \o t) /\ (s \o t)[i] = s[i]
         /\ \A i \in DOMAIN t : \E k \in DOMAIN (s \o t) : (s \o t)[k] = t[i]
<1>1. ASSUME NEW i \in DOMAIN t
      PROVE  \E k \in DOMAIN (s \o t) : (s \o t)[k] = t[i]
  <2>1. Len(s) + i \in DOMAIN (s \o t) /\ (s \o t)[Len(s) + i] = t[i]
    BY Concatenation
  <2>. QED
    BY <2>1
<1>. QED
  BY <1>1, Concatenation

LEMMA ConcatenationParts ==
  ASSUME NEW s \in Seq(Nat), NEW t \in Seq(Nat), NEW k \in DOMAIN (s \o t)
  PROVE  \/ k \in DOMAIN s /\ (s \o t)[k] = s[k]
         \/ \E i \in DOMAIN t : k = Len(s) + i /\ (s \o t)[k] = t[i]
<1>1. CASE k <= Len(s)
  BY <1>1
<1>2. CASE k > Len(s)
  <2>1. k - Len(s) \in DOMAIN t /\ k = Len(s) + (k - Len(s))
    BY <1>2
  <2>2. (s \o t)[k] = t[k - Len(s)]
    BY <1>2
  <2>. QED
    BY <2>1, <2>2
<1>. QED
  BY <1>1, <1>2

(* Two parts ascend together if each does and one is below the other. *)
LEMMA AscendsConcat ==
  ASSUME NEW s \in Seq(Nat), NEW t \in Seq(Nat)
  PROVE  Ascends(s \o t) <=> Ascends(s) /\ Ascends(t) /\ Below(s, t)
<1>0. /\ DOMAIN s = 1 .. Len(s) /\ DOMAIN t = 1 .. Len(t)
      /\ Len(s) \in Nat /\ Len(t) \in Nat
  OBVIOUS
<1>1. ASSUME Ascends(s \o t) PROVE Ascends(s) /\ Ascends(t) /\ Below(s, t)
  <2>1. Ascends(s)
    BY <1>0, <1>1, Concatenation DEF Ascends
  <2>2. ASSUME NEW i \in DOMAIN t, NEW j \in DOMAIN t, i < j
        PROVE  t[i] < t[j]
    <3>1. Len(s) + i < Len(s) + j
      BY <1>0, <2>2
    <3>. QED
      BY <1>1, <3>1, Concatenation DEF Ascends
  <2>3. ASSUME NEW i \in DOMAIN s, NEW j \in DOMAIN t
        PROVE  s[i] < t[j]
    <3>1. i < Len(s) + j
      BY <1>0
    <3>. QED
      BY <1>1, <3>1, Concatenation DEF Ascends
  <2>. QED
    BY <2>1, <2>2, <2>3 DEF Ascends, Below
<1>2. ASSUME Ascends(s), Ascends(t), Below(s, t),
             NEW i \in DOMAIN (s \o t), NEW j \in DOMAIN (s \o t), i < j
      PROVE  (s \o t)[i] < (s \o t)[j]
  <2>1. CASE i \in DOMAIN s /\ (s \o t)[i] = s[i]
    <3>1. CASE j \in DOMAIN s /\ (s \o t)[j] = s[j]
      BY <1>2, <2>1, <3>1 DEF Ascends
    <3>2. CASE \E l \in DOMAIN t : j = Len(s) + l /\ (s \o t)[j] = t[l]
      BY <1>2, <2>1, <3>2 DEF Below
    <3>. QED
      BY <3>1, <3>2, ConcatenationParts
  <2>2. CASE \E k \in DOMAIN t : i = Len(s) + k /\ (s \o t)[i] = t[k]
    <3>0. PICK k \in DOMAIN t : i = Len(s) + k /\ (s \o t)[i] = t[k]
      BY <2>2
    <3>1. PICK l \in DOMAIN t : j = Len(s) + l /\ (s \o t)[j] = t[l]
      <4>1. j \notin DOMAIN s
        BY <1>0, <1>2, <3>0
      <4>. QED
        BY <4>1, ConcatenationParts
    <3>2. k < l
      BY <1>0, <1>2, <3>0, <3>1
    <3>. QED
      BY <1>2, <3>0, <3>1, <3>2 DEF Ascends
  <2>. QED
    BY <2>1, <2>2, ConcatenationParts
<1>. QED
  BY <1>1, <1>2 DEF Ascends

(* A relation to every element of a concatenation is one to both parts. *)
LEMMA BelowConcat ==
  ASSUME NEW s \in Seq(Nat), NEW t \in Seq(Nat), NEW u \in Seq(Nat)
  PROVE  /\ Below(s \o t, u) <=> Below(s, u) /\ Below(t, u)
         /\ Below(u, s \o t) <=> Below(u, s) /\ Below(u, t)
<1>0. /\ \A i \in DOMAIN s : i \in DOMAIN (s \o t) /\ (s \o t)[i] = s[i]
      /\ \A i \in DOMAIN t : \E k \in DOMAIN (s \o t) : (s \o t)[k] = t[i]
  BY ConcatenationHolds
<1>1. Below(s \o t, u) => Below(s, u) /\ Below(t, u)
  BY <1>0 DEF Below
<1>2. ASSUME Below(s, u), Below(t, u), NEW k \in DOMAIN (s \o t),
             NEW j \in DOMAIN u
      PROVE  (s \o t)[k] < u[j]
  <2>1. \/ k \in DOMAIN s /\ (s \o t)[k] = s[k]
        \/ \E i \in DOMAIN t : (s \o t)[k] = t[i]
    BY ConcatenationParts
  <2>. QED
    BY <1>2, <2>1 DEF Below
<1>3. Below(u, s \o t) => Below(u, s) /\ Below(u, t)
  BY <1>0 DEF Below
<1>4. ASSUME Below(u, s), Below(u, t), NEW j \in DOMAIN u,
             NEW k \in DOMAIN (s \o t)
      PROVE  u[j] < (s \o t)[k]
  <2>1. \/ k \in DOMAIN s /\ (s \o t)[k] = s[k]
        \/ \E i \in DOMAIN t : (s \o t)[k] = t[i]
    BY ConcatenationParts
  <2>. QED
    BY <1>4, <2>1 DEF Below
<1>5. Below(s, u) /\ Below(t, u) => Below(s \o t, u)
  BY <1>2 DEF Below
<1>6. Below(u, s) /\ Below(u, t) => Below(u, s \o t)
  BY <1>4 DEF Below
<1>. QED
  BY <1>1, <1>3, <1>5, <1>6

LEMMA ApartConcat ==
  ASSUME NEW s \in Seq(Nat), NEW t \in Seq(Nat), NEW u \in Seq(Nat)
  PROVE  /\ Apart(s \o t, u) <=> Apart(s, u) /\ Apart(t, u)
         /\ Apart(u, s \o t) <=> Apart(u, s) /\ Apart(u, t)
<1>0. /\ \A i \in DOMAIN s : i \in DOMAIN (s \o t) /\ (s \o t)[i] = s[i]
      /\ \A i \in DOMAIN t : \E k \in DOMAIN (s \o t) : (s \o t)[k] = t[i]
  BY ConcatenationHolds
<1>1. Apart(s \o t, u) => Apart(s, u) /\ Apart(t, u)
  BY <1>0 DEF Apart
<1>2. ASSUME Apart(s, u), Apart(t, u), NEW k \in DOMAIN (s \o t),
             NEW j \in DOMAIN u
      PROVE  (s \o t)[k] # u[j]
  <2>1. \/ k \in DOMAIN s /\ (s \o t)[k] = s[k]
        \/ \E i \in DOMAIN t : (s \o t)[k] = t[i]
    BY ConcatenationParts
  <2>. QED
    BY <1>2, <2>1 DEF Apart
<1>3. Apart(u, s \o t) => Apart(u, s) /\ Apart(u, t)
  BY <1>0 DEF Apart
<1>4. ASSUME Apart(u, s), Apart(u, t), NEW j \in DOMAIN u,
             NEW k \in DOMAIN (s \o t)
      PROVE  u[j] # (s \o t)[k]
  <2>1. \/ k \in DOMAIN s /\ (s \o t)[k] = s[k]
        \/ \E i \in DOMAIN t : (s \o t)[k] = t[i]
    BY ConcatenationParts
  <2>. QED
    BY <1>4, <2>1 DEF Apart
<1>5. Apart(s, u) /\ Apart(t, u) => Apart(s \o t, u)
  BY <1>2 DEF Apart
<1>6. Apart(u, s) /\ Apart(u, t) => Apart(u, s \o t)
  BY <1>4 DEF Apart
<1>. QED
  BY <1>1, <1>3, <1>5, <1>6

LEMMA AtMostConcat ==
  ASSUME NEW s \in Seq(Nat), NEW t \in Seq(Nat), NEW n \in Nat
  PROVE  AtMost(s \o t, n) <=> AtMost(s, n) /\ AtMost(t, n)
<1>1. AtMost(s \o t, n) => AtMost(s, n) /\ AtMost(t, n)
  BY Concatenation DEF AtMost
<1>2. AtMost(s, n) /\ AtMost(t, n) => AtMost(s \o t, n)
  BY ConcatenationParts DEF AtMost
<1>. QED
  BY <1>1, <1>2

(* A sequence is its head before its tail; Append puts one element last. *)
LEMMA HeadTail ==
  ASSUME NEW s \in Seq(Nat), s # <<>>
  PROVE  /\ Head(s) \in Nat /\ Tail(s) \in Seq(Nat)
         /\ <<Head(s)>> \in Seq(Nat)
         /\ s = <<Head(s)>> \o Tail(s)
OBVIOUS

LEMMA AppendConcat ==
  ASSUME NEW s \in Seq(Nat), NEW e \in Nat
  PROVE  <<e>> \in Seq(Nat) /\ Append(s, e) = s \o <<e>>
OBVIOUS

(* The properties of short sequences *)
LEMMA Short ==
  ASSUME NEW e \in Nat, NEW s \in Seq(Nat), NEW n \in Nat
  PROVE  /\ Ascends(<<>>) /\ Below(<<>>, s) /\ Below(s, <<>>) /\ AtMost(<<>>, n)
         /\ Ascends(<<e>>)
         /\ AtMost(<<e>>, n) <=> e <= n
         /\ AtMost(s, n) => Below(s, <<n + 1>>) /\ AtMost(s, n + 1)
BY DEF Ascends, Below, AtMost

LEMMA BelowApart ==
  ASSUME NEW s \in Seq(Nat), NEW t \in Seq(Nat), Below(s, t)
  PROVE  Apart(s, t) /\ Apart(t, s)
BY DEF Below, Apart

-----------------------------------------------------------------------------
(***************************************************************************)
(* What is written to a phone, what its listener still holds and what      *)
(* waits in QueuingMgr ascend, in this order, up to the SMS accepted last. *)
(***************************************************************************)
OrderInv ==
  /\ Ascends(mgrResult) /\ AtMost(mgrResult, accepted)
  /\ \A a \in Addr :
       /\ Ascends(written[a]) /\ Ascends(result[a])
       /\ Below(written[a], result[a])
       /\ Below(written[a], mgrResult) /\ Below(result[a], mgrResult)
       /\ AtMost(written[a], accepted) /\ AtMost(result[a], accepted)

(* Under NP_ROUND_ROBIN two phones have no SMS in common. *)
ApartInv ==
  ~NotifyAll =>
    \A a, b \in Addr : a # b =>
      /\ Apart(written[a], written[b]) /\ Apart(written[a], result[b])
      /\ Apart(result[a], written[b]) /\ Apart(result[a], result[b])

(* The types the lemmas on sequences need *)
LEMMA RelayTypes ==
  ASSUME TypeOK
  PROVE  /\ mgrResult \in Seq(Nat) /\ accepted \in Nat
         /\ \A a \in Addr : written[a] \in Seq(Nat) /\ result[a] \in Seq(Nat)
BY DEF TypeOK

(* A program submits an SMS: it is above all others. *)
LEMMA SubmitKeepsOrder ==
  ASSUME TypeOK, OrderInv, ApartInv, Relay!Submit
  PROVE  OrderInv' /\ ApartInv'
<1>a. NotifyAll' <=> NotifyAll
  BY DEF Relay!Submit, NotifyAll
<1>1. /\ accepted' = accepted + 1
      /\ mgrResult' = mgrResult \o <<accepted + 1>>
      /\ UNCHANGED <<written, result>>
  BY AppendConcat, RelayTypes DEF Relay!Submit
<1>2. accepted + 1 \in Nat /\ <<accepted + 1>> \in Seq(Nat)
  BY RelayTypes
<1>3. \A s \in Seq(Nat) : AtMost(s, accepted) =>
        Below(s, <<accepted + 1>>) /\ AtMost(s, accepted + 1)
  BY Short, RelayTypes
<1>4. Ascends(mgrResult') /\ AtMost(mgrResult', accepted')
  <2>1. Ascends(<<accepted + 1>>) /\ AtMost(<<accepted + 1>>, accepted + 1)
    BY <1>2 DEF Ascends, AtMost
  <2>2. /\ Ascends(mgrResult) /\ Below(mgrResult, <<accepted + 1>>)
        /\ AtMost(mgrResult, accepted + 1)
    BY <1>3, RelayTypes DEF OrderInv
  <2>. QED
    BY <1>1, <1>2, <2>1, <2>2, AscendsConcat, AtMostConcat, RelayTypes
<1>5. ASSUME NEW a \in Addr
      PROVE  /\ Below(written[a], mgrResult') /\ Below(result[a], mgrResult')
             /\ AtMost(written[a], accepted') /\ AtMost(result[a], accepted')
  <2>1. /\ Below(written[a], mgrResult) /\ Below(result[a], mgrResult)
        /\ AtMost(written[a], accepted) /\ AtMost(result[a], accepted)
    BY DEF OrderInv
  <2>2. written[a] \in Seq(Nat) /\ result[a] \in Seq(Nat)
    BY RelayTypes
  <2>3. /\ Below(written[a], <<accepted + 1>>)
        /\ Below(result[a], <<accepted + 1>>)
        /\ AtMost(written[a], accepted + 1) /\ AtMost(result[a], accepted + 1)
    BY <1>3, <2>1, <2>2
  <2>4. mgrResult \in Seq(Nat)
    BY RelayTypes
  <2>. QED
    BY <1>1, <1>2, <2>1, <2>2, <2>3, <2>4, BelowConcat
<1>6. OrderInv'
  BY <1>1, <1>4, <1>5 DEF OrderInv
<1>. QED
  BY <1>1, <1>6, <1>a DEF ApartInv

(* The oldest SMS is taken back. *)
LEMMA TakeBackKeepsOrder ==
  ASSUME TypeOK, OrderInv, ApartInv, Relay!TakeBack
  PROVE  OrderInv' /\ ApartInv'
<1>a. NotifyAll' <=> NotifyAll
  BY DEF Relay!TakeBack, NotifyAll
<1>1. /\ mgrResult # <<>> /\ mgrResult' = Tail(mgrResult)
      /\ UNCHANGED <<accepted, written, result>>
  BY DEF Relay!TakeBack
<1>2. /\ <<Head(mgrResult)>> \in Seq(Nat) /\ mgrResult' \in Seq(Nat)
      /\ mgrResult = <<Head(mgrResult)>> \o mgrResult'
  BY <1>1, HeadTail, RelayTypes
<1>3. Ascends(mgrResult') /\ AtMost(mgrResult', accepted)
  BY <1>2, AscendsConcat, AtMostConcat, RelayTypes DEF OrderInv
<1>4. ASSUME NEW a \in Addr
      PROVE  Below(written[a], mgrResult') /\ Below(result[a], mgrResult')
  <2>1. /\ Below(written[a], <<Head(mgrResult)>> \o mgrResult')
        /\ Below(result[a], <<Head(mgrResult)>> \o mgrResult')
    BY <1>2 DEF OrderInv
  <2>2. written[a] \in Seq(Nat) /\ result[a] \in Seq(Nat)
    BY RelayTypes
  <2>. QED
    BY <1>2, <2>1, <2>2, BelowConcat
<1>5. OrderInv'
  BY <1>1, <1>3, <1>4 DEF OrderInv
<1>. QED
  BY <1>1, <1>5, <1>a DEF ApartInv

(* A phone sends its next SMS: the same SMS, divided at another place. *)
LEMMA SendKeepsOrder ==
  ASSUME TypeOK, OrderInv, ApartInv, NEW p \in Addr, Relay!Send(p)
  PROVE  OrderInv' /\ ApartInv'
<1>a. NotifyAll' <=> NotifyAll
  BY DEF Relay!Send, NotifyAll
<1>0. /\ written \in [Addr -> Seq(Nat)] /\ result \in [Addr -> Seq(Nat)]
      /\ mgrResult \in Seq(Nat) /\ accepted \in Nat
  BY DEF TypeOK
<1>1. PICK e \in Nat : e = Head(result[p])
  BY HeadTail, RelayTypes DEF Relay!Send
<1>2. /\ <<e>> \in Seq(Nat)
      /\ result'[p] \in Seq(Nat)
      /\ result[p] = <<e>> \o result'[p]
      /\ written'[p] = written[p] \o <<e>>
      /\ UNCHANGED <<accepted, mgrResult>>
      /\ \A a \in Addr : a # p => result'[a] = result[a] /\ written'[a] = written[a]
  BY <1>0, <1>1, HeadTail, AppendConcat DEF Relay!Send
<1>3. written[p] \in Seq(Nat) /\ Ascends(<<e>>)
  BY <1>0, <1>1, Short
<1>4. /\ Ascends(<<e>> \o result'[p]) /\ Ascends(written[p])
      /\ Below(written[p], <<e>> \o result'[p])
      /\ Below(written[p], mgrResult) /\ Below(<<e>> \o result'[p], mgrResult)
      /\ AtMost(written[p], accepted) /\ AtMost(<<e>> \o result'[p], accepted)
  BY <1>2 DEF OrderInv
<1>5. /\ Ascends(result'[p]) /\ Below(<<e>>, result'[p])
      /\ Below(written[p], <<e>>) /\ Below(written[p], result'[p])
      /\ Below(<<e>>, mgrResult) /\ Below(result'[p], mgrResult)
      /\ AtMost(<<e>>, accepted) /\ AtMost(result'[p], accepted)
  BY <1>0, <1>2, <1>3, <1>4, AscendsConcat, BelowConcat, AtMostConcat
<1>6. /\ Ascends(written'[p]) /\ Below(written'[p], result'[p])
      /\ Below(written'[p], mgrResult) /\ AtMost(written'[p], accepted)
  <2>0. /\ <<e>> \in Seq(Nat) /\ result'[p] \in Seq(Nat)
        /\ written'[p] = written[p] \o <<e>>
    BY <1>2
  <2>1. Ascends(written[p] \o <<e>>)
    BY <1>3, <1>4, <1>5, <2>0, AscendsConcat
  <2>2. Below(written[p] \o <<e>>, result'[p])
    BY <1>3, <1>5, <2>0, BelowConcat
  <2>3. Below(written[p] \o <<e>>, mgrResult)
    BY <1>0, <1>3, <1>4, <1>5, <2>0, BelowConcat
  <2>4. AtMost(written[p] \o <<e>>, accepted)
    BY <1>0, <1>3, <1>4, <1>5, <2>0, AtMostConcat
  <2>. QED
    BY <2>0, <2>1, <2>2, <2>3, <2>4
<1>7. OrderInv'
  BY <1>2, <1>5, <1>6 DEF OrderInv
<1>8. ASSUME NEW u \in Seq(Nat),
             Apart(written[p], u), Apart(<<e>> \o result'[p], u),
             Apart(u, written[p]), Apart(u, <<e>> \o result'[p])
      PROVE  /\ Apart(written'[p], u) /\ Apart(result'[p], u)
             /\ Apart(u, written'[p]) /\ Apart(u, result'[p])
  <2>1. /\ Apart(<<e>>, u) /\ Apart(result'[p], u)
        /\ Apart(u, <<e>>) /\ Apart(u, result'[p])
    BY <1>2, <1>8, ApartConcat
  <2>2. Apart(written[p] \o <<e>>, u) /\ Apart(u, written[p] \o <<e>>)
    BY <1>2, <1>3, <1>8, <2>1, ApartConcat
  <2>. QED
    BY <1>2, <2>1, <2>2
<1>9. ASSUME ~NotifyAll, NEW b \in Addr, b # p
      PROVE  /\ Apart(written'[p], written[b]) /\ Apart(written'[p], result[b])
             /\ Apart(result'[p], written[b]) /\ Apart(result'[p], result[b])
             /\ Apart(written[b], written'[p]) /\ Apart(result[b], written'[p])
             /\ Apart(written[b], result'[p]) /\ Apart(result[b], result'[p])
  <2>1. written[b] \in Seq(Nat) /\ result[b] \in Seq(Nat)
    BY <1>0
  <2>2. /\ Apart(written[p], written[b]) /\ Apart(written[p], result[b])
        /\ Apart(<<e>> \o result'[p], written[b])
        /\ Apart(<<e>> \o result'[p], result[b])
        /\ Apart(written[b], written[p]) /\ Apart(result[b], written[p])
        /\ Apart(written[b], <<e>> \o result'[p])
        /\ Apart(result[b], <<e>> \o result'[p])
    BY <1>2, <1>9 DEF ApartInv
  <2>. QED
    BY <1>8, <2>1, <2>2
<1>10. ApartInv'
  BY <1>2, <1>9, <1>a DEF ApartInv
<1>. QED
  BY <1>7, <1>10

(* The batch goes behind what the chosen phones already hold. *)
LEMMA DispatchKeepsOrder ==
  ASSUME TypeOK, OrderInv, ApartInv, NEW R \in SUBSET Addr, Relay!Dispatch(R)
  PROVE  OrderInv' /\ ApartInv'
<1>a. NotifyAll' <=> NotifyAll
  BY DEF Relay!Dispatch, NotifyAll
<1>1. /\ mgrResult' = <<>>
      /\ UNCHANGED <<accepted, written>>
      /\ \A a \in Addr : result'[a] = IF a \in R THEN result[a] \o mgrResult
                                      ELSE result[a]
  BY DEF Relay!Dispatch
<1>2. mgrResult \in Seq(Nat) /\ accepted \in Nat
  BY RelayTypes
<1>3. ASSUME NEW a \in Addr
      PROVE  /\ written[a] \in Seq(Nat) /\ result[a] \in Seq(Nat)
             /\ Ascends(result'[a]) /\ Below(written[a], result'[a])
             /\ AtMost(result'[a], accepted)
  <2>1. /\ written[a] \in Seq(Nat) /\ result[a] \in Seq(Nat)
        /\ Ascends(result[a]) /\ Ascends(mgrResult)
        /\ Below(written[a], result[a]) /\ Below(written[a], mgrResult)
        /\ Below(result[a], mgrResult)
        /\ AtMost(result[a], accepted) /\ AtMost(mgrResult, accepted)
    BY RelayTypes DEF OrderInv
  <2>2. /\ Ascends(result[a] \o mgrResult)
        /\ Below(written[a], result[a] \o mgrResult)
        /\ AtMost(result[a] \o mgrResult, accepted)
    BY <1>2, <2>1, AscendsConcat, BelowConcat, AtMostConcat
  <2>. QED
    BY <1>1, <2>1, <2>2
<1>4. OrderInv'
  <2>1. /\ Ascends(<<>>) /\ AtMost(<<>>, accepted)
        /\ \A a \in Addr : Below(written[a], <<>>) /\ Below(result'[a], <<>>)
    BY DEF Ascends, AtMost, Below
  <2>. QED
    BY <1>1, <1>3, <2>1 DEF OrderInv
<1>5. ASSUME ~NotifyAll, NEW a \in Addr, NEW b \in Addr, a # b
      PROVE  /\ Apart(written[a], result'[b]) /\ Apart(result'[a], written[b])
             /\ Apart(result'[a], result'[b])
  <2>1. /\ Apart(written[a], result[b]) /\ Apart(result[a], written[b])
        /\ Apart(result[a], result[b])
    BY <1>5 DEF ApartInv
  <2>2. /\ written[a] \in Seq(Nat) /\ result[a] \in Seq(Nat)
        /\ written[b] \in Seq(Nat) /\ result[b] \in Seq(Nat)
    BY RelayTypes
  <2>3. /\ Apart(written[a], mgrResult) /\ Apart(result[a], mgrResult)
        /\ Apart(mgrResult, written[b]) /\ Apart(mgrResult, result[b])
    BY <1>2, <2>2, BelowApart DEF OrderInv
  <2>4. a \notin R \/ b \notin R
    BY <1>5 DEF Relay!Dispatch
  <2>5. /\ Apart(written[a], result[b] \o mgrResult)
        /\ Apart(result[a], result[b] \o mgrResult)
        /\ Apart(result[a] \o mgrResult, written[b])
        /\ Apart(result[a] \o mgrResult, result[b])
    BY <1>2, <2>1, <2>2, <2>3, ApartConcat
  <2>. QED
    BY <1>1, <2>1, <2>4, <2>5
<1>6. ApartInv'
  BY <1>1, <1>5, <1>a DEF ApartInv
<1>. QED
  BY <1>4, <1>6

(* A connection is forgotten: a phone that was sent nothing. *)
LEMMA ForgetKeepsOrder ==
  ASSUME TypeOK, OrderInv, ApartInv, NEW p \in Addr, Relay!Forget(p)
  PROVE  OrderInv' /\ ApartInv'
<1>a. NotifyAll' <=> NotifyAll
  BY DEF Relay!Forget, NotifyAll
<1>1. /\ UNCHANGED <<accepted, mgrResult, result>>
      /\ \A a \in Addr : written'[a] = IF a = p THEN <<>> ELSE written[a]
  BY DEF Relay!Forget, TypeOK
<1>2. /\ Ascends(<<>>) /\ AtMost(<<>>, accepted)
      /\ \A s \in Seq(Nat) : Below(<<>>, s) /\ Apart(<<>>, s) /\ Apart(s, <<>>)
  BY DEF Ascends, AtMost, Below, Apart
<1>3. OrderInv'
  <2>1. mgrResult \in Seq(Nat) /\ \A a \in Addr : result[a] \in Seq(Nat)
    BY RelayTypes
  <2>. QED
    BY <1>1, <1>2, <2>1 DEF OrderInv
<1>4. ApartInv'
  <2>1. \A a \in Addr : written'[a] \in Seq(Nat) /\ result[a] \in Seq(Nat)
    <3>1. \A a \in Addr : written[a] \in Seq(Nat) /\ result[a] \in Seq(Nat)
      BY RelayTypes
    <3>2. <<>> \in Seq(Nat)
      OBVIOUS
    <3>3. ASSUME NEW a \in Addr PROVE written'[a] \in Seq(Nat)
      <4>1. written'[a] = <<>> \/ written'[a] = written[a]
        BY <1>1
      <4>. QED
        BY <3>1, <3>2, <4>1
    <3>. QED
      BY <3>1, <3>3
  <2>. QED
    BY <1>1, <1>2, <1>a, <2>1 DEF ApartInv
<1>. QED
  BY <1>3, <1>4

(***************************************************************************)
(* Each phone gets SMS in the order they were accepted and none twice, and *)
(* under NP_ROUND_ROBIN no SMS goes to two phones.                         *)
(***************************************************************************)
THEOREM OrderKept == Spec => []InOrderOnce /\ []OnePhoneEach
<1>1. Init => OrderInv /\ ApartInv
  BY DEF Init, OrderInv, ApartInv, Ascends, AtMost, Below, Apart
<1>2. TypeOK /\ ListenerInv /\ OrderInv /\ ApartInv /\ [Next]_vars
        => OrderInv' /\ ApartInv'
  <2>. SUFFICES ASSUME TypeOK, ListenerInv, OrderInv, ApartInv, [Next]_vars
                PROVE  OrderInv' /\ ApartInv'
    OBVIOUS
  <2>1. Relay!Next \/ UNCHANGED Relay!relayVars
    BY RelayStep
  <2>2. CASE /\ NotifyAll' <=> NotifyAll
             /\ UNCHANGED <<accepted, mgrResult, result, written>>
    BY <2>2 DEF OrderInv, ApartInv
  <2>3. ASSUME NEW p \in Addr, Relay!Connect(p) \/ Relay!Disconnect(p)
        PROVE  (NotifyAll' <=> NotifyAll)
               /\ UNCHANGED <<accepted, mgrResult, result, written>>
    BY <2>3 DEF NotifyAll, Relay!Connect, Relay!Disconnect
  <2>4. UNCHANGED Relay!relayVars
          => (NotifyAll' <=> NotifyAll)
             /\ UNCHANGED <<accepted, mgrResult, result, written>>
    BY DEF NotifyAll, Relay!relayVars
  <2>. QED
    BY <2>1, <2>2, <2>3, <2>4, SubmitKeepsOrder, TakeBackKeepsOrder,
       DispatchKeepsOrder, SendKeepsOrder, ForgetKeepsOrder DEF Relay!Next
<1>3. TypeOK /\ OrderInv => InOrderOnce
  <2>. SUFFICES ASSUME TypeOK, OrderInv, NEW a \in Addr
                PROVE  Ascends(written[a] \o result[a] \o mgrResult)
    BY DEF InOrderOnce, Ascends
  <2>1. /\ written[a] \in Seq(Nat) /\ result[a] \in Seq(Nat)
        /\ mgrResult \in Seq(Nat) /\ written[a] \o result[a] \in Seq(Nat)
    BY RelayTypes, Concatenation
  <2>2. /\ Ascends(written[a] \o result[a])
        /\ Below(written[a] \o result[a], mgrResult)
    BY <2>1, AscendsConcat, BelowConcat DEF OrderInv
  <2>. QED
    BY <2>1, <2>2, AscendsConcat DEF OrderInv
<1>4. TypeOK /\ ApartInv => OnePhoneEach
  <2>. SUFFICES ASSUME TypeOK, ApartInv, ~NotifyAll, NEW a \in Addr,
                       NEW b \in Addr, a # b
                PROVE  ToSet(written[a] \o result[a])
                         \cap ToSet(written[b] \o result[b]) = {}
    BY DEF OnePhoneEach
  <2>1. /\ written[a] \in Seq(Nat) /\ result[a] \in Seq(Nat)
        /\ written[b] \in Seq(Nat) /\ result[b] \in Seq(Nat)
        /\ written[a] \o result[a] \in Seq(Nat)
        /\ written[b] \o result[b] \in Seq(Nat)
    BY RelayTypes, Concatenation
  <2>2. /\ Apart(written[a] \o result[a], written[b])
        /\ Apart(written[a] \o result[a], result[b])
    BY <2>1, ApartConcat DEF ApartInv
  <2>3. ASSUME NEW u \in Seq(Nat), u = written[a] \o result[a]
        PROVE  Apart(u, written[b] \o result[b])
    <3>1. Apart(u, written[b]) /\ Apart(u, result[b])
      BY <2>2, <2>3
    <3>. QED
      BY <2>1, <3>1, ApartConcat
  <2>4. Apart(written[a] \o result[a], written[b] \o result[b])
    BY <2>1, <2>3
  <2>. QED
    BY <2>4 DEF Apart, ToSet
<1>. QED
  BY <1>1, <1>2, <1>3, <1>4, TypeCorrect, ListenersAgree, PTL DEF Spec

(* The second half on its own: NP_ROUND_ROBIN hands an SMS to one phone. *)
COROLLARY OnePhoneOnly == Spec => []OnePhoneEach
BY OrderKept, PTL
=============================================================================
