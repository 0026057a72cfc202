--------------------------- MODULE SmsTurnsProofs ---------------------------
(***************************************************************************)
(* The server takes turns as RoundRobin does: every step of SmsTurns is a  *)
(* step of RoundRobin or none.  What is proved there about the choice      *)
(* holds therefore of the SMS that the handlers hand to their listeners.   *)
(***************************************************************************)
EXTENDS SmsTurns, CompletionProofs, RoundRobinProofs

-----------------------------------------------------------------------------
(* What a step of the server does to the registry                          *)

(* The registry stays and no listener is handed SMS, or all are. *)
KeepsRegistry ==
  /\ UNCHANGED registryVars
  /\ NotifyAll \/ \A x \in Addr : ~ (Len(result'[x]) > Len(result[x]))

(* A listener that is not registered is put() at the end. *)
Registers(a) ==
  /\ a \notin Registered
  /\ Put(a)
  /\ calls' = calls + 1
  /\ UNCHANGED <<lastResponder, policy, result>>

(* A registered listener is found by rm(). *)
Removes(a) ==
  /\ a \in Registered
  /\ Rm(a)
  /\ UNCHANGED <<lastResponder, policy, result>>

(* The listener whose turn it is is handed the batch. *)
HandsOut ==
  /\ ~NotifyAll /\ listenResponders # <<>>
  /\ Choose
  /\ \A x \in Addr : Len(result'[x]) > Len(result[x]) <=> x = NextResponder
  /\ UNCHANGED <<listenResponders, policy>>

LEMMA BatchTaken ==
  ASSUME TypeOK, NotifyListeners
  PROVE  KeepsRegistry \/ HandsOut
<1>1. UNCHANGED <<listenResponders, policy>>
  BY DEF NotifyListeners
<1>2. CASE mgrResult = <<>>
  BY <1>1, <1>2 DEF NotifyListeners, KeepsRegistry, registryVars, TypeOK
<1>3. CASE mgrResult # <<>> /\ (NotifyAll \/ listenResponders = <<>>)
  <2>1. lastResponder' = lastResponder
    BY <1>3 DEF NotifyListeners, Choose
  <2>2. CASE NotifyAll
    BY <1>1, <2>1, <2>2 DEF KeepsRegistry, registryVars
  <2>3. CASE listenResponders = <<>>
    <3>1. \A x \in Addr : result'[x] = result[x]
      BY <1>3, <2>3 DEF NotifyListeners, Recipients
    <3>. QED
      BY <1>1, <2>1, <3>1 DEF KeepsRegistry, registryVars, TypeOK
  <2>. QED
    BY <1>3, <2>2, <2>3
<1>4. CASE mgrResult # <<>> /\ ~NotifyAll /\ listenResponders # <<>>
  <2>1. Recipients = {NextResponder}
    BY <1>4 DEF Recipients
  <2>2. \A x \in Addr : result'[x] = IF x = NextResponder
                          THEN result[x] \o mgrResult ELSE result[x]
    BY <1>4, <2>1 DEF NotifyListeners
  <2>3. Len(mgrResult) \in Nat /\ Len(mgrResult) > 0 /\ mgrResult \in Seq(Nat)
    BY <1>4 DEF TypeOK
  <2>4. \A x \in Addr : /\ Len(result[x]) \in Nat
                        /\ Len(result[x] \o mgrResult) = Len(result[x]) + Len(mgrResult)
    BY <2>3 DEF TypeOK
  <2>5. ASSUME NEW x \in Addr
        PROVE  Len(result'[x]) > Len(result[x]) <=> x = NextResponder
    <3>. DEFINE m == Len(result[x])
                n == Len(mgrResult)
    <3>1. m \in Nat /\ n \in Nat /\ n > 0
      BY <2>3, <2>4
    <3>2. x = NextResponder => Len(result'[x]) = m + n
      BY <2>2, <2>4
    <3>3. x # NextResponder => Len(result'[x]) = m
      BY <2>2
    <3>. HIDE DEF m, n
    <3>4. Len(result'[x]) > m <=> x = NextResponder
      BY <3>1, <3>2, <3>3
    <3>. QED
      BY <3>4 DEF m
  <2>. QED
    BY <1>1, <1>4, <2>5 DEF NotifyListeners, HandsOut
<1>. QED
  BY <1>2, <1>3, <1>4

LEMMA ProceedMeans ==
  ASSUME ListenerInv, CompletionInv, NEW a \in Addr, NEW k \in Kind, Proceed(a, k)
  PROVE  KeepsRegistry \/ Registers(a) \/ Removes(a)
<1>1. TypeOK /\ ObjectsClean /\ RegistryExact /\ Counts(a)
  BY DEF ListenerInv, CompletionInv
<1>2. CASE AcceptListener(a, k)
  <2>1. Delivered(a, k) /\ IsAcceptor(a)
    BY <1>2 DEF AcceptListener
  <2>2. k = "request"
    BY <1>1, <2>1, KindDelivered
  <2>3. calls' = calls + 1 /\ a \notin Registered
    BY <1>1, <2>1, <2>2 DEF Delivered, RegistryExact, IsAcceptor
  <2>. QED
    BY <1>2, <2>3 DEF AcceptListener, Registers
<1>3. CASE FinishStream(a, k)
  <2>1. a \in Registered
    BY <1>1, <1>3 DEF FinishStream, RegistryExact
  <2>. QED
    BY <1>3, <2>1 DEF FinishStream, Removes
<1>4. CASE WriteNext(a, k)
  <2>1. /\ UNCHANGED registryVars /\ result[a] # <<>>
        /\ result' = [result EXCEPT ![a] = Tail(@)]
    BY <1>4 DEF WriteNext, Popped
  <2>2. \A x \in Addr : result'[x] = IF x = a THEN Tail(result[a]) ELSE result[x]
    BY <1>1, <2>1 DEF TypeOK
  <2>3. \A x \in Addr : Len(result[x]) \in Nat
    BY <1>1 DEF TypeOK
  <2>4. Len(Tail(result[a])) = Len(result[a]) - 1
    <3>1. result[a] \in Seq(Nat)
      BY <1>1 DEF TypeOK
    <3>. QED
      BY <2>1, <3>1
  <2>. QED
    BY <2>1, <2>2, <2>3, <2>4 DEF KeepsRegistry
<1>5. CASE DeleteThis(a, k)
  <2>1. UNCHANGED registryVars /\ result' = [result EXCEPT ![a] = <<>>]
    BY <1>5 DEF DeleteThis
  <2>2. \A x \in Addr : result'[x] = IF x = a THEN <<>> ELSE result[x]
    BY <1>1, <2>1 DEF TypeOK
  <2>3. \A x \in Addr : Len(result[x]) \in Nat
    BY <1>1 DEF TypeOK
  <2>. QED
    BY <2>1, <2>2, <2>3 DEF KeepsRegistry
<1>6. CASE StopWriting(a, k) \/ FaultFreed(a, k) \/ FaultNoCall(a, k)
             \/ FaultOverlap(a, k)
  <2>1. UNCHANGED registryVars /\ result' = result
    BY <1>6 DEF StopWriting, FaultFreed, FaultNoCall, FaultOverlap, Stops, objectVars
  <2>2. \A x \in Addr : Len(result[x]) \in Nat
    BY <1>1 DEF TypeOK
  <2>. QED
    BY <2>1, <2>2 DEF KeepsRegistry
<1>. QED
  BY <1>2, <1>3, <1>4, <1>5, <1>6 DEF Proceed

LEMMA StepMeans ==
  ASSUME ListenerInv, CompletionInv, FifoNext
  PROVE  KeepsRegistry \/ HandsOut \/ \E a \in Addr : Registers(a) \/ Removes(a)
<1>1. TypeOK
  BY DEF ListenerInv
<1>2. CASE UNCHANGED <<registryVars, result>>
  BY <1>1, <1>2 DEF KeepsRegistry, TypeOK
<1>3. CASE NotifyListeners
  BY <1>1, <1>3, BatchTaken
<1>4. CASE RequestToSend \/ LastSMSToSend \/ LastSMSNone \/ UNCHANGED vars
             \/ \E a \in Addr : HangUp(a)
  <2>1. UNCHANGED <<registryVars, result>>
    BY <1>4 DEF RequestToSend, LastSMSToSend, LastSMSNone, HangUp, vars, objectVars
  <2>. QED
    BY <1>2, <2>1
<1>5. CASE \E a \in Addr, k \in Kind : Proceed(a, k)
  BY <1>5, ProceedMeans
<1>. QED
  BY <1>3, <1>4, <1>5 DEF FifoNext, Take, CallSend, CallLast, Complete, PhoneHangsUp

(* calls counts the phones that called, up to its bound. *)
LEMMA CallsCounted ==
  ASSUME TypeOK, calls <= MaxCalls, FifoNext
  PROVE  calls' \in Nat /\ calls <= calls' /\ calls' <= MaxCalls
<1>1. calls \in Nat /\ MaxCalls \in Nat
  BY SmsServiceAssumption DEF TypeOK
<1>2. CASE calls' = calls
  BY <1>1, <1>2
<1>3. ASSUME NEW a \in Addr, NEW k \in Kind, Proceed(a, k)
      PROVE  calls' = calls \/ (calls < MaxCalls /\ calls' = calls + 1)
  <2>1. Delivered(a, k)
    BY <1>3 DEF Proceed, AcceptListener, FinishStream, WriteNext, StopWriting,
           DeleteThis, FaultFreed, FaultNoCall, FaultOverlap
  <2>. QED
    BY <2>1 DEF Delivered
<1>4. ASSUME NotifyListeners \/ RequestToSend \/ LastSMSToSend \/ LastSMSNone
               \/ UNCHANGED vars \/ \E a \in Addr : HangUp(a)
      PROVE  calls' = calls
  BY <1>4 DEF NotifyListeners, RequestToSend, LastSMSToSend, LastSMSNone, HangUp, vars
<1>5. calls' = calls \/ (calls < MaxCalls /\ calls' = calls + 1)
  BY <1>3, <1>4 DEF FifoNext, Take, CallSend, CallLast, Complete, PhoneHangsUp
<1>. QED
  BY <1>1, <1>5

-----------------------------------------------------------------------------
(* What the record of the turn makes of it                                 *)

RecordTyped ==
  /\ leaves \in Nat
  /\ passed \in [Addr -> SUBSET Addr]
  /\ overtaken \in [Addr -> SUBSET Addr]
  /\ disturbed \in [Addr -> BOOLEAN]

(* A phone that left or is registered called before. *)
LeavesCounted == leaves + Len(listenResponders) <= calls /\ calls <= MaxCalls

LEMMA RecordStays ==
  ASSUME RecordTyped, KeepsRegistry, Record
  PROVE  UNCHANGED turnVars
<1>1. Came = {} /\ Gone = {} /\ HandedTo = {} /\ UNCHANGED registryVars
  BY DEF KeepsRegistry, registryVars, Came, Gone, HandedTo, Registered
<1>2. leaves' = leaves
  BY <1>1 DEF Record
<1>3. passed' = passed
  <2>1. \A q \in Addr : passed'[q] = passed[q]
    BY <1>1 DEF Record
  <2>2. passed' = [q \in Addr |-> passed'[q]] /\ passed = [q \in Addr |-> passed[q]]
    BY DEF Record, RecordTyped
  <2>. QED
    BY <2>1, <2>2
<1>4. overtaken' = overtaken
  <2>1. \A q \in Addr : overtaken'[q] = overtaken[q]
    BY <1>1 DEF Record
  <2>2. /\ overtaken' = [q \in Addr |-> overtaken'[q]]
        /\ overtaken = [q \in Addr |-> overtaken[q]]
    BY DEF Record, RecordTyped
  <2>. QED
    BY <2>1, <2>2
<1>5. disturbed' = disturbed
  <2>1. \A q \in Addr : disturbed'[q] = disturbed[q]
    BY <1>1 DEF Record, RecordTyped
  <2>2. /\ disturbed' = [q \in Addr |-> disturbed'[q]]
        /\ disturbed = [q \in Addr |-> disturbed[q]]
    BY DEF Record, RecordTyped
  <2>. QED
    BY <2>1, <2>2
<1>. QED
  BY <1>1, <1>2, <1>3, <1>4, <1>5 DEF turnVars

LEMMA RegisteringJoins ==
  ASSUME TypeOK, RecordTyped, NEW a \in Addr, Registers(a), Record
  PROVE  Join(a) /\ Len(listenResponders') = Len(listenResponders) + 1
<1>1. /\ a \notin Registered /\ listenResponders' = Append(listenResponders, a)
      /\ UNCHANGED <<lastResponder, policy, result>>
      /\ listenResponders \in Seq(Addr)
  BY DEF Registers, Put, TypeOK, RegistryTypeOK
<1>2. Registered' = Registered \cup {a}
  BY <1>1, PutExact DEF Registered
<1>3. Came = {a} /\ Gone = {}
  BY <1>1, <1>2 DEF Came, Gone
<1>4. HandedTo = {}
  <2>1. \A x \in Addr : ~ (Len(result[x]) > Len(result[x]))
    BY DEF TypeOK
  <2>. QED
    BY <1>1, <2>1 DEF HandedTo
<1>5. leaves' = leaves
  BY <1>3 DEF Record
<1>6. passed' = [passed EXCEPT ![a] = {}]
  BY <1>3, <1>4 DEF Record, RecordTyped
<1>7. overtaken' = [overtaken EXCEPT ![a] = {}]
  BY <1>3, <1>4 DEF Record, RecordTyped
<1>8. disturbed' = [disturbed EXCEPT ![a] = FALSE]
  BY <1>3, <1>4 DEF Record, RecordTyped
<1>. QED
  BY <1>1, <1>5, <1>6, <1>7, <1>8 DEF Join, Put

LEMMA RemovingLeaves ==
  ASSUME TypeOK, RegistryExact, RecordTyped, LeavesCounted,
         NEW a \in Addr, Removes(a), Record
  PROVE  /\ Leave(a) /\ leaves' = leaves + 1
         /\ Len(listenResponders') = Len(listenResponders) - 1
<1>1. /\ a \in Registered /\ listenResponders' = RemoveFirst(listenResponders, a)
      /\ UNCHANGED <<lastResponder, policy, result>>
      /\ listenResponders \in Seq(Addr) /\ IsInjective(listenResponders)
  BY DEF Removes, Rm, TypeOK, RegistryTypeOK, RegistryExact
<1>2. Registered' = Registered \ {a}
  BY <1>1, RmExact DEF Registered
<1>3. Came = {} /\ Gone = {a}
  BY <1>1, <1>2 DEF Came, Gone
<1>4. HandedTo = {}
  <2>1. \A x \in Addr : ~ (Len(result[x]) > Len(result[x]))
    BY DEF TypeOK
  <2>. QED
    BY <1>1, <2>1 DEF HandedTo
<1>5. leaves' = leaves + 1
  BY <1>3 DEF Record
<1>6. \E i \in 1..Len(listenResponders) : listenResponders[i] = a
  BY <1>1 DEF Registered, ToSet
<1>7. Len(listenResponders') = Len(listenResponders) - 1
  BY <1>1, <1>6, ErasedAt
<1>8. leaves < MaxLeaves
  <2>1. /\ Len(listenResponders) \in Nat /\ Len(listenResponders) > 0
        /\ leaves \in Nat /\ calls \in Nat /\ MaxCalls \in Nat /\ MaxLeaves \in Nat
    BY <1>6, SmsServiceAssumption, RoundRobinAssumption DEF RecordTyped, TypeOK, RegistryTypeOK
  <2>2. leaves + Len(listenResponders) <= calls /\ calls <= MaxCalls
    BY DEF LeavesCounted
  <2>3. MaxCalls <= MaxLeaves
    BY SmsTurnsAssumption
  <2>. QED
    BY <2>1, <2>2, <2>3
<1>9. passed' = [q \in Addr |-> passed[q] \ {a}]
  BY <1>3, <1>4 DEF Record
<1>10. overtaken' = [q \in Addr |-> overtaken[q] \ {a}]
  BY <1>3, <1>4 DEF Record
<1>11. disturbed' = [q \in Addr |-> disturbed[q] \/ a = lastResponder]
  BY <1>3, <1>4 DEF Record
<1>. QED
  BY <1>1, <1>5, <1>7, <1>8, <1>9, <1>10, <1>11 DEF Leave, Rm

LEMMA HandingOutEnqueues ==
  ASSUME TypeOK, RecordTyped, HandsOut, Record
  PROVE  Enqueue
<1>. DEFINE c == NextResponder
<1>1. /\ ~NotifyAll /\ listenResponders # <<>> /\ Choose
      /\ \A x \in Addr : Len(result'[x]) > Len(result[x]) <=> x = c
      /\ UNCHANGED <<listenResponders, policy>>
  BY DEF HandsOut
<1>2. c \in Addr
  BY <1>1, NextResponderRegistered DEF TypeOK
<1>3. HandedTo = {c} /\ Came = {} /\ Gone = {}
  BY <1>1, <1>2 DEF HandedTo, Came, Gone, Registered
<1>. HIDE DEF c
<1>4. leaves' = leaves
  BY <1>3 DEF Record
<1>5. passed' = [q \in Addr |-> IF q = c THEN {} ELSE passed[q] \cup {c}]
  BY <1>3 DEF Record
<1>6. overtaken' = [q \in Addr |-> IF q = c THEN {} ELSE
                      overtaken[q] \cup (passed[q] \cap {c})]
  BY <1>3 DEF Record
<1>7. disturbed' = [disturbed EXCEPT ![c] = FALSE]
  BY <1>2, <1>3 DEF Record, RecordTyped
<1>. QED
  BY <1>1, <1>4, <1>5, <1>6, <1>7 DEF Enqueue, c

-----------------------------------------------------------------------------
(* The steps of SmsTurns are those of RoundRobin                           *)

TurnsInv == RecordTyped /\ LeavesCounted

LEMMA RecordKeepsTypes ==
  ASSUME RecordTyped, Record
  PROVE  RecordTyped'
<1>1. leaves' \in Nat
  BY DEF Record, RecordTyped
<1>2. HandedTo \subseteq Addr
  BY DEF HandedTo
<1>3. passed' \in [Addr -> SUBSET Addr] /\ overtaken' \in [Addr -> SUBSET Addr]
  BY <1>2 DEF Record, RecordTyped
<1>4. disturbed' \in [Addr -> BOOLEAN]
  BY DEF Record, RecordTyped
<1>. QED
  BY <1>1, <1>3, <1>4 DEF RecordTyped

LEMMA TurnsStep ==
  ASSUME ListenerInv, CompletionInv, TurnsInv, TurnsNext
  PROVE  TurnsInv' /\ [TurnNext]_turnVars
<1>1. /\ TypeOK /\ RegistryExact /\ RecordTyped /\ LeavesCounted
      /\ FifoNext /\ Record /\ RecordTyped'
  BY RecordKeepsTypes DEF ListenerInv, TurnsInv, TurnsNext
<1>2. /\ calls \in Nat /\ calls' \in Nat /\ calls <= calls' /\ calls' <= MaxCalls
      /\ leaves \in Nat /\ leaves' \in Nat /\ Len(listenResponders) \in Nat
      /\ leaves + Len(listenResponders) <= calls
  BY <1>1, CallsCounted DEF LeavesCounted, RecordTyped, TypeOK, RegistryTypeOK
<1>3. CASE KeepsRegistry
  <2>1. UNCHANGED turnVars
    BY <1>1, <1>3, RecordStays
  <2>2. leaves' = leaves /\ listenResponders' = listenResponders
    BY <2>1 DEF turnVars, registryVars
  <2>. QED
    BY <1>1, <1>2, <2>1, <2>2 DEF TurnsInv, LeavesCounted
<1>4. CASE HandsOut
  <2>1. Enqueue
    BY <1>1, <1>4, HandingOutEnqueues
  <2>2. leaves' = leaves /\ listenResponders' = listenResponders
    BY <2>1 DEF Enqueue
  <2>. QED
    BY <1>1, <1>2, <2>1, <2>2 DEF TurnsInv, LeavesCounted, TurnNext
<1>5. ASSUME NEW a \in Addr, Registers(a)
      PROVE  TurnsInv' /\ [TurnNext]_turnVars
  <2>1. Join(a) /\ Len(listenResponders') = Len(listenResponders) + 1
    BY <1>1, <1>5, RegisteringJoins
  <2>2. leaves' = leaves /\ calls' = calls + 1
    BY <1>5, <2>1 DEF Join, Registers
  <2>. QED
    BY <1>1, <1>2, <2>1, <2>2 DEF TurnsInv, LeavesCounted, TurnNext
<1>6. ASSUME NEW a \in Addr, Removes(a)
      PROVE  TurnsInv' /\ [TurnNext]_turnVars
  <2>1. /\ Leave(a) /\ leaves' = leaves + 1
        /\ Len(listenResponders') = Len(listenResponders) - 1
    BY <1>1, <1>6, RemovingLeaves
  <2>. QED
    BY <1>1, <1>2, <2>1 DEF TurnsInv, LeavesCounted, TurnNext
<1>. QED
  BY <1>1, <1>3, <1>4, <1>5, <1>6, StepMeans

(* The record adds no step to the server and takes none away. *)
LEMMA RecordRefines == TurnsSpec => FifoSpec
<1>1. TurnsInit => FifoInit
  BY DEF TurnsInit
<1>2. [TurnsNext]_<<fifoVars, recordVars>> => [FifoNext]_fifoVars
  BY DEF TurnsNext
<1>. QED
  BY <1>1, <1>2, PTL DEF TurnsSpec, FifoSpec

LEMMA TurnsInvariant == TurnsSpec => [](ListenerInv /\ CompletionInv /\ TurnsInv)
<1>1. TurnsInit => TurnsInv
  <2>. SUFFICES ASSUME TurnsInit PROVE TurnsInv
    OBVIOUS
  <2>1. /\ leaves = 0 /\ listenResponders = <<>> /\ calls = 0
        /\ passed = [p \in Addr |-> {}] /\ overtaken = [p \in Addr |-> {}]
        /\ disturbed = [p \in Addr |-> FALSE]
    BY DEF TurnsInit, FifoInit, Init, TurnInit, RegistryInit
  <2>. QED
    BY <2>1, SmsServiceAssumption DEF TurnsInv, RecordTyped, LeavesCounted
<1>2. ListenerInv /\ CompletionInv /\ TurnsInv
        /\ [TurnsNext]_<<fifoVars, recordVars>> => TurnsInv'
  <2>. SUFFICES ASSUME ListenerInv, CompletionInv, TurnsInv,
                       [TurnsNext]_<<fifoVars, recordVars>>
       PROVE  TurnsInv'
    OBVIOUS
  <2>1. CASE UNCHANGED <<fifoVars, recordVars>>
    BY <2>1 DEF fifoVars, vars, registryVars, recordVars, TurnsInv, RecordTyped,
       LeavesCounted
  <2>. QED
    BY <2>1, TurnsStep
<1>. QED
  BY <1>1, <1>2, RecordRefines, QueueRefines, ListenersAgree, CompletionInvariant, PTL
     DEF TurnsSpec

(***************************************************************************)
(* The handlers use the registry as RoundRobin has it, with any number of  *)
(* phones, SMS and programs that send: put() only for a listener that is   *)
(* not registered, rm(), whose result nobody looks at, only for one that   *)
(* is, and a turn is used up by the listener that is handed the batch.     *)
(***************************************************************************)
THEOREM RoundRobinImplemented == TurnsSpec => ImplementsRoundRobin
<1>1. TurnsInit => TurnInit
  BY DEF TurnsInit
<1>2. ListenerInv /\ CompletionInv /\ TurnsInv
        /\ [TurnsNext]_<<fifoVars, recordVars>> => [TurnNext]_turnVars
  <2>. SUFFICES ASSUME ListenerInv, CompletionInv, TurnsInv,
                       [TurnsNext]_<<fifoVars, recordVars>>
       PROVE  [TurnNext]_turnVars
    OBVIOUS
  <2>1. CASE UNCHANGED <<fifoVars, recordVars>>
    BY <2>1 DEF fifoVars, vars, recordVars, turnVars
  <2>. QED
    BY <2>1, TurnsStep
<1>. QED
  BY <1>1, <1>2, TurnsInvariant, PTL DEF TurnsSpec, TurnSpec, ImplementsRoundRobin

(***************************************************************************)
(* While a connected phone waits, nobody is handed two batches, unless the *)
(* phone that was handed the last one hung up in between.                  *)
(***************************************************************************)
THEOREM HandedOutInTurn == TurnsSpec => []HandedInTurn
<1>1. TurnsSpec => []InTurn
  BY RoundRobinImplemented, TurnsAreFair, PTL DEF ImplementsRoundRobin
<1>. QED
  BY <1>1, PTL DEF HandedInTurn
=============================================================================
