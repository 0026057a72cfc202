-------------------------- MODULE CompletionProofs --------------------------
(***************************************************************************)
(* Proofs about the completions of the event loop.  With any order of them *)
(* the server keeps accepting phones.  In the order of the queue, no       *)
(* completion reaches a deleted object, and only a phone that hung up is   *)
(* taken for one.                                                          *)
(***************************************************************************)
EXTENDS SmsServiceFifo, SmsServiceProofs, FiniteSetTheorems, FunctionTheorems

(***************************************************************************)
(* A request is with gRPC for an object that no call was bound to yet, and *)
(* that is registered at most because a stray completion reached it first. *)
(***************************************************************************)
RequestsOut ==
  \A a \in Addr :
    /\ events[a]["request"] \in {0, 1}
    /\ events[a]["request"] = 1 => call[a] = "none" /\ status[a] = "LISTEN_COMMAND"
    /\ IsAcceptor(a) => events[a]["request"] = 1
    /\ status[a] = "FREE" => call[a] = "none"

OneAcceptor ==
  \E a \in Addr : IsAcceptor(a) /\ \A b \in Addr : IsAcceptor(b) => b = a

AcceptInv == RequestsOut /\ OneAcceptor

(* What a step leaves alone keeps both parts. *)
LEMMA AcceptorsStay ==
  ASSUME AcceptInv, UNCHANGED <<status, newResponderCreated, call>>,
         \A a \in Addr : events'[a]["request"] = events[a]["request"]
  PROVE  AcceptInv'
BY DEF AcceptInv, RequestsOut, OneAcceptor, IsAcceptor

LEMMA NotifyKeepsAcceptor ==
  ASSUME TypeOK, AcceptInv, NotifyListeners
  PROVE  AcceptInv'
<1>1. UNCHANGED <<status, newResponderCreated, call>>
  BY DEF NotifyListeners
<1>2. \A a \in Addr : events'[a]["request"] = events[a]["request"]
  <2>1. CASE mgrResult = <<>>
    BY <2>1 DEF NotifyListeners
  <2>2. CASE mgrResult # <<>>
    <3>1. \A a \in Addr :
            events'[a] = IF a \in Recipients THEN Woken(a) ELSE events[a]
      BY <2>2 DEF NotifyListeners
    <3>. QED
      BY <3>1, WokenEvents DEF Kind
  <2>. QED
    BY <2>1, <2>2
<1>. QED
  BY <1>1, <1>2, AcceptorsStay

(* The acceptor goes on to listen, and the one it creates takes its place. *)
LEMMA AcceptKeepsAcceptor ==
  ASSUME TypeOK, ObjectsClean, AcceptInv, NEW a \in Addr, NEW k \in Kind,
         AcceptListener(a, k)
  PROVE  AcceptInv'
<1>1. PICK b \in Addr : /\ status[b] = "FREE"
                        /\ status' = [status EXCEPT ![b] = "LISTEN_COMMAND"]
                        /\ events' = More(Left(a, k), b, "request")
  BY DEF AcceptListener, Armed
<1>2. /\ Delivered(a, k) /\ IsAcceptor(a)
      /\ newResponderCreated' = [newResponderCreated EXCEPT ![a] = TRUE]
      /\ call' = [call EXCEPT ![a] = CallAt(a, k)]
  BY DEF AcceptListener
<1>3. a # b /\ ~newResponderCreated[b] /\ ~IsAcceptor(b)
  BY <1>1, <1>2 DEF IsAcceptor, ObjectsClean
<1>4. /\ events[a]["request"] = 1 /\ call[a] = "none"
      /\ events[b]["request"] = 0
  BY <1>1, <1>2 DEF AcceptInv, RequestsOut
<1>5. \A x \in Addr :
        events'[x]["request"] = IF x = b THEN 1
          ELSE IF x = a /\ k = "request" THEN 0 ELSE events[x]["request"]
  <2>1. /\ Left(a, k) \in [Addr -> [Kind -> Nat]]
        /\ \A x \in Addr : Left(a, k)[x]["request"] =
             IF x = a /\ k = "request" THEN events[x]["request"] - 1
             ELSE events[x]["request"]
    BY <1>2, LeftEvents DEF Kind
  <2>2. \A x \in Addr : events'[x]["request"] =
          IF x = b THEN Left(a, k)[x]["request"] + 1 ELSE Left(a, k)[x]["request"]
    <3>. DEFINE ev == Left(a, k)
    <3>1. ev \in [Addr -> [Kind -> Nat]] /\ "request" \in Kind
      BY <2>1 DEF Kind
    <3>. HIDE DEF ev
    <3>2. \A x \in Addr, i \in Kind :
            More(ev, b, "request")[x][i] =
              IF x = b /\ i = "request" THEN ev[x][i] + 1 ELSE ev[x][i]
      BY <3>1, MoreEvents
    <3>3. events' = More(ev, b, "request")
      BY <1>1 DEF ev
    <3>4. \A x \in Addr : events'[x]["request"] =
            IF x = b THEN ev[x]["request"] + 1 ELSE ev[x]["request"]
      BY <3>1, <3>2, <3>3
    <3>. QED
      BY <3>4 DEF ev
  <2>. QED
    BY <1>3, <1>4, <2>1, <2>2
<1>6. \A x \in Addr : IsAcceptor(x)' <=> x = b
  <2>1. /\ status'[b] = "LISTEN_COMMAND" /\ ~newResponderCreated'[b]
        /\ newResponderCreated'[a] = TRUE
        /\ \A x \in Addr : x # a /\ x # b =>
             status'[x] = status[x]
             /\ newResponderCreated'[x] = newResponderCreated[x]
    BY <1>1, <1>2, <1>3 DEF TypeOK
  <2>2. \A x \in Addr : IsAcceptor(x) => x = a
    BY <1>2 DEF AcceptInv, OneAcceptor
  <2>. QED
    BY <2>1, <2>2 DEF IsAcceptor
<1>7. ASSUME NEW x \in Addr, events'[x]["request"] = 1
      PROVE  call'[x] = "none" /\ status'[x] = "LISTEN_COMMAND"
  <2>1. CASE x = b
    <3>1. call[b] = "none"
      BY <1>1 DEF AcceptInv, RequestsOut
    <3>. QED
      BY <1>1, <1>2, <1>3, <2>1, <3>1 DEF TypeOK
  <2>2. CASE x # b
    <3>1. events[x]["request"] = 1 /\ (x = a => k # "request")
      BY <1>5, <1>7, <2>2
    <3>2. call[x] = "none" /\ status[x] = "LISTEN_COMMAND"
      BY <3>1 DEF AcceptInv, RequestsOut
    <3>. QED
      BY <1>1, <1>2, <2>2, <3>1, <3>2 DEF CallAt, TypeOK
  <2>. QED
    BY <2>1, <2>2
<1>8. ASSUME NEW x \in Addr, status'[x] = "FREE" PROVE call'[x] = "none"
  <2>1. x # a /\ x # b /\ status[x] = "FREE"
    BY <1>1, <1>2, <1>3, <1>8 DEF IsAcceptor, TypeOK
  <2>2. call[x] = "none"
    BY <2>1 DEF AcceptInv, RequestsOut
  <2>. QED
    BY <1>2, <2>1, <2>2 DEF TypeOK
<1>9. \A x \in Addr : events'[x]["request"] \in {0, 1}
  BY <1>5 DEF AcceptInv, RequestsOut
<1>10. \A x \in Addr : IsAcceptor(x)' => events'[x]["request"] = 1
  BY <1>5, <1>6
<1>11. RequestsOut'
  BY <1>7, <1>8, <1>9, <1>10 DEF RequestsOut
<1>12. OneAcceptor'
  BY <1>6 DEF OneAcceptor
<1>. QED
  BY <1>11, <1>12 DEF AcceptInv

(* Every other path through Proceed() is that of an object with a call. *)
LEMMA ListeningKeepsAcceptor ==
  ASSUME TypeOK, ObjectsClean, AcceptInv, NEW a \in Addr, NEW k \in Kind,
         FinishStream(a, k) \/ WriteNext(a, k) \/ StopWriting(a, k)
           \/ DeleteThis(a, k)
  PROVE  AcceptInv'
<1>1. Delivered(a, k)
  BY DEF FinishStream, WriteNext, StopWriting, DeleteThis
<1>2. /\ Left(a, k) \in [Addr -> [Kind -> Nat]]
      /\ \A x \in Addr : Left(a, k)[x]["request"] =
           IF x = a /\ k = "request" THEN events[x]["request"] - 1
           ELSE events[x]["request"]
  BY <1>1, LeftEvents DEF Kind
<1>3. \A x \in Addr : events'[x]["request"] = Left(a, k)[x]["request"]
  <2>1. \A ev \in [Addr -> [Kind -> Nat]], i \in {"finish", "done", "write"} :
          /\ More(ev, a, i) \in [Addr -> [Kind -> Nat]]
          /\ \A x \in Addr : More(ev, a, i)[x]["request"] = ev[x]["request"]
    BY MoreEvents DEF Kind
  <2>2. \/ events' = Left(a, k)
        \/ events' = More(Left(a, k), a, "write")
        \/ events' = More(Left(a, k), a, "finish")
        \/ events' = More(More(Left(a, k), a, "finish"), a, "done")
    BY DEF FinishStream, WriteNext, StopWriting, DeleteThis
  <2>3. /\ More(Left(a, k), a, "finish") \in [Addr -> [Kind -> Nat]]
        /\ \A x \in Addr :
             More(Left(a, k), a, "finish")[x]["request"] = Left(a, k)[x]["request"]
    BY <1>2, <2>1
  <2>4. \A x \in Addr : More(More(Left(a, k), a, "finish"), a, "done")[x]["request"]
                          = Left(a, k)[x]["request"]
    BY <2>1, <2>3
  <2>5. \A x \in Addr :
          More(Left(a, k), a, "write")[x]["request"] = Left(a, k)[x]["request"]
    BY <1>2, <2>1
  <2>. QED
    BY <2>2, <2>3, <2>4, <2>5
<1>4. /\ \A x \in Addr : x # a =>
           /\ status'[x] = status[x] /\ call'[x] = call[x]
           /\ newResponderCreated'[x] = newResponderCreated[x]
      /\ status'[a] = "FREE" => call'[a] = "none"
  BY DEF FinishStream, WriteNext, StopWriting, DeleteThis, TypeOK
<1>5. ~IsAcceptor(a) /\ ~IsAcceptor(a)'
  <2>1. CASE FinishStream(a, k) \/ DeleteThis(a, k)
    BY <2>1 DEF FinishStream, DeleteThis, IsAcceptor, TypeOK
  <2>2. CASE WriteNext(a, k) \/ StopWriting(a, k)
    <3>1. newResponderCreated[a] /\ newResponderCreated' = newResponderCreated
      BY <2>2 DEF WriteNext, StopWriting, ObjectsClean
    <3>. QED
      BY <3>1 DEF IsAcceptor
  <2>. QED
    BY <2>1, <2>2
<1>6. k # "request" => events[a]["request"] = 0
  <2>. SUFFICES ASSUME k # "request", events[a]["request"] = 1 PROVE FALSE
    BY DEF AcceptInv, RequestsOut
  <2>1. CallAt(a, k) = "none" /\ status[a] = "LISTEN_COMMAND"
    BY DEF AcceptInv, RequestsOut, CallAt
  <2>. QED
    BY <2>1 DEF FinishStream, WriteNext, StopWriting, DeleteThis
<1>7. events'[a]["request"] = 0
  <2>1. events[a]["request"] \in {0, 1} /\ events[a][k] > 0
    BY <1>1 DEF AcceptInv, RequestsOut, Delivered
  <2>. QED
    BY <1>2, <1>3, <1>6, <2>1
<1>8. \A x \in Addr : x # a => /\ events'[x]["request"] = events[x]["request"]
                               /\ IsAcceptor(x)' <=> IsAcceptor(x)
  BY <1>2, <1>3, <1>4 DEF IsAcceptor
<1>9. RequestsOut'
  <2>. SUFFICES ASSUME NEW x \in Addr
       PROVE  /\ events'[x]["request"] \in {0, 1}
              /\ events'[x]["request"] = 1 =>
                   call'[x] = "none" /\ status'[x] = "LISTEN_COMMAND"
              /\ IsAcceptor(x)' => events'[x]["request"] = 1
              /\ status'[x] = "FREE" => call'[x] = "none"
    BY DEF RequestsOut
  <2>1. CASE x = a
    BY <1>4, <1>5, <1>7, <2>1
  <2>2. CASE x # a
    BY <1>4, <1>8, <2>2 DEF AcceptInv, RequestsOut
  <2>. QED
    BY <2>1, <2>2
<1>10. OneAcceptor'
  BY <1>5, <1>8 DEF AcceptInv, OneAcceptor
<1>. QED
  BY <1>9, <1>10 DEF AcceptInv

LEMMA HangUpKeepsAcceptor ==
  ASSUME TypeOK, AcceptInv, NEW a \in Addr, HangUp(a)
  PROVE  AcceptInv'
<1>1. /\ call[a] = "open" /\ call' = [call EXCEPT ![a] = "hungup"]
      /\ events' = More(events, a, "done")
      /\ UNCHANGED <<status, newResponderCreated>>
  BY DEF HangUp
<1>2. \A x \in Addr : events'[x]["request"] = events[x]["request"]
  <2>1. events \in [Addr -> [Kind -> Nat]] /\ "done" \in Kind /\ "request" \in Kind
    BY DEF TypeOK, Kind
  <2>2. \A x \in Addr, i \in Kind :
          More(events, a, "done")[x][i] =
            IF x = a /\ i = "done" THEN events[x][i] + 1 ELSE events[x][i]
    BY <2>1, MoreEvents
  <2>. QED
    BY <1>1, <2>1, <2>2
<1>3. \A x \in Addr : call'[x] = IF x = a THEN "hungup" ELSE call[x]
  BY <1>1 DEF TypeOK
<1>4. \A x \in Addr : IsAcceptor(x)' <=> IsAcceptor(x)
  BY <1>1 DEF IsAcceptor
<1>5. RequestsOut'
  BY <1>1, <1>2, <1>3, <1>4 DEF AcceptInv, RequestsOut
<1>6. OneAcceptor'
  BY <1>4 DEF AcceptInv, OneAcceptor
<1>. QED
  BY <1>5, <1>6 DEF AcceptInv

LEMMA AcceptorInvariant == Spec => []AcceptInv
<1>1. Init => AcceptInv
  <2>. SUFFICES ASSUME Init PROVE AcceptInv
    OBVIOUS
  <2>1. PICK a \in Addr :
          /\ status = [x \in Addr |-> IF x = a THEN "LISTEN_COMMAND" ELSE "FREE"]
          /\ events = [x \in Addr |-> [k \in Kind |->
                         IF x = a /\ k = "request" THEN 1 ELSE 0]]
    BY DEF Init
  <2>2. /\ newResponderCreated = [x \in Addr |-> FALSE]
        /\ call = [x \in Addr |-> "none"]
    BY DEF Init
  <2>3. \A x \in Addr : IsAcceptor(x) <=> x = a
    BY <2>1, <2>2 DEF IsAcceptor
  <2>4. \A x \in Addr : events[x]["request"] = IF x = a THEN 1 ELSE 0
    BY <2>1 DEF Kind
  <2>. QED
    BY <2>1, <2>2, <2>3, <2>4 DEF AcceptInv, RequestsOut, OneAcceptor
<1>2. ListenerInv /\ AcceptInv /\ [Next]_vars => AcceptInv'
  <2>. SUFFICES ASSUME ListenerInv, AcceptInv, [Next]_vars PROVE AcceptInv'
    OBVIOUS
  <2>1. TypeOK /\ ObjectsClean
    BY DEF ListenerInv
  <2>2. CASE NotifyListeners
    BY <2>1, <2>2, NotifyKeepsAcceptor
  <2>3. ASSUME NEW a \in Addr, NEW k \in Kind, Proceed(a, k) PROVE AcceptInv'
    <3>1. CASE FaultFreed(a, k) \/ FaultNoCall(a, k) \/ FaultOverlap(a, k)
      BY <3>1, AcceptorsStay DEF FaultFreed, FaultNoCall, FaultOverlap, Stops,
         objectVars
    <3>. QED
      BY <2>1, <2>3, <3>1, AcceptKeepsAcceptor, ListeningKeepsAcceptor DEF Proceed
  <2>4. ASSUME NEW a \in Addr, HangUp(a) PROVE AcceptInv'
    BY <2>1, <2>4, HangUpKeepsAcceptor
  <2>5. CASE RequestToSend \/ LastSMSToSend \/ UNCHANGED vars
    BY <2>5, AcceptorsStay DEF RequestToSend, LastSMSToSend, vars, objectVars
  <2>. QED
    BY <2>2, <2>3, <2>4, <2>5 DEF Next, OtherNext
<1>. QED
  BY <1>1, <1>2, ListenersAgree, PTL DEF Spec

(***************************************************************************)
(* Exactly one ListenData waits for the next phone, and its request is     *)
(* with gRPC once, whatever completions reach it.                          *)
(***************************************************************************)
THEOREM AcceptsPhones == Spec => []AlwaysAccepting
<1>1. AcceptInv => AlwaysAccepting
  BY DEF AcceptInv, RequestsOut, OneAcceptor, AlwaysAccepting
<1>. QED
  BY <1>1, AcceptorInvariant, PTL

-----------------------------------------------------------------------------
(* How often a completion is in the queue                                  *)

Places(s, e) == {i \in DOMAIN s : s[i] = e}

LEMMA PlacesFinite ==
  ASSUME NEW S, NEW s \in Seq(S), NEW e
  PROVE  /\ IsFiniteSet(Places(s, e)) /\ Cardinality(Places(s, e)) \in Nat
         /\ Places(s, e) \subseteq 1..Len(s)
<1>1. Places(s, e) \subseteq 1..Len(s)
  BY DEF Places
<1>2. IsFiniteSet(1..Len(s))
  BY FS_Interval
<1>. QED
  BY <1>1, <1>2, FS_Subset, FS_CardinalityType

(* Posting a completion takes none away. *)
LEMMA PostedAppend ==
  ASSUME NEW S, NEW s \in Seq(S), NEW e, NEW f \in S
  PROVE  Cardinality(Places(s, e)) <= Cardinality(Places(Append(s, f), e))
<1>1. Append(s, f) \in Seq(S)
  OBVIOUS
<1>2. Places(s, e) \subseteq Places(Append(s, f), e)
  BY DEF Places
<1>. QED
  BY <1>1, <1>2, PlacesFinite, FS_Subset

(* Where the completions are after the oldest one was taken *)
LEMMA TakenAt ==
  ASSUME NEW S, NEW s \in Seq(S), s # <<>>, NEW t \in Seq(S)
  PROVE  /\ Tail(s) \o t \in Seq(S)
         /\ Len(Tail(s) \o t) = Len(s) - 1 + Len(t)
         /\ \A i \in 1..(Len(s) - 1) : (Tail(s) \o t)[i] = s[i + 1]
         /\ \A j \in 1..Len(t) : (Tail(s) \o t)[Len(s) - 1 + j] = t[j]
<1>1. Tail(s) \in Seq(S) /\ Len(Tail(s)) = Len(s) - 1 /\ Len(s) \in Nat \ {0}
  OBVIOUS
<1>2. \A i \in 1..(Len(s) - 1) : Tail(s)[i] = s[i + 1]
  OBVIOUS
<1>. DEFINE r == Tail(s)
<1>. HIDE DEF r
<1>3. /\ r \o t \in Seq(S) /\ Len(r \o t) = Len(r) + Len(t)
      /\ \A i \in 1..(Len(r) + Len(t)) :
           (r \o t)[i] = IF i <= Len(r) THEN r[i] ELSE t[i - Len(r)]
  BY <1>1, ConcatProperties, Zenon DEF r
<1>4. Len(t) \in Nat
  OBVIOUS
<1>5. \A i \in 1..Len(r) : (r \o t)[i] = r[i]
  BY <1>1, <1>3, <1>4 DEF r
<1>6. ASSUME NEW j \in 1..Len(t) PROVE (r \o t)[Len(r) + j] = t[j]
  <2>1. Len(r) + j \in 1..(Len(r) + Len(t)) /\ ~(Len(r) + j <= Len(r))
    BY <1>1, <1>4 DEF r
  <2>2. (Len(r) + j) - Len(r) = j
    BY <1>1 DEF r
  <2>. QED
    BY <1>3, <2>1, <2>2
<1>. QED
  BY <1>1, <1>2, <1>3, <1>5, <1>6 DEF r

(* Taking the oldest completion takes one away at most, and posting adds. *)
LEMMA PostedTail ==
  ASSUME NEW S, NEW s \in Seq(S), s # <<>>, NEW t \in Seq(S), NEW e
  PROVE  Cardinality(Places(s, e))
           + (IF \E j \in 1..Len(t) : t[j] = e THEN 1 ELSE 0)
         <= Cardinality(Places(Tail(s) \o t, e)) + (IF Head(s) = e THEN 1 ELSE 0)
<1>0. /\ \A i \in 1..(Len(s) - 1) : (Tail(s) \o t)[i] = s[i + 1]
      /\ \A j \in 1..Len(t) : (Tail(s) \o t)[Len(s) - 1 + j] = t[j]
  BY TakenAt
<1>. DEFINE u == Tail(s) \o t
            A == Places(s, e) \ {1}
            f == [i \in A |-> i - 1]
<1>1. Len(s) \in Nat \ {0} /\ Head(s) = s[1] /\ Len(t) \in Nat
  OBVIOUS
<1>2. u \in Seq(S) /\ Len(u) = Len(s) - 1 + Len(t)
  BY TakenAt, Zenon
<1>3. \A i \in A : i - 1 \in 1..(Len(s) - 1) /\ u[i - 1] = e
  <2>1. \A i \in 1..(Len(s) - 1) : u[i] = s[i + 1]
    BY <1>0
  <2>. SUFFICES ASSUME NEW i \in A
       PROVE  i - 1 \in 1..(Len(s) - 1) /\ u[i - 1] = e
    OBVIOUS
  <2>2. i \in 1..Len(s) /\ i # 1 /\ s[i] = e
    BY DEF Places
  <2>3. i - 1 \in 1..(Len(s) - 1) /\ (i - 1) + 1 = i
    BY <1>1, <2>2
  <2>. QED
    BY <2>1, <2>2, <2>3
<1>4. /\ IsFiniteSet(A)
      /\ Cardinality(A) = IF Head(s) = e THEN Cardinality(Places(s, e)) - 1
                          ELSE Cardinality(Places(s, e))
  <2>1. 1 \in Places(s, e) <=> Head(s) = e
    BY <1>1 DEF Places
  <2>. QED
    BY <2>1, PlacesFinite, FS_RemoveElement
<1>5. ASSUME NEW B \in SUBSET Places(u, e), \A i \in A : i - 1 \in B
      PROVE  Cardinality(A) <= Cardinality(B)
  <2>1. IsFiniteSet(B)
    BY <1>2, PlacesFinite, FS_Subset
  <2>2. f \in [A -> B] /\ \A i, j \in A : f[i] = f[j] => i = j
    BY <1>1, <1>5 DEF Places
  <2>. HIDE DEF f
  <2>3. f \in Injection(A, B)
    BY <2>2, Fun_IsInj
  <2>. QED
    BY <2>1, <2>3, FS_Injection
<1>6. \A i \in A : i - 1 \in Places(u, e)
  BY <1>1, <1>2, <1>3 DEF Places
<1>7. CASE \E j \in 1..Len(t) : t[j] = e
  <2>1. PICK j \in 1..Len(t) : t[j] = e
    BY <1>7
  <2>. DEFINE n == Len(s) - 1 + j
              B == Places(u, e) \ {n}
  <2>2. n \in Places(u, e) /\ n > Len(s) - 1
    <3>1. u[n] = e
      BY <1>0, <2>1
    <3>2. n \in 1..Len(u)
      BY <1>1, <1>2
    <3>. QED
      BY <1>1, <1>2, <3>1, <3>2 DEF Places
  <2>3. \A i \in A : i - 1 \in B
    BY <1>1, <1>3, <1>6, <2>2
  <2>4. Cardinality(A) <= Cardinality(B)
    BY <1>5, <2>3
  <2>5. Cardinality(B) = Cardinality(Places(u, e)) - 1
    BY <1>2, <2>2, PlacesFinite, FS_RemoveElement
  <2>6. Cardinality(Places(u, e)) \in Nat /\ Cardinality(Places(s, e)) \in Nat
    BY <1>2, PlacesFinite
  <2>. HIDE DEF A, B, u, n
  <2>. QED
    BY <1>4, <1>7, <2>4, <2>5, <2>6 DEF u
<1>8. CASE ~ \E j \in 1..Len(t) : t[j] = e
  <2>1. Cardinality(A) <= Cardinality(Places(u, e))
    BY <1>5, <1>6
  <2>2. Cardinality(Places(u, e)) \in Nat /\ Cardinality(Places(s, e)) \in Nat
    BY <1>2, PlacesFinite
  <2>. HIDE DEF A, u
  <2>. QED
    BY <1>4, <1>8, <2>1, <2>2 DEF u
<1>. QED
  BY <1>7, <1>8

-----------------------------------------------------------------------------
(* What each path through Proceed() does to the completions                *)

Taken(a, k, x, i) == IF x = a /\ i = k THEN events[x][i] - 1 ELSE events[x][i]

LEMMA AcceptEvents ==
  ASSUME TypeOK, NEW a \in Addr, NEW k \in Kind, AcceptListener(a, k)
  PROVE  \E b \in Addr :
           /\ status[b] = "FREE" /\ status' = [status EXCEPT ![b] = "LISTEN_COMMAND"]
           /\ \A x \in Addr, i \in Kind : events'[x][i] =
                IF x = b /\ i = "request" THEN Taken(a, k, x, i) + 1
                ELSE Taken(a, k, x, i)
<1>1. PICK b \in Addr : /\ status[b] = "FREE"
                        /\ status' = [status EXCEPT ![b] = "LISTEN_COMMAND"]
                        /\ events' = More(Left(a, k), b, "request")
  BY DEF AcceptListener, Armed
<1>2. /\ Left(a, k) \in [Addr -> [Kind -> Nat]]
      /\ \A x \in Addr, i \in Kind : Left(a, k)[x][i] = Taken(a, k, x, i)
  BY LeftEvents DEF AcceptListener, Taken
<1>. DEFINE ev == Left(a, k)
<1>. HIDE DEF ev
<1>3. ev \in [Addr -> [Kind -> Nat]] /\ "request" \in Kind
  BY <1>2 DEF Kind, ev
<1>4. \A x \in Addr, i \in Kind : More(ev, b, "request")[x][i] =
        IF x = b /\ i = "request" THEN ev[x][i] + 1 ELSE ev[x][i]
  BY <1>3, MoreEvents
<1>5. /\ events' = More(ev, b, "request")
      /\ \A x \in Addr, i \in Kind : ev[x][i] = Taken(a, k, x, i)
  BY <1>1, <1>2 DEF ev
<1>6. \A x \in Addr, i \in Kind : events'[x][i] =
        IF x = b /\ i = "request" THEN Taken(a, k, x, i) + 1 ELSE Taken(a, k, x, i)
  BY <1>4, <1>5
<1>. QED
  BY <1>1, <1>6

LEMMA WriteEvents ==
  ASSUME TypeOK, NEW a \in Addr, NEW k \in Kind, WriteNext(a, k)
  PROVE  /\ \A x \in Addr, i \in Kind : events'[x][i] =
              IF x = a /\ i = "write" THEN 1 ELSE Taken(a, k, x, i)
         /\ Taken(a, k, a, "write") = 0
<1>1. /\ Left(a, k) \in [Addr -> [Kind -> Nat]]
      /\ \A x \in Addr, i \in Kind : Left(a, k)[x][i] = Taken(a, k, x, i)
  BY LeftEvents DEF WriteNext, Taken
<1>. DEFINE ev == Left(a, k)
<1>2. events' = More(ev, a, "write") /\ ev[a]["write"] = 0
  BY DEF WriteNext
<1>. HIDE DEF ev
<1>3. ev \in [Addr -> [Kind -> Nat]] /\ "write" \in Kind
  BY <1>1 DEF Kind, ev
<1>4. \A x \in Addr, i \in Kind : More(ev, a, "write")[x][i] =
        IF x = a /\ i = "write" THEN ev[x][i] + 1 ELSE ev[x][i]
  BY <1>3, MoreEvents
<1>5. \A x \in Addr, i \in Kind : ev[x][i] = Taken(a, k, x, i)
  BY <1>1 DEF ev
<1>. QED
  BY <1>2, <1>3, <1>4, <1>5

(* The stream of a phone that hung up is finished. *)
LEMMA FinishEvents ==
  ASSUME TypeOK, NEW a \in Addr, NEW k \in Kind, FinishStream(a, k),
         CallAt(a, k) # "open"
  PROVE  \A x \in Addr, i \in Kind : events'[x][i] =
           IF x = a /\ i = "finish" THEN Taken(a, k, x, i) + 1
           ELSE Taken(a, k, x, i)
<1>1. /\ Left(a, k) \in [Addr -> [Kind -> Nat]]
      /\ \A x \in Addr, i \in Kind : Left(a, k)[x][i] = Taken(a, k, x, i)
  BY LeftEvents DEF FinishStream, Taken
<1>. DEFINE ev == Left(a, k)
<1>2. events' = More(ev, a, "finish")
  BY DEF FinishStream
<1>. HIDE DEF ev
<1>3. ev \in [Addr -> [Kind -> Nat]] /\ "finish" \in Kind
  BY <1>1 DEF Kind, ev
<1>4. \A x \in Addr, i \in Kind : More(ev, a, "finish")[x][i] =
        IF x = a /\ i = "finish" THEN ev[x][i] + 1 ELSE ev[x][i]
  BY <1>3, MoreEvents
<1>5. \A x \in Addr, i \in Kind : ev[x][i] = Taken(a, k, x, i)
  BY <1>1 DEF ev
<1>. QED
  BY <1>2, <1>3, <1>4, <1>5

LEMMA IdleEvents ==
  ASSUME TypeOK, NEW a \in Addr, NEW k \in Kind,
         StopWriting(a, k) \/ DeleteThis(a, k)
  PROVE  \A x \in Addr, i \in Kind : events'[x][i] = Taken(a, k, x, i)
<1>1. events' = Left(a, k) /\ Delivered(a, k)
  BY DEF StopWriting, DeleteThis
<1>. QED
  BY <1>1, LeftEvents DEF Taken

-----------------------------------------------------------------------------
(* Counting                                                                *)

Counts(a) ==
  /\ events[a]["request"] = IF IsAcceptor(a) THEN 1 ELSE 0
  /\ events[a]["finish"] = IF status[a] = "FINISH" THEN 1 ELSE 0
  /\ ~Listening(a) => Due(a) = 0
  /\ Listening(a) =>
       /\ call[a] \in {"open", "hungup"}
       /\ status[a] = "LISTEN_COMMAND_SENT" =>
            Due(a) >= 2 /\ Due(a) <= Len(result[a]) + 2
       /\ status[a] = "LISTEN_COMMAND" /\ result[a] = <<>> => Due(a) = 1
       /\ status[a] = "LISTEN_COMMAND" /\ result[a] # <<>> =>
            Due(a) >= 2 /\ Due(a) <= Len(result[a]) + 1

LEMMA CountsSuffice ==
  ASSUME TypeOK
  PROVE  CompletionsCounted <=> \A a \in Addr : Counts(a)
<1>1. ASSUME NEW a \in Addr
      PROVE  /\ Due(a) \in Nat /\ Len(result[a]) \in Nat
             /\ Listening(a) /\ status[a] # "LISTEN_COMMAND_SENT" =>
                  status[a] = "LISTEN_COMMAND"
  BY DEF TypeOK, Due, Kind, Listening
<1>. QED
  BY <1>1 DEF CompletionsCounted, Counts, Listening

(* The kind of completion that reaches an object tells nothing but for the *)
(* first one and the last one.                                             *)
LEMMA KindDelivered ==
  ASSUME TypeOK, ObjectsClean, NEW a \in Addr, NEW k \in Kind, Counts(a),
         Delivered(a, k)
  PROVE  /\ status[a] # "FREE"
         /\ status[a] = "FINISH" => k = "finish"
         /\ IsAcceptor(a) => k = "request"
         /\ Listening(a) => /\ k \in {"alarm", "write", "done"}
                            /\ CallAt(a, k) = call[a]
                            /\ call[a] \in {"open", "hungup"}
<1>1. events[a][k] > 0 /\ \A i \in Kind : events[a][i] \in Nat
  BY DEF Delivered, TypeOK
<1>2. k \in {"alarm", "write", "done"} => Due(a) > 0
  BY <1>1 DEF Due, Kind
<1>3. ~Listening(a) => k \in {"request", "finish"}
  BY <1>2 DEF Counts, Kind
<1>4. k = "request" => IsAcceptor(a)
  BY <1>1 DEF Counts
<1>5. k = "finish" => status[a] = "FINISH"
  BY <1>1 DEF Counts
<1>6. status[a] \in {"FREE", "FINISH"} => ~Listening(a) /\ ~IsAcceptor(a)
  BY DEF Listening, IsAcceptor
<1>7. IsAcceptor(a) => ~Listening(a) /\ status[a] # "FINISH"
  BY DEF Listening, IsAcceptor
<1>8. Listening(a) => k \in {"alarm", "write", "done"}
  BY <1>4, <1>5, <1>6, <1>7 DEF Kind
<1>9. Listening(a) => CallAt(a, k) = call[a] /\ call[a] \in {"open", "hungup"}
  BY <1>8 DEF CallAt, Counts
<1>. QED
  BY <1>3, <1>4, <1>5, <1>6, <1>7, <1>8, <1>9

LEMMA CountsStay ==
  ASSUME NEW x \in Addr, Counts(x), status'[x] = status[x], call'[x] = call[x],
         newResponderCreated'[x] = newResponderCreated[x], result'[x] = result[x],
         \A i \in Kind : events'[x][i] = events[x][i]
  PROVE  Counts(x)'
BY DEF Counts, Listening, IsAcceptor, Due, Kind

(* The first completion of an object is the call, the stream begins. *)
LEMMA AcceptCounts ==
  ASSUME TypeOK, RegistryExact, ObjectsClean, \A x \in Addr : Counts(x),
         NEW a \in Addr, NEW k \in Kind, AcceptListener(a, k)
  PROVE  \A x \in Addr : Counts(x)'
<1>1. PICK b \in Addr :
        /\ status[b] = "FREE" /\ status' = [status EXCEPT ![b] = "LISTEN_COMMAND"]
        /\ \A x \in Addr, i \in Kind : events'[x][i] =
             IF x = b /\ i = "request" THEN Taken(a, k, x, i) + 1
             ELSE Taken(a, k, x, i)
  BY AcceptEvents
<1>2. /\ Delivered(a, k) /\ IsAcceptor(a) /\ result' = result
      /\ newResponderCreated' = [newResponderCreated EXCEPT ![a] = TRUE]
      /\ call' = [call EXCEPT ![a] = CallAt(a, k)]
  BY DEF AcceptListener
<1>3. k = "request" /\ CallAt(a, k) = "open"
  BY <1>2, KindDelivered DEF CallAt
<1>4. a # b /\ status[a] = "LISTEN_COMMAND" /\ ~newResponderCreated[a]
      /\ ~newResponderCreated[b] /\ result[a] = <<>>
  BY <1>1, <1>2 DEF IsAcceptor, ObjectsClean, RegistryExact
<1>5. /\ \A x \in Addr, i \in {"alarm", "write", "done", "finish"} :
           events'[x][i] = events[x][i]
      /\ events'[a]["request"] = events[a]["request"] - 1
      /\ events'[b]["request"] = events[b]["request"] + 1
      /\ \A x \in Addr : x # a /\ x # b => events'[x]["request"] = events[x]["request"]
  BY <1>1, <1>3, <1>4 DEF Taken, Kind
<1>6. Counts(a)'
  <2>1. /\ status'[a] = "LISTEN_COMMAND" /\ newResponderCreated'[a] = TRUE
        /\ call'[a] = "open" /\ result'[a] = <<>>
    BY <1>1, <1>2, <1>3, <1>4 DEF TypeOK
  <2>2. /\ Due(a) = 0 /\ events[a]["request"] = 1 /\ events[a]["finish"] = 0
    BY <1>2, <1>4 DEF Counts, Listening
  <2>3. Due(a)' = 1
    <3>1. /\ events[a]["alarm"] \in Nat /\ events[a]["write"] \in Nat
          /\ events[a]["done"] \in Nat
      BY DEF TypeOK, Kind
    <3>2. /\ events'[a]["alarm"] = events[a]["alarm"]
          /\ events'[a]["write"] = events[a]["write"]
          /\ events'[a]["done"] = events[a]["done"]
      BY <1>5
    <3>3. Due(a)' = events[a]["alarm"] + events[a]["write"] + events[a]["done"] + 1
      BY <2>1, <3>2 DEF Due
    <3>4. events[a]["alarm"] + events[a]["write"] + events[a]["done"] = 0
      BY <2>2, <3>1 DEF Due
    <3>. QED
      BY <3>1, <3>3, <3>4
  <2>. QED
    BY <1>5, <2>1, <2>2, <2>3 DEF Counts, IsAcceptor, Listening
<1>7. Counts(b)'
  <2>1. /\ status'[b] = "LISTEN_COMMAND" /\ ~newResponderCreated'[b]
        /\ call'[b] = call[b]
    BY <1>1, <1>2, <1>4 DEF TypeOK
  <2>2. Due(b) = 0 /\ events[b]["request"] = 0 /\ events[b]["finish"] = 0
    BY <1>1, <1>4 DEF Counts, IsAcceptor, Listening
  <2>3. Due(b)' = 0
    BY <1>5, <2>1, <2>2 DEF Due
  <2>. QED
    BY <1>5, <2>1, <2>2, <2>3 DEF Counts, IsAcceptor, Listening
<1>8. ASSUME NEW x \in Addr, x # a, x # b PROVE Counts(x)'
  <2>1. \A i \in Kind : events'[x][i] = events[x][i]
    BY <1>5, <1>8 DEF Kind
  <2>. QED
    BY <1>1, <1>2, <1>8, <2>1, CountsStay DEF TypeOK
<1>. QED
  BY <1>6, <1>7, <1>8

(* The only completion due of an idle listener is the hang-up. *)
LEMMA FinishCounts ==
  ASSUME TypeOK, ObjectsClean, \A x \in Addr : Counts(x),
         NEW a \in Addr, NEW k \in Kind, FinishStream(a, k)
  PROVE  /\ CallAt(a, k) = "hungup" /\ call' = call
         /\ \A x \in Addr : Counts(x)'
<1>1. /\ Delivered(a, k) /\ status[a] = "LISTEN_COMMAND" /\ newResponderCreated[a]
      /\ result[a] = <<>> /\ status' = [status EXCEPT ![a] = "FINISH"]
      /\ UNCHANGED <<newResponderCreated, result>>
  BY DEF FinishStream
<1>2. Listening(a) /\ ~IsAcceptor(a)
  BY <1>1 DEF Listening, IsAcceptor
<1>3. /\ k \in {"alarm", "write", "done"} /\ CallAt(a, k) = call[a]
      /\ call[a] \in {"open", "hungup"}
  BY <1>1, <1>2, KindDelivered
<1>4. Due(a) = 1 /\ events[a]["request"] = 0 /\ events[a]["finish"] = 0
  BY <1>1, <1>2 DEF Counts
<1>5. call[a] = "hungup"
  <2>1. events[a][k] > 0 /\ \A i \in Kind : events[a][i] \in Nat
    BY <1>1 DEF Delivered, TypeOK
  <2>2. call[a] # "open"
    BY <1>3, <1>4, <2>1 DEF Due, Kind
  <2>. QED
    BY <1>3, <2>2
<1>6. call' = call
  BY <1>3, <1>5 DEF FinishStream
<1>7. \A x \in Addr, i \in Kind : events'[x][i] =
        IF x = a /\ i = "finish" THEN Taken(a, k, x, i) + 1 ELSE Taken(a, k, x, i)
  BY <1>3, <1>5, FinishEvents
<1>8. Counts(a)'
  <2>1. /\ status'[a] = "FINISH" /\ call'[a] = "hungup"
        /\ events'[a]["finish"] = 1 /\ events'[a]["request"] = 0
    BY <1>1, <1>3, <1>4, <1>5, <1>6, <1>7 DEF Taken, TypeOK, Kind
  <2>2. Due(a)' = 0
    <3>1. \A i \in {"alarm", "write", "done"} :
            events'[a][i] = IF i = k THEN events[a][i] - 1 ELSE events[a][i]
      BY <1>7 DEF Taken, Kind
    <3>2. \A i \in Kind : events[a][i] \in Nat
      BY DEF TypeOK
    <3>. QED
      BY <1>3, <1>4, <1>5, <2>1, <3>1, <3>2 DEF Due, Kind
  <2>. QED
    BY <2>1, <2>2 DEF Counts, IsAcceptor, Listening
<1>9. ASSUME NEW x \in Addr, x # a PROVE Counts(x)'
  <2>1. \A i \in Kind : events'[x][i] = events[x][i]
    BY <1>7, <1>9 DEF Taken
  <2>. QED
    BY <1>1, <1>6, <1>9, <2>1, CountsStay DEF TypeOK
<1>. QED
  BY <1>3, <1>5, <1>6, <1>8, <1>9

(* A completion is taken and one is due for the Write that is started. *)
LEMMA WriteCounts ==
  ASSUME TypeOK, ObjectsClean, \A x \in Addr : Counts(x),
         NEW a \in Addr, NEW k \in Kind, WriteNext(a, k),
         status[a] = "LISTEN_COMMAND_SENT" => Due(a) <= Len(result[a]) + 1
  PROVE  call' = call /\ \A x \in Addr : Counts(x)'
<1>1. /\ Delivered(a, k) /\ newResponderCreated[a] /\ result[a] # <<>>
      /\ status[a] \in {"LISTEN_COMMAND", "LISTEN_COMMAND_SENT"}
      /\ status' = [status EXCEPT ![a] = "LISTEN_COMMAND_SENT"]
      /\ result' = [result EXCEPT ![a] = Tail(@)]
      /\ call' = [call EXCEPT ![a] = CallAt(a, k)]
      /\ newResponderCreated' = newResponderCreated
  BY DEF WriteNext, Popped
<1>2. Listening(a) /\ ~IsAcceptor(a)
  BY <1>1 DEF Listening, IsAcceptor
<1>3. /\ k \in {"alarm", "write", "done"} /\ CallAt(a, k) = call[a]
      /\ call[a] \in {"open", "hungup"}
  BY <1>1, <1>2, KindDelivered
<1>4. call' = call
  BY <1>1, <1>3 DEF TypeOK
<1>5. /\ \A x \in Addr, i \in Kind : events'[x][i] =
           IF x = a /\ i = "write" THEN 1 ELSE Taken(a, k, x, i)
      /\ Taken(a, k, a, "write") = 0
  BY WriteEvents
<1>6. Counts(a)'
  <2>1. /\ status'[a] = "LISTEN_COMMAND_SENT" /\ result'[a] = Tail(result[a])
        /\ newResponderCreated'[a] = TRUE
    BY <1>1 DEF TypeOK
  <2>2. Len(result[a]) \in Nat \ {0} /\ Len(result'[a]) = Len(result[a]) - 1
    BY <1>1, <2>1 DEF TypeOK
  <2>3. Due(a)' = Due(a)
    <3>1. \A i \in {"alarm", "write", "done"} : events[a][i] \in Nat
      BY DEF TypeOK, Kind
    <3>2. \A i \in {"alarm", "done"} :
            events'[a][i] = IF i = k THEN events[a][i] - 1 ELSE events[a][i]
      BY <1>5 DEF Taken, Kind
    <3>3. /\ events'[a]["write"] = 1
          /\ events[a]["write"] = IF k = "write" THEN 1 ELSE 0
      BY <1>5, <3>1 DEF Taken, Kind
    <3>. QED
      BY <1>3, <1>4, <3>1, <3>2, <3>3 DEF Due
  <2>4. Due(a) >= 2 /\ Due(a) <= Len(result[a]) + 1
    BY <1>1, <1>2 DEF Counts
  <2>5. events'[a]["request"] = 0 /\ events'[a]["finish"] = 0
    BY <1>1, <1>2, <1>3, <1>5 DEF Counts, Taken, Kind
  <2>6. Due(a)' >= 2 /\ Due(a)' <= Len(result'[a]) + 2
    BY <2>2, <2>3, <2>4
  <2>. QED
    BY <1>3, <1>4, <2>1, <2>5, <2>6 DEF Counts, Listening, IsAcceptor
<1>7. ASSUME NEW x \in Addr, x # a PROVE Counts(x)'
  <2>1. \A i \in Kind : events'[x][i] = events[x][i]
    BY <1>5, <1>7 DEF Taken
  <2>. QED
    BY <1>1, <1>4, <1>7, <2>1, CountsStay DEF TypeOK
<1>. QED
  BY <1>4, <1>6, <1>7

(* Nothing is left to write, or the last completion came. *)
LEMMA IdleCounts ==
  ASSUME TypeOK, ObjectsClean, \A x \in Addr : Counts(x),
         NEW a \in Addr, NEW k \in Kind, StopWriting(a, k) \/ DeleteThis(a, k)
  PROVE  /\ \A x \in Addr : Counts(x)'
         /\ \A x \in Addr : call'[x] \in {call[x], "none"}
<1>1. \A x \in Addr, i \in Kind : events'[x][i] = Taken(a, k, x, i)
  BY IdleEvents
<1>2. Delivered(a, k)
  BY DEF StopWriting, DeleteThis
<1>3. \A i \in Kind : events[a][i] \in Nat
  BY DEF TypeOK
<1>4. CASE StopWriting(a, k)
  <2>1. /\ status[a] = "LISTEN_COMMAND_SENT" /\ result[a] = <<>>
        /\ status' = [status EXCEPT ![a] = "LISTEN_COMMAND"]
        /\ call' = [call EXCEPT ![a] = CallAt(a, k)]
        /\ UNCHANGED <<newResponderCreated, result>>
    BY <1>4 DEF StopWriting
  <2>2. Listening(a) /\ newResponderCreated[a]
    BY <2>1 DEF Listening, ObjectsClean
  <2>3. /\ k \in {"alarm", "write", "done"} /\ CallAt(a, k) = call[a]
        /\ call[a] \in {"open", "hungup"}
    BY <1>2, <2>2, KindDelivered
  <2>4. call' = call
    BY <2>1, <2>3 DEF TypeOK
  <2>5. Due(a) = 2
    <3>1. Due(a) >= 2 /\ Due(a) <= 2
      BY <2>1, <2>2 DEF Counts
    <3>2. Due(a) \in Nat
      BY <1>3 DEF Due, Kind
    <3>. QED
      BY <3>1, <3>2
  <2>6. Due(a)' = 1
    <3>1. /\ events[a]["alarm"] \in Nat /\ events[a]["write"] \in Nat
          /\ events[a]["done"] \in Nat
      BY <1>3 DEF Kind
    <3>2. /\ events'[a]["alarm"] = events[a]["alarm"] - (IF k = "alarm" THEN 1 ELSE 0)
          /\ events'[a]["write"] = events[a]["write"] - (IF k = "write" THEN 1 ELSE 0)
          /\ events'[a]["done"] = events[a]["done"] - (IF k = "done" THEN 1 ELSE 0)
      BY <1>1, <3>1 DEF Taken, Kind
    <3>3. Due(a)' = Due(a) - 1
      BY <2>3, <2>4, <3>1, <3>2 DEF Due
    <3>. QED
      BY <2>5, <3>3
  <2>7. events'[a]["request"] = 0 /\ events'[a]["finish"] = 0
    BY <1>1, <2>1, <2>3 DEF Counts, Taken, Kind, IsAcceptor
  <2>8. status'[a] = "LISTEN_COMMAND" /\ newResponderCreated'[a] = TRUE
    BY <2>1, <2>2 DEF TypeOK
  <2>9. Counts(a)'
    BY <2>1, <2>3, <2>4, <2>6, <2>7, <2>8 DEF Counts, Listening, IsAcceptor
  <2>10. ASSUME NEW x \in Addr, x # a PROVE Counts(x)'
    <3>1. \A i \in Kind : events'[x][i] = events[x][i]
      BY <1>1, <2>10 DEF Taken
    <3>. QED
      BY <2>1, <2>4, <2>10, <3>1, CountsStay DEF TypeOK
  <2>. QED
    BY <2>4, <2>9, <2>10
<1>5. CASE DeleteThis(a, k)
  <2>1. /\ status[a] = "FINISH"
        /\ status' = [status EXCEPT ![a] = "FREE"]
        /\ newResponderCreated' = [newResponderCreated EXCEPT ![a] = FALSE]
        /\ result' = [result EXCEPT ![a] = <<>>]
        /\ call' = [call EXCEPT ![a] = "none"]
    BY <1>5 DEF DeleteThis
  <2>2. k = "finish" /\ ~Listening(a) /\ ~IsAcceptor(a)
    BY <1>2, <2>1, KindDelivered DEF Listening, IsAcceptor
  <2>3. Due(a) = 0 /\ events[a]["request"] = 0 /\ events[a]["finish"] = 1
    BY <2>1, <2>2 DEF Counts
  <2>4. status'[a] = "FREE" /\ call'[a] = "none"
    BY <2>1 DEF TypeOK
  <2>5. Due(a)' = 0
    <3>1. \A i \in {"alarm", "write", "done"} :
            events[a][i] \in Nat /\ events'[a][i] = events[a][i]
      BY <1>1, <1>3, <2>2 DEF Taken, Kind
    <3>. QED
      BY <2>3, <2>4, <3>1 DEF Due
  <2>6. events'[a]["request"] = 0 /\ events'[a]["finish"] = 0
    BY <1>1, <2>2, <2>3 DEF Taken, Kind
  <2>7. Counts(a)'
    BY <2>4, <2>5, <2>6 DEF Counts, Listening, IsAcceptor
  <2>8. ASSUME NEW x \in Addr, x # a PROVE Counts(x)'
    <3>1. \A i \in Kind : events'[x][i] = events[x][i]
      BY <1>1, <2>8 DEF Taken
    <3>. QED
      BY <2>1, <2>8, <3>1, CountsStay DEF TypeOK
  <2>9. \A x \in Addr : call'[x] \in {call[x], "none"}
    BY <2>1 DEF TypeOK
  <2>. QED
    BY <2>7, <2>8, <2>9
<1>. QED
  BY <1>4, <1>5

(* A batch adds SMS, and an alarm for a listener between two Writes. *)
LEMMA NotifyCounts ==
  ASSUME TypeOK, RegistryExact, \A x \in Addr : Counts(x), NotifyListeners
  PROVE  call' = call /\ \A x \in Addr : Counts(x)'
<1>1. UNCHANGED <<status, newResponderCreated, call>>
  BY DEF NotifyListeners
<1>2. CASE mgrResult = <<>>
  BY <1>1, <1>2, CountsStay DEF NotifyListeners
<1>3. CASE mgrResult # <<>>
  <2>1. \A x \in Addr :
          /\ result'[x] = IF x \in Recipients THEN result[x] \o mgrResult ELSE result[x]
          /\ events'[x] = IF x \in Recipients THEN Woken(x) ELSE events[x]
    BY <1>3 DEF NotifyListeners
  <2>2. ASSUME NEW x \in Addr, x \notin Recipients PROVE Counts(x)'
    BY <1>1, <2>1, <2>2, CountsStay
  <2>3. ASSUME NEW x \in Addr, x \in Recipients PROVE Counts(x)'
    <3>1. /\ newResponderCreated[x]
          /\ status[x] \in {"LISTEN_COMMAND", "LISTEN_COMMAND_SENT"}
      BY <2>3, RecipientsRegistered DEF RegistryExact, TypeOK
    <3>2. Listening(x) /\ Listening(x)' /\ ~IsAcceptor(x) /\ ~IsAcceptor(x)'
      BY <1>1, <3>1 DEF Listening, IsAcceptor
    <3>3. /\ Len(result[x]) \in Nat /\ Len(result'[x]) \in Nat
          /\ Len(result'[x]) >= Len(result[x]) + 1 /\ result'[x] # <<>>
          /\ result[x] = <<>> => Len(result[x]) = 0
      <4>1. result[x] \in Seq(Nat) /\ mgrResult \in Seq(Nat)
        BY DEF TypeOK
      <4>2. result'[x] = result[x] \o mgrResult
        BY <2>1, <2>3
      <4>4. Len(result[x] \o mgrResult) = Len(result[x]) + Len(mgrResult)
        BY <4>1, ConcatProperties, Zenon
      <4>3. Len(mgrResult) \in Nat \ {0} /\ Len(result[x]) \in Nat
        BY <1>3, <4>1
      <4>5. /\ Len(result'[x]) \in Nat /\ Len(result'[x]) >= Len(result[x]) + 1
            /\ Len(result'[x]) # 0
        BY <4>2, <4>3, <4>4
      <4>6. result'[x] # <<>> /\ (result[x] = <<>> => Len(result[x]) = 0)
        BY <4>5
      <4>. QED
        BY <4>3, <4>5, <4>6
    <3>4. /\ \A i \in Kind : events[x][i] \in Nat
          /\ \A i \in Kind : events'[x][i] =
               IF i = "alarm" /\ status[x] = "LISTEN_COMMAND" THEN events[x][i] + 1
               ELSE events[x][i]
      BY <2>1, <2>3, WokenEvents DEF TypeOK
    <3>5. Due(x) \in Nat
          /\ Due(x)' = IF status[x] = "LISTEN_COMMAND" THEN Due(x) + 1 ELSE Due(x)
      BY <1>1, <3>4 DEF Due, Kind
    <3>6. events'[x]["request"] = events[x]["request"]
          /\ events'[x]["finish"] = events[x]["finish"]
      BY <3>4 DEF Kind
    <3>7. status[x] = "LISTEN_COMMAND_SENT" =>
            Due(x)' >= 2 /\ Due(x)' <= Len(result'[x]) + 2
      BY <3>2, <3>3, <3>5 DEF Counts
    <3>8. status[x] = "LISTEN_COMMAND" =>
            Due(x)' >= 2 /\ Due(x)' <= Len(result'[x]) + 1
      <4>1. CASE result[x] = <<>>
        BY <3>2, <3>3, <3>5, <4>1 DEF Counts
      <4>2. CASE result[x] # <<>>
        BY <3>2, <3>3, <3>5, <4>2 DEF Counts
      <4>. QED
        BY <4>1, <4>2
    <3>. QED
      BY <1>1, <3>1, <3>2, <3>3, <3>6, <3>7, <3>8 DEF Counts
  <2>. QED
    BY <1>1, <2>2, <2>3
<1>. QED
  BY <1>2, <1>3

(* The hang-up that was to come is on its way. *)
LEMMA HangUpCounts ==
  ASSUME TypeOK, \A x \in Addr : Counts(x), NEW a \in Addr, HangUp(a)
  PROVE  \A x \in Addr : Counts(x)'
<1>1. /\ call[a] = "open" /\ call' = [call EXCEPT ![a] = "hungup"]
      /\ events' = More(events, a, "done")
      /\ UNCHANGED <<status, newResponderCreated, result>>
  BY DEF HangUp
<1>2. \A x \in Addr, i \in Kind : events'[x][i] =
        IF x = a /\ i = "done" THEN events[x][i] + 1 ELSE events[x][i]
  <2>1. events \in [Addr -> [Kind -> Nat]]
    BY DEF TypeOK
  <2>2. "done" \in Kind
    BY DEF Kind
  <2>3. \A x \in Addr, i \in Kind : More(events, a, "done")[x][i] =
          IF x = a /\ i = "done" THEN events[x][i] + 1 ELSE events[x][i]
    BY <2>1, <2>2, MoreEvents
  <2>. QED
    BY <1>1, <2>3
<1>3. Counts(a)'
  <2>1. /\ \A i \in Kind : events[a][i] \in Nat
        /\ events'[a]["done"] = events[a]["done"] + 1
        /\ \A i \in {"alarm", "write", "request", "finish"} :
             events'[a][i] = events[a][i]
        /\ call'[a] = "hungup"
    BY <1>1, <1>2 DEF TypeOK, Kind
  <2>2. Due(a)' = Due(a) /\ Due(a) > 0
    BY <1>1, <2>1 DEF Due, Kind
  <2>3. Listening(a)
    BY <2>2 DEF Counts
  <2>. QED
    BY <1>1, <2>1, <2>2, <2>3 DEF Counts, Listening, IsAcceptor
<1>4. ASSUME NEW x \in Addr, x # a PROVE Counts(x)'
  <2>1. \A i \in Kind : events'[x][i] = events[x][i]
    BY <1>2, <1>4
  <2>2. call'[x] = call[x]
    BY <1>1, <1>4 DEF TypeOK
  <2>. QED
    BY <1>1, <2>1, <2>2, CountsStay
<1>. QED
  BY <1>3, <1>4
-----------------------------------------------------------------------------
(* What a handler posts itself                                             *)

Tag == Addr \cup {QueuingMgr, RequestToSendData, LastSMSToSendData}

Completion == Tag \X Kind

(* The step raises the alarm of listener a. *)
Raised(a) == events'[a]["alarm"] > events[a]["alarm"]

(* t holds alarms alone, one at least for each listener that is woken. *)
AlarmsOf(t) ==
  /\ t \in Seq(Completion)
  /\ \A j \in 1..Len(t) :
       t[j] = Batch \/ \E a \in Addr : Raised(a) /\ t[j] = <<a, "alarm">>
  /\ \A a \in Registered : Raised(a) => \E j \in 1..Len(t) : t[j] = <<a, "alarm">>

LEMMA WokeInOrder ==
  ASSUME TypeOK, NEW order \in InOrder(Woke)
  PROVE  /\ Len(order) \in Nat
         /\ DOMAIN order = 1..Len(order)
         /\ \A j \in 1..Len(order) : order[j] \in Woke
         /\ \A i \in Woke : \E j \in 1..Len(order) : order[j] = i
<1>. DEFINE n == Cardinality(Woke)
<1>1. Woke \subseteq 1..Len(listenResponders) /\ DOMAIN listenResponders = 1..Len(listenResponders)
  BY DEF Woke, TypeOK, RegistryTypeOK
<1>2. IsFiniteSet(Woke)
  <2>1. Len(listenResponders) \in Int /\ 1 \in Int
    BY DEF TypeOK, RegistryTypeOK
  <2>2. IsFiniteSet(1..Len(listenResponders))
    BY <2>1, FS_Interval
  <2>. QED
    BY <1>1, <2>2, FS_Subset
<1>3. n \in Nat
  BY <1>2, FS_CardinalityType
<1>4. order \in [1..n -> Woke] /\ \A i, j \in 1..n : i # j => order[i] # order[j]
  BY DEF InOrder, SetToSeqs
<1>. HIDE DEF n
<1>5. order \in Injection(1..n, Woke)
  BY <1>4, Fun_IsInj
<1>6. Cardinality(1..n) = n
  BY <1>3, FS_Interval
<1>7. order \in Surjection(1..n, Woke)
  BY <1>2, <1>5, <1>6, FS_Injection DEF n
<1>8. \A i \in Woke : \E j \in 1..n : order[j] = i
  BY <1>7 DEF Surjection
<1>. DEFINE W == Woke
<1>. HIDE DEF W
<1>9. Len(order) = n /\ DOMAIN order = 1..n
  <2>1. order \in [1..n -> W]
    BY <1>4 DEF W
  <2>2. order \in Seq(W)
    BY <1>3, <2>1
  <2>. QED
    BY <1>3, <2>1, <2>2
<1>. QED
  BY <1>3, <1>4, <1>8, <1>9

LEMMA AlarmsPosted ==
  ASSUME TypeOK, NEW order \in InOrder(Woke)
  PROVE  AlarmsOf(Alarms(order))
<1>. DEFINE n == Len(order)
            w == [i \in DOMAIN order |-> <<listenResponders[order[i]], "alarm">>]
<1>1. /\ n \in Nat /\ DOMAIN order = 1..n
      /\ \A j \in 1..n : order[j] \in Woke
      /\ \A i \in Woke : \E j \in 1..n : order[j] = i
  BY WokeInOrder
<1>2. \A i \in Woke : /\ i \in DOMAIN listenResponders
                     /\ listenResponders[i] \in Addr /\ Raised(listenResponders[i])
  BY DEF Woke, Raised, TypeOK, RegistryTypeOK
<1>3. \A j \in 1..n : \E a \in Addr : Raised(a) /\ w[j] = <<a, "alarm">>
  BY <1>1, <1>2
<1>4. \A a \in Registered : Raised(a) => \E j \in 1..n : w[j] = <<a, "alarm">>
  <2>. SUFFICES ASSUME NEW a \in Registered, Raised(a)
       PROVE  \E j \in 1..n : w[j] = <<a, "alarm">>
    OBVIOUS
  <2>1. PICK i \in DOMAIN listenResponders : listenResponders[i] = a
    BY DEF Registered, ToSet
  <2>2. i \in Woke
    BY <2>1 DEF Woke, Raised
  <2>3. PICK j \in 1..n : order[j] = i
    BY <1>1, <2>2
  <2>4. w[j] = <<a, "alarm">>
    BY <1>1, <2>1, <2>3
  <2>. QED
    BY <2>4
<1>5. /\ \A a \in Addr : <<a, "alarm">> \in Completion
      /\ Batch \in Completion
  BY DEF Completion, Tag, Batch, Kind
<1>6. w \in Seq(Completion) /\ Len(w) = n
  <2>1. w \in [1..n -> Completion]
    BY <1>1, <1>3, <1>5
  <2>. HIDE DEF w
  <2>. QED
    BY <1>1, <2>1
<1>7. BatchAlarm \in Seq(Completion) /\ \A j \in 1..Len(BatchAlarm) : BatchAlarm[j] = Batch
  BY <1>5 DEF BatchAlarm
<1>. DEFINE m == Len(BatchAlarm)
<1>8. m \in Nat
  BY <1>7
<1>. HIDE DEF w, n, m
<1>9. /\ BatchAlarm \o w \in Seq(Completion)
      /\ Len(BatchAlarm \o w) = m + n
      /\ \A i \in 1..(m + n) :
           (BatchAlarm \o w)[i] = IF i <= m THEN BatchAlarm[i] ELSE w[i - m]
  BY <1>6, <1>7, ConcatProperties, Zenon DEF m
<1>10. Alarms(order) = BatchAlarm \o w
  BY DEF Alarms, w
<1>. DEFINE t == BatchAlarm \o w
<1>. HIDE DEF t
<1>11. /\ \A i \in 1..m : t[i] = Batch
       /\ \A j \in 1..n : m + j \in 1..(m + n) /\ t[m + j] = w[j]
       /\ \A i \in 1..(m + n) : i \in 1..m \/ \E j \in 1..n : i = m + j
  <2>1. \A i \in 1..m : t[i] = Batch
    BY <1>1, <1>7, <1>8, <1>9 DEF t, m, n
  <2>2. ASSUME NEW j \in 1..n PROVE m + j \in 1..(m + n) /\ t[m + j] = w[j]
    <3>1. m + j \in 1..(m + n) /\ ~(m + j <= m) /\ (m + j) - m = j
      BY <1>1, <1>8 DEF n
    <3>. QED
      BY <1>9, <3>1 DEF t
  <2>3. ASSUME NEW i \in 1..(m + n), i \notin 1..m PROVE \E j \in 1..n : i = m + j
    <3>1. i - m \in 1..n /\ i = m + (i - m)
      BY <1>1, <1>8, <2>3 DEF n
    <3>. QED
      BY <3>1
  <2>. QED
    BY <2>1, <2>2, <2>3
<1>12. \A i \in 1..Len(t) :
         t[i] = Batch \/ \E a \in Addr : Raised(a) /\ t[i] = <<a, "alarm">>
  <2>. SUFFICES ASSUME NEW i \in 1..(m + n)
       PROVE t[i] = Batch \/ \E a \in Addr : Raised(a) /\ t[i] = <<a, "alarm">>
    BY <1>9 DEF t
  <2>1. CASE i \in 1..m
    BY <1>11, <2>1
  <2>2. ASSUME NEW j \in 1..n, i = m + j
        PROVE  \E a \in Addr : Raised(a) /\ t[i] = <<a, "alarm">>
    BY <1>3, <1>11, <2>2 DEF n
  <2>. QED
    BY <1>11, <2>1, <2>2
<1>13. \A a \in Registered : Raised(a) => \E j \in 1..Len(t) : t[j] = <<a, "alarm">>
  <2>. SUFFICES ASSUME NEW a \in Registered, Raised(a)
       PROVE  \E j \in 1..Len(t) : t[j] = <<a, "alarm">>
    OBVIOUS
  <2>1. PICK j \in 1..n : w[j] = <<a, "alarm">>
    BY <1>4 DEF n
  <2>2. m + j \in 1..Len(t) /\ t[m + j] = <<a, "alarm">>
    BY <1>9, <1>11, <2>1 DEF t
  <2>. QED
    BY <2>2
<1>14. t \in Seq(Completion)
  BY <1>9 DEF t
<1>15. Alarms(order) = t
  BY <1>10 DEF t
<1>. QED
  BY <1>12, <1>13, <1>14, <1>15 DEF AlarmsOf
-----------------------------------------------------------------------------
(* The order of the queue                                                  *)

Open(a) == IF call[a] = "open" THEN 1 ELSE 0

(* The end of a Write is in the queue once at most, while it is due, and   *)
(* in the middle of a Write no alarm is behind it.                         *)
WriteOnce(a) ==
  \A i, j \in 1..Len(cq) : cq[i] = <<a, "write">> =>
    /\ events[a]["write"] = 1
    /\ cq[j] = <<a, "write">> => i = j
    /\ status[a] = "LISTEN_COMMAND_SENT" /\ cq[j] = <<a, "alarm">> => j < i

Ordered(a) ==
  /\ events[a]["alarm"] <= Cardinality(Places(cq, <<a, "alarm">>))
  /\ events[a]["write"] \in {0, 1}
  /\ status[a] = "LISTEN_COMMAND_SENT" => events[a]["write"] = 1
  /\ events[a]["done"] + Open(a) <= 1
  /\ WriteOnce(a)

(* What the handler of Head(cq) may do to listener x *)
Moves(x) ==
  /\ Raised(x) => /\ events'[x]["alarm"] = events[x]["alarm"] + 1
                  /\ Head(cq) # <<x, "alarm">>
                  /\ x \in Registered /\ status'[x] = "LISTEN_COMMAND"
  /\ Head(cq) = <<x, "alarm">> => events'[x]["alarm"] = events[x]["alarm"] - 1
  /\ events'[x]["write"] \in {0, 1}
  /\ status'[x] = "LISTEN_COMMAND_SENT" => events'[x]["write"] = 1
  /\ events[x]["write"] = 1 /\ Head(cq) # <<x, "write">> => events'[x]["write"] = 1
  /\ status'[x] = "LISTEN_COMMAND_SENT" =>
       \/ status[x] = "LISTEN_COMMAND_SENT"
       \/ events[x]["write"] = 0
       \/ Head(cq) = <<x, "write">>
  /\ events'[x]["done"] + Open(x)' <= 1

LEMMA TakeKeepsOrder ==
  ASSUME TypeOK, TypeOK', cq \in Seq(Completion), cq # <<>>, NEW t, AlarmsOf(t),
         cq' = Tail(cq) \o t, NEW x \in Addr, Ordered(x), Moves(x)
  PROVE  Ordered(x)'
<1>. DEFINE e == <<x, "alarm">>
            n == Len(cq) - 1
<1>1. t \in Seq(Completion)
  BY DEF AlarmsOf
<1>2. /\ cq' \in Seq(Completion) /\ Len(cq') = n + Len(t)
      /\ \A i \in 1..n : cq'[i] = cq[i + 1]
      /\ \A j \in 1..Len(t) : cq'[n + j] = t[j]
  BY <1>1, TakenAt
<1>3. n \in Nat /\ Len(cq) = n + 1 /\ Head(cq) = cq[1] /\ Len(t) \in Nat
  BY <1>1
<1>4. events'[x]["alarm"] <= Cardinality(Places(cq', e))
  <2>1. Cardinality(Places(cq, e)) + (IF \E j \in 1..Len(t) : t[j] = e THEN 1 ELSE 0)
          <= Cardinality(Places(cq', e)) + (IF Head(cq) = e THEN 1 ELSE 0)
    BY <1>1, PostedTail
  <2>2. Cardinality(Places(cq, e)) \in Nat /\ Cardinality(Places(cq', e)) \in Nat
    BY <1>2, PlacesFinite
  <2>3. /\ events[x]["alarm"] \in Nat /\ events'[x]["alarm"] \in Nat
        /\ events[x]["alarm"] <= Cardinality(Places(cq, e))
    <3>1. "alarm" \in Kind
      BY DEF Kind
    <3>2. events \in [Addr -> [Kind -> Nat]] /\ events' \in [Addr -> [Kind -> Nat]]
      BY DEF TypeOK
    <3>. QED
      BY <3>1, <3>2 DEF Ordered
  <2>4. Raised(x) => \E j \in 1..Len(t) : t[j] = e
    BY DEF AlarmsOf, Moves
  <2>5. /\ Raised(x) => events'[x]["alarm"] = events[x]["alarm"] + 1 /\ Head(cq) # e
        /\ Head(cq) = e => events'[x]["alarm"] = events[x]["alarm"] - 1
        /\ ~Raised(x) => events'[x]["alarm"] <= events[x]["alarm"]
    BY <2>3 DEF Moves, Raised
  <2>. DEFINE before == Cardinality(Places(cq, e))
              after  == Cardinality(Places(cq', e))
              posted == \E j \in 1..Len(t) : t[j] = e
              taken  == Head(cq) = e
  <2>. HIDE DEF before, after, posted, taken, e
  <2>6. /\ before + (IF posted THEN 1 ELSE 0) <= after + (IF taken THEN 1 ELSE 0)
        /\ before \in Nat /\ after \in Nat /\ events[x]["alarm"] <= before
    BY <2>1, <2>2, <2>3 DEF before, after, posted, taken
  <2>7. CASE Raised(x)
    <3>1. posted /\ ~taken
      BY <2>4, <2>5, <2>7 DEF posted, taken
    <3>2. before + 1 <= after
      BY <2>6, <3>1
    <3>. QED
      BY <2>3, <2>5, <2>6, <2>7, <3>2 DEF after
  <2>8. CASE ~Raised(x)
    <3>1. CASE taken
      <4>1. before <= after + 1
        BY <2>6, <3>1
      <4>2. events'[x]["alarm"] = events[x]["alarm"] - 1
        BY <2>5, <3>1 DEF taken
      <4>. QED
        BY <2>3, <2>6, <4>1, <4>2 DEF after
    <3>2. CASE ~taken
      <4>1. before <= after
        BY <2>6, <3>2
      <4>. QED
        BY <2>3, <2>5, <2>6, <2>8, <4>1 DEF after
    <3>. QED
      BY <3>1, <3>2
  <2>. QED
    BY <2>7, <2>8
<1>5. \A i \in 1..Len(cq') : i \in 1..n \/ \E j \in 1..Len(t) : i = n + j
  <2>. SUFFICES ASSUME NEW i \in 1..Len(cq'), i \notin 1..n
       PROVE  \E j \in 1..Len(t) : i = n + j
    OBVIOUS
  <2>1. i - n \in 1..Len(t) /\ i = n + (i - n)
    BY <1>2, <1>3
  <2>. QED
    BY <2>1
<1>6. ASSUME NEW j \in 1..Len(t)
      PROVE  /\ t[j] # <<x, "write">>
             /\ t[j] = <<x, "alarm">> => Raised(x)
  <2>1. t[j] = Batch \/ \E a \in Addr : Raised(a) /\ t[j] = <<a, "alarm">>
    BY <1>6 DEF AlarmsOf
  <2>2. Batch # <<x, "alarm">> /\ Batch # <<x, "write">>
    BY SmsServiceFifoAssumption DEF Batch
  <2>3. ASSUME NEW a \in Addr, Raised(a), t[j] = <<a, "alarm">>
        PROVE  /\ t[j] # <<x, "write">>
               /\ t[j] = <<x, "alarm">> => Raised(x)
    <3>1. t[j] = <<x, "alarm">> => a = x
      BY <2>3
    <3>. QED
      BY <2>3, <3>1
  <2>. QED
    BY <2>1, <2>2, <2>3
<1>7. ASSUME NEW i \in 1..Len(cq'), NEW j \in 1..Len(cq'), cq'[i] = <<x, "write">>
      PROVE  /\ events'[x]["write"] = 1
             /\ cq'[j] = <<x, "write">> => i = j
             /\ status'[x] = "LISTEN_COMMAND_SENT" /\ cq'[j] = <<x, "alarm">> => j < i
  <2>1. i \in 1..n
    <3>1. ASSUME NEW m \in 1..Len(t), i = n + m PROVE FALSE
      <4>1. cq'[i] = t[m]
        BY <1>2, <3>1
      <4>. QED
        BY <1>6, <1>7, <4>1
    <3>. QED
      BY <1>5, <3>1
  <2>2. i + 1 \in 1..Len(cq) /\ cq[i + 1] = <<x, "write">> /\ i + 1 # 1
    BY <1>2, <1>3, <1>7, <2>1
  <2>3. 1 \in 1..Len(cq)
    BY <1>3
  <2>4. events[x]["write"] = 1 /\ Head(cq) # <<x, "write">>
    BY <1>3, <2>2, <2>3 DEF Ordered, WriteOnce
  <2>5. events'[x]["write"] = 1
    BY <2>4 DEF Moves
  <2>6. status'[x] = "LISTEN_COMMAND_SENT" => status[x] = "LISTEN_COMMAND_SENT"
    BY <2>4 DEF Moves
  <2>7. CASE j \in 1..n
    <3>1. j + 1 \in 1..Len(cq) /\ cq'[j] = cq[j + 1]
      BY <1>2, <1>3, <2>7
    <3>2. /\ cq[j + 1] = <<x, "write">> => i + 1 = j + 1
          /\ status[x] = "LISTEN_COMMAND_SENT" /\ cq[j + 1] = <<x, "alarm">>
               => j + 1 < i + 1
      BY <2>2, <3>1 DEF Ordered, WriteOnce
    <3>. QED
      BY <1>3, <2>1, <2>5, <2>6, <2>7, <3>1, <3>2
  <2>8. ASSUME NEW m \in 1..Len(t), j = n + m
        PROVE  /\ cq'[j] # <<x, "write">>
               /\ cq'[j] = <<x, "alarm">> => status'[x] = "LISTEN_COMMAND"
    BY <1>2, <1>6, <2>8 DEF Moves
  <2>. QED
    BY <1>5, <2>5, <2>7, <2>8
<1>8. WriteOnce(x)'
  BY <1>7 DEF WriteOnce
<1>. QED
  BY <1>4, <1>8 DEF Ordered, Moves

(* Calls and ended operations that are posted behind the others *)
LEMMA PostKeepsOrder ==
  ASSUME TypeOK, cq \in Seq(Completion), NEW e \in Completion, cq' = Append(cq, e),
         UNCHANGED vars, NEW x \in Addr, Ordered(x), e # <<x, "alarm">>,
         e = <<x, "write">> =>
           events[x]["write"] = 1 /\ \A i \in 1..Len(cq) : cq[i] # e
  PROVE  Ordered(x)'
<1>1. /\ Len(cq) \in Nat /\ Len(cq') = Len(cq) + 1
      /\ \A i \in 1..Len(cq) : cq'[i] = cq[i]
      /\ cq'[Len(cq) + 1] = e
  OBVIOUS
<1>2. UNCHANGED <<events, status, call>>
  BY DEF vars, objectVars
<1>3. events[x]["alarm"] <= Cardinality(Places(cq', <<x, "alarm">>))
  <2>1. Cardinality(Places(cq, <<x, "alarm">>))
          <= Cardinality(Places(cq', <<x, "alarm">>))
    BY PostedAppend
  <2>4. cq' \in Seq(Completion)
    OBVIOUS
  <2>3. events[x]["alarm"] \in Nat
    BY DEF TypeOK, Kind
  <2>2. /\ Cardinality(Places(cq, <<x, "alarm">>)) \in Nat
        /\ Cardinality(Places(cq', <<x, "alarm">>)) \in Nat
    BY <2>4, PlacesFinite
  <2>. QED
    BY <2>1, <2>2, <2>3 DEF Ordered
<1>4. WriteOnce(x)'
  <2>. SUFFICES ASSUME NEW i \in 1..Len(cq'), NEW j \in 1..Len(cq'),
                       cq'[i] = <<x, "write">>
       PROVE  /\ events[x]["write"] = 1
              /\ cq'[j] = <<x, "write">> => i = j
              /\ status[x] = "LISTEN_COMMAND_SENT" /\ cq'[j] = <<x, "alarm">> => j < i
    BY <1>2 DEF WriteOnce
  <2>1. /\ i \in 1..Len(cq) \/ i = Len(cq) + 1
        /\ j \in 1..Len(cq) \/ j = Len(cq) + 1
    BY <1>1
  <2>2. CASE i \in 1..Len(cq)
    <3>1. cq[i] = <<x, "write">>
      BY <1>1, <2>2
    <3>2. CASE j \in 1..Len(cq)
      BY <1>1, <2>2, <3>1, <3>2 DEF Ordered, WriteOnce
    <3>3. CASE j = Len(cq) + 1
      BY <1>1, <2>2, <3>1, <3>3 DEF Ordered, WriteOnce
    <3>. QED
      BY <2>1, <3>2, <3>3
  <2>3. CASE i = Len(cq) + 1
    <3>1. e = <<x, "write">>
      BY <1>1, <2>3
    <3>2. CASE j \in 1..Len(cq)
      BY <1>1, <2>3, <3>1, <3>2
    <3>3. CASE j = Len(cq) + 1
      BY <1>1, <2>3, <3>1, <3>3
    <3>. QED
      BY <2>1, <3>2, <3>3
  <2>. QED
    BY <2>1, <2>2, <2>3
<1>. QED
  BY <1>2, <1>3, <1>4 DEF Ordered, Open
-----------------------------------------------------------------------------
(* What the handlers do to the order                                       *)

LEMMA EventsNat ==
  ASSUME TypeOK, NEW x \in Addr
  PROVE  /\ events[x]["alarm"] \in Nat /\ events[x]["write"] \in Nat
         /\ events[x]["done"] \in Nat /\ Open(x) \in {0, 1}
BY DEF TypeOK, Kind, Open

LEMMA NotifyMoves ==
  ASSUME TypeOK, RegistryExact, Head(cq) = Batch, NotifyListeners,
         NEW x \in Addr, Ordered(x)
  PROVE  Moves(x)
<1>1. UNCHANGED <<status, call>>
  BY DEF NotifyListeners
<1>2. \A i \in Kind : events'[x][i] = events[x][i]
        \/ (x \in Recipients /\ i = "alarm" /\ status[x] = "LISTEN_COMMAND"
             /\ events'[x][i] = events[x][i] + 1)
  <2>1. CASE mgrResult = <<>>
    BY <2>1 DEF NotifyListeners
  <2>2. CASE mgrResult # <<>>
    <3>1. events'[x] = IF x \in Recipients THEN Woken(x) ELSE events[x]
      BY <2>2 DEF NotifyListeners
    <3>. QED
      BY <3>1, WokenEvents
  <2>. QED
    BY <2>1, <2>2
<1>3. /\ events'[x]["write"] = events[x]["write"]
      /\ events'[x]["done"] = events[x]["done"]
      /\ events'[x]["alarm"] # events[x]["alarm"] =>
           /\ x \in Recipients /\ status[x] = "LISTEN_COMMAND"
           /\ events'[x]["alarm"] = events[x]["alarm"] + 1
  BY <1>2 DEF Kind
<1>4. x \in Recipients => x \in Registered
  BY RecipientsRegistered DEF TypeOK
<1>5. Head(cq) # <<x, "alarm">> /\ Head(cq) # <<x, "write">>
  BY SmsServiceFifoAssumption DEF Batch
<1>6. Raised(x) => events'[x]["alarm"] # events[x]["alarm"]
  BY EventsNat DEF Raised
<1>7. Open(x)' = Open(x)
  BY <1>1 DEF Open
<1>. QED
  BY <1>1, <1>3, <1>4, <1>5, <1>6, <1>7 DEF Moves, Ordered

(* The completion taken is of listener a: what it does to any listener x *)
LEMMA TakenMoves ==
  ASSUME TypeOK, NEW a \in Addr, NEW k \in Kind, Head(cq) = <<a, k>>,
         NEW x \in Addr, Ordered(x), events[a][k] > 0,
         events'[x]["alarm"] = Taken(a, k, x, "alarm"),
         \/ /\ events'[x]["write"] = Taken(a, k, x, "write")
            /\ status'[x] = "LISTEN_COMMAND_SENT" =>
                 x # a /\ status[x] = "LISTEN_COMMAND_SENT"
         \/ x = a /\ events'[x]["write"] = 1 /\ Taken(a, k, a, "write") = 0,
         events'[x]["done"] + Open(x)' <= 1
  PROVE  Moves(x)
<1>1. /\ events[x]["alarm"] \in Nat /\ events[x]["write"] \in {0, 1}
      /\ status[x] = "LISTEN_COMMAND_SENT" => events[x]["write"] = 1
  BY EventsNat DEF Ordered
<1>2. /\ Head(cq) = <<x, "alarm">> <=> x = a /\ k = "alarm"
      /\ Head(cq) = <<x, "write">> <=> x = a /\ k = "write"
  OBVIOUS
<1>3. /\ ~Raised(x)
      /\ Head(cq) = <<x, "alarm">> => events'[x]["alarm"] = events[x]["alarm"] - 1
  BY <1>1, <1>2 DEF Raised, Taken
<1>4. CASE /\ events'[x]["write"] = Taken(a, k, x, "write")
           /\ status'[x] = "LISTEN_COMMAND_SENT" =>
                x # a /\ status[x] = "LISTEN_COMMAND_SENT"
  <2>1. events'[x]["write"] \in {0, 1}
    BY <1>1, <1>4 DEF Taken
  <2>2. x # a \/ k # "write" => events'[x]["write"] = events[x]["write"]
    BY <1>4 DEF Taken
  <2>. QED
    BY <1>1, <1>2, <1>3, <1>4, <2>1, <2>2 DEF Moves
<1>5. CASE x = a /\ events'[x]["write"] = 1 /\ Taken(a, k, a, "write") = 0
  <2>1. events[x]["write"] = 0 \/ k = "write"
    BY <1>5 DEF Taken
  <2>. QED
    BY <1>2, <1>3, <1>5, <2>1 DEF Moves
<1>. QED
  BY <1>4, <1>5

LEMMA AcceptMoves ==
  ASSUME TypeOK, ObjectsClean, \A x \in Addr : Counts(x), \A x \in Addr : Ordered(x),
         NEW a \in Addr, NEW k \in Kind, Head(cq) = <<a, k>>, AcceptListener(a, k),
         NEW x \in Addr
  PROVE  Moves(x)
<1>1. PICK b \in Addr :
        /\ status[b] = "FREE" /\ status' = [status EXCEPT ![b] = "LISTEN_COMMAND"]
        /\ \A y \in Addr, i \in Kind : events'[y][i] =
             IF y = b /\ i = "request" THEN Taken(a, k, y, i) + 1
             ELSE Taken(a, k, y, i)
  BY AcceptEvents
<1>2. /\ Delivered(a, k) /\ IsAcceptor(a)
      /\ call' = [call EXCEPT ![a] = CallAt(a, k)]
  BY DEF AcceptListener
<1>3. k = "request" /\ CallAt(a, k) = "open" /\ status[a] = "LISTEN_COMMAND"
  BY <1>2, KindDelivered DEF CallAt, IsAcceptor
<1>4. /\ events'[x]["alarm"] = Taken(a, k, x, "alarm")
      /\ events'[x]["write"] = Taken(a, k, x, "write")
      /\ events'[x]["done"] = events[x]["done"]
  BY <1>1, <1>3 DEF Taken, Kind
<1>5. status'[x] = "LISTEN_COMMAND_SENT" => x # a /\ status[x] = "LISTEN_COMMAND_SENT"
  BY <1>1, <1>3 DEF TypeOK
<1>6. events'[x]["done"] + Open(x)' <= 1
  <2>1. CASE x = a
    <3>1. Due(a) = 0
      BY <1>2 DEF Counts, Listening, IsAcceptor
    <3>2. Due(a) = events[a]["alarm"] + events[a]["write"] + events[a]["done"] + Open(a)
      BY DEF Due, Open
    <3>3. events[a]["done"] = 0
      BY <3>1, <3>2, EventsNat
    <3>4. Open(a)' \in {0, 1}
      BY DEF Open
    <3>. QED
      BY <1>4, <2>1, <3>3, <3>4
  <2>2. CASE x # a
    <3>1. Open(x)' = Open(x)
      BY <1>2, <2>2 DEF Open, TypeOK
    <3>. QED
      BY <1>4, <3>1 DEF Ordered
  <2>. QED
    BY <2>1, <2>2
<1>7. events[a][k] > 0
  BY <1>2 DEF Delivered
<1>. QED
  BY <1>4, <1>5, <1>6, <1>7, TakenMoves

(* The other paths start no stream. *)
LEMMA OtherMoves ==
  ASSUME TypeOK, TypeOK', \A x \in Addr : Ordered(x),
         NEW a \in Addr, NEW k \in Kind, Head(cq) = <<a, k>>,
         \/ FinishStream(a, k) /\ CallAt(a, k) # "open"
         \/ WriteNext(a, k)
         \/ StopWriting(a, k) \/ DeleteThis(a, k),
         \A x \in Addr : call'[x] \in {call[x], "none"},
         NEW x \in Addr
  PROVE  Moves(x)
<1>1. Delivered(a, k) /\ events[a][k] > 0
  BY DEF FinishStream, WriteNext, StopWriting, DeleteThis, Delivered
<1>2. /\ "alarm" \in Kind /\ "write" \in Kind /\ "done" \in Kind
  BY DEF Kind
<1>3. Open(x)' <= Open(x) /\ Open(x) \in {0, 1} /\ Open(x)' \in {0, 1}
  <2>1. call'[x] \in {call[x], "none"}
    OBVIOUS
  <2>. QED
    BY <2>1 DEF Open
<1>7. ASSUME events'[x]["done"] = Taken(a, k, x, "done")
      PROVE  events'[x]["done"] + Open(x)' <= 1
  <2>1. events[x]["done"] \in Nat
    BY EventsNat
  <2>2. events'[x]["done"] \in Int /\ events'[x]["done"] <= events[x]["done"]
    BY <1>7, <2>1 DEF Taken
  <2>3. events[x]["done"] + Open(x) <= 1
    BY DEF Ordered
  <2>. QED
    BY <1>3, <2>1, <2>2, <2>3
<1>4. CASE FinishStream(a, k) /\ CallAt(a, k) # "open"
  <2>1. /\ events'[x]["alarm"] = Taken(a, k, x, "alarm")
        /\ events'[x]["write"] = Taken(a, k, x, "write")
        /\ events'[x]["done"] = Taken(a, k, x, "done")
    BY <1>2, <1>4, FinishEvents
  <2>2. status'[x] = "LISTEN_COMMAND_SENT" => x # a /\ status[x] = "LISTEN_COMMAND_SENT"
    BY <1>4 DEF FinishStream, TypeOK
  <2>3. events'[x]["done"] + Open(x)' <= 1
    BY <1>7, <2>1
  <2>. QED
    BY <1>1, <2>1, <2>2, <2>3, TakenMoves
<1>5. CASE WriteNext(a, k)
  <2>1. /\ events'[x]["alarm"] = Taken(a, k, x, "alarm")
        /\ events'[x]["write"] = IF x = a THEN 1 ELSE Taken(a, k, x, "write")
        /\ events'[x]["done"] = Taken(a, k, x, "done")
        /\ Taken(a, k, a, "write") = 0
    BY <1>2, <1>5, WriteEvents
  <2>2. x # a => (status'[x] = "LISTEN_COMMAND_SENT" => status[x] = "LISTEN_COMMAND_SENT")
    BY <1>5 DEF WriteNext, TypeOK
  <2>3. events'[x]["done"] + Open(x)' <= 1
    BY <1>7, <2>1
  <2>. QED
    BY <1>1, <2>1, <2>2, <2>3, TakenMoves
<1>6. CASE StopWriting(a, k) \/ DeleteThis(a, k)
  <2>1. /\ events'[x]["alarm"] = Taken(a, k, x, "alarm")
        /\ events'[x]["write"] = Taken(a, k, x, "write")
        /\ events'[x]["done"] = Taken(a, k, x, "done")
    BY <1>2, <1>6, IdleEvents
  <2>2. status'[x] = "LISTEN_COMMAND_SENT" => x # a /\ status[x] = "LISTEN_COMMAND_SENT"
    BY <1>6 DEF StopWriting, DeleteThis, TypeOK
  <2>3. events'[x]["done"] + Open(x)' <= 1
    BY <1>7, <2>1
  <2>. QED
    BY <1>1, <2>1, <2>2, <2>3, TakenMoves
<1>. QED
  BY <1>4, <1>5, <1>6

(* Programs that send SMS, and the faults, leave the listeners alone. *)
LEMMA StillMoves ==
  ASSUME TypeOK, UNCHANGED <<status, call, events>>, NEW x \in Addr, Ordered(x),
         Head(cq) # <<x, "alarm">>, Head(cq) # <<x, "write">>
  PROVE  Moves(x)
<1>1. ~Raised(x)
  BY EventsNat DEF Raised
<1>2. Open(x)' = Open(x)
  BY DEF Open
<1>. QED
  BY <1>1, <1>2 DEF Moves, Ordered

(***************************************************************************)
(* In the middle of a Write whose end is the completion that was taken, no *)
(* alarm is to come: each was posted before the Write was begun.           *)
(***************************************************************************)
LEMMA WriteEndsClean ==
  ASSUME TypeOK, NEW a \in Addr, NEW k \in Kind, Ordered(a),
         cq \in Seq(Completion), cq # <<>>, Head(cq) = <<a, k>>,
         WriteNext(a, k), status[a] = "LISTEN_COMMAND_SENT"
  PROVE  Due(a) <= Len(result[a]) + 1
<1>1. events[a]["write"] = 1
  BY DEF Ordered
<1>2. k = "write"
  <2>1. Taken(a, k, a, "write") = 0
    BY WriteEvents
  <2>. QED
    BY <1>1, <2>1 DEF Taken
<1>3. Len(cq) \in Nat \ {0} /\ cq[1] = <<a, "write">>
  BY <1>2
<1>4. \A j \in 1..Len(cq) : cq[j] # <<a, "alarm">>
  <2>. SUFFICES ASSUME NEW j \in 1..Len(cq), cq[j] = <<a, "alarm">> PROVE FALSE
    OBVIOUS
  <2>1. 1 \in 1..Len(cq)
    BY <1>3
  <2>2. j < 1
    BY <1>3, <2>1 DEF Ordered, WriteOnce
  <2>. QED
    BY <2>2
<1>5. Places(cq, <<a, "alarm">>) = {}
  BY <1>4 DEF Places
<1>6. events[a]["alarm"] = 0
  <2>1. Cardinality(Places(cq, <<a, "alarm">>)) = 0
    BY <1>5, FS_EmptySet
  <2>. QED
    BY <2>1, EventsNat DEF Ordered
<1>7. Due(a) <= 2
  <2>1. Due(a) = events[a]["alarm"] + events[a]["write"] + events[a]["done"] + Open(a)
    BY DEF Due, Open
  <2>. QED
    BY <1>1, <1>6, <2>1, EventsNat DEF Ordered
<1>8. Len(result[a]) >= 1 /\ Len(result[a]) \in Nat
  <2>1. result[a] # <<>> /\ result[a] \in Seq(Nat)
    BY DEF WriteNext, TypeOK
  <2>. QED
    BY <2>1
<1>9. Due(a) \in Nat
  BY EventsNat DEF Due, Open
<1>. QED
  BY <1>7, <1>8, <1>9
-----------------------------------------------------------------------------
(* The invariant of the event loop with its queue                          *)

CompletionInv ==
  /\ cq \in Seq(Completion)
  /\ \A a \in Addr : Counts(a) /\ call[a] # "ended"
  /\ NoStrayCompletion
  /\ fault = "none" => \A a \in Addr : Ordered(a)

(* A handler counts completions down right and keeps their order. *)
Handled ==
  /\ \A x \in Addr : Counts(x)' /\ call'[x] # "ended"
  /\ NoStrayCompletion'
  /\ fault' = "none" => \A x \in Addr : Moves(x)

LEMMA ProceedHandles ==
  ASSUME ListenerInv, TypeOK', CompletionInv, cq # <<>>,
         NEW a \in Addr, NEW k \in Kind, Head(cq) = <<a, k>>, Proceed(a, k)
  PROVE  Handled
<1>1. TypeOK /\ ObjectsClean /\ RegistryExact
  BY DEF ListenerInv
<1>2. /\ cq \in Seq(Completion) /\ \A x \in Addr : Counts(x)
      /\ \A x \in Addr : call[x] # "ended"
      /\ Delivered(a, k)
  BY DEF CompletionInv, Proceed, AcceptListener, FinishStream, WriteNext, StopWriting,
         DeleteThis, FaultFreed, FaultNoCall, FaultOverlap
<1>3. fault = "none" /\ \A x \in Addr : Ordered(x)
  BY <1>2 DEF Delivered, CompletionInv
<1>4. CASE AcceptListener(a, k)
  <2>1. fault' = fault /\ call' = [call EXCEPT ![a] = CallAt(a, k)]
    BY <1>4 DEF AcceptListener
  <2>2. \A x \in Addr : Counts(x)'
    BY <1>1, <1>2, <1>4, AcceptCounts
  <2>3. \A x \in Addr : call'[x] # "ended"
    BY <1>1, <1>2, <2>1 DEF CallAt, TypeOK
  <2>4. \A x \in Addr : Moves(x)
    BY <1>1, <1>2, <1>3, <1>4, AcceptMoves
  <2>. QED
    BY <1>3, <2>1, <2>2, <2>3, <2>4 DEF Handled, NoStrayCompletion
<1>5. CASE FinishStream(a, k)
  <2>1. fault' = fault
    BY <1>5 DEF FinishStream
  <2>2. /\ CallAt(a, k) = "hungup" /\ call' = call
        /\ \A x \in Addr : Counts(x)'
    BY <1>1, <1>2, <1>5, FinishCounts
  <2>3. CallAt(a, k) # "open" /\ \A x \in Addr : call'[x] \in {call[x], "none"}
    BY <2>2
  <2>4. \A x \in Addr : Moves(x)
    BY <1>1, <1>3, <1>5, <2>3, OtherMoves
  <2>. QED
    BY <1>2, <1>3, <2>1, <2>2, <2>4 DEF Handled, NoStrayCompletion
<1>6. CASE WriteNext(a, k)
  <2>1. fault' = fault
    BY <1>6 DEF WriteNext
  <2>2. status[a] = "LISTEN_COMMAND_SENT" => Due(a) <= Len(result[a]) + 1
    BY <1>1, <1>2, <1>3, <1>6, WriteEndsClean
  <2>3. call' = call /\ \A x \in Addr : Counts(x)'
    BY <1>1, <1>2, <1>6, <2>2, WriteCounts
  <2>4. \A x \in Addr : call'[x] \in {call[x], "none"}
    BY <2>3
  <2>5. \A x \in Addr : Moves(x)
    BY <1>1, <1>3, <1>6, <2>4, OtherMoves
  <2>. QED
    BY <1>2, <1>3, <2>1, <2>3, <2>5 DEF Handled, NoStrayCompletion
<1>7. CASE StopWriting(a, k) \/ DeleteThis(a, k)
  <2>1. fault' = fault
    BY <1>7 DEF StopWriting, DeleteThis
  <2>2. /\ \A x \in Addr : Counts(x)'
        /\ \A x \in Addr : call'[x] \in {call[x], "none"}
    BY <1>1, <1>2, <1>7, IdleCounts
  <2>3. \A x \in Addr : Moves(x)
    BY <1>1, <1>3, <1>7, <2>2, OtherMoves
  <2>4. \A x \in Addr : call'[x] # "ended"
    BY <1>2, <2>2
  <2>. QED
    BY <1>3, <2>1, <2>2, <2>3, <2>4 DEF Handled, NoStrayCompletion
<1>8. /\ status[a] # "FREE"
      /\ Listening(a) => CallAt(a, k) # "none"
  BY <1>1, <1>2, KindDelivered
<1>9. ~FaultFreed(a, k) /\ ~FaultNoCall(a, k)
  BY <1>8 DEF FaultFreed, FaultNoCall, Listening
<1>10. CASE FaultOverlap(a, k)
  <2>1. /\ UNCHANGED <<status, newResponderCreated, result, call, events>>
        /\ fault' \in {"overlapping write", "write after hang-up"}
    BY <1>10 DEF FaultOverlap, Stops, objectVars
  <2>2. \A x \in Addr : Counts(x)'
    BY <1>2, <2>1, CountsStay
  <2>. QED
    BY <1>2, <2>1, <2>2 DEF Handled, NoStrayCompletion
<1>. QED
  BY <1>4, <1>5, <1>6, <1>7, <1>9, <1>10 DEF Proceed

(* A batch, and the calls of programs that send or fetch SMS *)
LEMMA OthersHandle ==
  ASSUME ListenerInv, CompletionInv,
         \/ Head(cq) = Batch /\ NotifyListeners
         \/ Head(cq) = SendCall /\ RequestToSend
         \/ Head(cq) = LastCall /\ (LastSMSToSend \/ LastSMSNone)
  PROVE  Handled
<1>1. TypeOK /\ RegistryExact
  BY DEF ListenerInv
<1>2. fault = "none" /\ fault' = fault
  BY DEF NotifyListeners, RequestToSend, LastSMSToSend, LastSMSNone, vars
<1>3. /\ \A x \in Addr : Counts(x) /\ call[x] # "ended"
      /\ \A x \in Addr : Ordered(x)
  BY <1>2 DEF CompletionInv
<1>4. CASE Head(cq) = Batch /\ NotifyListeners
  <2>1. call' = call /\ \A x \in Addr : Counts(x)'
    BY <1>1, <1>3, <1>4, NotifyCounts
  <2>2. \A x \in Addr : Moves(x)
    BY <1>1, <1>3, <1>4, NotifyMoves
  <2>. QED
    BY <1>2, <1>3, <2>1, <2>2 DEF Handled, NoStrayCompletion
<1>5. ASSUME \/ Head(cq) = SendCall /\ RequestToSend
             \/ Head(cq) = LastCall /\ (LastSMSToSend \/ LastSMSNone)
      PROVE  Handled
  <2>1. UNCHANGED <<status, newResponderCreated, result, call, events>>
    BY <1>5 DEF RequestToSend, LastSMSToSend, LastSMSNone, vars, objectVars
  <2>2. \A x \in Addr : Counts(x)'
    BY <1>3, <2>1, CountsStay
  <2>3. \A x \in Addr : Head(cq) # <<x, "alarm">> /\ Head(cq) # <<x, "write">>
    BY <1>5, SmsServiceFifoAssumption DEF SendCall, LastCall
  <2>4. \A x \in Addr : Moves(x)
    BY <1>1, <1>3, <2>1, <2>3, StillMoves
  <2>. QED
    BY <1>2, <1>3, <2>1, <2>2, <2>4 DEF Handled, NoStrayCompletion
<1>. QED
  BY <1>4, <1>5

LEMMA TakeKeepsInv ==
  ASSUME ListenerInv, TypeOK', CompletionInv, Take
  PROVE  CompletionInv'
<1>1. cq \in Seq(Completion) /\ cq # <<>> /\ TypeOK
  BY DEF CompletionInv, Take, ListenerInv
<1>2. PICK order \in InOrder(Woke) : cq' = Tail(cq) \o Alarms(order)
  BY DEF Take
<1>. DEFINE t == Alarms(order)
<1>3. AlarmsOf(t)
  BY <1>1, AlarmsPosted
<1>. HIDE DEF t
<1>4. cq' = Tail(cq) \o t /\ t \in Seq(Completion)
  BY <1>2, <1>3 DEF t, AlarmsOf
<1>5. cq' \in Seq(Completion)
  BY <1>1, <1>4, TakenAt
<1>6. Handled
  <2>1. \/ Head(cq) = Batch /\ NotifyListeners
        \/ Head(cq) = SendCall /\ RequestToSend
        \/ Head(cq) = LastCall /\ (LastSMSToSend \/ LastSMSNone)
        \/ \E a \in Addr, k \in Kind : Head(cq) = <<a, k>> /\ Proceed(a, k)
    BY DEF Take
  <2>. QED
    BY <1>1, <2>1, ProceedHandles, OthersHandle
<1>7. ASSUME fault' = "none", NEW x \in Addr PROVE Ordered(x)'
  <2>1. fault = "none"
    <3>1. ASSUME NEW a \in Addr, NEW k \in Kind, Proceed(a, k) PROVE Delivered(a, k)
      BY <3>1 DEF Proceed, AcceptListener, FinishStream, WriteNext, StopWriting,
              DeleteThis, FaultFreed, FaultNoCall, FaultOverlap
    <3>2. NotifyListeners \/ RequestToSend \/ LastSMSToSend \/ LastSMSNone
            => fault = "none"
      BY DEF NotifyListeners, RequestToSend, LastSMSToSend, LastSMSNone
    <3>. QED
      BY <3>1, <3>2 DEF Take, Delivered
  <2>2. Ordered(x) /\ Moves(x)
    BY <1>6, <1>7, <2>1 DEF CompletionInv, Handled
  <2>. QED
    BY <1>1, <1>3, <1>4, <2>2, TakeKeepsOrder
<1>. QED
  BY <1>5, <1>6, <1>7 DEF CompletionInv, Handled

LEMMA CompleteKeepsInv ==
  ASSUME TypeOK, CompletionInv, NEW a \in Addr, NEW k \in Kind, Complete(a, k)
  PROVE  CompletionInv'
<1>1. /\ cq \in Seq(Completion) /\ cq' = Append(cq, <<a, k>>) /\ k # "alarm"
      /\ UNCHANGED vars
  BY DEF CompletionInv, Complete
<1>2. <<a, k>> \in Completion
  BY DEF Completion, Tag
<1>3. cq' \in Seq(Completion)
  BY <1>1, <1>2
<1>4. \A x \in Addr : Counts(x)' /\ call'[x] # "ended"
  BY <1>1, CountsStay DEF CompletionInv, vars, objectVars
<1>5. ASSUME fault = "none", NEW x \in Addr PROVE Ordered(x)'
  <2>1. Ordered(x)
    BY <1>5 DEF CompletionInv
  <2>2. <<a, k>> # <<x, "alarm">>
    BY <1>1
  <2>3. ASSUME <<a, k>> = <<x, "write">>
        PROVE  events[x]["write"] = 1 /\ \A i \in 1..Len(cq) : cq[i] # <<a, k>>
    <3>1. a = x /\ k = "write"
      BY <2>3
    <3>2. Cardinality(Places(cq, <<a, k>>)) < events[x]["write"]
      BY <3>1 DEF Complete, Posted, Places
    <3>3. events[x]["write"] = 1 /\ Cardinality(Places(cq, <<a, k>>)) = 0
      BY <1>1, <2>1, <3>2, PlacesFinite DEF Ordered
    <3>4. Places(cq, <<a, k>>) = {}
      BY <1>1, <3>3, PlacesFinite, FS_EmptySet
    <3>. QED
      BY <1>1, <3>3, <3>4 DEF Places
  <2>. DEFINE e == <<a, k>>
  <2>4. e \in Completion /\ cq' = Append(cq, e) /\ e # <<x, "alarm">>
    BY <1>1, <1>2, <2>2
  <2>5. e = <<x, "write">> =>
          events[x]["write"] = 1 /\ \A i \in 1..Len(cq) : cq[i] # e
    BY <2>3
  <2>. HIDE DEF e
  <2>. QED
    BY <1>1, <2>1, <2>4, <2>5, PostKeepsOrder
<1>. QED
  BY <1>1, <1>3, <1>4, <1>5 DEF CompletionInv, NoStrayCompletion, vars

LEMMA CallKeepsInv ==
  ASSUME TypeOK, CompletionInv, CallSend \/ CallLast
  PROVE  CompletionInv'
<1>1. PICK e \in {SendCall, LastCall} : cq' = Append(cq, e) /\ UNCHANGED vars
  BY DEF CallSend, CallLast
<1>2. e \in Completion /\ \A x \in Addr : e # <<x, "alarm">> /\ e # <<x, "write">>
  BY SmsServiceFifoAssumption DEF Completion, Tag, Kind, SendCall, LastCall
<1>3. cq \in Seq(Completion) /\ cq' \in Seq(Completion)
  BY <1>1, <1>2 DEF CompletionInv
<1>4. \A x \in Addr : Counts(x)' /\ call'[x] # "ended"
  BY <1>1, CountsStay DEF CompletionInv, vars, objectVars
<1>5. ASSUME fault = "none", NEW x \in Addr PROVE Ordered(x)'
  BY <1>1, <1>2, <1>3, <1>5, PostKeepsOrder DEF CompletionInv
<1>. QED
  BY <1>1, <1>3, <1>4, <1>5 DEF CompletionInv, NoStrayCompletion, vars

LEMMA HangUpKeepsInv ==
  ASSUME TypeOK, CompletionInv, NEW a \in Addr, PhoneHangsUp(a)
  PROVE  CompletionInv'
<1>1. /\ HangUp(a) /\ cq' = cq /\ fault = "none" /\ fault' = fault
      /\ call[a] = "open" /\ call' = [call EXCEPT ![a] = "hungup"]
      /\ events' = More(events, a, "done") /\ status' = status
  BY DEF PhoneHangsUp, HangUp
<1>2. \A x \in Addr : Counts(x)'
  BY <1>1, HangUpCounts DEF CompletionInv
<1>3. \A x \in Addr : call'[x] # "ended"
  BY <1>1 DEF CompletionInv, TypeOK
<1>4. \A x \in Addr, i \in Kind : events'[x][i] =
        IF x = a /\ i = "done" THEN events[x][i] + 1 ELSE events[x][i]
  <2>1. events \in [Addr -> [Kind -> Nat]]
    BY DEF TypeOK
  <2>2. "done" \in Kind
    BY DEF Kind
  <2>3. \A x \in Addr, i \in Kind : More(events, a, "done")[x][i] =
          IF x = a /\ i = "done" THEN events[x][i] + 1 ELSE events[x][i]
    BY <2>1, <2>2, MoreEvents
  <2>. QED
    BY <1>1, <2>3
<1>5. ASSUME NEW x \in Addr PROVE Ordered(x)'
  <2>1. Ordered(x)
    BY <1>1 DEF CompletionInv
  <2>2. /\ events'[x]["alarm"] = events[x]["alarm"]
        /\ events'[x]["write"] = events[x]["write"]
        /\ events'[x]["done"] = events[x]["done"] + (IF x = a THEN 1 ELSE 0)
    BY <1>4, EventsNat DEF Kind
  <2>3. Open(x)' = Open(x) - (IF x = a THEN 1 ELSE 0) /\ Open(x) \in {0, 1}
    BY <1>1 DEF Open, TypeOK
  <2>4. events'[x]["done"] + Open(x)' <= 1
    <3>1. events[x]["done"] \in Nat /\ events[x]["done"] + Open(x) <= 1
      BY <2>1, EventsNat DEF Ordered
    <3>. QED
      BY <2>2, <2>3, <3>1
  <2>. QED
    BY <1>1, <2>1, <2>2, <2>4 DEF Ordered, WriteOnce
<1>. QED
  BY <1>1, <1>2, <1>3, <1>5 DEF CompletionInv, NoStrayCompletion

(* The queue restricts the order of completions and adds no step: whatever *)
(* holds of SmsService with completions in any order holds of the real one. *)
THEOREM QueueRefines == FifoSpec => Spec
<1>1. FifoInit => Init
  BY DEF FifoInit
<1>2. [FifoNext]_fifoVars => [Next]_vars
  BY DEF FifoNext, fifoVars, Take, LastSMSNone, CallSend, CallLast, Complete,
         PhoneHangsUp, Next, OtherNext
<1>. QED
  BY <1>1, <1>2, PTL DEF FifoSpec, Spec

LEMMA CompletionInvariant == FifoSpec => []CompletionInv
<1>1. FifoInit => CompletionInv
  <2>. SUFFICES ASSUME FifoInit PROVE CompletionInv
    OBVIOUS
  <2>1. /\ cq = <<>> /\ Init /\ fault = "none"
        /\ \A x \in Addr : call[x] = "none" /\ ~newResponderCreated[x]
    BY DEF FifoInit, Init
  <2>2. PICK a \in Addr :
          /\ status = [x \in Addr |-> IF x = a THEN "LISTEN_COMMAND" ELSE "FREE"]
          /\ events = [x \in Addr |-> [k \in Kind |->
                         IF x = a /\ k = "request" THEN 1 ELSE 0]]
    BY <2>1 DEF Init
  <2>3. ASSUME NEW x \in Addr PROVE Counts(x) /\ Ordered(x)
    <3>1. /\ events[x]["alarm"] = 0 /\ events[x]["write"] = 0
          /\ events[x]["done"] = 0 /\ events[x]["finish"] = 0
          /\ events[x]["request"] = IF x = a THEN 1 ELSE 0
      BY <2>2 DEF Kind
    <3>2. /\ status[x] \in {"LISTEN_COMMAND", "FREE"}
          /\ status[x] = "LISTEN_COMMAND" <=> x = a
      BY <2>2
    <3>3. Due(x) = 0 /\ Open(x) = 0 /\ ~Listening(x)
      BY <2>1, <3>1 DEF Due, Open, Listening
    <3>4. Counts(x)
      BY <2>1, <3>1, <3>2, <3>3 DEF Counts, IsAcceptor
    <3>5. cq \in Seq(Completion) /\ Len(cq) = 0
      BY <2>1
    <3>6. Cardinality(Places(cq, <<x, "alarm">>)) \in Nat
      BY <3>5, PlacesFinite
    <3>7. Ordered(x)
      BY <3>1, <3>2, <3>3, <3>5, <3>6 DEF Ordered, WriteOnce
    <3>. QED
      BY <3>4, <3>7
  <2>. QED
    BY <2>1, <2>3 DEF CompletionInv, NoStrayCompletion
<1>2. CompletionInv /\ ListenerInv /\ TypeOK' /\ [FifoNext]_fifoVars => CompletionInv'
  <2>. SUFFICES ASSUME CompletionInv, ListenerInv, TypeOK', [FifoNext]_fifoVars
       PROVE  CompletionInv'
    OBVIOUS
  <2>1. TypeOK
    BY DEF ListenerInv
  <2>2. CASE UNCHANGED fifoVars
    <3>1. UNCHANGED <<cq, status, newResponderCreated, result, call, events, fault>>
      BY <2>2 DEF fifoVars, vars, objectVars
    <3>2. \A x \in Addr : Counts(x)'
      BY <3>1, CountsStay DEF CompletionInv
    <3>3. ASSUME fault = "none", NEW x \in Addr PROVE Ordered(x)'
      <4>1. Ordered(x)
        BY <3>3 DEF CompletionInv
      <4>2. WriteOnce(x)' <=> WriteOnce(x)
        BY <3>1 DEF WriteOnce
      <4>3. Open(x)' = Open(x)
        BY <3>1 DEF Open
      <4>. QED
        BY <3>1, <4>1, <4>2, <4>3 DEF Ordered
    <3>. QED
      BY <3>1, <3>2, <3>3 DEF CompletionInv, NoStrayCompletion
  <2>. QED
    BY <2>1, <2>2, TakeKeepsInv, CallKeepsInv, CompleteKeepsInv, HangUpKeepsInv
       DEF FifoNext
<1>. QED
  BY <1>1, <1>2, QueueRefines, ListenersAgree, TypeCorrect, PTL DEF FifoSpec

(***************************************************************************)
(* In the order in which they are posted, the completions of a listener    *)
(* count its queue down: one is due for the hang-up, one for the Write or  *)
(* the alarm, and none once the object is deleted.                         *)
(***************************************************************************)
THEOREM CompletionsAreCounted == FifoSpec => []CompletionsCounted
<1>1. TypeOK /\ CompletionInv => CompletionsCounted
  BY CountsSuffice DEF CompletionInv
<1>. QED
  BY <1>1, CompletionInvariant, QueueRefines, TypeCorrect, PTL

(* Only a phone that hung up is taken for one: Finish never ends the       *)
(* stream of a connected phone that has nothing to receive at the moment.  *)
THEOREM FinishesHungUp == FifoSpec => []FinishMeansHungUp
<1>1. CompletionInv => FinishMeansHungUp
  BY DEF CompletionInv, FinishMeansHungUp
<1>. QED
  BY <1>1, CompletionInvariant, PTL

(* No completion is delivered to a deleted ListenData or to one that no    *)
(* phone called.                                                           *)
THEOREM NoneStray == FifoSpec => []NoStrayCompletion
<1>1. CompletionInv => NoStrayCompletion
  BY DEF CompletionInv
<1>. QED
  BY <1>1, CompletionInvariant, PTL

-----------------------------------------------------------------------------
(* What stops the process                                                  *)

(* While the stream is open, LISTEN_COMMAND means that no Write is due. *)
IdleWritten ==
  \A a \in Addr : status[a] = "LISTEN_COMMAND" /\ call[a] = "open"
                    => events[a]["write"] = 0

LEMMA AcceptKeepsIdle ==
  ASSUME TypeOK, ObjectsClean, CompletionInv, IdleWritten,
         NEW a \in Addr, NEW k \in Kind, AcceptListener(a, k)
  PROVE  IdleWritten'
<1>1. PICK b \in Addr :
        /\ status[b] = "FREE" /\ status' = [status EXCEPT ![b] = "LISTEN_COMMAND"]
        /\ \A x \in Addr, i \in Kind : events'[x][i] =
             IF x = b /\ i = "request" THEN Taken(a, k, x, i) + 1
             ELSE Taken(a, k, x, i)
  BY AcceptEvents
<1>2. /\ Delivered(a, k) /\ IsAcceptor(a) /\ Counts(a) /\ Counts(b)
      /\ call' = [call EXCEPT ![a] = CallAt(a, k)]
  BY DEF AcceptListener, CompletionInv
<1>3. k = "request"
  BY <1>2, KindDelivered
<1>4. \A x \in Addr : events'[x]["write"] = events[x]["write"]
  BY <1>1, <1>3 DEF Taken, Kind
<1>5. ASSUME NEW x \in Addr, x = a \/ x = b PROVE events[x]["write"] = 0
  <2>1. ~Listening(x) /\ Counts(x)
    BY <1>1, <1>2, <1>5 DEF Listening, IsAcceptor
  <2>2. Due(x) = 0
    BY <2>1 DEF Counts
  <2>3. /\ events[x]["alarm"] \in Nat /\ events[x]["write"] \in Nat
        /\ events[x]["done"] \in Nat /\ Open(x) \in {0, 1}
    BY EventsNat
  <2>. DEFINE al == events[x]["alarm"]
              wr == events[x]["write"]
              dn == events[x]["done"]
              op == Open(x)
  <2>4. al + wr + dn + op = 0
    BY <2>2 DEF Due, Open
  <2>5. al \in Nat /\ wr \in Nat /\ dn \in Nat /\ op \in {0, 1}
    BY <2>3
  <2>. HIDE DEF al, wr, dn, op
  <2>6. wr = 0
    BY <2>4, <2>5
  <2>. QED
    BY <2>6 DEF wr
<1>6. \A x \in Addr : x # a /\ x # b => status'[x] = status[x] /\ call'[x] = call[x]
  BY <1>1, <1>2 DEF TypeOK
<1>. QED
  BY <1>4, <1>5, <1>6 DEF IdleWritten

(* With the stream open, a listener that finds its queue empty was called  *)
(* because its Write ended: an alarm would come with an SMS to write.      *)
LEMMA StopKeepsIdle ==
  ASSUME TypeOK, ObjectsClean, CompletionInv, IdleWritten,
         NEW a \in Addr, NEW k \in Kind, StopWriting(a, k)
  PROVE  IdleWritten'
<1>1. /\ Delivered(a, k) /\ fault = "none" /\ events[a][k] > 0
      /\ status[a] = "LISTEN_COMMAND_SENT" /\ result[a] = <<>>
      /\ status' = [status EXCEPT ![a] = "LISTEN_COMMAND"]
      /\ call' = [call EXCEPT ![a] = CallAt(a, k)]
  BY DEF StopWriting, Delivered
<1>2. Listening(a) /\ Counts(a) /\ Ordered(a)
  BY <1>1 DEF ObjectsClean, Listening, CompletionInv
<1>3. k \in {"alarm", "write", "done"} /\ CallAt(a, k) = call[a]
  BY <1>1, <1>2, KindDelivered
<1>4. \A x \in Addr : events'[x]["write"] = Taken(a, k, x, "write")
  BY IdleEvents DEF Kind
<1>5. ASSUME call[a] = "open" PROVE events'[a]["write"] = 0
  <2>1. Open(a) = 1 /\ events[a]["write"] = 1 /\ events[a]["done"] + Open(a) <= 1
    BY <1>1, <1>2, <1>5 DEF Open, Ordered
  <2>2. Due(a) <= 2
    BY <1>1, <1>2 DEF Counts
  <2>3. events[a]["alarm"] = 0 /\ events[a]["done"] = 0
    BY <1>5, <2>1, <2>2, EventsNat DEF Due
  <2>4. k = "write"
    BY <1>1, <1>3, <2>3
  <2>. QED
    BY <1>4, <2>1, <2>4 DEF Taken
<1>6. \A x \in Addr : call'[x] = call[x] /\ (x # a => status'[x] = status[x])
  BY <1>1, <1>3 DEF TypeOK
<1>7. \A x \in Addr : x # a => events'[x]["write"] = events[x]["write"]
  BY <1>4 DEF Taken
<1>. QED
  BY <1>5, <1>6, <1>7 DEF IdleWritten

LEMMA ProceedKeepsIdle ==
  ASSUME TypeOK, ObjectsClean, CompletionInv, IdleWritten,
         NEW a \in Addr, NEW k \in Kind, Proceed(a, k)
  PROVE  IdleWritten'
<1>1. CASE FinishStream(a, k)
  <2>1. /\ Delivered(a, k) /\ Listening(a) /\ Counts(a) /\ status[a] = "LISTEN_COMMAND"
        /\ status' = [status EXCEPT ![a] = "FINISH"]
    BY <1>1 DEF FinishStream, Listening, CompletionInv
  <2>2. \A x \in Addr : x # a => status'[x] = status[x] /\ call'[x] = call[x]
    BY <1>1, <2>1 DEF FinishStream, TypeOK
  <2>3. status'[a] = "FINISH"
    BY <2>1 DEF TypeOK
  <2>4. \A x \in Addr : x # a => events'[x]["write"] = events[x]["write"]
    <3>1. CallAt(a, k) # "open"
      BY <1>1, FinishCounts DEF CompletionInv
    <3>2. \A x \in Addr : x # a => events'[x]["write"] = Taken(a, k, x, "write")
      BY <1>1, <3>1, FinishEvents DEF Kind
    <3>. QED
      BY <3>2 DEF Taken
  <2>. QED
    BY <2>2, <2>3, <2>4 DEF IdleWritten
<1>2. CASE WriteNext(a, k)
  <2>1. /\ status' = [status EXCEPT ![a] = "LISTEN_COMMAND_SENT"]
        /\ call' = [call EXCEPT ![a] = CallAt(a, k)]
    BY <1>2 DEF WriteNext
  <2>2. /\ status'[a] = "LISTEN_COMMAND_SENT"
        /\ \A x \in Addr : x # a => status'[x] = status[x] /\ call'[x] = call[x]
    BY <2>1 DEF TypeOK
  <2>3. \A x \in Addr : x # a => events'[x]["write"] = events[x]["write"]
    BY <1>2, WriteEvents DEF Taken, Kind
  <2>. QED
    BY <2>2, <2>3 DEF IdleWritten
<1>3. CASE DeleteThis(a, k)
  <2>1. /\ status'[a] = "FREE"
        /\ \A x \in Addr : x # a => status'[x] = status[x] /\ call'[x] = call[x]
    BY <1>3 DEF DeleteThis, TypeOK
  <2>2. \A x \in Addr : x # a => events'[x]["write"] = events[x]["write"]
    BY <1>3, IdleEvents DEF Taken, Kind
  <2>. QED
    BY <2>1, <2>2 DEF IdleWritten
<1>4. CASE FaultFreed(a, k) \/ FaultNoCall(a, k) \/ FaultOverlap(a, k)
  BY <1>4 DEF FaultFreed, FaultNoCall, FaultOverlap, Stops, objectVars, IdleWritten
<1>. QED
  BY <1>1, <1>2, <1>3, <1>4, AcceptKeepsIdle, StopKeepsIdle DEF Proceed

(* The Write that is started during another one *)
LEMMA OverlapExplained ==
  ASSUME TypeOK, ObjectsClean, CompletionInv, IdleWritten,
         NEW a \in Addr, NEW k \in Kind, FaultOverlap(a, k)
  PROVE  FaultsInWrite'
<1>1. /\ Delivered(a, k) /\ fault = "none" /\ events[a][k] > 0
      /\ status[a] \in {"LISTEN_COMMAND", "LISTEN_COMMAND_SENT"}
      /\ newResponderCreated[a] /\ result[a] # <<>>
      /\ Left(a, k)[a]["write"] > 0
      /\ fault' = (IF CallAt(a, k) = "hungup" THEN "write after hang-up"
                   ELSE "overlapping write")
      /\ UNCHANGED <<status, result, call, events>>
  BY DEF FaultOverlap, Delivered, Stops, objectVars
<1>2. Listening(a) /\ Counts(a) /\ Ordered(a)
  BY <1>1 DEF Listening, CompletionInv
<1>3. /\ k \in {"alarm", "write", "done"} /\ CallAt(a, k) = call[a]
      /\ call[a] \in {"open", "hungup"}
  BY <1>1, <1>2, KindDelivered
<1>4. Taken(a, k, a, "write") > 0
  <2>1. \A x \in Addr, i \in Kind : Left(a, k)[x][i] = Taken(a, k, x, i)
    BY <1>1, LeftEvents DEF Taken
  <2>2. Left(a, k)[a]["write"] = Taken(a, k, a, "write")
    BY <2>1 DEF Kind
  <2>. QED
    BY <1>1, <2>2
<1>5. events[a]["write"] = 1 /\ k # "write"
  BY <1>2, <1>4, EventsNat DEF Taken, Ordered
<1>6. ASSUME call[a] = "open"
      PROVE  status[a] = "LISTEN_COMMAND_SENT" /\ events[a]["alarm"] > 0
  <2>1. events[a]["done"] + Open(a) <= 1 /\ Open(a) = 1
    BY <1>2, <1>6 DEF Ordered, Open
  <2>2. events[a]["done"] = 0
    BY <2>1, EventsNat
  <2>3. k # "done"
    <3>1. k = "done" => events[a]["done"] > 0
      BY <1>1
    <3>. QED
      BY <2>2, <3>1
  <2>4. k = "alarm"
    BY <1>3, <1>5, <2>3
  <2>5. events[a]["alarm"] > 0
    BY <1>1, <2>4
  <2>6. status[a] # "LISTEN_COMMAND"
    BY <1>5, <1>6 DEF IdleWritten
  <2>. QED
    BY <1>1, <2>5, <2>6
<1>. QED
  BY <1>1, <1>3, <1>5, <1>6 DEF FaultsInWrite

LEMMA WriteInvariant == FifoSpec => [](IdleWritten /\ FaultsInWrite)
<1>1. FifoInit => IdleWritten /\ FaultsInWrite
  BY DEF FifoInit, Init, IdleWritten, FaultsInWrite
<1>2. ListenerInv /\ CompletionInv /\ IdleWritten /\ FaultsInWrite
        /\ [FifoNext]_fifoVars => IdleWritten' /\ FaultsInWrite'
  <2>. SUFFICES ASSUME ListenerInv, CompletionInv, IdleWritten, FaultsInWrite,
                       [FifoNext]_fifoVars
       PROVE  IdleWritten' /\ FaultsInWrite'
    OBVIOUS
  <2>1. TypeOK /\ ObjectsClean /\ RegistryExact
    BY DEF ListenerInv
  <2>2. CASE UNCHANGED <<status, result, call, events, fault>>
    BY <2>2 DEF IdleWritten, FaultsInWrite
  <2>3. ASSUME NEW a \in Addr, NEW k \in Kind, Proceed(a, k)
        PROVE  IdleWritten' /\ FaultsInWrite'
    <3>1. CASE FaultOverlap(a, k)
      BY <2>1, <3>1, OverlapExplained, ProceedKeepsIdle DEF Proceed
    <3>2. CASE ~FaultOverlap(a, k)
      <4>1. fault' \in {"none", "freed object", "no call"}
        BY <2>3, <3>2 DEF Proceed, AcceptListener, FinishStream, WriteNext,
           StopWriting, DeleteThis, FaultFreed, FaultNoCall, Delivered, Stops
      <4>. QED
        BY <2>1, <2>3, <4>1, ProceedKeepsIdle DEF FaultsInWrite
    <3>. QED
      BY <3>1, <3>2
  <2>4. CASE NotifyListeners
    <3>1. fault' = "none" /\ UNCHANGED <<status, call>>
      BY <2>4 DEF NotifyListeners
    <3>2. \A x \in Addr : events'[x]["write"] = events[x]["write"]
      <4>1. CASE mgrResult = <<>>
        BY <2>4, <4>1 DEF NotifyListeners
      <4>2. CASE mgrResult # <<>>
        <5>1. \A x \in Addr :
                events'[x] = IF x \in Recipients THEN Woken(x) ELSE events[x]
          BY <2>4, <4>2 DEF NotifyListeners
        <5>. QED
          BY <2>1, <5>1, WokenEvents DEF Kind
      <4>. QED
        BY <4>1, <4>2
    <3>. QED
      BY <3>1, <3>2 DEF IdleWritten, FaultsInWrite
  <2>5. ASSUME NEW a \in Addr, HangUp(a) PROVE IdleWritten' /\ FaultsInWrite'
    <3>1. /\ fault' = "none" /\ call' = [call EXCEPT ![a] = "hungup"]
          /\ events' = More(events, a, "done") /\ UNCHANGED status
      BY <2>5 DEF HangUp
    <3>2. \A x \in Addr : events'[x]["write"] = events[x]["write"]
      <4>1. events \in [Addr -> [Kind -> Nat]] /\ "done" \in Kind
        BY <2>1 DEF TypeOK, Kind
      <4>2. \A x \in Addr, i \in Kind : More(events, a, "done")[x][i] =
              IF x = a /\ i = "done" THEN events[x][i] + 1 ELSE events[x][i]
        BY <4>1, MoreEvents
      <4>. QED
        BY <3>1, <4>2 DEF Kind
    <3>3. \A x \in Addr : call'[x] = "open" => call[x] = "open"
      BY <2>1, <3>1 DEF TypeOK
    <3>. QED
      BY <3>1, <3>2, <3>3 DEF IdleWritten, FaultsInWrite
  <2>6. CASE \/ RequestToSend \/ LastSMSToSend \/ LastSMSNone
             \/ UNCHANGED vars
    BY <2>2, <2>6 DEF RequestToSend, LastSMSToSend, LastSMSNone, vars, objectVars
  <2>. QED
    BY <2>3, <2>4, <2>5, <2>6 DEF FifoNext, fifoVars, Take, CallSend, CallLast,
       Complete, PhoneHangsUp
<1>. QED
  BY <1>1, <1>2, QueueRefines, ListenersAgree, CompletionInvariant, PTL DEF FifoSpec

(***************************************************************************)
(* A Write is started during another one only by an alarm that was set     *)
(* before it, or for a phone that hung up, whatever phones and programs do.*)
(***************************************************************************)
THEOREM FaultsAreInWrite == FifoSpec => []FaultsInWrite
BY WriteInvariant, PTL

-----------------------------------------------------------------------------
(* When a connected phone gets its SMS one by one                          *)

(* No batch comes to a listener whose last alarm was not taken yet. *)
OneAlarmDue == \A a \in Addr : events[a]["alarm"] <= 1

(* Then no alarm is left over when the first Write begins. *)
NoAlarmInWrite ==
  \A a \in Addr : status[a] = "LISTEN_COMMAND_SENT" /\ call[a] = "open"
                    => events[a]["alarm"] = 0

LEMMA WriteTakesAlarm ==
  ASSUME TypeOK, ObjectsClean, CompletionInv, IdleWritten, OneAlarmDue, NoAlarmInWrite,
         NEW a \in Addr, NEW k \in Kind, WriteNext(a, k)
  PROVE  NoAlarmInWrite'
<1>1. /\ Delivered(a, k) /\ fault = "none" /\ events[a][k] > 0
      /\ status[a] \in {"LISTEN_COMMAND", "LISTEN_COMMAND_SENT"}
      /\ newResponderCreated[a]
      /\ status' = [status EXCEPT ![a] = "LISTEN_COMMAND_SENT"]
      /\ call' = [call EXCEPT ![a] = CallAt(a, k)]
  BY DEF WriteNext, Delivered
<1>2. Listening(a) /\ Counts(a) /\ Ordered(a)
  BY <1>1 DEF Listening, CompletionInv
<1>3. k \in {"alarm", "write", "done"} /\ CallAt(a, k) = call[a]
  BY <1>1, <1>2, KindDelivered
<1>4. \A x \in Addr : events'[x]["alarm"] = Taken(a, k, x, "alarm")
  BY WriteEvents DEF Kind
<1>5. ASSUME call[a] = "open" PROVE events'[a]["alarm"] = 0
  <2>1. k # "done"
    <3>1. events[a]["done"] + Open(a) <= 1 /\ Open(a) = 1
      BY <1>2, <1>5 DEF Ordered, Open
    <3>2. events[a]["done"] = 0
      BY <3>1, EventsNat
    <3>3. k = "done" => events[a]["done"] > 0
      BY <1>1
    <3>. QED
      BY <3>2, <3>3
  <2>2. CASE status[a] = "LISTEN_COMMAND_SENT"
    <3>1. events[a]["alarm"] = 0
      BY <1>5, <2>2 DEF NoAlarmInWrite
    <3>2. k = "alarm" => events[a]["alarm"] > 0
      BY <1>1
    <3>. QED
      BY <1>4, <3>1, <3>2 DEF Taken
  <2>3. CASE status[a] = "LISTEN_COMMAND"
    <3>1. events[a]["write"] = 0
      BY <1>5, <2>3 DEF IdleWritten
    <3>2. k = "write" => events[a]["write"] > 0
      BY <1>1
    <3>3. k = "alarm"
      BY <1>3, <2>1, <3>1, <3>2
    <3>4. events[a]["alarm"] > 0
      BY <1>1, <3>3
    <3>5. events[a]["alarm"] = 1
      BY <3>4, EventsNat DEF OneAlarmDue
    <3>. QED
      BY <1>4, <3>3, <3>5 DEF Taken
  <2>. QED
    BY <1>1, <2>2, <2>3
<1>6. \A x \in Addr : /\ call'[x] = call[x]
                      /\ x # a => status'[x] = status[x]
                      /\ x # a => events'[x]["alarm"] = events[x]["alarm"]
  BY <1>1, <1>3, <1>4 DEF TypeOK, Taken
<1>. QED
  BY <1>5, <1>6 DEF NoAlarmInWrite

LEMMA ProceedKeepsAlarms ==
  ASSUME TypeOK, ObjectsClean, CompletionInv, IdleWritten, OneAlarmDue, NoAlarmInWrite,
         NEW a \in Addr, NEW k \in Kind, Proceed(a, k)
  PROVE  NoAlarmInWrite'
<1>1. CASE AcceptListener(a, k)
  <2>1. PICK b \in Addr :
          /\ status[b] = "FREE" /\ status' = [status EXCEPT ![b] = "LISTEN_COMMAND"]
          /\ \A x \in Addr, i \in Kind : events'[x][i] =
               IF x = b /\ i = "request" THEN Taken(a, k, x, i) + 1
               ELSE Taken(a, k, x, i)
    BY <1>1, AcceptEvents
  <2>2. /\ status[a] = "LISTEN_COMMAND" /\ call' = [call EXCEPT ![a] = CallAt(a, k)]
    BY <1>1 DEF AcceptListener, IsAcceptor
  <2>3. \A x \in Addr : status'[x] = "LISTEN_COMMAND_SENT" =>
          x # a /\ status[x] = "LISTEN_COMMAND_SENT" /\ call'[x] = call[x]
    BY <2>1, <2>2 DEF TypeOK
  <2>4. \A x \in Addr : x # a => events'[x]["alarm"] = events[x]["alarm"]
    BY <2>1 DEF Taken, Kind
  <2>. QED
    BY <2>3, <2>4 DEF NoAlarmInWrite
<1>2. CASE FinishStream(a, k)
  <2>1. /\ CallAt(a, k) # "open" /\ call' = call
    BY <1>2, FinishCounts DEF CompletionInv
  <2>2. \A x \in Addr : status'[x] = "LISTEN_COMMAND_SENT" =>
          x # a /\ status[x] = "LISTEN_COMMAND_SENT"
    BY <1>2 DEF FinishStream, TypeOK
  <2>3. \A x \in Addr : x # a => events'[x]["alarm"] = events[x]["alarm"]
    BY <1>2, <2>1, FinishEvents DEF Taken, Kind
  <2>. QED
    BY <2>1, <2>2, <2>3 DEF NoAlarmInWrite
<1>3. CASE StopWriting(a, k) \/ DeleteThis(a, k)
  <2>1. \A x \in Addr : status'[x] = "LISTEN_COMMAND_SENT" =>
          x # a /\ status[x] = "LISTEN_COMMAND_SENT" /\ call'[x] = call[x]
    BY <1>3 DEF StopWriting, DeleteThis, TypeOK
  <2>2. \A x \in Addr : x # a => events'[x]["alarm"] = events[x]["alarm"]
    BY <1>3, IdleEvents DEF Taken, Kind
  <2>. QED
    BY <2>1, <2>2 DEF NoAlarmInWrite
<1>4. CASE FaultFreed(a, k) \/ FaultNoCall(a, k) \/ FaultOverlap(a, k)
  BY <1>4 DEF FaultFreed, FaultNoCall, FaultOverlap, Stops, objectVars, NoAlarmInWrite
<1>. QED
  BY <1>1, <1>2, <1>3, <1>4, WriteTakesAlarm DEF Proceed

(***************************************************************************)
(* The only thing that makes the server write to a connected phone while   *)
(* an earlier Write is under way is a batch that comes before the alarm of *)
(* another was taken.  As long as this does not happen, with any number of *)
(* phones, it writes SMS one by one.                                       *)
(***************************************************************************)
THEOREM OneByOneWhenTaken == FifoSpec /\ []OneAlarmDue => []OneByOne
<1>1. FifoInit => NoAlarmInWrite
  <2>. SUFFICES ASSUME FifoInit PROVE NoAlarmInWrite
    OBVIOUS
  <2>1. \A x \in Addr : call[x] = "none"
    BY DEF FifoInit, Init
  <2>. QED
    BY <2>1 DEF NoAlarmInWrite
<1>2. ListenerInv /\ CompletionInv /\ IdleWritten /\ OneAlarmDue /\ NoAlarmInWrite
        /\ [FifoNext]_fifoVars => NoAlarmInWrite'
  <2>. SUFFICES ASSUME ListenerInv, CompletionInv, IdleWritten, OneAlarmDue,
                       NoAlarmInWrite, [FifoNext]_fifoVars
       PROVE  NoAlarmInWrite'
    OBVIOUS
  <2>1. TypeOK /\ ObjectsClean
    BY DEF ListenerInv
  <2>2. CASE UNCHANGED <<status, call, events>>
    BY <2>2 DEF NoAlarmInWrite
  <2>3. ASSUME NEW a \in Addr, NEW k \in Kind, Proceed(a, k) PROVE NoAlarmInWrite'
    BY <2>1, <2>3, ProceedKeepsAlarms
  <2>4. CASE NotifyListeners
    <3>1. UNCHANGED <<status, call>>
      BY <2>4 DEF NotifyListeners
    <3>2. ASSUME NEW x \in Addr, status[x] = "LISTEN_COMMAND_SENT"
          PROVE  events'[x]["alarm"] = events[x]["alarm"]
      <4>1. CASE mgrResult = <<>>
        BY <2>4, <4>1 DEF NotifyListeners
      <4>2. CASE mgrResult # <<>>
        <5>1. events'[x] = IF x \in Recipients THEN Woken(x) ELSE events[x]
          BY <2>4, <4>2 DEF NotifyListeners
        <5>. QED
          BY <2>1, <3>2, <5>1, WokenEvents DEF Kind
      <4>. QED
        BY <4>1, <4>2
    <3>. QED
      BY <3>1, <3>2 DEF NoAlarmInWrite
  <2>5. ASSUME NEW a \in Addr, HangUp(a) PROVE NoAlarmInWrite'
    <3>1. /\ call' = [call EXCEPT ![a] = "hungup"]
          /\ events' = More(events, a, "done") /\ UNCHANGED status
      BY <2>5 DEF HangUp
    <3>2. \A x \in Addr : events'[x]["alarm"] = events[x]["alarm"]
      <4>1. events \in [Addr -> [Kind -> Nat]] /\ "done" \in Kind
        BY <2>1 DEF TypeOK, Kind
      <4>2. \A x \in Addr, i \in Kind : More(events, a, "done")[x][i] =
              IF x = a /\ i = "done" THEN events[x][i] + 1 ELSE events[x][i]
        BY <4>1, MoreEvents
      <4>. QED
        BY <3>1, <4>2 DEF Kind
    <3>3. \A x \in Addr : call'[x] = "open" => call[x] = "open"
      BY <2>1, <3>1 DEF TypeOK
    <3>. QED
      BY <3>1, <3>2, <3>3 DEF NoAlarmInWrite
  <2>6. CASE \/ RequestToSend \/ LastSMSToSend \/ LastSMSNone
             \/ UNCHANGED vars
    BY <2>2, <2>6 DEF RequestToSend, LastSMSToSend, LastSMSNone, vars, objectVars
  <2>. QED
    BY <2>3, <2>4, <2>5, <2>6 DEF FifoNext, fifoVars, Take, CallSend, CallLast,
       Complete, PhoneHangsUp
<1>3. NoAlarmInWrite /\ FaultsInWrite => OneByOne
  <2>. SUFFICES ASSUME NoAlarmInWrite, FaultsInWrite, ~OneByOne PROVE FALSE
    OBVIOUS
  <2>1. PICK a \in Addr : /\ call[a] = "open" /\ status[a] = "LISTEN_COMMAND_SENT"
                          /\ events[a]["alarm"] > 0
    BY DEF FaultsInWrite, OneByOne
  <2>2. events[a]["alarm"] = 0
    BY <2>1 DEF NoAlarmInWrite
  <2>. QED
    BY <2>1, <2>2
<1>. QED
  BY <1>1, <1>2, <1>3, QueueRefines, ListenersAgree, CompletionInvariant, WriteInvariant,
     PTL DEF FifoSpec
=============================================================================
