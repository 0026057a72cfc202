-------------------------- MODULE UnaryCallsProofs --------------------------
(***************************************************************************)
(* Proofs about the server of SendSms, for any number of clients, any      *)
(* configuration of them and any number of aborts.                         *)
(***************************************************************************)
EXTENDS SendSms, TLAPS

(* What SendSms does to the variables of UnaryCalls *)
UnaryStep ==
  \/ \E c \in Caller, m \in Method, allowed, reached \in BOOLEAN :
       MakeCall(c, m, allowed, reached)
  \/ \E q \in arrived : Process(q)
  \/ \E c \in Caller : Release(c) \/ Receive(c) \/ Break(c)
  \/ HandOver
  \/ Abort
  \/ Restart
  \/ UNCHANGED unaryVars

LEMMA Restricted == [Next]_vars => UnaryStep
<1>. SUFFICES ASSUME [Next]_vars PROVE UnaryStep
  OBVIOUS
<1>1. ASSUME NEW c \in Caller, ClientStep(c) PROVE UnaryStep
  <2>1. CASE Run(c)
    <3>1. MethodOf(opts[c]) \in Method
      BY DEF MethodOf, Method
    <3>2. IsAllowed(settings.service, Credentials(opts[c])) \in BOOLEAN
      BY DEF IsAllowed
    <3>3. Reaches(Target(opts[c])) \in BOOLEAN
      BY DEF Reaches
    <3>4. MakeCall(c, MethodOf(opts[c]),
                   IsAllowed(settings.service, Credentials(opts[c])),
                   Reaches(Target(opts[c])))
      BY <2>1 DEF Run
    <3>. QED
      BY <3>1, <3>2, <3>3, <3>4 DEF UnaryStep
  <2>2. CASE Answered(c) \/ Failed(c)
    BY <2>2 DEF Answered, Failed, UnaryStep
  <2>3. CASE Interrupt(c)
    BY <2>3 DEF Interrupt, UnaryStep
  <2>4. CASE \/ ShowHelp(c) \/ ParseCmd(c) \/ OtherProgram(c) \/ ReadStdin(c)
             \/ StreamEnds(c) \/ Report(c)
    BY <2>4 DEF ShowHelp, ParseCmd, OtherProgram, ReadStdin, StreamEnds, Report,
       UnaryStep
  <2>. QED
    BY <1>1, <2>1, <2>2, <2>3, <2>4 DEF ClientStep
<1>2. CASE ServerStep
  BY <1>2 DEF ServerStep, UnaryStep
<1>. QED
  BY <1>1, <1>2 DEF Next, vars, UnaryStep

-----------------------------------------------------------------------------
(* Sequences without repetitions                                           *)

LEMMA EmptySequence == ToSet(<<>>) = {} /\ IsInjective(<<>>)
BY DEF ToSet, IsInjective

LEMMA Appended ==
  ASSUME NEW S, NEW s \in Seq(S), NEW e \in S
  PROVE  /\ Append(s, e) \in Seq(S)
         /\ ToSet(Append(s, e)) = ToSet(s) \cup {e}
         /\ IsInjective(s) /\ e \notin ToSet(s) => IsInjective(Append(s, e))
<1>. DEFINE t == Append(s, e)
<1>1. /\ t \in Seq(S) /\ Len(t) = Len(s) + 1
      /\ \A i \in 1..Len(s) : t[i] = s[i]
      /\ t[Len(s) + 1] = e
      /\ DOMAIN t = 1..(Len(s) + 1) /\ DOMAIN s = 1..Len(s) /\ Len(s) \in Nat
  OBVIOUS
<1>. HIDE DEF t
<1>2. ToSet(t) = ToSet(s) \cup {e}
  <2>1. \A x \in ToSet(t) : x \in ToSet(s) \cup {e}
    <3>. SUFFICES ASSUME NEW i \in DOMAIN t PROVE t[i] \in ToSet(s) \cup {e}
      BY DEF ToSet
    <3>1. i \in 1..Len(s) \/ i = Len(s) + 1
      BY <1>1
    <3>. QED
      BY <1>1, <3>1 DEF ToSet
  <2>2. \A x \in ToSet(s) : x \in ToSet(t)
    <3>. SUFFICES ASSUME NEW i \in DOMAIN s PROVE s[i] \in ToSet(t)
      BY DEF ToSet
    <3>1. i \in DOMAIN t /\ t[i] = s[i]
      BY <1>1
    <3>. QED
      BY <3>1 DEF ToSet
  <2>3. e \in ToSet(t)
    <3>1. Len(s) + 1 \in DOMAIN t
      BY <1>1
    <3>. QED
      BY <1>1, <3>1 DEF ToSet
  <2>. QED
    BY <2>1, <2>2, <2>3
<1>3. ASSUME IsInjective(s), e \notin ToSet(s) PROVE IsInjective(t)
  <2>. SUFFICES ASSUME NEW i \in DOMAIN t, NEW j \in DOMAIN t, t[i] = t[j]
                PROVE  i = j
    BY DEF IsInjective
  <2>1. \A k \in 1..Len(s) : t[k] # e
    BY <1>1, <1>3 DEF ToSet
  <2>2. CASE i \in 1..Len(s) /\ j \in 1..Len(s)
    <3>1. s[i] = s[j]
      BY <1>1, <2>2
    <3>. QED
      BY <1>1, <1>3, <2>2, <3>1 DEF IsInjective
  <2>. QED
    BY <1>1, <2>1, <2>2
<1>. QED
  BY <1>1, <1>2, <1>3 DEF t

LEMMA HeadTaken ==
  ASSUME NEW S, NEW s \in Seq(S), s # <<>>, IsInjective(s)
  PROVE  /\ Head(s) \in ToSet(s) /\ Head(s) \in S
         /\ Tail(s) \in Seq(S)
         /\ ToSet(Tail(s)) = ToSet(s) \ {Head(s)}
         /\ IsInjective(Tail(s))
<1>. DEFINE t == Tail(s)
<1>1. /\ Len(s) \in Nat /\ Len(s) > 0 /\ Len(t) = Len(s) - 1
      /\ DOMAIN s = 1..Len(s) /\ DOMAIN t = 1..(Len(s) - 1)
      /\ \A i \in 1..(Len(s) - 1) : t[i] = s[i + 1]
      /\ Head(s) = s[1] /\ s[1] \in S /\ t \in Seq(S)
  OBVIOUS
<1>. HIDE DEF t
<1>2. Head(s) \in ToSet(s)
  <2>1. 1 \in DOMAIN s
    BY <1>1
  <2>. QED
    BY <1>1, <2>1 DEF ToSet
<1>3. \A i, j \in 1..Len(s) : s[i] = s[j] => i = j
  BY <1>1 DEF IsInjective
<1>4. \A x \in ToSet(t) : x \in ToSet(s) \ {Head(s)}
  <2>. SUFFICES ASSUME NEW i \in DOMAIN t PROVE t[i] \in ToSet(s) \ {s[1]}
    BY <1>1 DEF ToSet
  <2>1. i + 1 \in 1..Len(s) /\ i + 1 # 1 /\ 1 \in 1..Len(s) /\ t[i] = s[i + 1]
    BY <1>1
  <2>2. s[i + 1] # s[1]
    BY <1>3, <2>1
  <2>. QED
    BY <1>1, <2>1, <2>2 DEF ToSet
<1>5. \A x \in ToSet(s) \ {Head(s)} : x \in ToSet(t)
  <2>. SUFFICES ASSUME NEW i \in DOMAIN s, s[i] # s[1] PROVE s[i] \in ToSet(t)
    BY <1>1 DEF ToSet
  <2>1. i - 1 \in 1..(Len(s) - 1) /\ (i - 1) + 1 = i
    BY <1>1
  <2>2. t[i - 1] = s[i]
    BY <1>1, <2>1
  <2>. QED
    BY <1>1, <2>1, <2>2 DEF ToSet
<1>6. IsInjective(t)
  <2>. SUFFICES ASSUME NEW i \in DOMAIN t, NEW j \in DOMAIN t, t[i] = t[j]
                PROVE  i = j
    BY DEF IsInjective
  <2>1. /\ i + 1 \in 1..Len(s) /\ j + 1 \in 1..Len(s)
        /\ s[i + 1] = s[j + 1]
    BY <1>1
  <2>2. i + 1 = j + 1
    BY <1>3, <2>1
  <2>. QED
    BY <1>1, <2>2
<1>. QED
  BY <1>1, <1>2, <1>4, <1>5, <1>6 DEF t

-----------------------------------------------------------------------------
(* A caller has one call, and only a call that arrived queues its SMS. *)
CalledOnce ==
  /\ \A q \in arrived : call[q.caller] # "none" /\ q.caller \notin queued
  /\ \A q, r \in arrived : q.caller = r.caller => q = r
  /\ \A c \in queued : call[c] # "none"

(* What the queue holds and what became of the rest *)
QueueTyped ==
  /\ waiting \in Seq(Caller) /\ taken \in Seq(Caller)
  /\ queued \subseteq Caller /\ handed \subseteq Caller /\ lost \subseteq Caller

CallsTyped ==
  /\ arrived \subseteq Request /\ finishing \subseteq Caller
  /\ answer \in [Caller -> Answer] /\ call \in [Caller -> CallState]

HandlersTyped == handlers \in [Method -> Nat] /\ aborts \in Nat

LEMMA TypeParts ==
  UnaryTypeOK <=> up \in BOOLEAN /\ QueueTyped /\ CallsTyped /\ HandlersTyped
BY DEF UnaryTypeOK, QueueTyped, CallsTyped, HandlersTyped

(* Every step takes at most one SMS in, and moves the others as a whole. *)
LEMMA QueueSteps ==
  ASSUME UnaryStep, QueueTyped, CallsTyped, CalledOnce, Accounted
  PROVE  QueueTyped' /\ Accounted'
<1>. USE DEF QueueTyped, queueVars, serverVars, callVars
<1>1. ASSUME NEW q \in arrived, Process(q) PROVE QueueTyped' /\ Accounted'
  <2>1. q.caller \in Caller /\ q.caller \notin queued
    BY DEF CallsTyped, Request, CalledOnce
  <2>2. UNCHANGED <<handed, lost>>
    BY <1>1 DEF Process
  <2>3. CASE Queues(q)
    <3>1. ~Takes(q)
      BY <2>3 DEF Queues, Takes
    <3>2. /\ waiting' = Append(waiting, q.caller)
          /\ queued' = queued \cup {q.caller} /\ taken' = taken
      BY <1>1, <2>3, <3>1 DEF Process
    <3>3. q.caller \notin ToSet(waiting) \cup ToSet(taken) \cup handed \cup lost
      BY <2>1 DEF Accounted
    <3>4. /\ waiting' \in Seq(Caller)
          /\ ToSet(waiting') = ToSet(waiting) \cup {q.caller}
          /\ IsInjective(waiting')
      BY <2>1, <3>2, <3>3, Appended DEF Accounted
    <3>. QED
      BY <2>1, <2>2, <3>2, <3>3, <3>4 DEF Accounted
  <2>4. CASE Takes(q)
    <3>1. ~Queues(q) /\ waiting # <<>>
      BY <2>4 DEF Queues, Takes
    <3>2. /\ waiting' = Tail(waiting) /\ queued' = queued
          /\ taken' = Append(taken, Head(waiting))
      BY <1>1, <2>4, <3>1 DEF Process, Erased
    <3>3. /\ Head(waiting) \in ToSet(waiting) /\ Head(waiting) \in Caller
          /\ waiting' \in Seq(Caller) /\ IsInjective(waiting')
          /\ ToSet(waiting') = ToSet(waiting) \ {Head(waiting)}
      BY <3>1, <3>2, HeadTaken DEF Accounted
    <3>4. Head(waiting) \notin ToSet(taken) \cup handed \cup lost
      BY <3>3 DEF Accounted
    <3>5. /\ taken' \in Seq(Caller) /\ IsInjective(taken')
          /\ ToSet(taken') = ToSet(taken) \cup {Head(waiting)}
      BY <3>2, <3>3, <3>4, Appended DEF Accounted
    <3>. QED
      BY <2>2, <3>2, <3>3, <3>4, <3>5 DEF Accounted
  <2>5. CASE ~Queues(q) /\ ~Takes(q)
    <3>1. UNCHANGED <<waiting, queued, taken>>
      BY <1>1, <2>5 DEF Process
    <3>. QED
      BY <2>2, <3>1 DEF Accounted
  <2>. QED
    BY <2>3, <2>4, <2>5
<1>2. CASE HandOver \/ Abort
  <2>1. /\ waiting' = <<>> /\ UNCHANGED <<queued, taken>>
        /\ \/ handed' = handed \cup ToSet(waiting) /\ lost' = lost
           \/ lost' = lost \cup ToSet(waiting) /\ handed' = handed
    BY <1>2 DEF HandOver, Abort
  <2>2. ToSet(waiting') = {} /\ IsInjective(waiting') /\ waiting' \in Seq(Caller)
    BY <2>1, EmptySequence
  <2>3. ToSet(waiting) \subseteq Caller
    BY DEF ToSet
  <2>. QED
    BY <2>1, <2>2, <2>3 DEF Accounted
<1>3. CASE UNCHANGED queueVars
  <2>1. UNCHANGED <<waiting, queued, taken, handed, lost>>
    BY <1>3
  <2>. QED
    BY <2>1 DEF Accounted
<1>4. CASE \/ \E c \in Caller, m \in Method, allowed, reached \in BOOLEAN :
                MakeCall(c, m, allowed, reached)
           \/ \E c \in Caller : Release(c) \/ Receive(c) \/ Break(c)
           \/ Restart \/ UNCHANGED unaryVars
  <2>1. UNCHANGED queueVars
    BY <1>4 DEF MakeCall, Release, Receive, Break, Restart, unaryVars
  <2>. QED
    BY <1>3, <2>1
<1>. QED
  BY <1>1, <1>2, <1>4 DEF UnaryStep

(* A request is answered by an answer, a caller calls once. *)
LEMMA CallSteps ==
  ASSUME UnaryStep, QueueTyped, CallsTyped, CalledOnce
  PROVE  CallsTyped' /\ CalledOnce'
<1>. USE DEF queueVars, serverVars, callVars
<1>1. ASSUME NEW c \in Caller, NEW m \in Method,
             NEW allowed \in BOOLEAN, NEW reached \in BOOLEAN,
             MakeCall(c, m, allowed, reached)
      PROVE  CallsTyped' /\ CalledOnce'
  <2>. DEFINE r == [caller |-> c, method |-> m, allowed |-> allowed]
  <2>1. r \in Request /\ r.caller = c
    BY DEF Request
  <2>. HIDE DEF r
  <2>2. /\ call[c] = "none" /\ call' = [call EXCEPT ![c] = "open"]
        /\ arrived' = arrived \cup {r} \/ arrived' = arrived
        /\ UNCHANGED <<queued, finishing, answer>>
    BY <1>1 DEF MakeCall, r
  <2>3. /\ call' \in [Caller -> CallState] /\ call'[c] = "open"
        /\ \A d \in Caller : d # c => call'[d] = call[d]
    BY <2>2 DEF CallsTyped, CallState
  <2>4. c \notin queued /\ \A q \in arrived : q.caller # c /\ q.caller \in Caller
    BY <2>2 DEF CalledOnce, CallsTyped, Request
  <2>5. CallsTyped'
    BY <2>1, <2>2, <2>3 DEF CallsTyped
  <2>6. CalledOnce'
    BY <2>1, <2>2, <2>3, <2>4 DEF CalledOnce, QueueTyped
  <2>. QED
    BY <2>5, <2>6
<1>2. ASSUME NEW q \in arrived, Process(q) PROVE CallsTyped' /\ CalledOnce'
  <2>1. q.caller \in Caller /\ q.method \in Method
    BY DEF CallsTyped, Request
  <2>2. (IF q.allowed THEN Granted(q) ELSE Refused) \in Answer
    <3>1. Refused \in Answer
      BY DEF Refused, Answer
    <3>2. Count(1) \in Answer
      BY DEF Count, Answer
    <3>3. Len(waiting) \in Nat
      BY DEF QueueTyped
    <3>4. Count(Len(waiting)) \in Answer
      BY <3>3 DEF Count, Answer
    <3>5. (IF waiting = <<>> THEN <<>> ELSE <<Head(waiting)>>) \in Seq(Caller)
      BY DEF QueueTyped
    <3>6. FirstOf(waiting) \in Answer
      BY <3>5 DEF FirstOf, Answer
    <3>. QED
      BY <2>1, <3>1, <3>2, <3>4, <3>6 DEF Granted, Method
  <2>3. /\ arrived' = arrived \ {q} /\ finishing' = finishing \cup {q.caller}
        /\ answer' = [answer EXCEPT ![q.caller] =
                        IF q.allowed THEN Granted(q) ELSE Refused]
        /\ call' = call
    BY <1>2 DEF Process
  <2>4. queued' \subseteq queued \cup {q.caller}
    BY <1>2 DEF Process
  <2>5. CallsTyped'
    <3>1. answer' \in [Caller -> Answer]
      BY <2>1, <2>2, <2>3 DEF CallsTyped
    <3>. QED
      BY <2>1, <2>3, <3>1 DEF CallsTyped
  <2>6. CalledOnce'
    BY <2>1, <2>3, <2>4 DEF CalledOnce
  <2>. QED
    BY <2>5, <2>6
<1>3. ASSUME NEW c \in Caller, Release(c) \/ Receive(c) \/ Break(c)
      PROVE  CallsTyped' /\ CalledOnce'
  <2>1. /\ UNCHANGED <<answer, queued>>
        /\ arrived' \subseteq arrived /\ finishing' \subseteq finishing
        /\ \/ call' = call
           \/ call' = [call EXCEPT ![c] = "answered"]
           \/ call' = [call EXCEPT ![c] = "failed"]
    BY <1>3 DEF Release, Receive, Break
  <2>2. /\ call' \in [Caller -> CallState]
        /\ \A d \in Caller : call[d] # "none" => call'[d] # "none"
    BY <2>1 DEF CallsTyped, CallState
  <2>3. \A q \in arrived : q.caller \in Caller
    BY DEF CallsTyped, Request
  <2>. QED
    BY <2>1, <2>2, <2>3 DEF CallsTyped, CalledOnce, QueueTyped
<1>4. CASE Abort \/ HandOver \/ Restart \/ UNCHANGED unaryVars
  <2>1. /\ UNCHANGED <<answer, call, queued>>
        /\ arrived' \subseteq arrived /\ finishing' \subseteq finishing
    BY <1>4 DEF Abort, HandOver, Restart, unaryVars
  <2>. QED
    BY <2>1 DEF CallsTyped, CalledOnce
<1>. QED
  BY <1>1, <1>2, <1>3, <1>4 DEF UnaryStep

(***************************************************************************)
(* Each handler creates its successor: each method has exactly one object  *)
(* that waits for a request, and no call waits or is being finished for a  *)
(* server that is down.                                                    *)
(***************************************************************************)
AlwaysArmed ==
  /\ \A m \in Method : handlers[m] = IF up THEN 1 ELSE 0
  /\ ~up => waiting = <<>> /\ arrived = {} /\ finishing = {}

(* No step changes that. *)
LEMMA ArmedSteps ==
  ASSUME UnaryStep, up \in BOOLEAN, CallsTyped, HandlersTyped, AlwaysArmed
  PROVE  up' \in BOOLEAN /\ HandlersTyped' /\ AlwaysArmed'
<1>. USE DEF HandlersTyped, AlwaysArmed
<1>1. ASSUME NEW q \in arrived, Process(q)
      PROVE  up' \in BOOLEAN /\ HandlersTyped' /\ AlwaysArmed'
  <2>1. up /\ q.method \in Method /\ UNCHANGED <<up, aborts>>
    BY <1>1 DEF Process, CallsTyped, Request
  <2>2. handlers' = handlers
    BY <1>1, <2>1 DEF Process, Successor
  <2>. QED
    BY <2>1, <2>2
<1>2. CASE Abort
  <2>1. /\ up' = FALSE /\ aborts' = aborts + 1 /\ waiting' = <<>>
        /\ arrived' = {} /\ finishing' = {}
    BY <1>2 DEF Abort
  <2>2. handlers' = [m \in Method |-> 0]
    BY <1>2 DEF Abort
  <2>3. aborts' \in Nat
    BY <2>1
  <2>4. handlers' \in [Method -> Nat] /\ \A m \in Method : handlers'[m] = 0
    BY <2>2
  <2>5. up' \in BOOLEAN /\ ~up'
    BY <2>1
  <2>. QED
    BY <2>1, <2>3, <2>4, <2>5
<1>3. CASE Restart
  BY <1>3 DEF Restart, queueVars
<1>4. CASE HandOver
  BY <1>4 DEF HandOver, serverVars
<1>5. ASSUME NEW c \in Caller, NEW m \in Method,
             NEW allowed \in BOOLEAN, NEW reached \in BOOLEAN,
             MakeCall(c, m, allowed, reached)
      PROVE  up' \in BOOLEAN /\ HandlersTyped' /\ AlwaysArmed'
  <2>1. UNCHANGED <<up, aborts, handlers, waiting, finishing>>
    BY <1>5 DEF MakeCall, queueVars
  <2>2. ~up => arrived' = arrived
    BY <1>5 DEF MakeCall
  <2>. QED
    BY <2>1, <2>2
<1>6. ASSUME NEW c \in Caller, Release(c) \/ Receive(c) \/ Break(c)
      PROVE  up' \in BOOLEAN /\ HandlersTyped' /\ AlwaysArmed'
  <2>1. UNCHANGED <<up, aborts, handlers, waiting>> /\ arrived' \subseteq arrived
    BY <1>6 DEF Release, Receive, Break, queueVars, serverVars
  <2>2. ~up => finishing' = finishing
    BY <1>6 DEF Release, Receive, Break, serverVars
  <2>. QED
    BY <2>1, <2>2
<1>7. CASE UNCHANGED unaryVars
  BY <1>7 DEF unaryVars, queueVars, serverVars
<1>. QED
  BY <1>1, <1>2, <1>3, <1>4, <1>5, <1>6, <1>7 DEF UnaryStep

UnaryInv == UnaryTypeOK /\ AlwaysArmed /\ CalledOnce /\ Accounted

LEMMA UnaryInvariant == Spec => []UnaryInv
<1>1. Init => UnaryInv
  <2>. SUFFICES ASSUME Init PROVE UnaryInv
    OBVIOUS
  <2>. USE DEF Init, UnaryInit
  <2>1. up \in BOOLEAN /\ QueueTyped /\ HandlersTyped
    BY DEF QueueTyped, HandlersTyped
  <2>2. NoAnswer \in Answer
    BY DEF NoAnswer, Answer
  <2>3. CallsTyped
    BY <2>2 DEF CallsTyped, CallState
  <2>4. UnaryTypeOK
    BY <2>1, <2>3, TypeParts
  <2>5. AlwaysArmed /\ CalledOnce
    BY DEF AlwaysArmed, CalledOnce
  <2>6. Accounted
    BY EmptySequence DEF Accounted
  <2>. QED
    BY <2>4, <2>5, <2>6 DEF UnaryInv
<1>2. UnaryInv /\ [Next]_vars => UnaryInv'
  <2>. SUFFICES ASSUME UnaryInv, [Next]_vars PROVE UnaryInv'
    OBVIOUS
  <2>1. up \in BOOLEAN /\ QueueTyped /\ CallsTyped /\ HandlersTyped
    BY TypeParts DEF UnaryInv
  <2>2. UnaryStep /\ AlwaysArmed /\ CalledOnce /\ Accounted
    BY Restricted DEF UnaryInv
  <2>3. QueueTyped' /\ Accounted'
    BY <2>1, <2>2, QueueSteps
  <2>4. CallsTyped' /\ CalledOnce'
    BY <2>1, <2>2, CallSteps
  <2>5. up' \in BOOLEAN /\ HandlersTyped' /\ AlwaysArmed'
    BY <2>1, <2>2, ArmedSteps
  <2>6. UnaryTypeOK'
    BY <2>3, <2>4, <2>5 DEF UnaryTypeOK, QueueTyped, CallsTyped, HandlersTyped
  <2>. QED
    BY <2>3, <2>4, <2>5, <2>6 DEF UnaryInv
<1>. QED
  BY <1>1, <1>2, PTL DEF Spec

(***************************************************************************)
(* Whatever the callers, their connections and the aborts of the server,   *)
(* each SMS that was queued is in one place, and once.                     *)
(***************************************************************************)
THEOREM SmsAccounted == Spec => []Accounted
<1>1. UnaryInv => Accounted
  BY DEF UnaryInv
<1>. QED
  BY <1>1, UnaryInvariant, PTL
=============================================================================
