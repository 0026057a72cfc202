-------------------------- MODULE RoundRobinProofs --------------------------
(***************************************************************************)
(* Proof that the turn among phones is fair, for any number of them: while *)
(* the listener chosen last stays, those that were chosen since p was lie  *)
(* between p and the last one, going round the vector, and the next one    *)
(* lies behind them.                                                       *)
(***************************************************************************)
EXTENDS RoundRobin, ListenSMSProofs

(* a stands before b in the vector s. *)
Before(s, a, b) == \E i, j \in DOMAIN s : i < j /\ s[i] = a /\ s[j] = b

UpTo(s, a, b) == (a = b /\ a \in ToSet(s)) \/ Before(s, a, b)

(* Going round s from p, not counting p, one comes past q and then to l. *)
Within(s, p, q, l) ==
  \/ Before(s, p, q) /\ UpTo(s, q, l)
  \/ UpTo(s, q, l) /\ Before(s, l, p)
  \/ Before(s, l, p) /\ Before(s, p, q)

LEMMA Positions ==
  ASSUME NEW S, NEW s \in Seq(S), NEW a, NEW b, IsInjective(s)
  PROVE  /\ a \in ToSet(s) <=> \E i \in DOMAIN s : s[i] = a
         /\ \A i, j \in DOMAIN s : s[i] = a /\ s[j] = b =>
              /\ Before(s, a, b) <=> i < j
              /\ UpTo(s, a, b) <=> i <= j
<1>1. ASSUME NEW i \in DOMAIN s, NEW j \in DOMAIN s, s[i] = a, s[j] = b
      PROVE  (Before(s, a, b) <=> i < j) /\ (UpTo(s, a, b) <=> i <= j)
  <2>1. \A n \in DOMAIN s : (s[n] = a => n = i) /\ (s[n] = b => n = j)
    BY <1>1 DEF IsInjective
  <2>2. Before(s, a, b) <=> i < j
    BY <1>1, <2>1 DEF Before
  <2>3. a \in ToSet(s) /\ (a = b <=> i = j)
    BY <1>1, <2>1 DEF ToSet
  <2>4. i \in Nat /\ j \in Nat
    OBVIOUS
  <2>. QED
    BY <2>2, <2>3, <2>4 DEF UpTo
<1>. QED
  BY <1>1 DEF ToSet

(* All three are in the vector. *)
LEMMA WithinMembers ==
  ASSUME NEW S, NEW s \in Seq(S), NEW p, NEW q, NEW l, Within(s, p, q, l)
  PROVE  p \in ToSet(s) /\ q \in ToSet(s) /\ l \in ToSet(s)
<1>1. \A a, b : Before(s, a, b) => a \in ToSet(s) /\ b \in ToSet(s)
  BY DEF Before, ToSet
<1>2. \A a, b : UpTo(s, a, b) => a \in ToSet(s) /\ b \in ToSet(s)
  BY <1>1 DEF UpTo
<1>. QED
  BY <1>1, <1>2 DEF Within

-----------------------------------------------------------------------------
(* What put(), rm() and the choice do to the order                         *)

LEMMA PutKeepsOrder ==
  ASSUME NEW S, NEW s \in Seq(S), NEW e \in S, NEW p, NEW q, NEW l,
         Within(s, p, q, l)
  PROVE  Within(Append(s, e), p, q, l)
<1>. DEFINE t == Append(s, e)
<1>1. DOMAIN s \subseteq DOMAIN t /\ \A i \in DOMAIN s : t[i] = s[i]
  OBVIOUS
<1>. HIDE DEF t
<1>2. \A a, b : Before(s, a, b) => Before(t, a, b)
  BY <1>1 DEF Before
<1>3. \A a, b : UpTo(s, a, b) => UpTo(t, a, b)
  BY <1>1, <1>2 DEF UpTo, ToSet
<1>4. Within(t, p, q, l)
  BY <1>2, <1>3 DEF Within
<1>. QED
  BY <1>4 DEF t

LEMMA RmKeepsOrder ==
  ASSUME NEW S, NEW s \in Seq(S), NEW e, IsInjective(s), NEW p, NEW q, NEW l,
         Within(s, p, q, l), e # p, e # q, e # l
  PROVE  Within(RemoveFirst(s, e), p, q, l)
<1>1. CASE \E i \in 1..Len(s) : s[i] = e
  <2>. DEFINE r == RemoveFirst(s, e)
  <2>1. PICK k \in 1..Len(s) :
          /\ s[k] = e
          /\ r \in Seq(S) /\ Len(r) = Len(s) - 1
          /\ \A i \in 1..Len(s) - 1 : r[i] = s[IF i < k THEN i ELSE i + 1]
    BY <1>1, ErasedAt
  <2>2. ToSet(r) = ToSet(s) \ {e}
    BY RmExact
  <2>. HIDE DEF r
  <2>3. ASSUME NEW a, NEW b, a # e, b # e, Before(s, a, b)
        PROVE  Before(r, a, b)
    <3>1. PICK i \in DOMAIN s, j \in DOMAIN s : i < j /\ s[i] = a /\ s[j] = b
      BY <2>3 DEF Before
    <3>. DEFINE m == IF i < k THEN i ELSE i - 1
                n == IF j < k THEN j ELSE j - 1
    <3>2. i # k /\ j # k
      BY <2>1, <2>3, <3>1
    <3>3. m \in 1..Len(s) - 1 /\ n \in 1..Len(s) - 1 /\ m < n
      BY <3>1, <3>2
    <3>4. r[m] = a /\ r[n] = b
      <4>1. /\ (IF m < k THEN m ELSE m + 1) = i
            /\ (IF n < k THEN n ELSE n + 1) = j
        BY <3>2
      <4>2. /\ r[m] = s[IF m < k THEN m ELSE m + 1]
            /\ r[n] = s[IF n < k THEN n ELSE n + 1]
        BY <2>1, <3>3
      <4>. QED
        BY <3>1, <4>1, <4>2
    <3>5. DOMAIN r = 1..Len(s) - 1
      BY <2>1
    <3>. HIDE DEF m, n
    <3>. QED
      BY <3>3, <3>4, <3>5 DEF Before
  <2>4. ASSUME NEW a, NEW b, a # e, b # e, UpTo(s, a, b)
        PROVE  UpTo(r, a, b)
    BY <2>2, <2>3, <2>4 DEF UpTo
  <2>5. Within(r, p, q, l)
    BY <2>3, <2>4 DEF Within
  <2>. QED
    BY <2>5 DEF r
<1>2. CASE ~ \E i \in 1..Len(s) : s[i] = e
  <2>1. RemoveFirst(s, e) = s
    BY <1>2, Zenon DEF RemoveFirst
  <2>. QED
    BY <2>1
<1>. QED
  BY <1>1, <1>2

(* The position behind L, going round *)
LEMMA Following ==
  ASSUME NEW n \in Nat \ {0}, NEW L \in 1..n
  PROVE  (L % n) + 1 = IF L < n THEN L + 1 ELSE 1
OBVIOUS

(* The next one, unless it is p, is none of those between p and l. *)
LEMMA ChoiceGoesRound ==
  ASSUME NEW S, NEW s \in Seq(S), IsInjective(s), NEW p, NEW q, NEW l, NEW c,
         Within(s, p, q, l),
         NEW L \in 1..Len(s), s[L] = l, c = s[(L % Len(s)) + 1], c # p
  PROVE  q # c /\ Within(s, p, q, c)
<1>1. p \in ToSet(s) /\ q \in ToSet(s)
  BY WithinMembers
<1>2. PICK i \in DOMAIN s : s[i] = p
  BY <1>1 DEF ToSet
<1>3. PICK j \in DOMAIN s : s[j] = q
  BY <1>1 DEF ToSet
<1>. DEFINE n == IF L < Len(s) THEN L + 1 ELSE 1
<1>4. (L % Len(s)) + 1 = n
  <2>1. Len(s) \in Nat \ {0}
    OBVIOUS
  <2>. QED
    BY <2>1, Following
<1>5. n \in DOMAIN s /\ s[n] = c /\ L \in DOMAIN s
  BY <1>4
<1>6. n # i
  BY <1>2, <1>5
<1>7. (i < j /\ j <= L) \/ (j <= L /\ L < i) \/ (L < i /\ i < j)
  BY <1>2, <1>3, <1>5, Positions DEF Within
<1>8. i \in 1..Len(s) /\ j \in 1..Len(s) /\ Len(s) \in Nat
  OBVIOUS
<1>9. /\ j # n
      /\ (i < j /\ j <= n) \/ (j <= n /\ n < i) \/ (n < i /\ i < j)
  BY <1>6, <1>7, <1>8
<1>. HIDE DEF n
<1>10. q # c
  BY <1>3, <1>5, <1>9 DEF IsInjective
<1>11. Within(s, p, q, c)
  BY <1>2, <1>3, <1>5, <1>9, Positions DEF Within
<1>. QED
  BY <1>10, <1>11

LEMMA ChosenIsWithin ==
  ASSUME NEW S, NEW s \in Seq(S), IsInjective(s),
         NEW p \in ToSet(s), NEW c \in ToSet(s), c # p
  PROVE  Within(s, p, c, c)
<1>1. PICK i \in DOMAIN s : s[i] = p
  BY DEF ToSet
<1>2. PICK j \in DOMAIN s : s[j] = c
  BY DEF ToSet
<1>3. i # j /\ i \in Nat /\ j \in Nat
  BY <1>1, <1>2
<1>4. i < j \/ j < i
  BY <1>3
<1>. QED
  BY <1>1, <1>2, <1>3, <1>4, Positions DEF Within

-----------------------------------------------------------------------------
(* The invariant *)
InRound(p) ==
  ~disturbed[p] =>
    /\ overtaken[p] = {}
    /\ \A q \in passed[p] : Within(listenResponders, p, q, lastResponder)

RoundInv ==
  /\ TurnTypeOK
  /\ IsInjective(listenResponders)
  /\ \A p \in Registered : InRound(p)

LEMMA LastFound ==
  ASSUME RegistryTypeOK, lastResponder \in Registered
  PROVE  /\ LastIndex \in 1..Len(listenResponders)
         /\ listenResponders[LastIndex] = lastResponder
<1>1. \E i \in 1..Len(listenResponders) : listenResponders[i] = lastResponder
  BY DEF Registered, ToSet, RegistryTypeOK
<1>2. LastIndex = Position(listenResponders, lastResponder)
  BY Zenon DEF LastIndex, Position
<1>. QED
  BY <1>1, <1>2, FoundPosition DEF RegistryTypeOK

LEMMA JoinKeepsRound ==
  ASSUME RoundInv, NEW x \in Addr, Join(x)
  PROVE  RoundInv'
<1>. USE DEF RoundInv
<1>1. /\ x \notin Registered
      /\ listenResponders' = Append(listenResponders, x)
      /\ passed' = [passed EXCEPT ![x] = {}]
      /\ overtaken' = [overtaken EXCEPT ![x] = {}]
      /\ disturbed' = [disturbed EXCEPT ![x] = FALSE]
      /\ UNCHANGED <<lastResponder, policy, leaves>>
  BY DEF Join, Put
<1>2. listenResponders \in Seq(Addr)
  BY DEF TurnTypeOK, RegistryTypeOK
<1>3. /\ listenResponders' \in Seq(Addr) /\ Registered' = Registered \cup {x}
      /\ IsInjective(listenResponders')
  BY <1>1, <1>2, PutExact DEF Registered
<1>4. TurnTypeOK'
  BY <1>1, <1>3 DEF TurnTypeOK, RegistryTypeOK
<1>5. ASSUME NEW p \in Registered' PROVE InRound(p)'
  <2>1. CASE p = x
    <3>1. passed'[x] = {} /\ overtaken'[x] = {}
      BY <1>1 DEF TurnTypeOK
    <3>. QED
      BY <2>1, <3>1 DEF InRound
  <2>2. CASE p # x
    <3>1. p \in Registered
      BY <1>3, <2>2
    <3>2. p \in Addr
      BY <1>2, <3>1 DEF Registered, ToSet
    <3>3. /\ passed'[p] = passed[p] /\ overtaken'[p] = overtaken[p]
          /\ disturbed'[p] = disturbed[p]
      BY <1>1, <2>2, <3>2 DEF TurnTypeOK
    <3>4. \A q : Within(listenResponders, p, q, lastResponder)
                   => Within(listenResponders', p, q, lastResponder)
      BY <1>1, <1>2, PutKeepsOrder
    <3>. QED
      BY <1>1, <3>1, <3>3, <3>4 DEF InRound
  <2>. QED
    BY <2>1, <2>2
<1>. QED
  BY <1>3, <1>4, <1>5

LEMMA LeaveKeepsRound ==
  ASSUME RoundInv, NEW x \in Addr, Leave(x)
  PROVE  RoundInv'
<1>. USE DEF RoundInv
<1>1. /\ leaves < MaxLeaves /\ leaves' = leaves + 1
      /\ listenResponders' = RemoveFirst(listenResponders, x)
      /\ passed' = [q \in Addr |-> passed[q] \ {x}]
      /\ overtaken' = [q \in Addr |-> overtaken[q] \ {x}]
      /\ disturbed' = [q \in Addr |-> disturbed[q] \/ x = lastResponder]
      /\ UNCHANGED <<lastResponder, policy>>
  BY DEF Leave, Rm
<1>2. listenResponders \in Seq(Addr)
  BY DEF TurnTypeOK, RegistryTypeOK
<1>3. /\ listenResponders' \in Seq(Addr) /\ Registered' = Registered \ {x}
      /\ IsInjective(listenResponders')
  BY <1>1, <1>2, RmType, RmExact DEF Registered
<1>4. TurnTypeOK'
  <2>1. disturbed' \in [Addr -> BOOLEAN]
    BY <1>1
  <2>2. passed' \in [Addr -> SUBSET Addr] /\ overtaken' \in [Addr -> SUBSET Addr]
    BY <1>1 DEF TurnTypeOK
  <2>3. leaves' \in 0..MaxLeaves
    BY <1>1, RoundRobinAssumption DEF TurnTypeOK
  <2>4. RegistryTypeOK'
    BY <1>1, <1>3 DEF TurnTypeOK, RegistryTypeOK
  <2>. QED
    BY <2>1, <2>2, <2>3, <2>4 DEF TurnTypeOK
<1>5. ASSUME NEW p \in Registered', ~disturbed'[p]
      PROVE  /\ overtaken'[p] = {}
             /\ \A q \in passed'[p] :
                  Within(listenResponders', p, q, lastResponder')
  <2>1. p \in Registered /\ p \in Addr /\ p # x
    BY <1>2, <1>3 DEF Registered, ToSet
  <2>2. ~disturbed[p] /\ x # lastResponder
    BY <1>1, <1>5, <2>1
  <2>3. overtaken[p] = {} /\ overtaken'[p] = overtaken[p] \ {x}
    BY <1>1, <2>1, <2>2 DEF InRound
  <2>4. ASSUME NEW q \in passed'[p]
        PROVE  Within(listenResponders', p, q, lastResponder')
    <3>1. q \in passed[p] /\ q # x
      BY <1>1, <2>1
    <3>2. Within(listenResponders, p, q, lastResponder)
      BY <2>1, <2>2, <3>1 DEF InRound
    <3>. QED
      BY <1>1, <1>2, <2>1, <2>2, <3>1, <3>2, RmKeepsOrder
  <2>. QED
    BY <2>3, <2>4
<1>. QED
  BY <1>3, <1>4, <1>5 DEF InRound

LEMMA EnqueueKeepsRound ==
  ASSUME RoundInv, Enqueue
  PROVE  RoundInv'
<1>. USE DEF RoundInv
<1>. DEFINE c == NextResponder
<1>1. RegistryTypeOK /\ listenResponders # <<>> /\ ~NotifyAll
  BY RoundRobinAssumption DEF Enqueue, TurnTypeOK, RegistryTypeOK, NotifyAll
<1>2. c \in Registered /\ c \in Addr
  BY <1>1, NextResponderRegistered
<1>3. c = listenResponders[(LastIndex % Len(listenResponders)) + 1]
  BY DEF NextResponder
<1>. HIDE DEF c
<1>4. /\ lastResponder' = c
      /\ passed' = [q \in Addr |-> IF q = c THEN {} ELSE passed[q] \cup {c}]
      /\ overtaken' = [q \in Addr |-> IF q = c THEN {} ELSE
                         overtaken[q] \cup (passed[q] \cap {c})]
      /\ disturbed' = [disturbed EXCEPT ![c] = FALSE]
      /\ UNCHANGED <<listenResponders, policy, leaves>>
  BY <1>1 DEF Enqueue, Choose, c
<1>5. TurnTypeOK'
  BY <1>1, <1>2, <1>4 DEF TurnTypeOK, RegistryTypeOK
<1>6. ASSUME NEW p \in Registered, ~disturbed'[p]
      PROVE  /\ overtaken'[p] = {}
             /\ \A q \in passed'[p] : Within(listenResponders, p, q, c)
  <2>1. p \in Addr /\ listenResponders \in Seq(Addr)
    BY <1>1 DEF Registered, ToSet, RegistryTypeOK
  <2>2. CASE p = c
    BY <1>4, <2>1, <2>2
  <2>3. CASE p # c
    <3>1. ~disturbed[p]
      BY <1>4, <1>6, <2>1, <2>3 DEF TurnTypeOK
    <3>2. /\ overtaken[p] = {}
          /\ \A q \in passed[p] : Within(listenResponders, p, q, lastResponder)
      BY <3>1 DEF InRound
    <3>3. ASSUME NEW q \in passed[p]
          PROVE  q # c /\ Within(listenResponders, p, q, c)
      <4>1. lastResponder \in Registered
        BY <2>1, <3>2, WithinMembers DEF Registered
      <4>. QED
        BY <1>1, <1>3, <2>1, <2>3, <3>2, <4>1, LastFound, ChoiceGoesRound
    <3>4. Within(listenResponders, p, c, c)
      BY <1>2, <2>1, <2>3, ChosenIsWithin DEF Registered
    <3>5. /\ passed'[p] = passed[p] \cup {c}
          /\ overtaken'[p] = overtaken[p] \cup (passed[p] \cap {c})
      BY <1>4, <2>1, <2>3
    <3>. QED
      BY <3>2, <3>3, <3>4, <3>5
  <2>. QED
    BY <2>2, <2>3
<1>7. Registered' = Registered
  BY <1>4 DEF Registered
<1>. QED
  BY <1>4, <1>5, <1>6, <1>7 DEF InRound

LEMMA RoundInvariant == TurnSpec => []RoundInv
<1>1. TurnInit => RoundInv
  <2>. SUFFICES ASSUME TurnInit PROVE RoundInv
    OBVIOUS
  <2>1. TurnTypeOK
    BY RoundRobinAssumption DEF TurnInit, TurnTypeOK, RegistryInit, RegistryTypeOK
  <2>2. Registered = {} /\ IsInjective(listenResponders)
    BY DEF TurnInit, RegistryInit, Registered, ToSet, IsInjective
  <2>. QED
    BY <2>1, <2>2 DEF RoundInv
<1>2. RoundInv /\ [TurnNext]_turnVars => RoundInv'
  <2>. SUFFICES ASSUME RoundInv, [TurnNext]_turnVars PROVE RoundInv'
    OBVIOUS
  <2>1. CASE UNCHANGED turnVars
    BY <2>1 DEF turnVars, registryVars, RoundInv, TurnTypeOK, RegistryTypeOK, Registered,
       InRound
  <2>. QED
    BY <2>1, JoinKeepsRound, LeaveKeepsRound, EnqueueKeepsRound DEF TurnNext
<1>. QED
  BY <1>1, <1>2, PTL DEF TurnSpec

(* The registry and its history keep their types, leaves its bound. *)
THEOREM TurnTypeCorrect == TurnSpec => []TurnTypeOK
<1>1. RoundInv => TurnTypeOK
  BY DEF RoundInv
<1>. QED
  BY <1>1, RoundInvariant, PTL

(***************************************************************************)
(* With any number of phones that come and leave, no phone is chosen twice *)
(* while another waits, unless the phone chosen last hung up in between.   *)
(***************************************************************************)
THEOREM TurnsAreFair == TurnSpec => []InTurn
<1>1. RoundInv => InTurn
  BY DEF RoundInv, InRound, InTurn
<1>. QED
  BY <1>1, RoundInvariant, PTL
=============================================================================
