-------------------------- MODULE ListenSMSProofs --------------------------
(***************************************************************************)
(* Facts about the registry of ListenSMS that hold for every heap and      *)
(* every number of phones: what std::find, rm() and the choice of the next *)
(* responder return.                                                       *)
(***************************************************************************)
EXTENDS ListenSMS, FiniteSetsExt, SequenceTheorems, WellFoundedInduction, TLAPS

(* A non-empty set of positions has a least one, so that Min is defined. *)
LEMMA LeastPosition ==
  ASSUME NEW S \in SUBSET Nat, S # {}
  PROVE  /\ Min(S) \in S
         /\ \A i \in S : Min(S) <= i
<1>. DEFINE Less == {ss \in Nat \X Nat : ss[1] < ss[2]}
<1>1. OpToRel(<, Nat) = Less
  BY Zenon DEF OpToRel
<1>2. IsWellFoundedOn(Less, Nat)
  BY <1>1, NatLessThanWellFounded, Zenon
<1>3. PICK x \in S : \A y \in S : <<y, x>> \notin Less
  BY <1>2, WFMin
<1>4. \A y \in S : x <= y
  <2>. SUFFICES ASSUME NEW y \in S, ~ (x <= y) PROVE FALSE
    OBVIOUS
  <2>1. y < x
    OBVIOUS
  <2>2. <<y, x>> \in Less
    BY <2>1
  <2>. QED
    BY <2>2, <1>3, Zenon
<1>. QED
  BY <1>4 DEF Min

(* std::find: the position of e in s, 0 when it is not there *)
Position(s, e) == SelectInSeq(s, LAMBDA v : v = e)

(* The position found holds the listener searched for. *)
LEMMA FoundPosition ==
  ASSUME NEW S, NEW s \in Seq(S), NEW e,
         \E i \in 1..Len(s) : s[i] = e
  PROVE  Position(s, e) \in 1..Len(s) /\ s[Position(s, e)] = e
<1>. DEFINE I == {i \in 1..Len(s) : s[i] = e}
<1>1. Position(s, e) = IF I # {} THEN Min(I) ELSE 0
  BY Zenon DEF Position, SelectInSeq
<1>2. I # {} /\ I \in SUBSET Nat
  OBVIOUS
<1>3. Min(I) \in I
  BY <1>2, LeastPosition
<1>. QED
  BY <1>1, <1>2, <1>3

(* The vector keeps its type when an entry is erased. *)
LEMMA RmType ==
  ASSUME NEW S, NEW s \in Seq(S), NEW e
  PROVE  RemoveFirst(s, e) \in Seq(S)
<1>1. CASE \E i \in 1..Len(s) : s[i] = e
  <2>. DEFINE k == Position(s, e)
  <2>1. k \in 1..Len(s)
    BY <1>1, FoundPosition
  <2>2. RemoveFirst(s, e) = SubSeq(s, 1, k - 1) \o SubSeq(s, k + 1, Len(s))
    BY <1>1, Zenon DEF RemoveFirst, RemoveAt, Position
  <2>. HIDE DEF k
  <2>. QED
    BY <2>1, <2>2
<1>2. CASE ~ \E i \in 1..Len(s) : s[i] = e
  BY <1>2, Zenon DEF RemoveFirst
<1>. QED
  BY <1>1, <1>2

(* erase() in rm() moves the entries behind the one it takes out. *)
LEMMA ErasedAt ==
  ASSUME NEW S, NEW s \in Seq(S), NEW e, \E i \in 1..Len(s) : s[i] = e
  PROVE  \E k \in 1..Len(s) :
           /\ s[k] = e
           /\ RemoveFirst(s, e) \in Seq(S)
           /\ Len(RemoveFirst(s, e)) = Len(s) - 1
           /\ \A i \in 1..Len(s) - 1 :
                RemoveFirst(s, e)[i] = s[IF i < k THEN i ELSE i + 1]
<1>. DEFINE k == Position(s, e)
            r == RemoveFirst(s, e)
<1>1. k \in 1..Len(s) /\ s[k] = e
  BY FoundPosition
<1>2. r = SubSeq(s, 1, k - 1) \o SubSeq(s, k + 1, Len(s))
  BY Zenon DEF RemoveFirst, RemoveAt, Position
<1>. HIDE DEF k, r
<1>3. /\ r \in Seq(S)
      /\ Len(r) = Len(s) - 1
      /\ \A i \in 1..Len(r) : r[i] = s[IF i < k THEN i ELSE i + 1]
  <2>. DEFINE u == SubSeq(s, 1, k - 1)
              v == SubSeq(s, k + 1, Len(s))
  <2>1. /\ u \in Seq(S) /\ Len(u) = k - 1
        /\ \A i \in 1..k - 1 : u[i] = s[i]
    BY <1>1
  <2>2. /\ v \in Seq(S) /\ Len(v) = Len(s) - k
        /\ \A i \in 1..Len(s) - k : v[i] = s[k + i]
    BY <1>1
  <2>. HIDE DEF u, v
  <2>3. r = u \o v
    BY <1>2 DEF u, v
  <2>4. /\ r \in Seq(S) /\ Len(r) = Len(u) + Len(v)
        /\ \A i \in 1..Len(u) + Len(v) :
             r[i] = IF i <= Len(u) THEN u[i] ELSE v[i - Len(u)]
    <3>1. u \in Seq(S) /\ v \in Seq(S)
      BY <2>1, <2>2
    <3>. QED
      BY <2>3, <3>1, ConcatProperties, Zenon
  <2>5. Len(r) = Len(s) - 1
    BY <1>1, <2>1, <2>2, <2>4
  <2>6. ASSUME NEW i \in 1..Len(r), i < k PROVE r[i] = s[i]
    BY <1>1, <2>1, <2>4, <2>6
  <2>7. ASSUME NEW i \in 1..Len(r), ~ i < k PROVE r[i] = s[i + 1]
    <3>1. i - (k - 1) \in 1..Len(s) - k /\ k + (i - (k - 1)) = i + 1
      BY <1>1, <2>5, <2>7
    <3>2. r[i] = v[i - (k - 1)]
      BY <1>1, <2>1, <2>4, <2>7
    <3>. QED
      BY <2>2, <3>1, <3>2
  <2>. QED
    BY <2>4, <2>5, <2>6, <2>7
<1>. QED
  BY <1>1, <1>3 DEF r

(* erase() in rm() takes the one entry out and leaves all others. *)
LEMMA RmExact ==
  ASSUME NEW S, NEW s \in Seq(S), NEW e, IsInjective(s)
  PROVE  /\ IsInjective(RemoveFirst(s, e))
         /\ ToSet(RemoveFirst(s, e)) = ToSet(s) \ {e}
<1>1. CASE \E i \in 1..Len(s) : s[i] = e
  <2>. DEFINE r == RemoveFirst(s, e)
  <2>1. PICK k \in 1..Len(s) :
          /\ s[k] = e
          /\ r \in Seq(S) /\ Len(r) = Len(s) - 1
          /\ \A i \in 1..Len(s) - 1 : r[i] = s[IF i < k THEN i ELSE i + 1]
    BY <1>1, ErasedAt
  <2>. HIDE DEF r
  <2>3. /\ r \in Seq(S)
        /\ Len(r) = Len(s) - 1
        /\ \A i \in 1..Len(r) : r[i] = s[IF i < k THEN i ELSE i + 1]
    BY <2>1
  <2>4. IsInjective(r)
    <3>1. ASSUME NEW i \in 1..Len(r), NEW j \in 1..Len(r), i < j
          PROVE  r[i] # r[j]
      <4>. DEFINE a == IF i < k THEN i ELSE i + 1
                  b == IF j < k THEN j ELSE j + 1
      <4>1. a \in 1..Len(s) /\ b \in 1..Len(s) /\ a # b
        BY <2>1, <2>3, <3>1
      <4>2. r[i] = s[a] /\ r[j] = s[b]
        BY <2>3
      <4>. HIDE DEF a, b
      <4>. QED
        BY <4>1, <4>2 DEF IsInjective
    <3>2. DOMAIN r = 1..Len(r) /\ Len(r) \in Nat
      BY <2>3
    <3>. QED
      BY <3>1, <3>2 DEF IsInjective
  <2>5. \A x \in ToSet(r) : x \in ToSet(s) /\ x # e
    BY <2>1, <2>3 DEF ToSet, IsInjective
  <2>6. ASSUME NEW x \in ToSet(s), x # e
        PROVE  x \in ToSet(r)
    <3>1. PICK i \in 1..Len(s) : s[i] = x
      BY DEF ToSet
    <3>2. CASE i < k
      BY <2>1, <2>3, <3>1, <3>2 DEF ToSet
    <3>3. CASE i > k
      <4>1. i - 1 \in 1..Len(r) /\ r[i - 1] = x
        BY <2>1, <2>3, <3>1, <3>3
      <4>. QED
        BY <4>1, <2>3 DEF ToSet
    <3>. QED
      BY <2>1, <2>6, <3>1, <3>2, <3>3
  <2>7. ToSet(r) = ToSet(s) \ {e}
    BY <2>5, <2>6
  <2>. QED
    BY <2>4, <2>7 DEF r
<1>2. CASE ~ \E i \in 1..Len(s) : s[i] = e
  <2>1. RemoveFirst(s, e) = s
    BY <1>2, Zenon DEF RemoveFirst
  <2>2. e \notin ToSet(s)
    BY <1>2 DEF ToSet
  <2>. QED
    BY <2>1, <2>2
<1>. QED
  BY <1>1, <1>2

(* push_back() of put() adds a listener that was not in the vector. *)
LEMMA PutExact ==
  ASSUME NEW S, NEW s \in Seq(S), NEW e \in S
  PROVE  /\ Append(s, e) \in Seq(S)
         /\ ToSet(Append(s, e)) = ToSet(s) \cup {e}
         /\ IsInjective(s) /\ e \notin ToSet(s) => IsInjective(Append(s, e))
<1>. DEFINE r == Append(s, e)
<1>1. /\ r \in Seq(S)
      /\ Len(r) = Len(s) + 1
      /\ \A i \in 1..Len(r) : r[i] = IF i = Len(s) + 1 THEN e ELSE s[i]
  OBVIOUS
<1>. HIDE DEF r
<1>2. \A x \in ToSet(s) : x \in ToSet(r)
  BY <1>1 DEF ToSet
<1>3. e \in ToSet(r)
  <2>1. Len(s) + 1 \in 1..Len(r) /\ r[Len(s) + 1] = e
    BY <1>1
  <2>. QED
    BY <2>1, <1>1 DEF ToSet
<1>4. \A x \in ToSet(r) : x \in ToSet(s) \cup {e}
  BY <1>1 DEF ToSet
<1>5. IsInjective(s) /\ e \notin ToSet(s) => IsInjective(r)
  BY <1>1 DEF ToSet, IsInjective
<1>. QED
  BY <1>1, <1>2, <1>3, <1>4, <1>5 DEF r

-----------------------------------------------------------------------------
(* enqueue() with a phone connected finds one, and it is registered. *)
LEMMA NextResponderRegistered ==
  ASSUME RegistryTypeOK, listenResponders # <<>>
  PROVE  NextResponder \in Registered /\ NextResponder \in Addr
<1>. DEFINE n == Len(listenResponders)
<1>1. n \in Nat \ {0}
  BY DEF RegistryTypeOK
<1>2. LastIndex \in Nat
  <2>1. CASE \E i \in 1..n : listenResponders[i] = lastResponder
    <3>1. LastIndex = Position(listenResponders, lastResponder)
      BY Zenon DEF LastIndex, Position
    <3>. QED
      BY <2>1, <3>1, FoundPosition DEF RegistryTypeOK
  <2>2. CASE ~ \E i \in 1..n : listenResponders[i] = lastResponder
    <3>1. {i \in 1..n : listenResponders[i] = lastResponder} = {}
      BY <2>2
    <3>2. LastIndex = 0
      BY <3>1, Zenon DEF LastIndex, SelectInSeq
    <3>. QED
      BY <3>2
  <2>. QED
    BY <2>1, <2>2
<1>3. (LastIndex % n) + 1 \in 1..n
  BY <1>1, <1>2
<1>. QED
  BY <1>3 DEF NextResponder, Registered, ToSet, RegistryTypeOK

(* A batch goes to registered listeners only, and to one if there is any. *)
LEMMA RecipientsRegistered ==
  ASSUME RegistryTypeOK
  PROVE  /\ Recipients \subseteq Registered
         /\ Registered \subseteq Addr
         /\ Recipients = {} <=> listenResponders = <<>>
<1>1. Registered \subseteq Addr
  BY DEF Registered, ToSet, RegistryTypeOK
<1>2. CASE listenResponders = <<>>
  BY <1>1, <1>2 DEF Recipients
<1>3. CASE listenResponders # <<>>
  <2>1. NextResponder \in Registered
    BY <1>3, NextResponderRegistered
  <2>2. Recipients = IF NotifyAll THEN Registered ELSE {NextResponder}
    BY <1>3, ListenSMSAssumption DEF Recipients
  <2>. QED
    BY <1>1, <1>3, <2>1, <2>2
<1>. QED
  BY <1>2, <1>3
=============================================================================
