----------------------------- MODULE RoundRobin -----------------------------
(***************************************************************************)
(* How fair NP_ROUND_ROBIN is: the registry of ListenSMS driven by phones  *)
(* that come and go and by batches that arrive, with a record of who was   *)
(* chosen while whom waited.  The record is history, no step depends on    *)
(* it.  An address can be registered again after rm(), as the heap hands   *)
(* out the memory of a deleted ListenData once more.                       *)
(***************************************************************************)
EXTENDS ListenSMS

CONSTANT MaxLeaves   \* bound: phones that leave

ASSUME RoundRobinAssumption == MaxLeaves \in Nat

VARIABLES
  leaves,      \* phones that left so far
  passed,      \* passed[p]: listeners chosen since p was chosen or came
  overtaken,   \* overtaken[p]: listeners chosen twice in that time
  disturbed    \* disturbed[p]: the last chosen listener left in that time

turnVars == <<registryVars, leaves, passed, overtaken, disturbed>>

TurnTypeOK ==
  /\ RegistryTypeOK
  /\ leaves \in 0..MaxLeaves
  /\ passed \in [Addr -> SUBSET Addr]
  /\ overtaken \in [Addr -> SUBSET Addr]
  /\ disturbed \in [Addr -> BOOLEAN]

TurnInit ==
  /\ RegistryInit
  /\ leaves = 0
  /\ passed = [p \in Addr |-> {}]
  /\ overtaken = [p \in Addr |-> {}]
  /\ disturbed = [p \in Addr |-> FALSE]

(* A phone calls and its listener is put() at the end. *)
Join(p) ==
  /\ p \notin Registered
  /\ Put(p)
  /\ passed' = [passed EXCEPT ![p] = {}]
  /\ overtaken' = [overtaken EXCEPT ![p] = {}]
  /\ disturbed' = [disturbed EXCEPT ![p] = FALSE]
  /\ UNCHANGED <<lastResponder, policy, leaves>>

(* A phone hung up and its listener is removed by rm(). *)
Leave(p) ==
  /\ p \in Registered
  /\ leaves < MaxLeaves
  /\ leaves' = leaves + 1
  /\ Rm(p)
  /\ passed' = [q \in Addr |-> passed[q] \ {p}]
  /\ overtaken' = [q \in Addr |-> overtaken[q] \ {p}]
  /\ disturbed' = [q \in Addr |-> disturbed[q] \/ p = lastResponder]
  /\ UNCHANGED <<lastResponder, policy>>

(* A batch arrives and enqueue() chooses the listener that gets it.  Under *)
(* NP_ALL there is no turn to take.                                        *)
Enqueue ==
  /\ ~NotifyAll
  /\ listenResponders # <<>>
  /\ Choose
  /\ LET c == NextResponder
     IN /\ passed' = [q \in Addr |-> IF q = c THEN {} ELSE passed[q] \cup {c}]
        /\ overtaken' = [q \in Addr |-> IF q = c THEN {} ELSE
                           overtaken[q] \cup (passed[q] \cap {c})]
        /\ disturbed' = [disturbed EXCEPT ![c] = FALSE]
  /\ UNCHANGED <<listenResponders, policy, leaves>>

TurnNext == Enqueue \/ \E p \in Addr : Join(p) \/ Leave(p)

TurnSpec == TurnInit /\ [][TurnNext]_turnVars

(* Batches keep arriving. *)
TurnFairSpec == TurnSpec /\ WF_turnVars(Enqueue)

-----------------------------------------------------------------------------
(***************************************************************************)
(* Nobody is chosen twice while a connected phone waits for its turn,      *)
(* unless the phone chosen last hung up in between: lastResponder is then  *)
(* not found and enqueue() starts over at the first one.                   *)
(***************************************************************************)
InTurn == \A p \in Registered : overtaken[p] # {} => disturbed[p]

(* The README: "Phones are selected in turn one by one." *)
StrictTurn == \A p \in Registered : overtaken[p] = {}

(***************************************************************************)
(* A connected phone that others went before is chosen itself in the end,  *)
(* once the phones stop leaving (MaxLeaves).  Without that bound phones    *)
(* that hang up and come back join at the end of the vector and can take   *)
(* every turn for ever.                                                    *)
(***************************************************************************)
Served ==
  \A p \in Addr :
    p \in Registered /\ passed[p] # {} ~> passed[p] = {} \/ p \notin Registered
=============================================================================
