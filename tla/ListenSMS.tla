----------------------------- MODULE ListenSMS -----------------------------
(***************************************************************************)
(* The registry of connected phones (sms-listener.h, sms-listener.cpp):    *)
(* the vector of ListenData pointers and the pointer to the listener that  *)
(* was chosen last.  A ListenData is named by the heap address it lives    *)
(* at, because that is all the registry keeps of it: lastResponder is      *)
(* compared with the entries of the vector and outlives the object.        *)
(* Every operation holds mutexList from its first to its last line.        *)
(***************************************************************************)
EXTENDS Naturals, Sequences, SequencesExt

CONSTANTS
  Addr,       \* heap addresses at which a ListenData can be allocated
  NullPtr,    \* lastResponder before the first choice
  Policies    \* the NotifyPolicy values a configuration may ask for

ASSUME ListenSMSAssumption ==
  /\ Addr # {}
  /\ NullPtr \notin Addr
  /\ Policies # {} /\ Policies \subseteq {"NP_ROUND_ROBIN", "NP_ALL"}

VARIABLES
  listenResponders,   \* registered listeners, in the order of put()
  lastResponder,      \* the listener chosen last, maybe deleted since
  policy              \* set once, from the configuration

registryVars == <<listenResponders, lastResponder, policy>>

NotifyAll == policy = "NP_ALL"

RegistryTypeOK ==
  /\ listenResponders \in Seq(Addr)
  /\ lastResponder \in Addr \cup {NullPtr}
  /\ policy \in Policies

RegistryInit ==
  /\ listenResponders = <<>>
  /\ lastResponder = NullPtr
  /\ policy \in Policies

(* put(): push_back *)
Put(a) == listenResponders' = Append(listenResponders, a)

(* Faulty form of rm() that leaves the listener registered. *)
RmForgets(a) == listenResponders' = listenResponders

(* rm(): erase the first entry equal to the pointer, if there is one *)
Rm(a) == listenResponders' = RemoveFirst(listenResponders, a)

Registered == ToSet(listenResponders)

(* std::find over the vector; 0 stands for end() *)
LastIndex == SelectInSeq(listenResponders, LAMBDA p : p = lastResponder)

(* Faulty form of the choice that never moves past the first listener. *)
FirstResponder == listenResponders[1]

(***************************************************************************)
(* The phone whose turn it is: the one after lastResponder, the first one  *)
(* when lastResponder is null, is the last entry or is not found any more. *)
(***************************************************************************)
NextResponder == listenResponders[(LastIndex % Len(listenResponders)) + 1]

(* Faulty form: the turn moves on, but the first listener gets the batch. *)
AlwaysFirst ==
  IF listenResponders = <<>> THEN {} ELSE {listenResponders[1]}

(* The listeners whose enqueue() is called; enqueue() returns their number. *)
Recipients ==
  CASE listenResponders = <<>> -> {}
    [] listenResponders # <<>> /\ NotifyAll -> Registered
    [] OTHER -> {NextResponder}

(* Faulty form: remember the position of the choice, not the listener. *)
ChooseIndex == lastResponder' = LastIndex

(* The update of lastResponder by enqueue(): only NP_ROUND_ROBIN makes one. *)
Choose ==
  lastResponder' = IF NotifyAll \/ listenResponders = <<>>
                   THEN lastResponder ELSE NextResponder
=============================================================================
