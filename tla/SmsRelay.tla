------------------------------ MODULE SmsRelay ------------------------------
(***************************************************************************)
(* What the server promises the programs that send SMS and the phones      *)
(* (pc2sms.proto), with no completion, alarm or handler object in sight:   *)
(* SMS are queued, handed to connected phones, to one of them or to all,   *)
(* and sent to each in the order they came.  A phone is dropped only with  *)
(* nothing left to send to it.                                             *)
(***************************************************************************)
EXTENDS Naturals, Sequences

CONSTANT Phone   \* streams a phone can be connected by

VARIABLES
  toAll,       \* does an SMS go to all connected phones, or to one? (fixed)
  queued,      \* SMS accepted so far; the n-th one is the number n
  waiting,     \* SMS that wait for a phone
  connected,   \* phones that listen
  outbox,      \* SMS handed to a phone, still to be sent to it
  sent         \* SMS sent by the present connection of a phone

relayVars == <<toAll, queued, waiting, connected, outbox, sent>>

Init ==
  /\ toAll \in BOOLEAN
  /\ queued = 0
  /\ waiting = <<>>
  /\ connected = {}
  /\ outbox = [p \in Phone |-> <<>>]
  /\ sent = [p \in Phone |-> <<>>]

(* A program asks for an SMS to be sent. *)
Submit ==
  /\ queued' = queued + 1
  /\ waiting' = Append(waiting, queued')
  /\ UNCHANGED <<toAll, connected, outbox, sent>>

(* A program takes the oldest SMS back. *)
TakeBack ==
  /\ waiting # <<>>
  /\ waiting' = Tail(waiting)
  /\ UNCHANGED <<toAll, queued, connected, outbox, sent>>

(* All SMS that wait go to the phones of R. *)
Dispatch(R) ==
  /\ waiting # <<>>
  /\ R # {}
  /\ IF toAll THEN R = connected ELSE \E p \in connected : R = {p}
  /\ waiting' = <<>>
  /\ outbox' = [p \in Phone |-> IF p \in R THEN outbox[p] \o waiting
                                ELSE outbox[p]]
  /\ UNCHANGED <<toAll, queued, connected, sent>>

Connect(p) ==
  /\ p \notin connected
  /\ connected' = connected \cup {p}
  /\ UNCHANGED <<toAll, queued, waiting, outbox, sent>>

Send(p) ==
  /\ p \in connected
  /\ outbox[p] # <<>>
  /\ sent' = [sent EXCEPT ![p] = Append(@, Head(outbox[p]))]
  /\ outbox' = [outbox EXCEPT ![p] = Tail(@)]
  /\ UNCHANGED <<toAll, queued, waiting, connected>>

Disconnect(p) ==
  /\ p \in connected
  /\ outbox[p] = <<>>
  /\ connected' = connected \ {p}
  /\ UNCHANGED <<toAll, queued, waiting, outbox, sent>>

(* The connection of a phone is forgotten after it was dropped. *)
Forget(p) ==
  /\ p \notin connected
  /\ sent' = [sent EXCEPT ![p] = <<>>]
  /\ UNCHANGED <<toAll, queued, waiting, connected, outbox>>

Next ==
  \/ Submit
  \/ TakeBack
  \/ \E R \in SUBSET Phone : Dispatch(R)
  \/ \E p \in Phone : Connect(p) \/ Send(p) \/ Disconnect(p) \/ Forget(p)

Spec == Init /\ [][Next]_relayVars
=============================================================================
