------------------------------ MODULE SmsTurns ------------------------------
(***************************************************************************)
(* The server of SmsServiceFifo together with RoundRobin, over the one     *)
(* registry of ListenSMS.  RoundRobin lets phones come and go and batches  *)
(* arrive as they like; here put(), rm() and enqueue() are called by the   *)
(* handlers of the server, whatever else goes on in between, and its       *)
(* record is read off what they do to the registry and to the queues of    *)
(* the listeners.  No step depends on the record.                          *)
(***************************************************************************)
EXTENDS SmsServiceFifo, RoundRobin

ASSUME SmsTurnsAssumption == MaxCalls <= MaxLeaves

recordVars == <<leaves, passed, overtaken, disturbed>>

TurnsInit == FifoInit /\ TurnInit

Came == Registered' \ Registered
Gone == Registered \ Registered'

(* The listeners that a step hands SMS to, when not all are to get them *)
HandedTo ==
  IF NotifyAll THEN {}
  ELSE {a \in Addr : Len(result'[a]) > Len(result[a])}

Record ==
  /\ leaves' = IF Gone = {} THEN leaves ELSE leaves + 1
  /\ passed' = [q \in Addr |-> IF q \in Came \cup HandedTo THEN {} ELSE
                  (passed[q] \ Gone) \cup HandedTo]
  /\ overtaken' = [q \in Addr |-> IF q \in Came \cup HandedTo THEN {} ELSE
                     (overtaken[q] \ Gone) \cup (passed[q] \cap HandedTo)]
  /\ disturbed' = [q \in Addr |-> IF q \in Came \cup HandedTo THEN FALSE ELSE
                     disturbed[q] \/ lastResponder \in Gone]

TurnsNext == FifoNext /\ Record

TurnsSpec == TurnsInit /\ [][TurnsNext]_<<fifoVars, recordVars>>

-----------------------------------------------------------------------------
(***************************************************************************)
(* The handlers use the registry as RoundRobin has it: put() only for a    *)
(* listener that is not registered, rm(), whose result nobody looks at,    *)
(* only for one that is, and a turn is used up by the listener that is     *)
(* handed the batch and by nothing else.                                   *)
(***************************************************************************)
ImplementsRoundRobin == TurnSpec

(***************************************************************************)
(* While a connected phone waits, nobody is handed two batches of SMS,     *)
(* unless the phone that was handed the last one hung up in between: what  *)
(* InTurn says of the choice, with the record of SmsTurns.                 *)
(***************************************************************************)
HandedInTurn == InTurn
=============================================================================
