------------------------------ MODULE SmsQueue ------------------------------
(***************************************************************************)
(* What the three calls with one answer promise a program that makes one   *)
(* (pc2sms.proto): between the call and its answer there is one moment at  *)
(* which it takes effect on the queue of SMS, with the credentials and for *)
(* the method the program chose, and it takes effect once at most.  What   *)
(* the program learns is the effect, or nothing: then the call may have    *)
(* taken effect, may still take it, or never will.  SMS leave the queue    *)
(* for a program or for the phones, and are lost only when the server ends *)
(* with them in it.                                                        *)
(***************************************************************************)
EXTENDS Naturals, Sequences, SequencesExt

CONSTANT Caller

VARIABLES
  up,        \* does the server run?
  waiting,   \* the SMS in the queue, each named by the program that sent it
  handed,    \* the SMS that went to the phones
  lost,      \* the SMS that were in the queue when the server ended
  asked,     \* what a program asked for, and if it may
  effect,    \* what the call of a program did
  seen       \* how the call stands for the program

serverVars == <<up, handed, lost>>
queueVars == <<waiting, serverVars, asked, effect, seen>>

Nothing == [method |-> "none", allowed |-> FALSE]

Wish == [method : {"requestToSend", "countSMSToSend", "lastSMSToSend"},
         allowed : BOOLEAN]

Effect(kind, n, sms) == [kind |-> kind, n |-> n, sms |-> sms]

NoEffect == Effect("none", 0, <<>>)

Init ==
  /\ up = TRUE
  /\ waiting = <<>> /\ handed = {} /\ lost = {}
  /\ asked = [c \in Caller |-> Nothing]
  /\ effect = [c \in Caller |-> NoEffect]
  /\ seen = [c \in Caller |-> "none"]

Ask(c) ==
  /\ seen[c] = "none"
  /\ \E w \in Wish : asked' = [asked EXCEPT ![c] = w]
  /\ seen' = [seen EXCEPT ![c] = "open"]
  /\ UNCHANGED <<waiting, serverVars, effect>>

-----------------------------------------------------------------------------
(* The effect of the call of c, at most once                               *)

Takes(c, e) ==
  /\ up
  /\ effect[c] = NoEffect
  /\ effect' = [effect EXCEPT ![c] = e]
  /\ UNCHANGED <<serverVars, asked, seen>>

Wants(c, method) == asked[c] = [method |-> method, allowed |-> TRUE]

Refuse(c) ==
  /\ asked[c] # Nothing /\ ~asked[c].allowed
  /\ Takes(c, Effect("refused", 0, <<>>))
  /\ UNCHANGED waiting

Enqueue(c) ==
  /\ Wants(c, "requestToSend")
  /\ Takes(c, Effect("count", 1, <<>>))
  /\ waiting' = Append(waiting, c)

CountAll(c) ==
  /\ Wants(c, "countSMSToSend")
  /\ Takes(c, Effect("count", Len(waiting), <<>>))
  /\ UNCHANGED waiting

TakeFirst(c) ==
  /\ Wants(c, "lastSMSToSend")
  /\ waiting # <<>>
  /\ Takes(c, Effect("sms", 0, <<Head(waiting)>>))
  /\ waiting' = Tail(waiting)

FindNone(c) ==
  /\ Wants(c, "lastSMSToSend")
  /\ waiting = <<>>
  /\ Takes(c, Effect("sms", 0, <<>>))
  /\ UNCHANGED waiting

-----------------------------------------------------------------------------
Learn(c) ==
  /\ seen[c] = "open"
  /\ effect[c] # NoEffect
  /\ seen' = [seen EXCEPT ![c] = "answered"]
  /\ UNCHANGED <<waiting, serverVars, asked, effect>>

GiveUp(c) ==
  /\ seen[c] = "open"
  /\ seen' = [seen EXCEPT ![c] = "failed"]
  /\ UNCHANGED <<waiting, serverVars, asked, effect>>

-----------------------------------------------------------------------------
(* All SMS that wait go to the phones. *)
HandOver ==
  /\ up
  /\ waiting # <<>> /\ waiting' = <<>>
  /\ handed' = handed \cup ToSet(waiting)
  /\ UNCHANGED <<up, lost, asked, effect, seen>>

(* The server ends, and the SMS that wait are lost with it. *)
End ==
  /\ up /\ up' = FALSE
  /\ waiting' = <<>>
  /\ lost' = lost \cup ToSet(waiting)
  /\ UNCHANGED <<handed, asked, effect, seen>>

Start ==
  /\ ~up /\ up' = TRUE
  /\ UNCHANGED <<waiting, handed, lost, asked, effect, seen>>

Next ==
  \/ \E c \in Caller :
       \/ Ask(c) \/ Learn(c) \/ GiveUp(c)
       \/ Refuse(c) \/ Enqueue(c) \/ CountAll(c) \/ TakeFirst(c) \/ FindNone(c)
  \/ HandOver
  \/ End
  \/ Start

Spec == Init /\ [][Next]_queueVars
=============================================================================
