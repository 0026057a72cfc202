----------------------------- MODULE ServerLife -----------------------------
(***************************************************************************)
(* What systemd, the service manager of Windows and the user at a terminal *)
(* may rely on of a pc2sms process, whatever its threads do inside: when   *)
(* it takes calls, which end it can come to and what it reports before.    *)
(***************************************************************************)
VARIABLES
  mode,       \* how the process was started
  port,       \* "closed" until it takes calls, then "open", then "closing"
  asked,      \* was it asked to stop?
  reported,   \* the state a Windows service reported last
  ending      \* "up", or how the process ended

lifeVars == <<mode, port, asked, reported, ending>>

Init ==
  /\ mode \in {"foreground", "console", "daemon", "service"}
  /\ port = "closed"
  /\ ~asked
  /\ reported = "none"
  /\ ending = "up"

Open ==
  /\ ending = "up"
  /\ port = "closed" /\ port' = "open"
  /\ UNCHANGED <<mode, asked, reported, ending>>

(* SIGINT, or a control of the service manager once the service runs *)
Ask ==
  /\ ending = "up"
  /\ ~asked /\ asked' = TRUE
  /\ \/ mode = "foreground" /\ UNCHANGED reported
     \/ mode = "service" /\ reported = "RUNNING" /\ reported' = "STOP_PENDING"
  /\ UNCHANGED <<mode, port, ending>>

(* Calls are refused and cancelled, only because the process is to stop. *)
Close ==
  /\ ending = "up"
  /\ asked
  /\ port = "open" /\ port' = "closing"
  /\ UNCHANGED <<mode, asked, reported, ending>>

(* A service starts before it takes calls and has stopped after the last. *)
Report ==
  /\ ending = "up" /\ mode = "service"
  /\ \/ reported = "none" /\ port = "closed" /\ reported' = "START_PENDING"
     \/ reported = "START_PENDING" /\ port = "closed" /\ reported' = "RUNNING"
     \/ reported = "STOP_PENDING" /\ port = "closing" /\ reported' = "STOPPED"
  /\ UNCHANGED <<mode, port, asked, ending>>

(***************************************************************************)
(* It exits because it was asked to, or as a service that was not started  *)
(* by the service manager.  It fails, or finds that the port is taken,     *)
(* before it takes calls; gRPC aborts it only after.  Memory is misused    *)
(* only by a service that is stopping.                                     *)
(***************************************************************************)
End ==
  /\ ending = "up"
  /\ \/ ending' = "exited" /\ (asked \/ (mode = "service" /\ port = "closed"))
     \/ ending' \in {"failed", "unbuilt"} /\ port = "closed"
     \/ ending' = "aborted" /\ port # "closed"
     \/ ending' = "crashed" /\ mode = "service" /\ asked /\ port = "closing"
     \/ ending' \in {"terminated", "killed"}
  /\ UNCHANGED <<mode, port, asked, reported>>

(* systemd starts a daemon again that a signal ended uncleanly. *)
Again ==
  /\ mode = "daemon"
  /\ ending \in {"killed", "aborted", "unbuilt"} /\ ending' = "up"
  /\ port' = "closed"
  /\ asked' = FALSE
  /\ UNCHANGED <<mode, reported>>

Next == Open \/ Ask \/ Close \/ Report \/ End \/ Again

Spec == Init /\ [][Next]_lifeVars
=============================================================================
