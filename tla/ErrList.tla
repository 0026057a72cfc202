------------------------------ MODULE ErrList ------------------------------
(***************************************************************************)
(* errlist.h pairs each error code with a text; strerror_sms() finds the   *)
(* text of a code in one of two tables.  A text is named after its macro,  *)
(* ERR_ and ERR_GRPC_ left out.  What lies behind the end of a table is    *)
(* any memory: "garbage".                                                  *)
(***************************************************************************)
EXTENDS Integers, Sequences

SMS_OK == 0
ERR_CODE_COMMAND_LINE == -500
ERR_CODE_MESSAGE_EMPTY == -502

errlist == <<"COMMAND_LINE", "SELECT", "MESSAGE_EMPTY">>

errGRPClist ==
  <<"CANCELLED", "UNKNOWN", "INVALID_ARGUMENT", "DEADLINE_EXCEEDED",
    "NOT_FOUND", "ALREADY_EXISTS", "PERMISSION_DENIED", "RESOURCE_EXHAUSTED",
    "FAILED_PRECONDITION", "ABORTED", "OUT_OF_RANGE", "UNIMPLEMENTED",
    "INTERNAL", "UNAVAILABLE", "DATA_LOSS", "UNAUTHENTICATED">>

(* table[i] of C, with i counted from 0 *)
Entry(table, i) == IF i < Len(table) THEN table[i + 1] ELSE "garbage"

Strerror(code) ==
  CASE code <= -500 /\ code >= -500 - Len(errlist) ->
         Entry(errlist, -(code + 500))
    [] code \in 0..Len(errGRPClist) -> Entry(errGRPClist, code)
    [] OTHER -> "strerror"

(* The text errlist.h defines beside the code: ERR_CODE_x and ERR_x. *)
TextOf(code) ==
  CASE code \in 1..16 -> errGRPClist[code]
    [] code \in -502..-500 -> errlist[-code - 499]
    [] OTHER -> "none"

(* exit(code): the parent sees the lowest eight bits *)
ExitStatus(code) == code % 256
=============================================================================
