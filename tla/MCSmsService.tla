--------------------------- MODULE MCSmsService ---------------------------
(***************************************************************************)
(* Model checking of SmsService: three heap addresses are two connected    *)
(* phones beside the acceptor, or one phone whose address is reused while  *)
(* another is connected.                                                   *)
(***************************************************************************)
EXTENDS SmsService

Addresses == Permutations(Addr)
=============================================================================
