-------------------------- MODULE MCSmsServiceFifo --------------------------
(* Model checking of SmsServiceFifo: see MCSmsService for the addresses. *)
EXTENDS SmsServiceFifo

Addresses == Permutations(Addr)
=============================================================================
