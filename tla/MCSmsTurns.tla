-------------------------- MODULE MCSmsTurns --------------------------
(* Model checking of SmsTurns: see MCSmsService for the addresses. *)
EXTENDS SmsTurns

Addresses == Permutations(Addr)
=============================================================================
