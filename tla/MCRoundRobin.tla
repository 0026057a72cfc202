--------------------------- MODULE MCRoundRobin ---------------------------
(* Model checking of RoundRobin: three phones, so that one can wait while  *)
(* the other two take turns.                                               *)
EXTENDS RoundRobin

Addresses == Permutations(Addr)
=============================================================================
