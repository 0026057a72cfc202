SPECIFICATION TurnSpec
CONSTANTS
  Addr = {a1, a2, a3}
  NullPtr = NullPtr
  Policies = {"NP_ROUND_ROBIN"}
  MaxLeaves = 2
CHECK_DEADLOCK FALSE
SYMMETRY Addresses
INVARIANT StrictTurn
