SPECIFICATION TurnFairSpec
CONSTANTS
  Addr = {a1, a2, a3}
  NullPtr = NullPtr
  Policies = {"NP_ROUND_ROBIN"}
  MaxLeaves = 4
CHECK_DEADLOCK FALSE
INVARIANTS
  TurnTypeOK
  InTurn
PROPERTY Served
