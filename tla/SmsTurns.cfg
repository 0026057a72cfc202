SPECIFICATION TurnsSpec
CONSTANTS
  Addr = {a1, a2, a3}
  NullPtr = NullPtr
  Policies = {"NP_ROUND_ROBIN", "NP_ALL"}
  MaxSms = 3
  MaxCalls = 2
  MaxLeaves = 2
  QueuingMgr = QueuingMgr
  RequestToSendData = RequestToSendData
  LastSMSToSendData = LastSMSToSendData
CHECK_DEADLOCK FALSE
SYMMETRY Addresses
INVARIANTS
  CompletionsCounted
  FinishMeansHungUp
  NoStrayCompletion
  FaultsInWrite
  HandedInTurn
PROPERTY ImplementsRoundRobin
