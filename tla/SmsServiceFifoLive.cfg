SPECIFICATION FifoFairSpec
CONSTANTS
  Addr = {a1, a2, a3}
  NullPtr = NullPtr
  Policies = {"NP_ROUND_ROBIN"}
  MaxSms = 2
  MaxCalls = 2
  QueuingMgr = QueuingMgr
  RequestToSendData = RequestToSendData
  LastSMSToSendData = LastSMSToSendData
CHECK_DEADLOCK FALSE
PROPERTIES
  Dispatched
  Drained
  Released
