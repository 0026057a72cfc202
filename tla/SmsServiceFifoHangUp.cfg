SPECIFICATION FifoSpec
CONSTANTS
  Addr = {a1, a2, a3}
  NullPtr = NullPtr
  Policies = {"NP_ROUND_ROBIN"}
  MaxSms = 3
  MaxCalls = 1
  QueuingMgr = QueuingMgr
  RequestToSendData = RequestToSendData
  LastSMSToSendData = LastSMSToSendData
CHECK_DEADLOCK FALSE
SYMMETRY Addresses
INVARIANT HangUpHarmless
