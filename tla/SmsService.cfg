SPECIFICATION Spec
CONSTANTS
  Addr = {a1, a2, a3}
  NullPtr = NullPtr
  Policies = {"NP_ROUND_ROBIN", "NP_ALL"}
  MaxSms = 3
  MaxCalls = 3
CHECK_DEADLOCK FALSE
SYMMETRY Addresses
INVARIANTS
  TypeOK
  RegistryExact
  NoLostWakeUp
  NoStalledListener
  AlwaysAccepting
  InOrderOnce
  OnePhoneEach
PROPERTIES
  NothingDropped
  ImplementsRelay
