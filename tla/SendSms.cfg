SPECIFICATION FairSpec
CONSTANTS
  Caller = {c1, c2}
  MaxAborts = 1
  Contents <- SomeContents
CHECK_DEADLOCK FALSE
INVARIANTS
  TypeOK
  Accounted
  SharedFileAgrees
  OutcomePrinted
  AcknowledgedKept
PROPERTIES
  ClientEnds
  ImplementsSmsQueue
