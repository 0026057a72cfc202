SPECIFICATION Spec
CONSTANTS
  Caller = {c1}
  MaxAborts = 1
  Contents <- SomeContents
CHECK_DEADLOCK FALSE
INVARIANT TextNamesCode
