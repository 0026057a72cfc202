SPECIFICATION FairSpec
CONSTANTS
  MaxCompletions = 2
  MaxRestarts = 1
CHECK_DEADLOCK FALSE
INVARIANTS
  TypeOK
  NoUseAfterDelete
  OrderlyExit
  StoppedMeansGone
PROPERTIES
  StopEnds
  ImplementsServerLife
