SPECIFICATION Spec
CONSTANTS
  MaxCompletions = 2
  MaxRestarts = 0
CHECK_DEADLOCK FALSE
INVARIANT CleanAfterRunner
