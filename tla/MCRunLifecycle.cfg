SPECIFICATION FairSpec
CONSTANTS
  NRuns = 1
  MaxAttempts = 2
  MaxTasks = 2
  Answers <- MCAll
  MaxCancels = 2
  MaxThrows = 2
  MaxRestarts = 2
INVARIANTS  ChargedOnce
PROPERTIES  NoDispatchOverResult EveryRunEnds
CHECK_DEADLOCK FALSE
