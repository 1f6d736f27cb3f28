SPECIFICATION FairSpec
CONSTANTS
  Tasks <- MCTasks
  Workers = {w1, w2}
  MaxAttempts <- MCAttempts
  NeedsApproval <- MCApproval
  MaxTasks = 2
  Timeout = 1
  BaseDelay = 1
  MaxDelay = 1
  MaxFailures = 1
  MaxCrashes = 1
INVARIANTS AttemptsBounded DependenciesFirst
PROPERTIES CancelledNeverRestarts ReadyTaskEnds
CHECK_DEADLOCK FALSE
