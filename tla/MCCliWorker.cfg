SPECIFICATION FairSpec
CONSTANTS
  Callers = {server, ipc}
  Pids = {1, 2}
  Ttl = 1
  MaxAge = 1
  Timeouts = {1, 3}
  MaxDispatches = 2
  MaxFaults = 1
  MaxCrashes = 1
INVARIANTS SoleWorker LockHasWorker 
 
CHECK_DEADLOCK FALSE
