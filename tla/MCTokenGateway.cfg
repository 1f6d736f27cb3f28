SPECIFICATION GatewaySpec
CONSTANTS
  Handoffs <- MCHandoffs
  Groups <- MCGroups
  SlotsOf <- MCSlotsOf
  Keys <- MCKeys
  KeysOf <- MCKeysOf
  Kinds <- MCKinds
  Total <- MCTotal
  Hold <- MCHold
  Cap <- MCCap
  MaxActive = 3
  MaxKeys = 5
  MaxTerminal = 2
  MaxIds = 3
  MaxFailures = 1
  MaxCrashes = 2
INVARIANTS UsageConserved DiskLoads WrittenGrantIsDurable WrittenCloseIsDurable
CHECK_DEADLOCK FALSE
