SPECIFICATION Spec
CONSTANTS
  Workers = {w1, w2}
  NoWorker = NoWorker
  Legacy <- MCLegacy
  MinuteLimit = 1
  DayLimit = 2
  Cap = 1
  Costs = {0, 1}
  MinutesPerDay = 3
  MaxNow = 3
  MaxCalls = 3
  MaxLegacyWrites = 1
  MaxFaults = 1
  MaxTakeovers = 1
INVARIANTS SendsWithinLimits
PROPERTIES ManagedOnlyGrows MigrationComplete
CHECK_DEADLOCK FALSE
