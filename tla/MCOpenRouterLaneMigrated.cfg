SPECIFICATION Spec
CONSTANTS
  Workers = {w1, w2}
  NoWorker = NoWorker
  Legacy <- MCLegacy
  MinuteLimit = 1
  DayLimit = 2
  Cap = 1
  Costs = {0, 1}
  MinutesPerDay = 3
  MaxNow = 3
  MaxCalls = 3
  MaxLegacyWrites = 1
  MaxFaults = 0
  MaxTakeovers = 0
INVARIANTS MigratedOnce
CHECK_DEADLOCK FALSE
