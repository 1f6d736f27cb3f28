SPECIFICATION FairLockSpec
CONSTANTS
  Procs = {p1, p2, p3}
  MaxTokens = 2
  MaxDied = 1
INVARIANTS MutualExclusion HolderKeepsRecord
PROPERTIES LockIsFreedAgain ImplementsStore
