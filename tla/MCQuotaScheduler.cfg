SPECIFICATION FairSpec
CONSTANTS
  Providers = {p1}
  Interval = 4
  Backoff = 1
  MaxBackoff = 5
  Timeout = 2
  LeaseTtl = 5
  Ttls = {2, 5}
  Cooldown = 2
  StaleAge = 9
  MaxStreak = 4
  MaxFaults = 2
  MaxDeaths = 1
  MaxStarts = 1
INVARIANTS OnePoll FreshWhileProbed
PROPERTIES BackoffKept PolledAgain
CHECK_DEADLOCK FALSE
