SPECIFICATION FairSpec
CONSTANTS
  NRoutes = 3
  MaxRequests = 4
  MaxFaults = 2
INVARIANTS  StagesInOrder NothingLeftBehind
 
