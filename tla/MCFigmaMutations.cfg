SPECIFICATION FairSpec
CONSTANTS
  Ids = {b1}
  Files = {f1, f2}
  Windows = {w1, w2}
  NoWindow = NoWindow
  NOps = 2
  Ttl = 1
  MaxLost = 2
  MaxCloses = 2
INVARIANTS  ExecutedIsComplete
 
CHECK_DEADLOCK FALSE
