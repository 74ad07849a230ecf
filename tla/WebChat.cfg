CONSTANTS
  Own = {a1}
  Others = {b1, b2}
  PageSize = 1
  Batch = 3
  MaxCalls = 2
  MaxLogins = 2
  MaxDrops = 1
  MaxClicks = 2
SPECIFICATION FairSpec
INVARIANTS TypeOK NoHole ShownIsSent OpenIsHeard
CHECK_DEADLOCK FALSE
 
