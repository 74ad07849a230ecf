CONSTANTS
  da = da
  db = db
  a0 = a0
  a1 = a1
  a2 = a2
  b0 = b0
  b1 = b1
  b2 = b2
  None = None
  Dialogs = {da}
  Messages = {a0, a1, a2}
  DialogOf <- MCDialogOf
  InitialLog <- MCInitialLog
  Addressed = {a1, a2}
  Permitted = {a1}
  UuidMessages = {a0, a1}
  CacheSize = 4
  BatchLimit = 2
  MaxPublishes = 2
  MaxStarts = 1
  MaxDrops = 1
SPECIFICATION FairSpec
INVARIANTS TypeOK NoDoubleReply RecoveryCovers
PROPERTIES LiveHandled 
CHECK_DEADLOCK FALSE
