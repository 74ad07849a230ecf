SPECIFICATION FairSpec
CONSTANTS
  u1 = u1
  u2 = u2
  Users = {u1, u2}
  Bot = Bot
  Default = Default
  Inputs <- MCInputs
  Configs <- MCConfigs
  DataIsArray = TRUE
  Limit = 2
  Attempts = 3
  MaxLog = 3
  MaxDenials = 2
  MaxFaults = 1
INVARIANTS TypeOK BotNeverAnswered GateHolds CheckpointIsHandled 
 
CHECK_DEADLOCK FALSE
