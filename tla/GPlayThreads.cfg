SPECIFICATION FairSpec
CONSTANTS
  NItems = 2
  Settings <- MCSettings
  Percents = {0, 100}
  MaxCmds = 1
  MaxPlays = 3
  MaxBuffering = 2
  Allowed = {"error"}
CHECK_DEADLOCK FALSE
INVARIANTS
  EosHandshake
  StateTruth
  RightItem

  
