SPECIFICATION FairSpec
CONSTANTS
  NOut = 2
  NCap = 2
  Room = 3
  RingLen = 1
  SyncLen = 2
  MaxPackets = 4
  MaxGen = 2
  Allowed = {"cap_fail", "res_fail", "flip_fail", "vblank_fail", "sigint", "out_fail"}
CHECK_DEADLOCK FALSE
INVARIANTS
  HeldAlive
  OneOwner
  NoFrameLost
  
PROPERTIES
  Finishes
