SPECIFICATION FairSpec
CONSTANTS
  Buf = {b1, b2}
  None = None
  NOut = 2
  Plans <- BothDepths
  MaxTimeouts = 3
  PrimeTimeouts = 2
  Allowed = {"vk_fail", "dup_fail", "gfmt", "dq_fail"}
  MaxEvents = 1
CHECK_DEADLOCK FALSE
INVARIANTS
  GpuExclusive
  HeldExclusive
  NoBufferLost
  FrameOrder
PROPERTIES
  CreateReturns
  SignalHandledUnprimed
