SPECIFICATION Spec
CONSTANTS
  Buf = {b1, b2}
  Fmt <- MCFmt
  NoFmt = "f0"
  BitDepth <- MCBitDepth
  OutFmt = "NV12"
  Timeouts = {"neg", "zero", "pos"}
  Allowed = {"drop", "ioctl_fail", "vk_fail", "errno_loss", "blind_start", "poll_event"}
  EventDepth = 2
  MaxFlips = 3
  MaxStale = 1
INVARIANTS
  TypeOK
  FrameValidUntilReleased
  NoTokenLost
  AppKnowsFormat
PROPERTIES
  ImplementsApi
