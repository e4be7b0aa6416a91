SPECIFICATION Spec
CONSTANTS
  Buf = {b1, b2}
  Fmt <- MCFmt
  NoFmt = "f0"
  BitDepth <- MCBitDepth
  OutFmt = "RAW"
  Timeouts = {"pos"}
  Allowed = {"errno_loss"}
  EventDepth = 2
  MaxFlips = 2
  MaxStale = 1
PROPERTY ReconfigOnlyAfterRestore
