SPECIFICATION FairSpec
CONSTANTS
  Buf = {b1, b2}
  Fmt <- MCFmt
  NoFmt = "f0"
  BitDepth <- MCBitDepth
  OutFmt = "NV12"
  Timeouts = {"pos"}
  Allowed = {"drop"}
  EventDepth = 4
  MaxFlips = 4
  MaxStale = 1
INVARIANTS
  FormatTruth
PROPERTIES
  ReconfigOnlyAfterRestore
  FramesFlow
