SPECIFICATION FairSpec
CONSTANTS
  Buf = {b1, b2}
  None = None
  NOut = 2
  Plans <- TenBitOnce
  MaxTimeouts = 5
  PrimeTimeouts = 3
  Allowed = {}
  MaxEvents = 1
CHECK_DEADLOCK FALSE
PROPERTIES
  SignalHandled
