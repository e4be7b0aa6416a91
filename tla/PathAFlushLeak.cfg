SPECIFICATION Spec
CONSTANTS
  Buf = {b1, b2, b3}
  Shape = {s1, s2}
  None = None
  Allowed = {"flush"}
  MaxSessions = 2
CHECK_DEADLOCK FALSE
INVARIANTS
  NoFrameLeaked
