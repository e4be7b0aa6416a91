SPECIFICATION Spec
CONSTANTS
  Buf = {b1, b2}
  Fd = {f1, f2, f3}
  Inode = {1, 2, 3, 4, 5, 6}
  Entry = {e1, e2}
  Size = {s1, s2}
  None = None
  Configs <- AllConfigs
  Allowed = {"import_fail", "record_fail", "submit_fail", "wait_fail", "nomem", "pool_fail"}
  CacheSize = 2
  MaxPolls = 1
  MaxFrames = 2
  MaxEpoch = 2
SYMMETRY Symmetry
CHECK_DEADLOCK FALSE
INVARIANTS  PoolExclusive NothingLost SizeTruth
