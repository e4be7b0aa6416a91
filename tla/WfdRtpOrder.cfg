SPECIFICATION FairSpec
CONSTANTS
  RtpSeqMod = 8
  MaxDropout = 3
  MaxMisorder = 2
  NumBuffers = 2
  Bases = {4}
  MaxSend = 6
  MaxFlight = 2
  Allowed = {"loss"}
CHECK_DEADLOCK FALSE
INVARIANTS
  ReadInOrder
  DropsOnlyReturned
  BufferOneOwner
PROPERTIES
  NoStall
