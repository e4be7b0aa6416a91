SPECIFICATION FairSpec
CONSTANTS
  Uris = {TRUE, FALSE}
  MaxConnects = 2
  Allowed = {"conn_fail", "peer_close", "udp_fail"}
CHECK_DEADLOCK FALSE
INVARIANTS
  
  ResponsesMatched
  PlaysToSink
PROPERTIES
  Negotiates
  
