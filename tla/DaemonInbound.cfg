CONSTANTS
  Peer = {p1}
  MaxFeed = 2
  TunQueueLen = 1
  MaxFailures = 1
  MaxSessions = 1
SPECIFICATION Spec
PROPERTIES
  InboundIsWritten
CHECK_DEADLOCK FALSE
