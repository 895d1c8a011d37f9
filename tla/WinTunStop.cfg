CONSTANTS
  RingLen = 1
  MaxPackets = 1
SPECIFICATION FairSpec
PROPERTIES
  ThreadEndsAfterStop
CHECK_DEADLOCK FALSE
