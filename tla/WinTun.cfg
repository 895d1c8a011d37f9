CONSTANTS
  RingLen = 2
  MaxPackets = 5
SPECIFICATION FairSpec
INVARIANTS
  TypeOK
  NoLostWakeup
  InOrderOnce
PROPERTIES
  StoredIsReadOrReplaced
  ImplementsTun
CHECK_DEADLOCK FALSE
