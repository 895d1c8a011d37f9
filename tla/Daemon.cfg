CONSTANTS
  Peer = {p1}
  MaxFeed = 2
  TunQueueLen = 1
  MaxFailures = 1
  MaxSessions = 2
SPECIFICATION FairSpec
INVARIANTS
  TypeOK
  TunLockIsHeld
  RunningMeansAlive
  ListTracksTable
PROPERTIES
  StablePeerIsShown
  TunDrains
  LoopStops
  ImplementsSessions
CHECK_DEADLOCK FALSE
