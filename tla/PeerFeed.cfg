CONSTANTS
  Peer = {p1, p2}
  MaxFeed = 4
SPECIFICATION FairSpec
INVARIANTS
  TypeOK
  FeedConverges
  EventsAlternate
PROPERTIES
  StablePeerIsListed
  GonePeerIsUnlisted
