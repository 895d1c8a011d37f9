CONSTANTS
  p1 = p1
  p2 = p2
  mine = mine
  other = other
  Peer <- MCPeer
  Bootstrap = {p1}
  Slot = {s1}
  MaxConns = 1
  Addr = {}
  Rtt = {25}
  PasswordOf <- MCPasswordOf
  Password = mine
  NoPassword = none
  OwnIp = own
  RequestId = {1, 2, 3}
  MaxEvents = 1
  MaxPackets = 1
SPECIFICATION FairSpec
INVARIANTS
  ConnectedIsKnown
  PendingIsInFlight
PROPERTIES
  WrongPasswordLeaves
