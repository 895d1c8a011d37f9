CONSTANTS
  p1 = p1
  p2 = p2
  mine = mine
  other = other
  Peer <- MCPeer
  Bootstrap = {}
  Slot = {s1}
  MaxConns = 2
  Addr = {}
  Rtt = {}
  PasswordOf <- MCPasswordOf
  Password = mine
  NoPassword = none
  OwnIp = own
  RequestId = {}
  MaxEvents = 1
  MaxPackets = 0
SPECIFICATION Spec
INVARIANTS
  OnlineIsListed
