CONSTANTS
  p1 = p1
  p2 = p2
  mine = mine
  other = other
  Peer <- MCPeer
  Bootstrap = {p1}
  Slot = {s1}
  MaxConns = 2
  Addr = {}
  Rtt = {25}
  PasswordOf <- MCPasswordOf
  Password = mine
  NoPassword = none
  OwnIp = own
  RequestId = {}
  MaxEvents = 1
  MaxPackets = 0
SPECIFICATION Spec
INVARIANTS
  RowsAreCurrent
