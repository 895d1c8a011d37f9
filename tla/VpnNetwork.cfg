CONSTANTS
  Node = {n1, n2, n3}
  Hash = {0, 1, 257, 65535}
  Length = {19, 20, 65535}
  MaxPackets = 1
SPECIFICATION NetworkSpec
INVARIANTS
  NetworkTypeOK
  UnicastIsPrivate
PROPERTIES
  ImplementsLan
SYMMETRY Symmetry
CHECK_DEADLOCK FALSE
