---- MODULE MCVpnNetwork ----
EXTENDS VpnNetwork, TLC

Symmetry == Permutations(Node)

====
