----------------------------- MODULE MCPeerList -----------------------------
(* Model-checking instances of PeerList: two peers, the first of them a      *)
(* bootstrap node, the second started with another password.                 *)
EXTENDS PeerList, TLC

CONSTANTS p1, p2, mine, other

MCPeer == {p1, p2}
MCPasswordOf == (p1 :> mine) @@ (p2 :> other)
=============================================================================
