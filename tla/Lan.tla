-------------------------------- MODULE Lan --------------------------------
(***************************************************************************)
(* What the VPN promises as a network: a packet that a host sends is       *)
(* received whole, by other hosts only, and by each of them once at most.  *)
(* Any packet may be lost, and packets may overtake each other.            *)
(***************************************************************************)
EXTENDS Naturals, Sequences

CONSTANT
  Node,          \* nodes of the network
  Packet         \* what a packet is, with its sender and its length

VARIABLES
  sent,          \* packets sent, in the order they were sent
  received       \* of each node the packets received: id and length

Init ==
  /\ sent = <<>>
  /\ received = [n \in Node |-> <<>>]

Send ==
  /\ \E p \in Packet : sent' = Append(sent, p)
  /\ UNCHANGED received

Receive(n) ==
  /\ \E id \in DOMAIN sent :
       /\ sent[id].from # n
       /\ \A i \in DOMAIN received[n] : received[n][i].id # id
       /\ received' = [received EXCEPT ![n] = Append(@, [id |-> id, len |-> sent[id].len])]
  /\ UNCHANGED sent

Next == Send \/ \E n \in Node : Receive(n)

Spec == Init /\ [][Next]_<<sent, received>>

=============================================================================
