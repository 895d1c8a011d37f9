-------------------------------- MODULE Tun --------------------------------
(***************************************************************************)
(* What a TUN device promises to the TUN reader of the daemon              *)
(* (TunInterface::read_packet, crates/vlkxn-core/src/tun.rs): a queue that *)
(* hands the packets of the host on whole, in the order they were sent and *)
(* each at most once.  A packet is lost only to others: when as many wait  *)
(* as the device has room for, or to the one sent after it.                *)
(***************************************************************************)
EXTENDS Naturals, Sequences

CONSTANTS
  MaxPackets,    \* bound of the model on the packets the host sends
  Room           \* packets the device holds at least

VARIABLES
  sent,          \* packets the host has sent; the k-th of them is k
  waiting,       \* packets on their way to read, oldest first
  delivered      \* packets read has returned

tunVars == <<sent, waiting, delivered>>

Init ==
  /\ sent = 0
  /\ waiting = <<>>
  /\ delivered = <<>>

\* The host routes a packet to the device, which refuses it only when full.
Send ==
  /\ sent < MaxPackets
  /\ sent' = sent + 1
  /\ \/ waiting' = Append(waiting, sent')
     \/ Len(waiting) >= Room /\ UNCHANGED waiting
  /\ UNCHANGED delivered

\* The oldest packet gives way to the one behind it: the last one never does.
Lose ==
  /\ Len(waiting) > 1
  /\ waiting' = Tail(waiting)
  /\ UNCHANGED <<sent, delivered>>

\* read returns the oldest packet.
Deliver ==
  /\ waiting # <<>>
  /\ delivered' = Append(delivered, Head(waiting))
  /\ waiting' = Tail(waiting)
  /\ UNCHANGED sent

Spec == Init /\ [][Send \/ Lose \/ Deliver]_tunVars

=============================================================================
