----------------------------- MODULE VpnNetwork -----------------------------
(***************************************************************************)
(* The way of a packet from the TUN of one node to the TUNs of the others: *)
(* TUN reader, packet channel, broadcast, one substream for each request,  *)
(* the codec, the event channel and the write into the TUN.                *)
(*                                                                         *)
(* Which peers a node knows is left open here (P2pNode has the table), and *)
(* so is when the event handler finds the TUN locked (Daemon).  The two    *)
(* channels are sets: requests overtake each other on their substreams     *)
(* anyway, and no property depends on an order.                            *)
(***************************************************************************)
EXTENDS Addresses, FiniteSets

CONSTANTS
  Node,          \* nodes that run the program
  Hash,          \* suffixes the hashes of their keys may have
  Length,        \* lengths of the packets hosts send
  MaxPackets     \* bound of the model on the packets sent

ASSUME NetworkAssumption ==
  /\ Hash \subseteq Suffix
  /\ \A len \in Length : len \in Nat /\ len <= 65535
  /\ MaxPackets \in Nat

VARIABLES
  suffix,        \* of each node, from its key
  packets,       \* packets the TUN readers have sent off; ids are positions
  queue,         \* packet_rx of their senders: ids waiting to be broadcast
  requests,      \* requests between send_request and answer or failure
  events,        \* PacketReceived events on their way to the handlers
  written        \* of each node what was written into its TUN: id and length

networkVars == <<suffix, packets, queue, requests, events, written>>

-----------------------------------------------------------------------------
IpOf(n) == VirtualIp(suffix[n])

BufLen == 65535        \* the buffer of the TUN reader

MinLen == 20           \* shorter packets are skipped

HeaderLen == 4

\* What read returns of a packet of this length.
ReadLen(len) == IF len <= BufLen THEN len ELSE BufLen

Everyone == <<10, 144, 255, 255>>

Packet == [from : Node, len : Length,
           dst : {VirtualIp(h) : h \in Hash} \cup {Everyone}]

\* One request to one peer, on a substream of its own.  arrived counts the
\* bytes that have reached the receiver, waiting is the sender's side.
Request == [id : Nat, to : Node, arrived : Nat, waiting : BOOLEAN, answered : BOOLEAN]

Event == [id : Nat, to : Node, len : Nat]

NetworkTypeOK ==
  /\ suffix \in [Node -> Hash]
  /\ packets \in Seq(Packet) /\ Len(packets) <= MaxPackets
  /\ \A id \in DOMAIN packets : MinLen <= packets[id].len /\ packets[id].len <= BufLen
  /\ queue \subseteq DOMAIN packets
  /\ requests \subseteq Request
  /\ \A r \in requests :
       r.id \in DOMAIN packets /\ r.arrived <= HeaderLen + packets[r.id].len
  /\ events \subseteq Event
  /\ written \in [Node -> Seq([id : Nat, len : Nat])]

NetworkInit ==
  /\ suffix \in [Node -> Hash]
  /\ packets = <<>>
  /\ queue = {}
  /\ requests = {}
  /\ events = {}
  /\ written = [n \in Node |-> <<>>]

-----------------------------------------------------------------------------
(* The sender. *)

\* Packets the host of n routes to its interface: to a node, or to all.
HostSends(n) ==
  {p \in [from : {n}, len : Length,
          dst : {IpOf(m) : m \in Node} \cup {BroadcastIp(IpOf(n), Prefix)}] :
     SameSubnet(p.dst, IpOf(n), Prefix) /\ p.dst # IpOf(n)}

\* Mutant: what is too short for an IP header is sent off as well.
TunReaderTakesAll(p) ==
  /\ Len(packets) < MaxPackets
  /\ packets' = Append(packets, p)
  /\ queue' = queue \cup {Len(packets) + 1}
  /\ UNCHANGED <<suffix, requests, events, written>>

\* The TUN reader reads it and sends it to the P2P loop.
TunReader(p) ==
  /\ Len(packets) < MaxPackets
  /\ ReadLen(p.len) >= MinLen
  /\ packets' = Append(packets, p)
  /\ queue' = queue \cup {Len(packets) + 1}
  /\ UNCHANGED <<suffix, requests, events, written>>

NewRequest(id, n) ==
  [id |-> id, to |-> n, arrived |-> 0, waiting |-> TRUE, answered |-> FALSE]

\* A request to each peer of the table, whatever the packet's address.
broadcast_data(id) ==
  /\ id \in queue
  /\ queue' = queue \ {id}
  /\ \E table \in SUBSET (Node \ {packets[id].from}) :
       requests' = requests \cup {NewRequest(id, n) : n \in table}
  /\ UNCHANGED <<suffix, packets, events, written>>

-----------------------------------------------------------------------------
(* The substream and the codec. *)

\* The bytes write_request writes: the length and the packet.
Frame(id) == HeaderLen + ReadLen(packets[id].len)

\* Where the transport may cut a frame: within the length, before, within and
\* after the packet.
Cuts(id) == {2, HeaderLen, Frame(id) - 1, Frame(id)}

Arrives(r, k) ==
  /\ r \in requests /\ ~ r.answered
  /\ k > r.arrived
  /\ requests' = (requests \ {r}) \cup {[r EXCEPT !.arrived = k]}
  /\ UNCHANGED <<suffix, packets, queue, events, written>>

\* Mutant: read in the place of the second read_exact.
read_once(r) ==
  IF r.arrived > HeaderLen THEN {r.arrived - HeaderLen} ELSE {}

\* The length of the packet read_request returns, once both read_exact have
\* all their bytes.
read_request(r) ==
  {n \in {FromBeBytes(ToBeBytes(ReadLen(packets[r.id].len)))} :
     r.arrived >= HeaderLen + n}

\* handle_data_event, Request: the packet goes to the daemon and the answer on
\* its way, whether or not the sender still waits for it.
DataRequest(r) ==
  /\ r \in requests /\ ~ r.answered
  /\ \E n \in read_request(r) :
       events' = events \cup {[id |-> r.id, to |-> r.to, len |-> n]}
  /\ requests' = (requests \ {r}) \cup {[r EXCEPT !.answered = TRUE]}
  /\ UNCHANGED <<suffix, packets, queue, written>>

\* The substream is over: the answer arrived, or the connection is closed.
StreamEnds(r) ==
  /\ r \in requests
  /\ r.answered \/ ~ r.waiting
  /\ requests' = requests \ {r}
  /\ UNCHANGED <<suffix, packets, queue, events, written>>

\* A timeout or a lost connection: the sender forgets the request.  What it
\* has written may still arrive.
OutboundFailure(r) ==
  /\ r \in requests /\ r.waiting
  /\ requests' = (requests \ {r}) \cup {[r EXCEPT !.waiting = FALSE]}
  /\ UNCHANGED <<suffix, packets, queue, events, written>>

-----------------------------------------------------------------------------
(* The receiver. *)

\* The handler writes the packet, or drops it when the TUN is locked.  The u16
\* that counts its bytes on Windows holds every length the buffer lets in.
HandlerWrites(e) ==
  /\ e \in events
  /\ events' = events \ {e}
  /\ \/ written' = [written EXCEPT ![e.to] = Append(@, [id |-> e.id, len |-> e.len])]
     \/ UNCHANGED written
  /\ UNCHANGED <<suffix, packets, queue, requests>>

-----------------------------------------------------------------------------
RequestStep(r) ==
  \/ \E k \in Cuts(r.id) : Arrives(r, k)
  \/ DataRequest(r) \/ StreamEnds(r) \/ OutboundFailure(r)

NetworkNext ==
  \/ \E n \in Node : \E p \in HostSends(n) : TunReader(p)
  \/ \E id \in queue : broadcast_data(id)
  \/ \E r \in requests : RequestStep(r)
  \/ \E e \in events : HandlerWrites(e)

NetworkSpec == NetworkInit /\ [][NetworkNext]_networkVars

-----------------------------------------------------------------------------
Net == INSTANCE Lan WITH sent <- packets, received <- written

\* The nodes together are the network the VPN promises: framing, cuts at any
\* byte, answers that are lost after the packet was delivered and the buffer of
\* the reader never make a packet short, or arrive twice or at home.
ImplementsLan == Net!Spec

\* The host of n takes packet id from its interface.
Takes(n, id) ==
  /\ \E i \in DOMAIN written[n] : written[n][i].id = id
  /\ packets[id].dst \in {IpOf(n), BroadcastIp(IpOf(n), Prefix)}

\* Packets are flooded to every peer, and the address of a node is a hash of
\* 16 bits.  All the same a packet for one address is taken by one host only,
\* or by hosts whose keys hash alike, or it is for the broadcast address, which
\* a node has for its own if its hash is all ones.
UnicastIsPrivate ==
  \A a, b \in Node, id \in DOMAIN packets :
    Takes(a, id) /\ Takes(b, id) =>
      suffix[a] = suffix[b] \/ packets[id].dst = Everyone

=============================================================================
