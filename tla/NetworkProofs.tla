--------------------------- MODULE NetworkProofs ---------------------------
(* The theorems of Addresses and VpnNetwork: addresses tell keys apart as    *)
(* far as 16 bits can, and the nodes together implement the abstract network. *)
EXTENDS VpnNetwork, TLAPS

-----------------------------------------------------------------------------
(* Addresses. *)

\* The two bytes of a number of 16 bits.
LEMMA Halves ==
  ASSUME NEW n \in Nat, n <= 65535
  PROVE  /\ n \div 256 \in Nat /\ n \div 256 <= 255
         /\ n % 256 \in Nat /\ n % 256 <= 255
         /\ n = 256 * (n \div 256) + (n % 256)
<1>1. n \div 256 \in Nat /\ n \div 256 <= 255
  OBVIOUS
<1>2. n % 256 \in Nat /\ n % 256 <= 255
  OBVIOUS
<1>3. n = 256 * (n \div 256) + (n % 256)
  OBVIOUS
<1> QED
  BY <1>1, <1>2, <1>3

LEMMA ByteHalves ==
  ASSUME NEW n \in Nat, n <= 255
  PROVE  n \div 256 = 0 /\ n % 256 = n
OBVIOUS

LEMMA SuffixHalves ==
  ASSUME NEW s \in Suffix
  PROVE  /\ s \div 256 \in Nat /\ s \div 256 <= 255
         /\ s % 256 \in Nat /\ s % 256 <= 255
         /\ s = 256 * (s \div 256) + (s % 256)
         /\ (s \div 256) \div 256 = 0
         /\ (s % 256) \div 256 = 0
<1>1. s \in Nat /\ s <= 65535
  BY DEF Suffix
<1>2. /\ s \div 256 \in Nat /\ s \div 256 <= 255
      /\ s % 256 \in Nat /\ s % 256 <= 255
      /\ s = 256 * (s \div 256) + (s % 256)
  BY <1>1, Halves
<1> QED
  BY <1>2, ByteHalves

\* No bit of the 16 is lost: two nodes share an address only if their hashes
\* agree in the first two bytes.
THEOREM VirtualIpInjective ==
  ASSUME NEW s \in Suffix, NEW t \in Suffix, VirtualIp(s) = VirtualIp(t)
  PROVE  s = t
<1>1. s \div 256 = t \div 256 /\ s % 256 = t % 256
  BY DEF VirtualIp
<1>2. s = 256 * (s \div 256) + (s % 256)
  BY SuffixHalves
<1>3. t = 256 * (t \div 256) + (t % 256)
  BY SuffixHalves
<1> QED
  BY <1>1, <1>2, <1>3

LEMMA Widths ==
  /\ Width(Prefix, 1) = 1 /\ Width(Prefix, 2) = 1
  /\ Width(Prefix, 3) = 256 /\ Width(Prefix, 4) = 256
BY DEF Width, MaskOctet, Prefix

\* Every address a node can have is an address of four octets inside the
\* virtual network, and inside the subnet of every other node's interface.
THEOREM VirtualIpInNetwork ==
  ASSUME NEW s \in Suffix, NEW t \in Suffix
  PROVE  /\ VirtualIp(s) \in Ip
         /\ is_virtual_ip(VirtualIp(s))
         /\ SameSubnet(VirtualIp(s), VirtualIp(t), Prefix)
<1>1. VirtualIp(s) \in Ip /\ is_virtual_ip(VirtualIp(s))
  <2>1. /\ s \div 256 \in Nat /\ s \div 256 <= 255
        /\ s % 256 \in Nat /\ s % 256 <= 255
    BY SuffixHalves
  <2>2. s \div 256 \in Byte /\ s % 256 \in Byte /\ 10 \in Byte /\ 144 \in Byte
    BY <2>1 DEF Byte
  <2>3. VirtualIp(s) \in Ip
    BY <2>2 DEF VirtualIp, Ip
  <2>4. VirtualIp(s)[1] = 10 /\ VirtualIp(s)[2] = 144
    BY DEF VirtualIp
  <2> QED
    BY <2>3, <2>4 DEF is_virtual_ip
<1>2. SameSubnet(VirtualIp(s), VirtualIp(t), Prefix)
  <2>1. (s \div 256) \div 256 = 0 /\ (s % 256) \div 256 = 0
    BY SuffixHalves
  <2>2. (t \div 256) \div 256 = 0 /\ (t % 256) \div 256 = 0
    BY SuffixHalves
  <2>3. \A i \in 1..4 : i = 1 \/ i = 2 \/ i = 3 \/ i = 4
    OBVIOUS
  <2> QED
    BY <2>1, <2>2, <2>3, Widths DEF SameSubnet, VirtualIp
<1> QED
  BY <1>1, <1>2

\* The broadcast address of every interface is the last address of the network.
LEMMA BroadcastIsEveryone ==
  ASSUME NEW s \in Suffix
  PROVE  BroadcastIp(VirtualIp(s), Prefix) = Everyone
<1>1. (s \div 256) \div 256 = 0 /\ (s % 256) \div 256 = 0
  BY SuffixHalves
<1>2. TopOctet(VirtualIp(s), Prefix, 1) = 10 /\ TopOctet(VirtualIp(s), Prefix, 2) = 144
  BY Widths DEF TopOctet, VirtualIp
<1>3. TopOctet(VirtualIp(s), Prefix, 3) = 255 /\ TopOctet(VirtualIp(s), Prefix, 4) = 255
  BY <1>1, Widths DEF TopOctet, VirtualIp
<1> QED
  BY <1>2, <1>3 DEF BroadcastIp, Everyone

\* The ARP proxy gives different MAC addresses to different virtual addresses.
THEOREM MacIdentifies ==
  ASSUME NEW a \in Ip, NEW b \in Ip, is_virtual_ip(a), is_virtual_ip(b), MacOf(a) = MacOf(b)
  PROVE  a = b
<1>1. a = <<a[1], a[2], a[3], a[4]>> /\ b = <<b[1], b[2], b[3], b[4]>>
  BY DEF Ip
<1>2. a[1] = b[1] /\ a[2] = b[2] /\ a[3] = b[3] /\ a[4] = b[4]
  BY DEF is_virtual_ip, MacOf
<1> QED
  BY <1>1, <1>2

\* The length a frame announces is the length that was written.
LEMMA LengthRoundTrip ==
  ASSUME NEW n \in Nat, n <= 65535
  PROVE  FromBeBytes(ToBeBytes(n)) = n
<1>1. n \div 16777216 = 0 /\ n \div 65536 = 0
  OBVIOUS
<1>2. 0 % 256 = 0
  OBVIOUS
<1>3. n \div 256 \in Nat /\ n \div 256 <= 255 /\ n % 256 \in Nat
        /\ n = 256 * (n \div 256) + (n % 256)
  BY Halves
<1>4. (n \div 256) % 256 = n \div 256
  BY <1>3, ByteHalves
<1>5. ToBeBytes(n) = <<0, 0, n \div 256, n % 256>>
  BY <1>1, <1>2, <1>4 DEF ToBeBytes
<1>6. FromBeBytes(ToBeBytes(n)) = 0 * 16777216 + 0 * 65536 + (n \div 256) * 256 + (n % 256)
  BY <1>5 DEF FromBeBytes
<1> QED
  BY <1>3, <1>6

-----------------------------------------------------------------------------
(* Types. *)

\* A packet that was sent off has the length of an IP packet.
LEMMA Lengths ==
  ASSUME NetworkTypeOK, NEW id \in DOMAIN packets
  PROVE  /\ packets[id].len \in Nat /\ packets[id].len <= 65535 /\ packets[id].len >= 20
         /\ ReadLen(packets[id].len) = packets[id].len
         /\ Frame(id) = 4 + packets[id].len
<1>1. packets[id] \in Packet
  <2>1. packets \in Seq(Packet)
    BY DEF NetworkTypeOK
  <2> QED
    BY <2>1
<1>2. packets[id].len \in Nat
  BY <1>1, NetworkAssumption DEF Packet
<1>3. 20 <= packets[id].len /\ packets[id].len <= 65535
  BY DEF NetworkTypeOK, MinLen, BufLen
<1> QED
  BY <1>2, <1>3 DEF BufLen, ReadLen, Frame, HeaderLen

LEMMA SentPacket ==
  ASSUME NetworkTypeOK, NEW n \in Node, NEW p \in HostSends(n)
  PROVE  p \in Packet
<1> USE NetworkAssumption
<1>1. \A m \in Node : IpOf(m) \in {VirtualIp(h) : h \in Hash}
  BY DEF NetworkTypeOK, IpOf
<1>2. BroadcastIp(IpOf(n), Prefix) = Everyone
  <2>1. suffix[n] \in Suffix
    BY DEF NetworkTypeOK
  <2> QED
    BY <2>1, BroadcastIsEveryone DEF IpOf
<1>3. p \in [from : {n}, len : Length, dst : {IpOf(m) : m \in Node} \cup {Everyone}]
  BY <1>2 DEF HostSends
<1>4. p.dst \in {VirtualIp(h) : h \in Hash} \cup {Everyone}
  BY <1>1, <1>3
<1> QED
  BY <1>3, <1>4 DEF Packet

\* What a TUN reader adds to the packets.
LEMMA PacketAdded ==
  ASSUME NetworkTypeOK, NEW n \in Node, NEW p \in HostSends(n), TunReader(p)
  PROVE  /\ p \in Packet /\ MinLen <= p.len /\ p.len <= BufLen
         /\ packets' = Append(packets, p) /\ packets \in Seq(Packet)
         /\ Len(packets') <= MaxPackets /\ packets' \in Seq(Packet)
         /\ DOMAIN packets = 1..Len(packets)
         /\ DOMAIN packets' = DOMAIN packets \cup {Len(packets) + 1}
         /\ Len(packets) + 1 \notin DOMAIN packets
         /\ \A id \in DOMAIN packets : packets'[id] = packets[id]
         /\ packets'[Len(packets) + 1] = p
<1>1. p \in Packet
  BY SentPacket
<1>2. packets \in Seq(Packet) /\ packets' = Append(packets, p) /\ Len(packets) < MaxPackets
  BY DEF NetworkTypeOK, TunReader
<1>3. Len(packets) \in Nat /\ DOMAIN packets = 1..Len(packets)
  BY <1>2
<1>4. MinLen <= p.len /\ p.len <= BufLen
  <2>1. p.len \in Nat /\ p.len <= 65535
    BY <1>1, NetworkAssumption DEF Packet
  <2> QED
    BY <2>1 DEF TunReader, ReadLen, MinLen, BufLen
<1>5. /\ packets' \in Seq(Packet) /\ Len(packets') = Len(packets) + 1
      /\ DOMAIN packets' = 1..(Len(packets) + 1)
      /\ \A id \in 1..Len(packets) : packets'[id] = packets[id]
      /\ packets'[Len(packets) + 1] = p
  BY <1>1, <1>2, <1>3
<1>6. 1..(Len(packets) + 1) = 1..Len(packets) \cup {Len(packets) + 1}
  BY <1>3
<1> QED
  BY <1>1, <1>2, <1>3, <1>4, <1>5, <1>6, NetworkAssumption

LEMMA TypeStep ==
  ASSUME NetworkTypeOK, [NetworkNext]_networkVars
  PROVE  NetworkTypeOK'
<1>1. ASSUME NEW n \in Node, NEW p \in HostSends(n), TunReader(p)
      PROVE  NetworkTypeOK'
  <2>1. UNCHANGED <<suffix, requests, events, written>>
          /\ queue' = queue \cup {Len(packets) + 1}
    BY <1>1 DEF TunReader
  <2>2. \A id \in DOMAIN packets' : MinLen <= packets'[id].len /\ packets'[id].len <= BufLen
    BY <1>1, PacketAdded DEF NetworkTypeOK
  <2>3. \A r \in requests :
          r.id \in DOMAIN packets' /\ r.arrived <= HeaderLen + packets'[r.id].len
    BY <1>1, PacketAdded DEF NetworkTypeOK
  <2> QED
    BY <1>1, <2>1, <2>2, <2>3, PacketAdded DEF NetworkTypeOK
<1>2. ASSUME NEW id \in queue, broadcast_data(id)
      PROVE  NetworkTypeOK'
  <2>1. PICK table \in SUBSET (Node \ {packets[id].from}) :
          requests' = requests \cup {NewRequest(id, n) : n \in table}
    BY <1>2 DEF broadcast_data
  <2>2. id \in DOMAIN packets /\ id \in Nat
    BY DEF NetworkTypeOK
  <2>3. \A n \in table : NewRequest(id, n) \in Request
                           /\ NewRequest(id, n).id = id /\ NewRequest(id, n).arrived = 0
    BY <2>2 DEF NewRequest, Request
  <2>4. 0 <= HeaderLen + packets[id].len
    BY <2>2, Lengths DEF HeaderLen
  <2> QED
    BY <1>2, <2>1, <2>2, <2>3, <2>4 DEF broadcast_data, NetworkTypeOK
<1>3. ASSUME NEW r \in requests, NEW k \in Cuts(r.id), Arrives(r, k)
      PROVE  NetworkTypeOK'
  <2>1. r \in Request /\ r.id \in DOMAIN packets
    BY DEF NetworkTypeOK
  <2>2. k \in Nat /\ k <= HeaderLen + packets[r.id].len
    BY <1>3, <2>1, Lengths DEF Cuts, HeaderLen
  <2>3. [r EXCEPT !.arrived = k] \in Request
          /\ [r EXCEPT !.arrived = k].id = r.id /\ [r EXCEPT !.arrived = k].arrived = k
    BY <2>1, <2>2 DEF Request
  <2> QED
    BY <1>3, <2>1, <2>2, <2>3 DEF Arrives, NetworkTypeOK
<1>4. ASSUME NEW r \in requests, DataRequest(r)
      PROVE  NetworkTypeOK'
  <2>1. r \in Request /\ r.id \in DOMAIN packets
    BY DEF NetworkTypeOK
  <2>2. PICK n \in read_request(r) :
          events' = events \cup {[id |-> r.id, to |-> r.to, len |-> n]}
    BY <1>4 DEF DataRequest
  <2>3. n \in Nat
    BY <2>1, Lengths, LengthRoundTrip DEF read_request
  <2>4. [id |-> r.id, to |-> r.to, len |-> n] \in Event
    BY <2>1, <2>3 DEF Event, Request
  <2>5. [r EXCEPT !.answered = TRUE] \in Request
          /\ [r EXCEPT !.answered = TRUE].id = r.id
          /\ [r EXCEPT !.answered = TRUE].arrived = r.arrived
    BY <2>1 DEF Request
  <2> QED
    BY <1>4, <2>1, <2>2, <2>4, <2>5 DEF DataRequest, NetworkTypeOK
<1>5. ASSUME NEW r \in requests, StreamEnds(r)
      PROVE  NetworkTypeOK'
  BY <1>5 DEF StreamEnds, NetworkTypeOK
<1>6. ASSUME NEW r \in requests, OutboundFailure(r)
      PROVE  NetworkTypeOK'
  <2>1. r \in Request /\ r.id \in DOMAIN packets
    BY DEF NetworkTypeOK
  <2>2. [r EXCEPT !.waiting = FALSE] \in Request
          /\ [r EXCEPT !.waiting = FALSE].id = r.id
          /\ [r EXCEPT !.waiting = FALSE].arrived = r.arrived
    BY <2>1 DEF Request
  <2> QED
    BY <1>6, <2>1, <2>2 DEF OutboundFailure, NetworkTypeOK
<1>7. ASSUME NEW e \in events, HandlerWrites(e)
      PROVE  NetworkTypeOK'
  <2>1. e \in Event
    BY DEF NetworkTypeOK
  <2>2. [id |-> e.id, len |-> e.len] \in [id : Nat, len : Nat] /\ e.to \in Node
    BY <2>1 DEF Event
  <2>3. written[e.to] \in Seq([id : Nat, len : Nat])
    BY <2>2 DEF NetworkTypeOK
  <2>4. Append(written[e.to], [id |-> e.id, len |-> e.len])
          \in Seq([id : Nat, len : Nat])
    BY <2>2, <2>3
  <2>5. written \in [Node -> Seq([id : Nat, len : Nat])]
    BY DEF NetworkTypeOK
  <2>6. written' \in [Node -> Seq([id : Nat, len : Nat])]
    BY <1>7, <2>2, <2>4, <2>5 DEF HandlerWrites
  <2> QED
    BY <1>7, <2>6 DEF HandlerWrites, NetworkTypeOK
<1>8. CASE UNCHANGED networkVars
  BY <1>8 DEF networkVars, NetworkTypeOK
<1> QED
  BY <1>1, <1>2, <1>3, <1>4, <1>5, <1>6, <1>7, <1>8 DEF NetworkNext, RequestStep

\* The types of the nodes, of what is between them and of what they wrote, and
\* that no more of a frame arrives than was written.
THEOREM NetworkTypeCorrect == NetworkSpec => []NetworkTypeOK
<1>1. NetworkInit => NetworkTypeOK
  BY NetworkAssumption DEF NetworkInit, NetworkTypeOK
<1>2. NetworkTypeOK /\ [NetworkNext]_networkVars => NetworkTypeOK'
  BY TypeStep
<1> QED
  BY <1>1, <1>2, PTL DEF NetworkSpec

\* A packet for one address is taken by one host, or by hosts whose keys hash
\* alike, or it is for everyone.
THEOREM UnicastStaysPrivate == NetworkSpec => []UnicastIsPrivate
<1>1. NetworkTypeOK => UnicastIsPrivate
  <2> SUFFICES ASSUME NetworkTypeOK, NEW a \in Node, NEW b \in Node,
                      NEW id \in DOMAIN packets, Takes(a, id), Takes(b, id),
                      packets[id].dst # Everyone
               PROVE  suffix[a] = suffix[b]
    BY DEF UnicastIsPrivate, Everyone
  <2>1. suffix[a] \in Suffix /\ suffix[b] \in Suffix
    BY NetworkAssumption DEF NetworkTypeOK
  <2>2. packets[id].dst = VirtualIp(suffix[a])
    BY <2>1, BroadcastIsEveryone DEF Takes, IpOf
  <2>3. packets[id].dst = VirtualIp(suffix[b])
    BY <2>1, BroadcastIsEveryone DEF Takes, IpOf
  <2> QED
    BY <2>1, <2>2, <2>3, VirtualIpInjective
<1> QED
  BY <1>1, NetworkTypeCorrect, PTL

-----------------------------------------------------------------------------
(* Delivery: where a packet is on its way to a node. *)

\* Packet id was written at n.
Wrote(n, id) == \E i \in DOMAIN written[n] : written[n][i].id = id

\* Packet id is with the handler of n.
Handed(n, id) == \E e \in events : e.to = n /\ e.id = id

\* A packet that waits to be broadcast is nowhere else.
QueuedIsNew ==
  \A id \in queue :
    /\ \A r \in requests : r.id # id
    /\ \A n \in Node : ~ Handed(n, id) /\ ~ Wrote(n, id)

\* One request carries a packet to a node, and hands it over once.
OneRequest ==
  /\ \A r, s \in requests : r.id = s.id /\ r.to = s.to => r = s
  /\ \A r \in requests :
       /\ packets[r.id].from # r.to
       /\ ~ r.answered => ~ Handed(r.to, r.id) /\ ~ Wrote(r.to, r.id)

\* What was handed over is whole, from another node and still to be written.
OneEvent ==
  \A e \in events :
    /\ e.id \in DOMAIN packets
    /\ packets[e.id].from # e.to
    /\ e.len = packets[e.id].len
    /\ ~ Wrote(e.to, e.id)
    /\ \A f \in events : e.id = f.id /\ e.to = f.to => e = f

WrittenIsKnown == \A n \in Node, id \in Nat : Wrote(n, id) => id \in DOMAIN packets

DeliveryInv == QueuedIsNew /\ OneRequest /\ OneEvent /\ WrittenIsKnown

\* The write of event e: its packet is at e.to, and nothing else changes.
LEMMA WriteStep ==
  ASSUME NetworkTypeOK, NEW e \in events,
         written' = [written EXCEPT ![e.to] =
                       Append(@, [id |-> e.id, len |-> e.len])]
  PROVE  /\ e \in Event
         /\ \A n \in Node, id \in Nat :
              Wrote(n, id)' <=> Wrote(n, id) \/ (n = e.to /\ id = e.id)
<1> DEFINE item == [id |-> e.id, len |-> e.len]
<1>1. e \in Event /\ e.to \in Node /\ e.id \in Nat
  BY DEF NetworkTypeOK, Event
<1>2. written \in [Node -> Seq([id : Nat, len : Nat])]
  BY DEF NetworkTypeOK
<1>3. \A n \in Node : n # e.to => written'[n] = written[n]
  BY <1>2
<1>4. item \in [id : Nat, len : Nat] /\ item.id = e.id
  BY <1>1 DEF Event
<1>5. written'[e.to] = Append(written[e.to], item)
  BY <1>1, <1>2
<1> HIDE DEF item
<1>6. /\ written[e.to] \in Seq([id : Nat, len : Nat])
      /\ Len(written[e.to]) \in Nat
      /\ DOMAIN written[e.to] = 1..Len(written[e.to])
  BY <1>1, <1>2
<1>7. /\ DOMAIN written'[e.to] = 1..(Len(written[e.to]) + 1)
      /\ \A i \in 1..Len(written[e.to]) : written'[e.to][i] = written[e.to][i]
      /\ written'[e.to][Len(written[e.to]) + 1] = item
  BY <1>4, <1>5, <1>6
<1>8. ASSUME NEW id \in Nat
      PROVE  Wrote(e.to, id)' <=> Wrote(e.to, id) \/ id = e.id
  <2>1. ASSUME Wrote(e.to, id) PROVE Wrote(e.to, id)'
    BY <2>1, <1>6, <1>7 DEF Wrote
  <2>2. Wrote(e.to, e.id)'
    <3>1. Len(written[e.to]) + 1 \in DOMAIN written'[e.to]
      BY <1>6, <1>7
    <3>2. written'[e.to][Len(written[e.to]) + 1].id = e.id
      BY <1>4, <1>7
    <3> QED
      BY <3>1, <3>2 DEF Wrote
  <2>3. ASSUME Wrote(e.to, id)' PROVE Wrote(e.to, id) \/ id = e.id
    <3>1. PICK i \in DOMAIN written'[e.to] : written'[e.to][i].id = id
      BY <2>3 DEF Wrote
    <3>2. i \in 1..Len(written[e.to]) \/ i = Len(written[e.to]) + 1
      BY <3>1, <1>6, <1>7
    <3> QED
      BY <3>1, <3>2, <1>4, <1>6, <1>7 DEF Wrote
  <2> QED
    BY <2>1, <2>2, <2>3
<1>9. ASSUME NEW n \in Node, NEW id \in Nat, n # e.to
      PROVE  Wrote(n, id)' <=> Wrote(n, id)
  BY <1>3, <1>9 DEF Wrote
<1> QED
  BY <1>1, <1>8, <1>9

\* A step that changes the sender's side of a request or the bytes that
\* arrived, or ends the request, keeps the invariant.
LEMMA RequestReplaced ==
  ASSUME NetworkTypeOK, DeliveryInv, NEW r \in requests, NEW q,
         q.id = r.id, q.to = r.to, r.answered => q.answered,
         requests' \in {requests \ {r}, (requests \ {r}) \cup {q}},
         UNCHANGED <<packets, queue, events, written>>
  PROVE  DeliveryInv'
<1>1. \A n, id : /\ Handed(n, id)' <=> Handed(n, id)
                 /\ Wrote(n, id)' <=> Wrote(n, id)
  BY DEF Handed, Wrote
<1>2. \A s \in requests' : s \in requests \/ s = q
  OBVIOUS
<1>3. QueuedIsNew'
  BY <1>1, <1>2 DEF DeliveryInv, QueuedIsNew
<1>4. OneRequest'
  BY <1>1, <1>2 DEF DeliveryInv, OneRequest
<1>5. OneEvent' /\ WrittenIsKnown'
  BY <1>1 DEF DeliveryInv, OneEvent, WrittenIsKnown
<1> QED
  BY <1>3, <1>4, <1>5 DEF DeliveryInv

LEMMA DeliveryStep ==
  ASSUME NetworkTypeOK, DeliveryInv, [NetworkNext]_networkVars
  PROVE  DeliveryInv'
<1>1. ASSUME NEW n \in Node, NEW p \in HostSends(n), TunReader(p)
      PROVE  DeliveryInv'
  <2>1. UNCHANGED <<requests, events, written>> /\ queue' = queue \cup {Len(packets) + 1}
    BY <1>1 DEF TunReader
  <2>2. \A m, id : /\ Handed(m, id)' <=> Handed(m, id)
                   /\ Wrote(m, id)' <=> Wrote(m, id)
    BY <2>1 DEF Handed, Wrote
  <2>3. /\ DOMAIN packets' = DOMAIN packets \cup {Len(packets) + 1}
        /\ Len(packets) + 1 \notin DOMAIN packets
        /\ \A id \in DOMAIN packets : packets'[id] = packets[id]
    BY <1>1, PacketAdded
  <2>4. Len(packets) + 1 \in Nat
    BY DEF NetworkTypeOK
  <2>5. QueuedIsNew'
    <3> SUFFICES ASSUME NEW id \in queue'
                 PROVE  /\ \A r \in requests : r.id # id
                        /\ \A m \in Node : ~ Handed(m, id) /\ ~ Wrote(m, id)
      BY <2>1, <2>2 DEF QueuedIsNew
    <3>1. CASE id \in queue
      BY <3>1 DEF DeliveryInv, QueuedIsNew
    <3>2. CASE id = Len(packets) + 1
      <4>1. \A r \in requests : r.id # id
        BY <3>2, <2>3 DEF NetworkTypeOK
      <4>2. \A m \in Node : ~ Handed(m, id)
        BY <3>2, <2>3 DEF DeliveryInv, OneEvent, Handed
      <4>3. \A m \in Node : ~ Wrote(m, id)
        BY <3>2, <2>3, <2>4 DEF DeliveryInv, WrittenIsKnown
      <4> QED
        BY <4>1, <4>2, <4>3
    <3> QED
      BY <2>1, <3>1, <3>2
  <2>6. OneRequest'
    <3>1. \A r \in requests : r.id \in DOMAIN packets
      BY DEF NetworkTypeOK
    <3> QED
      BY <2>1, <2>2, <2>3, <3>1 DEF DeliveryInv, OneRequest
  <2>7. OneEvent'
    BY <2>1, <2>2, <2>3 DEF DeliveryInv, OneEvent
  <2>8. WrittenIsKnown'
    BY <2>2, <2>3 DEF DeliveryInv, WrittenIsKnown
  <2> QED
    BY <2>5, <2>6, <2>7, <2>8 DEF DeliveryInv
<1>2. ASSUME NEW id \in queue, broadcast_data(id)
      PROVE  DeliveryInv'
  <2>1. PICK table \in SUBSET (Node \ {packets[id].from}) :
          requests' = requests \cup {NewRequest(id, n) : n \in table}
    BY <1>2 DEF broadcast_data
  <2>2. UNCHANGED <<packets, events, written>> /\ queue' = queue \ {id}
    BY <1>2 DEF broadcast_data
  <2>3. \A n, i : /\ Handed(n, i)' <=> Handed(n, i)
                  /\ Wrote(n, i)' <=> Wrote(n, i)
    BY <2>2 DEF Handed, Wrote
  <2>4. \A s \in requests' :
          s \in requests \/ \E n \in table : s = NewRequest(id, n) /\ s.id = id /\ s.to = n
    BY <2>1 DEF NewRequest
  <2>5. QueuedIsNew'
    BY <2>2, <2>3, <2>4 DEF DeliveryInv, QueuedIsNew
  <2>6. OneRequest'
    <3>1. \A r, s \in requests' : r.id = s.id /\ r.to = s.to => r = s
      BY <2>4 DEF DeliveryInv, QueuedIsNew, OneRequest
    <3>2. ASSUME NEW r \in requests'
          PROVE  /\ packets[r.id].from # r.to
                 /\ ~ r.answered => ~ Handed(r.to, r.id) /\ ~ Wrote(r.to, r.id)
      <4>1. CASE r \in requests
        BY <4>1 DEF DeliveryInv, OneRequest
      <4>2. CASE \E n \in table : r = NewRequest(id, n) /\ r.id = id /\ r.to = n
        BY <4>2 DEF DeliveryInv, QueuedIsNew
      <4> QED
        BY <2>4, <4>1, <4>2
    <3> QED
      BY <2>2, <2>3, <3>1, <3>2 DEF OneRequest
  <2>7. OneEvent' /\ WrittenIsKnown'
    BY <2>2, <2>3 DEF DeliveryInv, OneEvent, WrittenIsKnown
  <2> QED
    BY <2>5, <2>6, <2>7 DEF DeliveryInv
<1>3. ASSUME NEW r \in requests, NEW k \in Cuts(r.id), Arrives(r, k)
      PROVE  DeliveryInv'
  <2> DEFINE q == [r EXCEPT !.arrived = k]
  <2>1. r \in Request
    BY DEF NetworkTypeOK
  <2>2. q.id = r.id /\ q.to = r.to /\ q.answered = r.answered
    BY <2>1 DEF Request
  <2>3. requests' = (requests \ {r}) \cup {q} /\ UNCHANGED <<packets, queue, events, written>>
    BY <1>3 DEF Arrives
  <2> HIDE DEF q
  <2> QED
    BY <2>2, <2>3, RequestReplaced
<1>4. ASSUME NEW r \in requests, DataRequest(r)
      PROVE  DeliveryInv'
  <2> DEFINE q == [r EXCEPT !.answered = TRUE]
  <2>1. r \in Request /\ r.id \in DOMAIN packets /\ r.to \in Node /\ ~ r.answered
    BY <1>4 DEF NetworkTypeOK, DataRequest, Request
  <2>2. q.id = r.id /\ q.to = r.to /\ q.answered
    BY <2>1 DEF Request
  <2>3. PICK e : /\ e.id = r.id /\ e.to = r.to /\ e.len = packets[r.id].len
                 /\ events' = events \cup {e}
    <3>1. PICK n \in read_request(r) :
            events' = events \cup {[id |-> r.id, to |-> r.to, len |-> n]}
      BY <1>4 DEF DataRequest
    <3>2. n = packets[r.id].len
      BY <2>1, <3>1, Lengths, LengthRoundTrip DEF read_request
    <3> QED
      BY <3>1, <3>2
  <2>4. requests' = (requests \ {r}) \cup {q} /\ UNCHANGED <<packets, queue, written>>
    BY <1>4 DEF DataRequest
  <2> HIDE DEF q
  <2>5. \A s \in requests' : (s \in requests /\ s # r) \/ s = q
    BY <2>4
  <2>6. \A n, i : Wrote(n, i)' <=> Wrote(n, i)
    BY <2>4 DEF Wrote
  <2>7. \A n, i : Handed(n, i)' <=> Handed(n, i) \/ (n = r.to /\ i = r.id)
    BY <2>3 DEF Handed
  <2>8. packets[r.id].from # r.to /\ ~ Handed(r.to, r.id) /\ ~ Wrote(r.to, r.id)
    BY <2>1 DEF DeliveryInv, OneRequest
  <2>9. QueuedIsNew'
    BY <2>2, <2>4, <2>5, <2>6, <2>7 DEF DeliveryInv, QueuedIsNew
  <2>10. OneRequest'
    BY <2>2, <2>4, <2>5, <2>6, <2>7, <2>8 DEF DeliveryInv, OneRequest
  <2>11. OneEvent'
    <3>1. \A f \in events : ~ (f.id = r.id /\ f.to = r.to)
      BY <2>8 DEF Handed
    <3> QED
      BY <2>1, <2>3, <2>4, <2>6, <2>8, <3>1 DEF DeliveryInv, OneEvent
  <2>12. WrittenIsKnown'
    BY <2>4, <2>6 DEF DeliveryInv, WrittenIsKnown
  <2> QED
    BY <2>9, <2>10, <2>11, <2>12 DEF DeliveryInv
<1>5. ASSUME NEW r \in requests, StreamEnds(r)
      PROVE  DeliveryInv'
  BY <1>5, RequestReplaced DEF StreamEnds
<1>6. ASSUME NEW r \in requests, OutboundFailure(r)
      PROVE  DeliveryInv'
  <2> DEFINE q == [r EXCEPT !.waiting = FALSE]
  <2>1. r \in Request
    BY DEF NetworkTypeOK
  <2>2. q.id = r.id /\ q.to = r.to /\ q.answered = r.answered
    BY <2>1 DEF Request
  <2>3. requests' = (requests \ {r}) \cup {q} /\ UNCHANGED <<packets, queue, events, written>>
    BY <1>6 DEF OutboundFailure
  <2> HIDE DEF q
  <2> QED
    BY <2>2, <2>3, RequestReplaced
<1>7. ASSUME NEW e \in events, HandlerWrites(e)
      PROVE  DeliveryInv'
  <2>1. events' = events \ {e} /\ UNCHANGED <<packets, queue, requests>>
    BY <1>7 DEF HandlerWrites
  <2>2. e \in Event /\ e.to \in Node /\ e.id \in Nat
    BY DEF NetworkTypeOK, Event
  <2>3. \A n, i : Handed(n, i)' => Handed(n, i)
    BY <2>1 DEF Handed
  <2>4. \A n \in Node, i \in Nat :
          Wrote(n, i)' => Wrote(n, i) \/ (n = e.to /\ i = e.id)
    <3>1. CASE UNCHANGED written
      BY <3>1 DEF Wrote
    <3>2. CASE written' = [written EXCEPT ![e.to] =
                             Append(@, [id |-> e.id, len |-> e.len])]
      BY <3>2, WriteStep
    <3> QED
      BY <1>7, <3>1, <3>2 DEF HandlerWrites
  <2>5. Handed(e.to, e.id)
    BY DEF Handed
  <2>6. /\ \A id \in queue : id \in Nat
        /\ \A r \in requests : r.id \in Nat /\ r.to \in Node
        /\ \A f \in events : f.id \in Nat /\ f.to \in Node
    BY DEF NetworkTypeOK, Request, Event
  <2>7. QueuedIsNew'
    BY <2>1, <2>3, <2>4, <2>5, <2>6 DEF DeliveryInv, QueuedIsNew
  <2>8. OneRequest'
    BY <2>1, <2>3, <2>4, <2>5, <2>6 DEF DeliveryInv, OneRequest
  <2>9. OneEvent'
    <3>1. ASSUME NEW f \in events' PROVE f \in events /\ ~ Wrote(f.to, f.id)'
      BY <2>1, <2>4, <2>6 DEF DeliveryInv, OneEvent
    <3> QED
      BY <2>1, <3>1 DEF DeliveryInv, OneEvent
  <2>10. WrittenIsKnown'
    BY <2>1, <2>2, <2>4 DEF DeliveryInv, WrittenIsKnown, OneEvent
  <2> QED
    BY <2>7, <2>8, <2>9, <2>10 DEF DeliveryInv
<1>8. CASE UNCHANGED networkVars
  BY <1>8 DEF networkVars, DeliveryInv, QueuedIsNew, OneRequest, OneEvent, WrittenIsKnown,
              Handed, Wrote
<1> QED
  BY <1>1, <1>2, <1>3, <1>4, <1>5, <1>6, <1>7, <1>8 DEF NetworkNext, RequestStep

-----------------------------------------------------------------------------
(* The abstract network. *)

LEMMA LanStep ==
  ASSUME NetworkTypeOK, DeliveryInv, [NetworkNext]_networkVars
  PROVE  [Net!Next]_<<packets, written>>
<1>1. ASSUME NEW n \in Node, NEW p \in HostSends(n), TunReader(p)
      PROVE  Net!Send
  BY <1>1, SentPacket DEF TunReader, Net!Send
<1>2. ASSUME NEW id \in queue, broadcast_data(id)
      PROVE  UNCHANGED <<packets, written>>
  BY <1>2 DEF broadcast_data
<1>3. ASSUME NEW r \in requests, RequestStep(r)
      PROVE  UNCHANGED <<packets, written>>
  BY <1>3 DEF RequestStep, Arrives, DataRequest, StreamEnds, OutboundFailure
<1>4. ASSUME NEW e \in events, HandlerWrites(e)
      PROVE  UNCHANGED <<packets, written>> \/ \E n \in Node : Net!Receive(n)
  <2>1. /\ e.to \in Node /\ e.id \in DOMAIN packets /\ packets[e.id].from # e.to
        /\ e.len = packets[e.id].len /\ ~ Wrote(e.to, e.id)
    BY DEF NetworkTypeOK, Event, DeliveryInv, OneEvent
  <2>2. CASE written' = [written EXCEPT ![e.to] =
                           Append(@, [id |-> e.id, len |-> e.len])]
    <3>1. UNCHANGED packets
      BY <1>4 DEF HandlerWrites
    <3>2. \A i \in DOMAIN written[e.to] : written[e.to][i].id # e.id
      BY <2>1 DEF Wrote
    <3> QED
      BY <2>1, <2>2, <3>1, <3>2 DEF Net!Receive
  <2> QED
    BY <1>4, <2>2 DEF HandlerWrites
<1> QED
  BY <1>1, <1>2, <1>3, <1>4 DEF NetworkNext, Net!Next, networkVars

\* The nodes together implement the abstract network: a packet is written
\* whole, by other nodes than its sender, and by each of them once at most.
THEOREM Refinement == NetworkSpec => ImplementsLan
<1>1. NetworkInit => Net!Init
  BY DEF NetworkInit, Net!Init
<1>2. NetworkInit => DeliveryInv
  BY DEF NetworkInit, DeliveryInv, QueuedIsNew, OneRequest, OneEvent, WrittenIsKnown,
         Handed, Wrote
<1>3. NetworkTypeOK /\ DeliveryInv /\ [NetworkNext]_networkVars
        => DeliveryInv' /\ [Net!Next]_<<packets, written>>
  BY DeliveryStep, LanStep
<1> QED
  BY <1>1, <1>2, <1>3, NetworkTypeCorrect, PTL DEF NetworkSpec, ImplementsLan, Net!Spec

=============================================================================
