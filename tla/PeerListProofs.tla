--------------------------- MODULE PeerListProofs ---------------------------
(* The theorems of P2pNode and PeerList, for all values of the constants.    *)
EXTENDS PeerList, FiniteSetTheorems, TLAPS

-----------------------------------------------------------------------------
(* Types. *)

LEMMA EmitType ==
  ASSUME events \in Seq(NetworkEvent), NEW e \in NetworkEvent, Emit(e)
  PROVE  events' \in Seq(NetworkEvent)
  BY DEF Emit

\* add_peer keeps the table a table and the channel a channel.
LEMMA AddPeerType ==
  ASSUME NodeTypeOK, NEW p \in Peer, NEW via \in ConnectionType, add_peer(p, via)
  PROVE  /\ DOMAIN peers' \subseteq Peer
         /\ peers' \in [DOMAIN peers' -> PeerInfo]
         /\ events' \in Seq(NetworkEvent)
<1>1. NewPeerInfo(p, via) \in PeerInfo /\ NewPeerInfo(p, via).node_id = p
  BY DEF NewPeerInfo, PeerInfo
<1>2. CASE p \in DOMAIN peers /\ peers' = [peers EXCEPT ![p].connection_type = via]
             /\ events' = events
  BY <1>2 DEF NodeTypeOK, PeerInfo
<1>3. CASE /\ p \notin DOMAIN peers
           /\ peers' = [q \in DOMAIN peers \cup {p} |->
                          IF q = p THEN NewPeerInfo(p, via) ELSE peers[q]]
           /\ Emit([kind |-> "connected", id |-> p, info |-> NewPeerInfo(p, via)])
  <2>1. [kind |-> "connected", id |-> p, info |-> NewPeerInfo(p, via)] \in NetworkEvent
    BY <1>1 DEF NetworkEvent
  <2> QED
    BY <1>1, <1>3, <2>1 DEF NodeTypeOK, Emit
<1> QED
  BY <1>2, <1>3 DEF add_peer

LEMMA RemovePeerType ==
  ASSUME NodeTypeOK, NEW p \in Peer, remove_peer(p)
  PROVE  /\ DOMAIN peers' \subseteq Peer
         /\ peers' \in [DOMAIN peers' -> PeerInfo]
         /\ events' \in Seq(NetworkEvent)
<1>1. [kind |-> "disconnected", id |-> p] \in NetworkEvent
  BY DEF NetworkEvent
<1>2. events' \in Seq(NetworkEvent)
  BY <1>1, EmitType DEF NodeTypeOK, remove_peer
<1>3. DOMAIN peers' \subseteq Peer /\ peers' \in [DOMAIN peers' -> PeerInfo]
  BY DEF NodeTypeOK, remove_peer
<1> QED
  BY <1>2, <1>3

LEMMA NodeTypeNext ==
  ASSUME NodeTypeOK, NodeNext
  PROVE  NodeTypeOK'
<1> USE NodeAssumption DEF swarmVars
<1>1. ASSUME NEW p \in Peer, NEW rtt \in Rtt, Ping(p, rtt)
      PROVE  NodeTypeOK'
  <2>1. rtt % PingModulus \in Nat
    BY DEF PingModulus
  <2>2. peers' \in [DOMAIN peers -> PeerInfo] /\ DOMAIN peers' = DOMAIN peers
    BY <1>1, <2>1 DEF NodeTypeOK, Ping, PeerInfo
  <2> QED
    BY <1>1, <2>2 DEF NodeTypeOK, Ping
<1>2. ASSUME NEW p \in Peer, NEW a \in Addr, MdnsDiscovered(p, a)
      PROVE  NodeTypeOK'
  BY <1>2, AddPeerType DEF NodeTypeOK, MdnsDiscovered, ConnectionType
<1>3. ASSUME NEW p \in Peer, NEW a \in Addr, MdnsExpired(p, a)
      PROVE  NodeTypeOK'
  BY <1>3, RemovePeerType DEF NodeTypeOK, MdnsExpired
<1>4. ASSUME NEW p \in Peer, RoutingUpdated(p)
      PROVE  NodeTypeOK'
  BY <1>4, AddPeerType DEF NodeTypeOK, RoutingUpdated, ConnectionType
<1>5. ASSUME NEW c \in Connection, ConnectionEstablished(c)
      PROVE  NodeTypeOK'
  <2>1. c.peer \in Peer /\ c.via \in ConnectionType
    BY DEF Connection
  <2> QED
    BY <1>5, <2>1, AddPeerType DEF NodeTypeOK, ConnectionEstablished
<1>6. ASSUME NEW c \in Connection, ConnectionClosed(c)
      PROVE  NodeTypeOK'
  <2>1. c.peer \in Peer
    BY DEF Connection
  <2> QED
    BY <1>6, <2>1, RemovePeerType DEF NodeTypeOK, ConnectionClosed
<1>7. ASSUME NEW p \in Peer, IdentifyReceived(p)
      PROVE  NodeTypeOK'
  BY <1>7 DEF NodeTypeOK, IdentifyReceived, ConnsOf
<1>8. ASSUME NEW p \in Peer, DataRequest(p)
      PROVE  NodeTypeOK'
  <2>1. [kind |-> "packet", id |-> p] \in NetworkEvent
    BY DEF NetworkEvent
  <2> QED
    BY <1>8, <2>1 DEF NodeTypeOK, DataRequest, Emit
<1>9. ASSUME NEW r \in Request, DataResponse(r) \/ OutboundFailure(r)
      PROVE  NodeTypeOK'
  BY <1>9 DEF NodeTypeOK, DataResponse, OutboundFailure, RequestDone
<1>10. CASE broadcast_data
  <2>1. PICK ids \in Injection(DOMAIN peers, RequestId \ {r.id : r \in inflight}) :
          LET new == {[id |-> ids[p], peer |-> p] : p \in DOMAIN peers}
          IN  /\ inflight' = inflight \cup new
              /\ pending' = pending \cup new
    BY <1>10 DEF broadcast_data
  <2>2. {[id |-> ids[p], peer |-> p] : p \in DOMAIN peers} \subseteq Request
    BY DEF Injection, Request, NodeTypeOK
  <2> QED
    BY <1>10, <2>1, <2>2 DEF NodeTypeOK, broadcast_data
<1>11. CASE SubmitPacket
  BY <1>11 DEF NodeTypeOK, SubmitPacket
<1> QED
  BY <1>1, <1>2, <1>3, <1>4, <1>5, <1>6, <1>7, <1>8, <1>9, <1>10, <1>11
     DEF NodeNext, TableStep, TrafficStep

ListType(list) ==
  /\ DOMAIN list \subseteq PeerInfo
  /\ list \in [DOMAIN list -> Nat \ {0}]

\* What handling an event makes of the list: the row of an arrival whose peer has
\* none is there once, a departure takes the rows of its peer, nothing else
\* changes.
LEMMA AppliedRows ==
  ASSUME NEW list, ListType(list), NEW e \in NetworkEvent
  PROVE  /\ ListType(ApplyEvent(list, e))
         /\ e.kind = "connected" /\ RowsOf(list, e.id) = {}
              => /\ DOMAIN ApplyEvent(list, e) = DOMAIN list \cup {e.info}
                 /\ ApplyEvent(list, e)[e.info] = 1
         /\ e.kind = "connected" /\ RowsOf(list, e.id) # {} => ApplyEvent(list, e) = list
         /\ e.kind = "disconnected"
              => DOMAIN ApplyEvent(list, e) = DOMAIN list \ RowsOf(list, e.id)
         /\ e.kind = "packet" => ApplyEvent(list, e) = list
         /\ \A row \in DOMAIN list \cap DOMAIN ApplyEvent(list, e) :
              ApplyEvent(list, e)[row] = list[row]
<1>1. CASE e.kind = "connected" /\ RowsOf(list, e.id) = {}
  <2>1. e.info \in PeerInfo /\ e.info.node_id = e.id
    BY <1>1 DEF NetworkEvent
  <2>2. e.info \notin DOMAIN list
    BY <1>1, <2>1 DEF RowsOf
  <2>3. ApplyEvent(list, e)
          = [r \in DOMAIN list \cup {e.info} |-> IF r = e.info THEN 1 ELSE list[r]]
    BY <1>1, <2>2 DEF ApplyEvent, Rows!BagAdd
  <2> QED
    BY <1>1, <2>1, <2>2, <2>3 DEF ListType
<1>2. CASE e.kind = "connected" /\ RowsOf(list, e.id) # {}
  BY <1>2 DEF ApplyEvent, ListType
<1>3. CASE e.kind = "disconnected"
  <2>1. ApplyEvent(list, e) = [r \in DOMAIN list \ RowsOf(list, e.id) |-> list[r]]
    BY <1>3 DEF ApplyEvent, Restrict
  <2> QED
    BY <1>3, <2>1 DEF ListType
<1>4. CASE e.kind = "packet"
  BY <1>4 DEF ApplyEvent, ListType
<1> QED
  BY <1>1, <1>2, <1>3, <1>4 DEF NetworkEvent

LEMMA HandleEventType ==
  ASSUME TypeOK, HandleEvent
  PROVE  /\ Head(events) \in NetworkEvent
         /\ events' \in Seq(NetworkEvent)
         /\ ListType(listed')
<1>1. Head(events) \in NetworkEvent /\ events' \in Seq(NetworkEvent)
  BY DEF TypeOK, NodeTypeOK, HandleEvent
<1>2. ListType(listed) /\ listed' = ApplyEvent(listed, Head(events))
  BY DEF TypeOK, HandleEvent, ListType
<1> QED
  BY <1>1, <1>2, AppliedRows

\* The same in terms of the list before and after the event.
LEMMA HandledRows ==
  ASSUME TypeOK, NEW e \in NetworkEvent, listed' = ApplyEvent(listed, e)
  PROVE  /\ e.kind = "connected" /\ RowsOf(listed, e.id) = {}
              => DOMAIN listed' = DOMAIN listed \cup {e.info} /\ listed'[e.info] = 1
         /\ e.kind = "connected" /\ RowsOf(listed, e.id) # {} => listed' = listed
         /\ e.kind = "disconnected"
              => DOMAIN listed' = {row \in DOMAIN listed : row.node_id # e.id}
         /\ e.kind = "packet" => listed' = listed
         /\ \A row \in DOMAIN listed \cap DOMAIN listed' : listed'[row] = listed[row]
<1> DEFINE new == ApplyEvent(listed, e)
<1>1. ListType(listed)
  BY DEF TypeOK, ListType
<1>2. /\ e.kind = "connected" /\ RowsOf(listed, e.id) = {}
           => DOMAIN new = DOMAIN listed \cup {e.info} /\ new[e.info] = 1
      /\ e.kind = "connected" /\ RowsOf(listed, e.id) # {} => new = listed
      /\ e.kind = "disconnected" => DOMAIN new = DOMAIN listed \ RowsOf(listed, e.id)
      /\ e.kind = "packet" => new = listed
      /\ \A row \in DOMAIN listed \cap DOMAIN new : new[row] = listed[row]
  BY <1>1, AppliedRows
<1>3. DOMAIN listed \ RowsOf(listed, e.id) = {row \in DOMAIN listed : row.node_id # e.id}
  BY DEF RowsOf
<1>4. listed' = new
  OBVIOUS
<1> HIDE DEF new
<1> QED
  BY <1>2, <1>3, <1>4

\* Types, for any network, any number of connections and any channel bound.
THEOREM TypeCorrect == Spec => []TypeOK
<1>1. Init => TypeOK
  BY NodeAssumption DEF Init, NodeInit, TypeOK, NodeTypeOK
<1>2. TypeOK /\ [Next]_vars => TypeOK'
  <2> SUFFICES ASSUME TypeOK, [Next]_vars
               PROVE  TypeOK'
    OBVIOUS
  <2>1. CASE NodeNext /\ UNCHANGED listed
    BY <2>1, NodeTypeNext DEF TypeOK, PeerInfo
  <2>2. CASE HandleEvent
    BY <2>2, HandleEventType DEF TypeOK, NodeTypeOK, HandleEvent, swarmVars, ListType
  <2>3. CASE UNCHANGED vars
    BY <2>3 DEF TypeOK, NodeTypeOK, vars
  <2> QED
    BY <2>1, <2>2, <2>3 DEF Next
<1> QED
  BY <1>1, <1>2, PTL DEF Spec

-----------------------------------------------------------------------------
(* What the table and the list say. *)

\* The keys of the table after the two calls that change them.
LEMMA AddPeerKeys ==
  ASSUME NEW p, NEW via, add_peer(p, via)
  PROVE  DOMAIN peers' = DOMAIN peers \cup {p}
  BY DEF add_peer

LEMMA RemovePeerKeys ==
  ASSUME NEW p, remove_peer(p)
  PROVE  DOMAIN peers' = DOMAIN peers \ {p}
  BY DEF remove_peer

\* What justifies the row of p.
Justified(p) ==
  \/ Connected(p)
  \/ \E a \in Addr : <<p, a>> \in discovered
  \/ p \in Bootstrap

\* No peer keeps a row without a connection, an mDNS record or a place among
\* the bootstrap nodes.
THEOREM RowsJustified == Spec => []RowsAreJustified
<1> USE DEF swarmVars
<1>1. Init => RowsAreJustified
  BY DEF Init, NodeInit, RowsAreJustified
<1>2. TypeOK /\ RowsAreJustified /\ [Next]_vars => RowsAreJustified'
  <2> SUFFICES ASSUME TypeOK, \A p \in DOMAIN peers : Justified(p), [Next]_vars,
                      NEW q \in DOMAIN peers'
               PROVE  Justified(q)'
    BY DEF RowsAreJustified, Justified
  <2> USE DEF Justified, Connected, ConnsOf
  <2>1. ASSUME NEW p \in Peer, NEW rtt \in Rtt, Ping(p, rtt)
        PROVE  Justified(q)'
    BY <2>1 DEF Ping
  <2>2. ASSUME NEW p \in Peer, NEW a \in Addr, MdnsDiscovered(p, a)
        PROVE  Justified(q)'
    <3>1. DOMAIN peers' = DOMAIN peers \cup {p}
      BY <2>2, AddPeerKeys DEF MdnsDiscovered
    <3>2. /\ <<p, a>> \in discovered'
          /\ discovered \subseteq discovered'
          /\ conns' = conns
      BY <2>2 DEF MdnsDiscovered
    <3> QED
      BY <3>1, <3>2
  <2>3. ASSUME NEW p \in Peer, NEW a \in Addr, MdnsExpired(p, a)
        PROVE  Justified(q)'
    <3>1. DOMAIN peers' = DOMAIN peers \ {p}
      BY <2>3, RemovePeerKeys DEF MdnsExpired
    <3>2. discovered' = discovered \ {<<p, a>>} /\ conns' = conns
      BY <2>3 DEF MdnsExpired
    <3> QED
      BY <3>1, <3>2
  <2>4. ASSUME NEW p \in Peer, RoutingUpdated(p)
        PROVE  Justified(q)'
    <3>1. q = p \/ q \in DOMAIN peers
      <4>1. CASE add_peer(p, "direct")
        BY <4>1, AddPeerKeys
      <4>2. CASE UNCHANGED peers
        BY <4>2
      <4> QED
        BY <2>4, <4>1, <4>2 DEF RoutingUpdated
    <3>2. p \in Bootstrap \/ Connected(p)
      BY <2>4 DEF RoutingUpdated, TypeOK, NodeTypeOK
    <3>3. conns' = conns /\ discovered' = discovered
      BY <2>4 DEF RoutingUpdated
    <3> QED
      BY <3>1, <3>2, <3>3
  <2>5. ASSUME NEW c \in Connection, ConnectionEstablished(c)
        PROVE  Justified(q)'
    <3>1. q = c.peer \/ q \in DOMAIN peers
      <4>1. CASE add_peer(c.peer, c.via)
        BY <4>1 DEF add_peer
      <4>2. CASE UNCHANGED peers
        BY <4>2
      <4>3. add_peer(c.peer, c.via) \/ UNCHANGED peers
        BY <2>5 DEF ConnectionEstablished
      <4> QED
        BY <4>1, <4>2, <4>3
    <3>2. conns' = conns \cup {c} /\ discovered' = discovered
      BY <2>5 DEF ConnectionEstablished
    <3> QED
      BY <3>1, <3>2
  <2>6. ASSUME NEW c \in Connection, ConnectionClosed(c)
        PROVE  Justified(q)'
    <3>1. DOMAIN peers' = DOMAIN peers \ {c.peer}
      BY <2>6, RemovePeerKeys DEF ConnectionClosed
    <3>2. conns' = conns \ {c} /\ discovered' = discovered
      BY <2>6 DEF ConnectionClosed
    <3> QED
      BY <3>1, <3>2
  <2>7. CASE TrafficStep
    BY <2>7 DEF TrafficStep, IdentifyReceived, DataRequest, DataResponse,
                OutboundFailure, RequestDone, broadcast_data, SubmitPacket
  <2>8. CASE HandleEvent
    BY <2>8 DEF HandleEvent
  <2>9. CASE UNCHANGED vars
    BY <2>9 DEF vars
  <2> QED
    BY <2>1, <2>2, <2>3, <2>4, <2>5, <2>6, <2>7, <2>8, <2>9
       DEF Next, NodeNext, TableStep
<1> QED
  BY <1>1, <1>2, TypeCorrect, PTL DEF Spec

\* What ConnectedIsKnown rests on: a peer has one connection at most.
SoleConnection == \A c, d \in conns : c.peer = d.peer => c = d

\* With one connection to a peer at most, and without mDNS, a close removes only
\* peers that are no longer connected: every connected peer is in the table.
THEOREM ConnectedKnown ==
  ASSUME MaxConns = 1, Addr = {}
  PROVE  Spec => [](SoleConnection /\ ConnectedIsKnown)
<1> USE DEF swarmVars, Connected, ConnsOf
<1>1. Init => SoleConnection /\ ConnectedIsKnown
  BY DEF Init, NodeInit, SoleConnection, ConnectedIsKnown
<1>2. TypeOK /\ SoleConnection /\ ConnectedIsKnown /\ [Next]_vars
        => (SoleConnection /\ ConnectedIsKnown)'
  <2> SUFFICES ASSUME TypeOK, SoleConnection, ConnectedIsKnown, [Next]_vars
               PROVE  (SoleConnection /\ ConnectedIsKnown)'
    OBVIOUS
  <2> USE DEF SoleConnection, ConnectedIsKnown
  <2>1. ASSUME NEW p \in Peer, NEW rtt \in Rtt, Ping(p, rtt)
        PROVE  (SoleConnection /\ ConnectedIsKnown)'
    BY <2>1 DEF Ping
  <2>2. ASSUME NEW p \in Peer, RoutingUpdated(p)
        PROVE  (SoleConnection /\ ConnectedIsKnown)'
    <3>1. DOMAIN peers \subseteq DOMAIN peers'
      BY <2>2, AddPeerKeys DEF RoutingUpdated
    <3> QED
      BY <2>2, <3>1 DEF RoutingUpdated
  <2>3. ASSUME NEW c \in Connection, ConnectionEstablished(c)
        PROVE  (SoleConnection /\ ConnectedIsKnown)'
    <3>1. DOMAIN peers \subseteq DOMAIN peers' /\ c.peer \in DOMAIN peers'
      BY <2>3 DEF ConnectionEstablished, add_peer
    <3>2. ~ \E d \in conns : d.peer = c.peer
      <4>1. SUFFICES ASSUME NEW d \in conns, d.peer = c.peer
                     PROVE  FALSE
        OBVIOUS
      <4> DEFINE S == ConnsOf(c.peer)
      <4>2. S = {d}
        BY <4>1
      <4>3. Cardinality(S) < 1
        BY <2>3 DEF ConnectionEstablished
      <4> HIDE DEF S
      <4>4. Cardinality({d}) = 1
        BY FS_Singleton
      <4>5. Cardinality(S) = 1
        BY <4>2, <4>4, Zenon
      <4> QED
        BY <4>3, <4>5
    <3>3. conns' = conns \cup {c}
      BY <2>3 DEF ConnectionEstablished
    <3> QED
      BY <3>1, <3>2, <3>3
  <2>4. ASSUME NEW c \in Connection, ConnectionClosed(c)
        PROVE  (SoleConnection /\ ConnectedIsKnown)'
    <3>1. DOMAIN peers' = DOMAIN peers \ {c.peer}
      BY <2>4, RemovePeerKeys DEF ConnectionClosed
    <3>2. conns' = conns \ {c} /\ c \in conns
      BY <2>4 DEF ConnectionClosed
    <3> QED
      BY <3>1, <3>2
  <2>5. CASE TrafficStep
    BY <2>5 DEF TrafficStep, IdentifyReceived, DataRequest, DataResponse,
                OutboundFailure, RequestDone, broadcast_data, SubmitPacket
  <2>6. CASE HandleEvent
    BY <2>6 DEF HandleEvent
  <2>7. CASE UNCHANGED vars
    BY <2>7 DEF vars
  <2> QED
    BY <2>1, <2>2, <2>3, <2>4, <2>5, <2>6, <2>7 DEF Next, NodeNext, TableStep
<1> QED
  BY <1>1, <1>2, TypeCorrect, PTL DEF Spec

\* pending_requests holds the requests in flight and no others.
THEOREM PendingTracked == Spec => []PendingIsInFlight
<1> USE DEF swarmVars
<1>1. Init => PendingIsInFlight
  BY DEF Init, NodeInit, PendingIsInFlight
<1>2. PendingIsInFlight /\ [Next]_vars => PendingIsInFlight'
  <2> SUFFICES ASSUME PendingIsInFlight, [Next]_vars
               PROVE  PendingIsInFlight'
    OBVIOUS
  <2>1. CASE TableStep
    BY <2>1 DEF TableStep, Ping, MdnsDiscovered, MdnsExpired, RoutingUpdated,
                ConnectionEstablished, ConnectionClosed, PendingIsInFlight
  <2>2. CASE TrafficStep
    BY <2>2 DEF TrafficStep, IdentifyReceived, DataRequest, DataResponse,
                OutboundFailure, RequestDone, broadcast_data, SubmitPacket,
                PendingIsInFlight
  <2>3. CASE HandleEvent
    BY <2>3 DEF HandleEvent, PendingIsInFlight
  <2>4. CASE UNCHANGED vars
    BY <2>4 DEF vars, PendingIsInFlight
  <2> QED
    BY <2>1, <2>2, <2>3, <2>4 DEF Next, NodeNext
<1> QED
  BY <1>1, <1>2, PTL DEF Spec

-----------------------------------------------------------------------------
(* PeerList implements PeerFeed. *)

\* What remains of an event in the abstract channel.
Abstract(e) == [kind |-> e.kind, id |-> e.id]

LEMMA FeedOfSeq ==
  ASSUME NEW q \in Seq(NetworkEvent)
  PROVE  FeedOf(q) \in Seq(Feed!Event) /\ Len(FeedOf(q)) = Len(q)
<1>1. \A i \in 1..Len(q) : q[i] \in NetworkEvent
  OBVIOUS
<1>2. \A i \in 1..Len(q) : Abstract(q[i]) \in Feed!Event
  BY <1>1 DEF NetworkEvent, Abstract, Feed!Event
<1> QED
  BY <1>2 DEF FeedOf, Abstract

LEMMA SameFunction ==
  ASSUME NEW S, NEW f, NEW g,
         f = [x \in S |-> f[x]], g = [x \in S |-> g[x]],
         \A x \in S : f[x] = g[x]
  PROVE  f = g
<1>1. [x \in S |-> f[x]] = [x \in S |-> g[x]]
  OBVIOUS
<1> QED
  BY <1>1

LEMMA FeedOfAppend ==
  ASSUME NEW q \in Seq(NetworkEvent), NEW e \in NetworkEvent
  PROVE  FeedOf(Append(q, e)) = Append(FeedOf(q), Abstract(e))
<1>1. /\ Len(q) \in Nat
      /\ DOMAIN Append(q, e) = 1..(Len(q) + 1)
      /\ \A i \in 1..Len(q) : Append(q, e)[i] = q[i]
  OBVIOUS
<1>2. /\ FeedOf(q) \in Seq(Feed!Event) /\ Len(FeedOf(q)) = Len(q)
      /\ Append(q, e) \in Seq(NetworkEvent)
  BY FeedOfSeq
<1>3. Abstract(e) \in Feed!Event
  BY DEF Abstract, NetworkEvent, Feed!Event
<1>4. DOMAIN Append(FeedOf(q), Abstract(e)) = 1..(Len(q) + 1)
  BY <1>2, <1>3
<1>5. ASSUME NEW i \in 1..(Len(q) + 1)
      PROVE  FeedOf(Append(q, e))[i] = Append(FeedOf(q), Abstract(e))[i]
  <2>1. FeedOf(Append(q, e))[i] = Abstract(Append(q, e)[i])
    BY <1>1 DEF FeedOf, Abstract
  <2>2. CASE i = Len(q) + 1
    BY <1>2, <1>3, <2>1, <2>2
  <2>3. CASE i \in 1..Len(q)
    <3>1. FeedOf(q)[i] = Abstract(q[i])
      BY <2>3 DEF FeedOf, Abstract
    <3>2. Append(FeedOf(q), Abstract(e))[i] = FeedOf(q)[i]
      BY <1>2, <1>3, <2>3
    <3> QED
      BY <1>1, <2>1, <2>3, <3>1, <3>2
  <2>4. i = Len(q) + 1 \/ i \in 1..Len(q)
    BY <1>1
  <2> QED
    BY <2>2, <2>3, <2>4
<1> DEFINE F == FeedOf(Append(q, e))
           G == Append(FeedOf(q), Abstract(e))
           I == 1..(Len(q) + 1)
<1>6. F = [i \in I |-> F[i]]
  BY <1>1 DEF FeedOf
<1>7. G = [i \in I |-> G[i]]
  <2>1. G \in Seq(Feed!Event) /\ DOMAIN G = I
    BY <1>2, <1>3, <1>4
  <2> HIDE DEF G, I
  <2> QED
    BY <2>1
<1>8. ASSUME NEW i \in I
      PROVE  F[i] = G[i]
  BY <1>5
<1> HIDE DEF F, G, I
<1>9. F = G
  BY <1>6, <1>7, <1>8, SameFunction
<1> QED
  BY <1>9 DEF F, G

LEMMA FeedOfTail ==
  ASSUME NEW q \in Seq(NetworkEvent), q # <<>>
  PROVE  /\ FeedOf(q) # <<>>
         /\ Head(FeedOf(q)) = Abstract(Head(q))
         /\ FeedOf(Tail(q)) = Tail(FeedOf(q))
<1>1. /\ Len(q) \in Nat \ {0} /\ Tail(q) \in Seq(NetworkEvent)
      /\ Len(Tail(q)) = Len(q) - 1
      /\ \A i \in 1..(Len(q) - 1) : Tail(q)[i] = q[i + 1]
  OBVIOUS
<1>2. /\ FeedOf(q) \in Seq(Feed!Event) /\ Len(FeedOf(q)) = Len(q)
      /\ FeedOf(Tail(q)) \in Seq(Feed!Event) /\ Len(FeedOf(Tail(q))) = Len(q) - 1
  BY <1>1, FeedOfSeq
<1>3. FeedOf(q) # <<>> /\ Head(FeedOf(q)) = FeedOf(q)[1]
  BY <1>1, <1>2
<1>4. \A i \in 1..Len(q) : FeedOf(q)[i] = Abstract(q[i])
  BY DEF FeedOf, Abstract
<1>5. /\ Tail(FeedOf(q)) \in Seq(Feed!Event) /\ Len(Tail(FeedOf(q))) = Len(q) - 1
      /\ \A i \in 1..(Len(q) - 1) : Tail(FeedOf(q))[i] = FeedOf(q)[i + 1]
  BY <1>1, <1>2, <1>3
<1>6. \A i \in 1..(Len(q) - 1) : FeedOf(Tail(q))[i] = Abstract(Tail(q)[i])
  BY <1>1 DEF FeedOf, Abstract
<1>7. \A i \in 1..(Len(q) - 1) : FeedOf(Tail(q))[i] = Tail(FeedOf(q))[i]
  BY <1>1, <1>4, <1>5, <1>6
<1>8. FeedOf(Tail(q)) = Tail(FeedOf(q))
  BY <1>2, <1>5, <1>7
<1>9. Head(FeedOf(q)) = Abstract(Head(q))
  BY <1>1, <1>3, <1>4
<1> QED
  BY <1>3, <1>8, <1>9

FeedStep == Feed!Next \/ UNCHANGED Feed!vars

LEMMA EmitIsSend ==
  ASSUME TypeOK, NEW e \in NetworkEvent, Emit(e)
  PROVE  Feed!Send(e.kind, e.id)
<1>1. Len(FeedOf(events)) = Len(events)
  BY FeedOfSeq DEF TypeOK, NodeTypeOK
<1>2. FeedOf(Append(events, e)) = Append(FeedOf(events), Abstract(e))
  BY FeedOfAppend DEF TypeOK, NodeTypeOK
<1>3. FeedOf(events)' = Append(FeedOf(events), [kind |-> e.kind, id |-> e.id])
  BY <1>2 DEF Emit, Abstract, FeedOf
<1> QED
  BY <1>1, <1>3 DEF Emit, Feed!Send

LEMMA AddPeerRefines ==
  ASSUME TypeOK, NEW p \in Peer, NEW via \in ConnectionType,
         add_peer(p, via), UNCHANGED listed
  PROVE  FeedStep
<1>1. CASE UNCHANGED events /\ DOMAIN peers' = DOMAIN peers
  BY <1>1 DEF FeedStep, Feed!vars, FeedOf, ListedIds
<1>2. CASE /\ p \notin DOMAIN peers
           /\ DOMAIN peers' = DOMAIN peers \cup {p}
           /\ Emit([kind |-> "connected", id |-> p, info |-> NewPeerInfo(p, via)])
  <2> DEFINE e == [kind |-> "connected", id |-> p, info |-> NewPeerInfo(p, via)]
  <2>1. e \in NetworkEvent /\ e.kind = "connected" /\ e.id = p
    BY DEF NetworkEvent, NewPeerInfo, PeerInfo
  <2>2. Emit(e)
    BY <1>2
  <2> HIDE DEF e
  <2>3. Feed!Send("connected", p)
    BY <2>1, <2>2, EmitIsSend
  <2>4. Feed!Connect(p)
    BY <1>2, <2>3 DEF Feed!Connect, ListedIds
  <2> QED
    BY <2>4 DEF FeedStep, Feed!Next
<1>3. DOMAIN [peers EXCEPT ![p].connection_type = via] = DOMAIN peers
  OBVIOUS
<1> QED
  BY <1>1, <1>2, <1>3 DEF add_peer

LEMMA RemovePeerRefines ==
  ASSUME TypeOK, NEW p \in Peer, remove_peer(p), UNCHANGED listed
  PROVE  FeedStep
<1>1. CASE UNCHANGED <<peers, events>>
  BY <1>1 DEF FeedStep, Feed!vars, FeedOf, ListedIds
<1>2. CASE /\ p \in DOMAIN peers
           /\ DOMAIN peers' = DOMAIN peers \ {p}
           /\ Emit([kind |-> "disconnected", id |-> p])
  <2> DEFINE e == [kind |-> "disconnected", id |-> p]
  <2>1. e \in NetworkEvent /\ e.kind = "disconnected" /\ e.id = p
    BY DEF NetworkEvent
  <2>2. Emit(e)
    BY <1>2
  <2> HIDE DEF e
  <2>3. Feed!Send("disconnected", p)
    BY <2>1, <2>2, EmitIsSend
  <2>4. Feed!Disconnect(p)
    BY <1>2, <2>3 DEF Feed!Disconnect, ListedIds
  <2> QED
    BY <2>4 DEF FeedStep, Feed!Next
<1> QED
  BY <1>1, <1>2 DEF remove_peer

LEMMA HandleEventRefines ==
  ASSUME TypeOK, HandleEvent
  PROVE  FeedStep
<1> DEFINE e == Head(events)
<1>1. /\ e \in NetworkEvent
      /\ listed' = ApplyEvent(listed, e)
      /\ ListType(listed)
  BY HandleEventType DEF HandleEvent, TypeOK, ListType
<1>2. /\ FeedOf(events) # <<>>
      /\ Head(FeedOf(events)) = Abstract(e)
      /\ FeedOf(events)' = Tail(FeedOf(events))
  BY FeedOfTail DEF TypeOK, NodeTypeOK, HandleEvent, FeedOf
<1>3. (DOMAIN peers)' = DOMAIN peers
  BY DEF HandleEvent
<1> HIDE DEF e
<1>4. ListedIds' = Feed!Apply(ListedIds, Abstract(e))
  <2>1. CASE e.kind = "connected"
    <3>1. e.info.node_id = e.id
      BY <1>1, <2>1 DEF NetworkEvent
    <3>2. CASE RowsOf(listed, e.id) # {}
      <4>1. listed' = listed /\ e.id \in ListedIds
        BY <1>1, <2>1, <3>2, HandledRows DEF RowsOf, ListedIds
      <4> QED
        BY <2>1, <4>1 DEF Feed!Apply, ListedIds, Abstract
    <3>3. CASE RowsOf(listed, e.id) = {}
      <4>1. DOMAIN listed' = DOMAIN listed \cup {e.info}
        BY <1>1, <2>1, <3>3, HandledRows
      <4>2. ListedIds' = ListedIds \cup {e.id}
        BY <3>1, <4>1 DEF ListedIds
      <4> QED
        BY <2>1, <4>2 DEF Feed!Apply, Abstract
    <3> QED
      BY <3>2, <3>3
  <2>2. CASE e.kind = "disconnected"
    <3>1. DOMAIN listed' = {row \in DOMAIN listed : row.node_id # e.id}
      BY <1>1, <2>2, HandledRows
    <3>2. ListedIds' = ListedIds \ {e.id}
      BY <3>1 DEF ListedIds
    <3> QED
      BY <2>2, <3>2 DEF Feed!Apply, Abstract
  <2>3. CASE e.kind = "packet"
    <3>1. listed' = listed
      BY <1>1, <2>3 DEF ApplyEvent
    <3> QED
      BY <2>3, <3>1 DEF Feed!Apply, Abstract, ListedIds
  <2> QED
    BY <1>1, <2>1, <2>2, <2>3 DEF NetworkEvent
<1>5. Feed!Take
  BY <1>2, <1>3, <1>4 DEF Feed!Take
<1> QED
  BY <1>5 DEF FeedStep, Feed!Next

\* Every step of the event loop and of the handler is a step of PeerFeed on the
\* table's keys, the kinds and ids of the events and the ids of the rows.
THEOREM Refinement == Spec => ImplementsFeed
<1> USE DEF swarmVars
<1>1. Init => Feed!Init
  BY DEF Init, NodeInit, Feed!Init, FeedOf, ListedIds
<1>2. TypeOK /\ [Next]_vars => [Feed!Next]_Feed!vars
  <2> SUFFICES ASSUME TypeOK, [Next]_vars
               PROVE  FeedStep
    BY DEF FeedStep
  <2>1. CASE UNCHANGED <<peers, events, listed>>
    BY <2>1 DEF FeedStep, Feed!vars, FeedOf, ListedIds
  <2>2. ASSUME NEW p \in Peer, NEW rtt \in Rtt, Ping(p, rtt), UNCHANGED listed
        PROVE  FeedStep
    <3>1. DOMAIN peers' = DOMAIN peers /\ events' = events
      BY <2>2 DEF Ping
    <3> QED
      BY <2>2, <3>1 DEF FeedStep, Feed!vars, FeedOf, ListedIds
  <2>3. ASSUME NEW p \in Peer, NEW a \in Addr, UNCHANGED listed,
               MdnsDiscovered(p, a) \/ MdnsExpired(p, a)
        PROVE  FeedStep
    <3>1. add_peer(p, "direct") \/ remove_peer(p)
      BY <2>3 DEF MdnsDiscovered, MdnsExpired
    <3> QED
      BY <2>3, <3>1, AddPeerRefines, RemovePeerRefines DEF ConnectionType
  <2>4. ASSUME NEW p \in Peer, UNCHANGED listed, RoutingUpdated(p)
        PROVE  FeedStep
    <3>1. add_peer(p, "direct") \/ UNCHANGED <<peers, events>>
      BY <2>4 DEF RoutingUpdated
    <3> QED
      BY <2>1, <2>4, <3>1, AddPeerRefines DEF ConnectionType
  <2>5. ASSUME NEW c \in Connection, UNCHANGED listed,
               ConnectionEstablished(c) \/ ConnectionClosed(c)
        PROVE  FeedStep
    <3>1. \/ add_peer(c.peer, c.via)
          \/ remove_peer(c.peer)
          \/ UNCHANGED <<peers, events>>
      BY <2>5 DEF ConnectionEstablished, ConnectionClosed
    <3>2. c.peer \in Peer /\ c.via \in ConnectionType
      BY DEF Connection
    <3> QED
      BY <2>1, <2>5, <3>1, <3>2, AddPeerRefines, RemovePeerRefines
  <2>6. ASSUME NEW p \in Peer, UNCHANGED listed, DataRequest(p)
        PROVE  FeedStep
    <3> DEFINE e == [kind |-> "packet", id |-> p]
    <3>1. e \in NetworkEvent /\ e.kind = "packet" /\ e.id = p
      BY DEF NetworkEvent
    <3>2. Emit(e) /\ UNCHANGED peers
      BY <2>6 DEF DataRequest
    <3> HIDE DEF e
    <3>3. Feed!Send("packet", p)
      BY <3>1, <3>2, EmitIsSend
    <3>4. Feed!Receive(p)
      BY <2>6, <3>2, <3>3 DEF Feed!Receive, ListedIds
    <3> QED
      BY <3>4 DEF FeedStep, Feed!Next
  <2>7. CASE UNCHANGED listed /\ TrafficStep
    <3>1. CASE \E p \in Peer : DataRequest(p)
      BY <2>6, <2>7, <3>1
    <3>2. CASE ~ \E p \in Peer : DataRequest(p)
      BY <2>1, <2>7, <3>2
         DEF TrafficStep, IdentifyReceived, DataResponse, OutboundFailure,
             RequestDone, broadcast_data, SubmitPacket
    <3> QED
      BY <3>1, <3>2
  <2>8. CASE HandleEvent
    BY <2>8, HandleEventRefines
  <2> QED
    BY <2>1, <2>2, <2>3, <2>4, <2>5, <2>7, <2>8
       DEF Next, NodeNext, TableStep, vars
<1> QED
  BY <1>1, <1>2, TypeCorrect, PTL DEF Spec, ImplementsFeed, Feed!Spec

FeedFacts == INSTANCE PeerFeedProofs WITH
  MaxFeed <- MaxEvents,
  table   <- DOMAIN peers,
  feed    <- FeedOf(events),
  listed  <- ListedIds

\* The behaviours of this system are behaviours of PeerFeed, in the names of
\* its theorems.
LEMMA SpecIsFeed == Spec => FeedFacts!Spec
<1>1. Feed!Init => FeedFacts!Init
  BY DEF Feed!Init, FeedFacts!Init
<1>2. [Feed!Next]_Feed!vars => [FeedFacts!Next]_FeedFacts!vars
  BY DEF Feed!Next, Feed!Connect, Feed!Disconnect, Feed!Receive, Feed!Take,
         Feed!Send, Feed!Apply, Feed!vars,
         FeedFacts!Next, FeedFacts!Connect, FeedFacts!Disconnect,
         FeedFacts!Receive, FeedFacts!Take, FeedFacts!Send, FeedFacts!Apply,
         FeedFacts!vars
<1> QED
  BY <1>1, <1>2, Refinement, PTL DEF ImplementsFeed, Feed!Spec, FeedFacts!Spec

LEMMA FeedAssumed == FeedFacts!FeedAssumption
BY NodeAssumption DEF FeedFacts!FeedAssumption

\* Whenever the handler has caught up, the daemon lists exactly the peers of
\* the table: what PeerFeed promises, carried over by the refinement.
THEOREM ListCatchesUp == Spec => []ListIsTableWhenCaughtUp
<1>1. FeedFacts!Spec => []FeedFacts!FeedConverges
  BY FeedAssumed, FeedFacts!Convergence
<1>2. FeedFacts!FeedConverges /\ TypeOK => ListIsTableWhenCaughtUp
  <2> SUFFICES ASSUME FeedFacts!FeedConverges, TypeOK, CaughtUp
               PROVE  ListedIds = DOMAIN peers
    BY DEF ListIsTableWhenCaughtUp
  <2>1. \A p \in Peer : FeedFacts!About(p) = {}
    BY DEF CaughtUp, FeedFacts!About, FeedOf
  <2>2. \A p \in Peer : p \in DOMAIN peers <=> p \in ListedIds
    BY <2>1 DEF FeedFacts!FeedConverges, FeedFacts!WillBeListed
  <2>3. ListedIds \subseteq Peer /\ DOMAIN peers \subseteq Peer
    BY DEF TypeOK, NodeTypeOK, PeerInfo, ListedIds
  <2> QED
    BY <2>2, <2>3
<1> QED
  BY <1>1, <1>2, SpecIsFeed, TypeCorrect, PTL

Matters ==
  events # <<>> =>
    /\ Head(events).kind = "connected" => Head(events).id \notin ListedIds
    /\ Head(events).kind = "disconnected" => Head(events).id \in ListedIds

\* The event the handler takes next always changes the list: a PeerConnected
\* never meets a row of its peer, so the handler's search for one is never
\* successful and its new row is never dropped, and a PeerDisconnected always
\* finds the row it removes.
THEOREM NextEventMatters == Spec => []Matters
<1>1. FeedFacts!Spec => []FeedFacts!EventsAlternate
  BY FeedAssumed, FeedFacts!Alternation
<1>2. FeedFacts!EventsAlternate /\ TypeOK => Matters
  <2> SUFFICES ASSUME FeedFacts!EventsAlternate, TypeOK, events # <<>>
               PROVE  /\ Head(events).kind = "connected" => Head(events).id \notin ListedIds
                      /\ Head(events).kind = "disconnected" => Head(events).id \in ListedIds
    BY DEF Matters
  <2> DEFINE e == Head(events)
  <2>1. /\ 1 \in DOMAIN events /\ events[1] = e /\ e \in NetworkEvent
        /\ \A k \in DOMAIN events : 1 <= k
    BY DEF TypeOK, NodeTypeOK
  <2>2. /\ DOMAIN FeedOf(events) = DOMAIN events
        /\ FeedOf(events)[1].id = e.id /\ FeedOf(events)[1].kind = e.kind
    BY <2>1 DEF FeedOf
  <2>3. e.id \in Peer
    BY <2>1 DEF NetworkEvent
  <2> HIDE DEF e
  <2>4. CASE e.kind # "packet"
    <3>1. 1 \in FeedFacts!About(e.id) /\ \A k \in FeedFacts!About(e.id) : 1 <= k
      BY <2>1, <2>2, <2>4 DEF FeedFacts!About
    <3>2. FeedOf(events)[1].kind = "connected" <=> e.id \notin ListedIds
      BY <2>3, <3>1 DEF FeedFacts!EventsAlternate
    <3> QED
      BY <2>2, <3>2 DEF e
  <2> QED
    BY <2>4 DEF e
<1> QED
  BY <1>1, <1>2, SpecIsFeed, TypeCorrect, PTL

LEMMA TailDiffers ==
  ASSUME NEW S, NEW q \in Seq(S), q # <<>>
  PROVE  Tail(q) # q
<1>1. Len(q) \in Nat /\ Len(Tail(q)) = Len(q) - 1
  OBVIOUS
<1>2. \A n \in Nat : n - 1 # n
  OBVIOUS
<1>3. Len(Tail(q)) # Len(q)
  BY <1>1, <1>2
<1> QED
  BY <1>3, Zenon

\* A PeerConnected that the handler takes is shown with the row it carries, once
\* and alone: an older row of the peer never makes the handler drop the new one.
THEOREM ArrivalShown == Spec => ArrivalIsShown
<1>1. TypeOK /\ Matters /\ [Next]_vars =>
        (LET e == Head(events)
         IN  events # <<>> /\ e.kind = "connected" /\ events' = Tail(events)
               => RowsOf(listed', e.id) = {e.info} /\ listed'[e.info] = 1)
  <2> DEFINE e == Head(events)
  <2> SUFFICES ASSUME TypeOK, Matters, [Next]_vars, events # <<>>, e.kind = "connected",
                      events' = Tail(events)
               PROVE  RowsOf(listed', e.id) = {e.info} /\ listed'[e.info] = 1
    OBVIOUS
  <2>1. HandleEvent
    <3>1. events \in Seq(NetworkEvent) /\ Len(events) \in Nat
      BY DEF TypeOK, NodeTypeOK
    <3>2. Len(events') = Len(events) - 1
      BY <3>1
    <3>3. ASSUME NEW x, Emit(x)
          PROVE  FALSE
      <4>1. Len(events') = Len(events) + 1
        BY <3>1, <3>3 DEF Emit
      <4> QED
        BY <3>1, <3>2, <4>1
    <3>4. events' # events
      BY <3>1, TailDiffers, Zenon
    <3>5. ~ TableStep
      BY <3>3, <3>4 DEF TableStep, Ping, MdnsDiscovered, MdnsExpired, RoutingUpdated,
         ConnectionEstablished, ConnectionClosed, add_peer, remove_peer
    <3>6. ~ TrafficStep
      BY <3>3, <3>4 DEF TrafficStep, IdentifyReceived, DataRequest, DataResponse,
         OutboundFailure, RequestDone, broadcast_data, SubmitPacket, swarmVars
    <3> QED
      BY <3>4, <3>5, <3>6 DEF Next, NodeNext, vars
  <2>2. /\ e \in NetworkEvent /\ e.info.node_id = e.id
        /\ ListType(listed) /\ listed' = ApplyEvent(listed, e)
    BY <2>1, HandleEventType DEF HandleEvent, TypeOK, ListType, NetworkEvent
  <2>3. e.id \notin ListedIds
    BY DEF Matters
  <2> HIDE DEF e
  <2>4. RowsOf(listed, e.id) = {}
    BY <2>3 DEF RowsOf, ListedIds
  <2>5. e.kind = "connected"
    BY DEF e
  <2>6. DOMAIN listed' = DOMAIN listed \cup {e.info} /\ listed'[e.info] = 1
    BY <2>2, <2>4, <2>5, HandledRows
  <2> QED
    BY <2>2, <2>4, <2>6 DEF RowsOf
<1> QED
  BY <1>1, TypeCorrect, NextEventMatters, PTL DEF Spec, ArrivalIsShown

RowsOnce == \A row \in DOMAIN listed : listed[row] = 1

\* No row is in the list twice.
LEMMA RowsComeOnce == Spec => []RowsOnce
<1>1. Init => RowsOnce
  BY DEF Init, RowsOnce
<1>2. TypeOK /\ RowsOnce /\ [Next]_vars => RowsOnce'
  <2> SUFFICES ASSUME TypeOK, RowsOnce, [Next]_vars
               PROVE  RowsOnce'
    OBVIOUS
  <2>1. CASE HandleEvent
    <3> DEFINE e == Head(events)
    <3>1. e \in NetworkEvent /\ listed' = ApplyEvent(listed, e) /\ ListType(listed)
      BY <2>1, HandleEventType DEF HandleEvent, TypeOK, ListType
    <3> HIDE DEF e
    <3>2. \/ DOMAIN listed' \subseteq DOMAIN listed
          \/ DOMAIN listed' = DOMAIN listed \cup {e.info} /\ listed'[e.info] = 1
      BY <3>1, HandledRows DEF NetworkEvent
    <3>3. \A row \in DOMAIN listed \cap DOMAIN listed' : listed'[row] = listed[row]
      BY <3>1, HandledRows
    <3> QED
      BY <3>2, <3>3 DEF RowsOnce
  <2>2. CASE UNCHANGED listed
    BY <2>2 DEF RowsOnce
  <2> QED
    BY <2>1, <2>2 DEF Next, vars
<1> QED
  BY <1>1, <1>2, TypeCorrect, PTL DEF Spec

\* Where a peer has one connection at most and mDNS is silent, `vlkxn list`
\* keeps its word: once the handler has caught up every connected peer is
\* listed.  It breaks it (OnlineIsListed) only with a second connection or an
\* expired mDNS record.
THEOREM SoleConnectionIsListed ==
  ASSUME MaxConns = 1, Addr = {}
  PROVE  Spec => []OnlineIsListed
<1>1. ConnectedIsKnown /\ ListIsTableWhenCaughtUp => OnlineIsListed
  BY DEF ConnectedIsKnown, ListIsTableWhenCaughtUp, OnlineIsListed
<1> QED
  BY <1>1, ConnectedKnown, ListCatchesUp, PTL

-----------------------------------------------------------------------------
(* Where the rows of the list are current. *)

Concerns(e, p) == e.kind # "packet" /\ e.id = p

\* The last arrival on its way carries the row of the table, and so does a row
\* of the list when no event about its peer is on its way.
RowInv ==
  /\ \A k \in DOMAIN events :
       /\ events[k].kind = "connected"
       /\ \A j \in DOMAIN events : j > k => ~ Concerns(events[j], events[k].id)
       => events[k].id \in DOMAIN peers /\ peers[events[k].id] = events[k].info
  /\ \A row \in DOMAIN listed :
       (\A j \in DOMAIN events : ~ Concerns(events[j], row.node_id))
       => row.node_id \in DOMAIN peers /\ peers[row.node_id] = row

\* An event that says what happened to the table keeps it.
LEMMA RowsSend ==
  ASSUME TypeOK, RowInv, NEW e \in NetworkEvent, Emit(e), UNCHANGED listed,
         \A q \in DOMAIN peers : ~ Concerns(e, q) => q \in DOMAIN peers' /\ peers'[q] = peers[q],
         e.kind = "connected" => e.id \in DOMAIN peers' /\ peers'[e.id] = e.info
  PROVE  RowInv'
<1>1. /\ Len(events) \in Nat /\ events \in Seq(NetworkEvent)
      /\ DOMAIN events = 1..Len(events) /\ DOMAIN events' = 1..(Len(events) + 1)
      /\ \A k \in DOMAIN events : events'[k] = events[k]
      /\ events'[Len(events) + 1] = e
  BY DEF TypeOK, NodeTypeOK, Emit
<1>2. ASSUME NEW k \in DOMAIN events', events'[k].kind = "connected",
             \A j \in DOMAIN events' : j > k => ~ Concerns(events'[j], events'[k].id)
      PROVE  events'[k].id \in DOMAIN peers' /\ peers'[events'[k].id] = events'[k].info
  <2>1. CASE k = Len(events) + 1
    BY <1>1, <1>2, <2>1
  <2>2. CASE k \in DOMAIN events
    <3>1. ~ Concerns(e, events[k].id)
      BY <1>1, <1>2, <2>2
    <3>2. events[k].id \in DOMAIN peers /\ peers[events[k].id] = events[k].info
      BY <1>1, <1>2, <2>2 DEF RowInv
    <3> QED
      BY <1>1, <2>2, <3>1, <3>2
  <2> QED
    BY <1>1, <2>1, <2>2
<1>3. ASSUME NEW row \in DOMAIN listed, \A j \in DOMAIN events' : ~ Concerns(events'[j], row.node_id)
      PROVE  row.node_id \in DOMAIN peers' /\ peers'[row.node_id] = row
  <2>1. ~ Concerns(e, row.node_id)
    BY <1>1, <1>3
  <2>2. row.node_id \in DOMAIN peers /\ peers[row.node_id] = row
    BY <1>1, <1>3 DEF RowInv
  <2> QED
    BY <2>1, <2>2
<1> QED
  BY <1>2, <1>3 DEF RowInv

\* Handling an event keeps it, because the event changes the list.
LEMMA RowsHandle ==
  ASSUME TypeOK, RowInv, Matters, HandleEvent
  PROVE  RowInv'
<1> DEFINE e == Head(events)
<1>1. /\ Len(events) \in Nat \ {0} /\ events \in Seq(NetworkEvent)
      /\ DOMAIN events = 1..Len(events) /\ DOMAIN events' = 1..(Len(events) - 1)
      /\ \A k \in DOMAIN events' : events'[k] = events[k + 1]
      /\ events[1] = e /\ e \in NetworkEvent /\ UNCHANGED peers
      /\ listed' = ApplyEvent(listed, e) /\ ListType(listed)
  BY DEF TypeOK, NodeTypeOK, HandleEvent, ListType
<1>2. /\ e.kind = "connected" => e.id \notin ListedIds
      /\ e.kind = "disconnected" => e.id \in ListedIds
  BY DEF Matters, HandleEvent
<1> HIDE DEF e
<1>3. ASSUME NEW k \in DOMAIN events', events'[k].kind = "connected",
             \A j \in DOMAIN events' : j > k => ~ Concerns(events'[j], events'[k].id)
      PROVE  events'[k].id \in DOMAIN peers' /\ peers'[events'[k].id] = events'[k].info
  <2>1. k + 1 \in DOMAIN events /\ events[k + 1] = events'[k]
    BY <1>1
  <2>2. ASSUME NEW j \in DOMAIN events, j > k + 1
        PROVE  ~ Concerns(events[j], events[k + 1].id)
    <3>1. j - 1 \in DOMAIN events' /\ j - 1 > k /\ events'[j - 1] = events[j]
      BY <1>1, <2>2
    <3> QED
      BY <1>3, <2>1, <3>1
  <2> QED
    BY <1>1, <1>3, <2>1, <2>2 DEF RowInv
<1>4. ASSUME NEW row \in DOMAIN listed', \A j \in DOMAIN events' : ~ Concerns(events'[j], row.node_id)
      PROVE  row.node_id \in DOMAIN peers' /\ peers'[row.node_id] = row
  <2>1. ASSUME NEW j \in DOMAIN events, j > 1
        PROVE  ~ Concerns(events[j], row.node_id)
    <3>1. j - 1 \in DOMAIN events' /\ events'[j - 1] = events[j]
      BY <1>1, <2>1
    <3> QED
      BY <1>4, <3>1
  <2>2. CASE row \in DOMAIN listed /\ ~ Concerns(e, row.node_id)
    <3>1. \A j \in DOMAIN events : ~ Concerns(events[j], row.node_id)
      BY <1>1, <2>1, <2>2
    <3> QED
      BY <1>1, <2>2, <3>1 DEF RowInv
  <2>3. CASE row \notin DOMAIN listed \/ Concerns(e, row.node_id)
    <3>1. CASE e.kind = "connected"
      <4>1. RowsOf(listed, e.id) = {} /\ e.info.node_id = e.id
        BY <1>1, <1>2, <3>1 DEF NetworkEvent, ListedIds, RowsOf
      <4>2. DOMAIN listed' = DOMAIN listed \cup {e.info}
        BY <1>1, <3>1, <4>1, HandledRows
      <4>3. row = e.info
        BY <1>4, <2>3, <4>1, <4>2 DEF Concerns, RowsOf
      <4> QED
        BY <1>1, <2>1, <3>1, <4>1, <4>3 DEF RowInv
    <3>2. CASE e.kind = "disconnected"
      <4>1. DOMAIN listed' = {r \in DOMAIN listed : r.node_id # e.id}
        BY <1>1, <3>2, HandledRows
      <4> QED
        BY <1>4, <2>3, <4>1 DEF Concerns
    <3>3. CASE e.kind = "packet"
      <4>1. listed' = listed
        BY <1>1, <3>3, HandledRows
      <4> QED
        BY <1>4, <2>3, <3>3, <4>1 DEF Concerns
    <3> QED
      BY <1>1, <3>1, <3>2, <3>3 DEF NetworkEvent
  <2> QED
    BY <2>2, <2>3
<1> QED
  BY <1>3, <1>4 DEF RowInv

LEMMA RowsKept ==
  ASSUME RowInv, UNCHANGED <<peers, events, listed>>
  PROVE  RowInv'
BY DEF RowInv, Concerns

LEMMA RowsStep ==
  ASSUME Rtt = {}, Addr = {}, TypeOK, RowInv, Matters, [Next]_vars
  PROVE  RowInv'
<1> USE DEF swarmVars
<1>1. ASSUME NEW p \in Peer, NEW via \in ConnectionType, p \notin DOMAIN peers,
             add_peer(p, via), UNCHANGED listed
      PROVE  RowInv'
  <2> DEFINE e == [kind |-> "connected", id |-> p, info |-> NewPeerInfo(p, via)]
  <2>1. e \in NetworkEvent
    BY DEF NetworkEvent, NewPeerInfo, PeerInfo
  <2>2. Emit(e) /\ p \in DOMAIN peers' /\ peers'[p] = e.info
    BY <1>1 DEF add_peer
  <2>3. \A q \in DOMAIN peers : q \in DOMAIN peers' /\ peers'[q] = peers[q]
    BY <1>1 DEF add_peer
  <2>4. e.id = p
    OBVIOUS
  <2> HIDE DEF e
  <2> QED
    BY <1>1, <2>1, <2>2, <2>3, <2>4, RowsSend
<1>2. ASSUME NEW p \in Peer, remove_peer(p), UNCHANGED listed
      PROVE  RowInv'
  <2> DEFINE e == [kind |-> "disconnected", id |-> p]
  <2>1. CASE p \notin DOMAIN peers
    BY <1>2, <2>1, RowsKept DEF remove_peer
  <2>2. CASE p \in DOMAIN peers
    <3>1. e \in NetworkEvent /\ e.kind = "disconnected" /\ e.id = p
      BY DEF NetworkEvent
    <3>2. Emit(e)
      BY <1>2, <2>2 DEF remove_peer
    <3>3. \A q \in DOMAIN peers : q # p => q \in DOMAIN peers' /\ peers'[q] = peers[q]
      BY <1>2, <2>2 DEF remove_peer
    <3> HIDE DEF e
    <3> QED
      BY <1>2, <3>1, <3>2, <3>3, RowsSend DEF Concerns
  <2> QED
    BY <2>1, <2>2
<1>3. ASSUME NEW p \in Peer, DataRequest(p), UNCHANGED listed
      PROVE  RowInv'
  <2> DEFINE e == [kind |-> "packet", id |-> p]
  <2>1. e \in NetworkEvent /\ e.kind = "packet" /\ Emit(e) /\ UNCHANGED peers
    BY <1>3 DEF NetworkEvent, DataRequest
  <2> HIDE DEF e
  <2> QED
    BY <1>3, <2>1, RowsSend
<1>4. CASE TableStep /\ UNCHANGED listed
  BY <1>1, <1>2, <1>4, RowsKept
     DEF TableStep, RoutingUpdated, ConnectionEstablished, ConnectionClosed, ConnectionType,
         Connection
<1>5. CASE TrafficStep /\ UNCHANGED listed
  BY <1>3, <1>5, RowsKept
     DEF TrafficStep, IdentifyReceived, DataResponse, OutboundFailure, RequestDone,
         broadcast_data, SubmitPacket
<1>6. CASE HandleEvent
  BY <1>6, RowsHandle
<1>7. CASE UNCHANGED vars
  BY <1>7, RowsKept DEF vars
<1> QED
  BY <1>4, <1>5, <1>6, <1>7 DEF Next, NodeNext

\* Without pings and mDNS the handler keeps the list as the documentation says:
\* once it has caught up, the rows it shows are those of the table.  A measured
\* round trip and an mDNS record are all that RowsAreCurrent fails by.
THEOREM RowsAreCurrentUntilMeasured ==
  ASSUME Rtt = {}, Addr = {}
  PROVE  Spec => []RowsAreCurrent
<1>1. Init => RowInv
  BY DEF Init, NodeInit, RowInv
<1>2. TypeOK /\ RowInv /\ Matters /\ [Next]_vars => RowInv'
  BY RowsStep
<1>3. TypeOK /\ RowInv /\ RowsOnce /\ ListIsTableWhenCaughtUp => RowsAreCurrent
  <2> SUFFICES ASSUME TypeOK, RowInv, RowsOnce, ListIsTableWhenCaughtUp, CaughtUp
               PROVE  listed = [row \in {peers[p] : p \in DOMAIN peers} |-> 1]
    BY DEF RowsAreCurrent
  <2>1. DOMAIN events = {} /\ ListedIds = DOMAIN peers
    BY DEF CaughtUp, ListIsTableWhenCaughtUp
  <2>2. \A row \in DOMAIN listed : row.node_id \in DOMAIN peers /\ peers[row.node_id] = row
    BY <2>1 DEF RowInv
  <2>3. \A p \in DOMAIN peers : peers[p] \in DOMAIN listed
    <3> SUFFICES ASSUME NEW p \in DOMAIN peers
                 PROVE  peers[p] \in DOMAIN listed
      OBVIOUS
    <3>1. PICK row \in DOMAIN listed : row.node_id = p
      BY <2>1 DEF ListedIds
    <3> QED
      BY <2>2, <3>1
  <2>4. DOMAIN listed = {peers[p] : p \in DOMAIN peers}
    BY <2>2, <2>3
  <2>5. listed = [row \in DOMAIN listed |-> 1]
    BY DEF TypeOK, RowsOnce
  <2> QED
    BY <2>4, <2>5
<1> QED
  BY <1>1, <1>2, <1>3, TypeCorrect, NextEventMatters, RowsComeOnce, ListCatchesUp, PTL
     DEF Spec

-----------------------------------------------------------------------------
(* A peer with another password leaves.  The provers know nothing of         *)
(* ENABLED: that the guard of a fair action enables it is a hypothesis.      *)

Room == Len(events) < MaxEvents

\* The bound of the model on the channel is kept.
Bounded == Len(events) <= MaxEvents

LEMMA ChannelBounded == Spec => []Bounded
<1>1. Init => Bounded
  BY NodeAssumption DEF Bounded, Init, NodeInit
<1>2. TypeOK /\ Bounded /\ [Next]_vars => Bounded'
  <2> SUFFICES ASSUME TypeOK, Len(events) <= MaxEvents, [Next]_vars
               PROVE  Len(events') <= MaxEvents
    BY DEF Bounded
  <2>1. events \in Seq(NetworkEvent) /\ Len(events) \in Nat /\ MaxEvents \in Nat
    BY NodeAssumption DEF TypeOK, NodeTypeOK
  <2>2. ASSUME NEW e, Emit(e)
        PROVE  Len(events') <= MaxEvents
    BY <2>1, <2>2 DEF Emit
  <2>3. CASE TableStep
    BY <2>2, <2>3 DEF TableStep, Ping, MdnsDiscovered, MdnsExpired, RoutingUpdated,
       ConnectionEstablished, ConnectionClosed, add_peer, remove_peer
  <2>4. CASE TrafficStep
    BY <2>2, <2>4 DEF TrafficStep, IdentifyReceived, DataRequest, DataResponse,
       OutboundFailure, RequestDone, broadcast_data, SubmitPacket, swarmVars
  <2>5. CASE HandleEvent
    BY <2>1, <2>5 DEF HandleEvent
  <2>6. CASE UNCHANGED vars
    BY <2>6 DEF vars
  <2> QED
    BY <2>3, <2>4, <2>5, <2>6 DEF Next, NodeNext
<1> QED
  BY <1>1, <1>2, TypeCorrect, PTL DEF Spec

\* The connection is there to stay, or its close was asked for.
Intruder(c) == c \in conns /\ WrongPassword(c.peer) /\ c \notin closing
IntruderAt(p) == \E c \in conns : c.peer = p /\ Intruder(c)
Leaving(c) == c \in conns /\ c \in closing
Gone(c) == c \notin conns /\ c.peer \notin DOMAIN peers

Identify(p) == IdentifyReceived(p) /\ UNCHANGED listed
Close(c) == c \in closing /\ ConnectionClosed(c) /\ UNCHANGED listed

\* A close that was asked for is neither forgotten nor undone.
LEMMA IntruderStep ==
  ASSUME NEW c \in Connection, TypeOK, [Next]_vars
  PROVE  /\ Intruder(c) => Intruder(c)' \/ Leaving(c)' \/ Gone(c)'
         /\ Leaving(c) => Leaving(c)' \/ Gone(c)'
<1> USE DEF Intruder, Leaving, Gone, WrongPassword, swarmVars
<1>1. ASSUME NEW d \in Connection, ConnectionEstablished(d) \/ ConnectionClosed(d)
      PROVE  /\ Intruder(c) => Intruder(c)' \/ Leaving(c)' \/ Gone(c)'
             /\ Leaving(c) => Leaving(c)' \/ Gone(c)'
  <2>1. CASE d = c /\ ConnectionClosed(d)
    BY <2>1, RemovePeerKeys DEF ConnectionClosed
  <2>2. CASE d # c /\ ConnectionClosed(d)
    BY <2>2 DEF ConnectionClosed
  <2>3. CASE ConnectionEstablished(d)
    BY <2>3 DEF ConnectionEstablished
  <2> QED
    BY <1>1, <2>1, <2>2, <2>3
<1>2. CASE UNCHANGED <<conns, closing>>
  BY <1>2
<1>3. ASSUME NEW p \in Peer, IdentifyReceived(p)
      PROVE  /\ Intruder(c) => Intruder(c)' \/ Leaving(c)' \/ Gone(c)'
             /\ Leaving(c) => Leaving(c)' \/ Gone(c)'
  BY <1>3 DEF IdentifyReceived
<1>4. CASE TableStep
  BY <1>1, <1>2, <1>4 DEF TableStep, Ping, MdnsDiscovered, MdnsExpired, RoutingUpdated
<1>5. CASE TrafficStep
  BY <1>2, <1>3, <1>5 DEF TrafficStep, DataRequest, DataResponse, OutboundFailure,
     RequestDone, broadcast_data, SubmitPacket
<1> QED
  BY <1>2, <1>4, <1>5 DEF Next, NodeNext, HandleEvent, vars

\* That a guard enables its action, per action.
EventCanBeHandled == [](events # <<>> => ENABLED <<HandleEvent>>_vars)
CanIdentify(p) == [](IntruderAt(p) => ENABLED <<Identify(p)>>_vars)
CanClose(c) == [](Leaving(c) /\ Room => ENABLED <<Close(c)>>_vars)

LEMMA IntruderLeaves ==
  ASSUME MaxEvents # 0, NEW c \in Connection
  PROVE  /\ FairSpec /\ EventCanBeHandled
         /\ (\A p \in Peer : CanIdentify(p))
         /\ (\A d \in Connection : CanClose(d))
         => ((c \in conns /\ WrongPassword(c.peer))
              ~> (c \notin conns /\ c.peer \notin DOMAIN peers))
<1> DEFINE Waits == events # <<>>
<1>0. c.peer \in Peer
  BY DEF Connection
<1>1. Fairness => HandlerIsFair /\ IdentifyIsFair(c.peer) /\ CloseIsFair(c)
  BY <1>0 DEF Fairness
<1>2. (\A p \in Peer : CanIdentify(p)) => CanIdentify(c.peer)
  BY <1>0
<1>3. (\A d \in Connection : CanClose(d)) => CanClose(c)
  OBVIOUS
<1>4. HandlerIsFair /\ EventCanBeHandled /\ []TypeOK /\ []Bounded => []<>Room
  <2>1. TypeOK /\ Bounded => Waits \/ Room
    BY NodeAssumption DEF TypeOK, NodeTypeOK, Bounded, Room
  <2>2. TypeOK /\ Bounded /\ <<HandleEvent>>_vars => Room'
    BY NodeAssumption DEF TypeOK, NodeTypeOK, Bounded, Room, HandleEvent
  <2> QED
    BY <2>1, <2>2, PTL DEF HandlerIsFair, EventCanBeHandled
<1>5. IdentifyIsFair(c.peer) => WF_vars(Identify(c.peer))
  BY PTL DEF IdentifyIsFair, Identify
<1>6. CloseIsFair(c) => SF_vars(Close(c))
  BY PTL DEF CloseIsFair, Close
<1>7. TypeOK /\ [Next]_vars
        => /\ Intruder(c) => Intruder(c)' \/ Leaving(c)' \/ Gone(c)'
           /\ Leaving(c) => Leaving(c)' \/ Gone(c)'
  BY IntruderStep
<1>8. /\ Intruder(c) /\ <<Identify(c.peer)>>_vars => Leaving(c)'
      /\ Leaving(c) /\ <<Close(c)>>_vars => Gone(c)'
  BY RemovePeerKeys DEF Intruder, Leaving, Gone, Identify, Close, IdentifyReceived, ConnectionClosed,
         ConnsOf, Connected
<1>9. Intruder(c) => IntruderAt(c.peer)
  BY DEF Intruder, IntruderAt
<1>10. /\ c \in conns /\ WrongPassword(c.peer) => Intruder(c) \/ Leaving(c)
       /\ c \notin conns /\ c.peer \notin DOMAIN peers <=> Gone(c)
  BY DEF Intruder, Leaving, Gone
<1>11. CanIdentify(c.peer) => [](IntruderAt(c.peer) => ENABLED <<Identify(c.peer)>>_vars)
  BY PTL DEF CanIdentify
<1>12. CanClose(c) => [](Leaving(c) /\ Room => ENABLED <<Close(c)>>_vars)
  BY PTL DEF CanClose
<1> HIDE DEF Waits
<1> QED
  BY <1>1, <1>2, <1>3, <1>4, <1>5, <1>6, <1>7, <1>8, <1>9, <1>10, <1>11, <1>12,
     TypeCorrect, ChannelBounded, PTL DEF FairSpec, Spec

\* A connection to a peer that announced another password ends, and its row in the
\* table with it, however often the peer connects and whatever else the loop
\* and the handler have to do.
THEOREM IntrudersLeave ==
  ASSUME MaxEvents # 0
  PROVE  /\ FairSpec /\ EventCanBeHandled
         /\ (\A p \in Peer : CanIdentify(p))
         /\ (\A c \in Connection : CanClose(c))
         => WrongPasswordLeaves
BY IntruderLeaves DEF WrongPasswordLeaves

=============================================================================
