------------------------------- MODULE P2pNode -------------------------------
(***************************************************************************)
(* The P2P event loop of one node (crates/vlkxn-core/src/p2p.rs): its peer *)
(* table, its outstanding data requests and the events it sends to the     *)
(* daemon.  One action per swarm event that changes state, plus the branch *)
(* of the loop that broadcasts packets read from the TUN.                  *)
(*                                                                         *)
(* The swarm itself (libp2p) is external: conns, closing, discovered,      *)
(* seeds and inflight are its state, as far as the handlers depend on it.  *)
(* The swarm is polled by the task that runs the handlers, so a change of  *)
(* its state and the handling of the event that reports it are one step.   *)
(* Events that change no state (listen addresses, relay and DCUtR notices, *)
(* failed pings, inbound failures, sent responses) are left out.           *)
(***************************************************************************)
EXTENDS Naturals, Sequences, FiniteSets, Functions

CONSTANTS
  Peer,          \* ids of the remote peers
  Bootstrap,     \* the peers built in as Kademlia bootstrap nodes
  Slot,          \* tells apart the connections of one kind to one peer
  MaxConns,      \* bound of the model on the connections to one peer
  Addr,          \* addresses mDNS may report a peer under
  Rtt,           \* round-trip times ping may measure, in milliseconds
  PasswordOf,    \* the password each peer was started with
  Password,      \* the password of this node
  NoPassword,    \* the empty password
  OwnIp,         \* the virtual IP of this node
  RequestId,     \* ids of the data requests that may be in flight at once
  MaxEvents,     \* bound of the model on the (unbounded) event channel
  MaxPackets     \* bound of the model on the (unbounded) packet channel

ASSUME NodeAssumption ==
  /\ Bootstrap \subseteq Peer
  /\ Rtt \subseteq Nat
  /\ MaxConns \in Nat
  /\ MaxEvents \in Nat
  /\ MaxPackets \in Nat

VARIABLES
  conns,         \* established connections (swarm)
  closing,       \* those disconnect_peer_id has been asked to close (swarm)
  discovered,    \* (peer, address) pairs mDNS considers alive (swarm)
  seeds,         \* bootstrap peers whose RoutingUpdated is still to come (swarm)
  inflight,      \* data requests sent and not yet answered or failed (swarm)
  peers,         \* P2pNode.peers: HashMap<PeerId, PeerInfo>
  pending,       \* P2pNode.pending_requests
  events,        \* event_tx: NetworkEvents on their way to the daemon
  packets        \* packet_tx: number of TUN packets waiting to be broadcast

swarmVars == <<conns, closing, discovered, seeds, inflight>>
nodeVars == <<conns, closing, discovered, seeds, inflight,
              peers, pending, events, packets>>

-----------------------------------------------------------------------------
ConnectionType == {"direct", "relay"}

Connection == [peer : Peer, via : ConnectionType, slot : Slot]

PingModulus == 65536      \* ping_ms is a u16

\* PeerInfo without its nickname, which is a prefix of the id.  The virtual IP
\* in a row is never the peer's: nothing on the wire tells it.
PeerInfo == [node_id : Peer,
             virtual_ip : {OwnIp},
             ping_ms : Nat,
             connection_type : ConnectionType]

Request == [id : RequestId, peer : Peer]

\* NetworkEvent.  VirtualIpAssigned is never sent; of a packet only the
\* sender matters.
NetworkEvent ==
  {e \in [kind : {"connected"}, id : Peer, info : PeerInfo] : e.info.node_id = e.id}
    \cup [kind : {"disconnected", "packet"}, id : Peer]

ConnsOf(p) == {c \in conns : c.peer = p}

Connected(p) == ConnsOf(p) # {}

NodeTypeOK ==
  /\ conns \subseteq Connection
  /\ closing \subseteq conns
  /\ discovered \subseteq Peer \X Addr
  /\ seeds \subseteq Bootstrap
  /\ inflight \subseteq Request
  /\ DOMAIN peers \subseteq Peer
  /\ peers \in [DOMAIN peers -> PeerInfo]
  /\ pending \subseteq Request
  /\ events \in Seq(NetworkEvent)
  /\ packets \in Nat

\* P2pNode::new.  Kademlia reports the bootstrap nodes given to add_address
\* through RoutingUpdated once the swarm is polled.
NodeInit ==
  /\ conns = {}
  /\ closing = {}
  /\ discovered = {}
  /\ seeds = Bootstrap
  /\ inflight = {}
  /\ peers = [p \in {} |-> {}]
  /\ pending = {}
  /\ events = <<>>
  /\ packets = 0

-----------------------------------------------------------------------------
(* The peer table. *)

Emit(e) ==
  /\ Len(events) < MaxEvents
  /\ events' = Append(events, e)

\* The row of a new peer.  Its virtual_ip is that of this node.
NewPeerInfo(p, via) ==
  [node_id |-> p, virtual_ip |-> OwnIp, ping_ms |-> 0, connection_type |-> via]

\* Mutant: a known peer is replaced and announced again.
AddPeerAgain(p, via) ==
  /\ peers' = [q \in DOMAIN peers \cup {p} |->
                 IF q = p THEN NewPeerInfo(p, via) ELSE peers[q]]
  /\ Emit([kind |-> "connected", id |-> p, info |-> NewPeerInfo(p, via)])

\* Mutant: the row is stored before the "known peer" test.
AddPeerUnannounced(p, via) ==
  /\ peers' = [q \in DOMAIN peers \cup {p} |->
                 IF q = p THEN NewPeerInfo(p, via) ELSE peers[q]]
  /\ UNCHANGED events

add_peer(p, via) ==
  \/ /\ p \in DOMAIN peers
     /\ peers' = [peers EXCEPT ![p].connection_type = via]
     /\ UNCHANGED events
  \/ /\ p \notin DOMAIN peers
     /\ peers' = [q \in DOMAIN peers \cup {p} |->
                    IF q = p THEN NewPeerInfo(p, via) ELSE peers[q]]
     /\ Emit([kind |-> "connected", id |-> p, info |-> NewPeerInfo(p, via)])

remove_peer(p) ==
  \/ /\ p \in DOMAIN peers
     /\ peers' = [q \in DOMAIN peers \ {p} |-> peers[q]]
     /\ Emit([kind |-> "disconnected", id |-> p])
  \/ /\ p \notin DOMAIN peers
     /\ UNCHANGED <<peers, events>>

-----------------------------------------------------------------------------
(* handle_event: one action per swarm event. *)

Ping(p, rtt) ==
  /\ Connected(p)
  /\ p \in DOMAIN peers
  /\ peers' = [peers EXCEPT ![p].ping_ms = rtt % PingModulus]
  /\ UNCHANGED <<swarmVars, pending, events, packets>>

\* mDNS reports a list of pairs; the handler treats them one by one, and a
\* list of several is that many consecutive steps.
MdnsDiscovered(p, a) ==
  /\ <<p, a>> \notin discovered
  /\ discovered' = discovered \cup {<<p, a>>}
  /\ add_peer(p, "direct")
  /\ UNCHANGED <<conns, closing, seeds, inflight, pending, packets>>

\* An expired pair removes the peer, whatever else is known of it.
MdnsExpired(p, a) ==
  /\ <<p, a>> \in discovered
  /\ discovered' = discovered \ {<<p, a>>}
  /\ remove_peer(p)
  /\ UNCHANGED <<conns, closing, seeds, inflight, pending, packets>>

\* The hash p sends in its agent version is not ours.  A node without a
\* password compares nothing.
WrongPassword(p) ==
  /\ Password # NoPassword
  /\ PasswordOf[p] # Password

\* Mutant: the comparison of the hashes is inverted.
IdentifyInverted(p) ==
  /\ Connected(p)
  /\ PasswordOf[p] = Password
  /\ closing' = closing \cup ConnsOf(p)
  /\ UNCHANGED <<conns, discovered, seeds, inflight,
                 peers, pending, events, packets>>

\* identify::Event::Received; without a mismatch nothing changes.
IdentifyReceived(p) ==
  /\ Connected(p)
  /\ WrongPassword(p)
  /\ closing' = closing \cup ConnsOf(p)
  /\ UNCHANGED <<conns, discovered, seeds, inflight,
                 peers, pending, events, packets>>

\* kad::Event::RoutingUpdated comes for the bootstrap nodes at the start and
\* for peers found to speak Kademlia over a connection.
RoutingUpdated(p) ==
  /\ p \in seeds \/ Connected(p)
  /\ seeds' = seeds \ {p}
  /\ \/ /\ p \notin DOMAIN peers
        /\ add_peer(p, "direct")
     \/ /\ p \in DOMAIN peers
        /\ UNCHANGED <<peers, events>>
  /\ UNCHANGED <<conns, closing, discovered, inflight, pending, packets>>

\* Mutant: a new peer is only added once Kademlia reports it.
ConnectionEstablishedUnlisted(c) ==
  /\ c \notin conns
  /\ Cardinality(ConnsOf(c.peer)) < MaxConns
  /\ conns' = conns \cup {c}
  /\ UNCHANGED <<closing, discovered, seeds, inflight,
                 peers, pending, events, packets>>

\* The type of a peer that is already in the table is left alone here.
ConnectionEstablished(c) ==
  /\ c \notin conns
  /\ Cardinality(ConnsOf(c.peer)) < MaxConns
  /\ conns' = conns \cup {c}
  /\ \/ /\ c.peer \notin DOMAIN peers
        /\ add_peer(c.peer, c.via)
     \/ /\ c.peer \in DOMAIN peers
        /\ UNCHANGED <<peers, events>>
  /\ UNCHANGED <<closing, discovered, seeds, inflight, pending, packets>>

\* Mutant: a close that was asked for locally leaves the table alone.
ConnectionClosedForgetsPeer(c) ==
  /\ c \in conns
  /\ conns' = conns \ {c}
  /\ closing' = closing \ {c}
  /\ \/ c \in closing /\ UNCHANGED <<peers, events>>
     \/ c \notin closing /\ remove_peer(c.peer)
  /\ UNCHANGED <<discovered, seeds, inflight, pending, packets>>

\* Mutant: a connection that is gone is still being closed.
ConnectionClosedStillClosing(c) ==
  /\ c \in conns
  /\ conns' = conns \ {c}
  /\ remove_peer(c.peer)
  /\ UNCHANGED <<closing, discovered, seeds, inflight, pending, packets>>

\* num_established is ignored: any connection that closes removes the peer.
ConnectionClosed(c) ==
  /\ c \in conns
  /\ conns' = conns \ {c}
  /\ closing' = closing \ {c}
  /\ remove_peer(c.peer)
  /\ UNCHANGED <<discovered, seeds, inflight, pending, packets>>

-----------------------------------------------------------------------------
(* handle_data_event and the data path. *)

\* A request is answered at once and handed over to the daemon.
DataRequest(p) ==
  /\ Connected(p)
  /\ Emit([kind |-> "packet", id |-> p])
  /\ UNCHANGED <<swarmVars, peers, pending, packets>>

\* Mutant: only the answer, not the failure, clears the request.
RequestFailedKept(r) ==
  /\ r \in inflight
  /\ inflight' = inflight \ {r}
  /\ UNCHANGED <<conns, closing, discovered, seeds,
                 peers, pending, events, packets>>

RequestDone(r) ==
  /\ r \in inflight
  /\ inflight' = inflight \ {r}
  /\ pending' = pending \ {r}
  /\ UNCHANGED <<conns, closing, discovered, seeds, peers, events, packets>>

\* Only a connected peer can answer.
DataResponse(r) ==
  /\ Connected(r.peer)
  /\ RequestDone(r)

\* A dial that fails, a timeout or a connection that closes.
OutboundFailure(r) == RequestDone(r)

\* send_data to every peer of the table, connected or not: the swarm gives
\* each request an id that is not in use.
broadcast_data ==
  /\ packets > 0
  /\ packets' = packets - 1
  /\ \E ids \in Injection(DOMAIN peers, RequestId \ {r.id : r \in inflight}) :
       LET new == {[id |-> ids[p], peer |-> p] : p \in DOMAIN peers}
       IN  /\ inflight' = inflight \cup new
           /\ pending' = pending \cup new
  /\ UNCHANGED <<conns, closing, discovered, seeds, peers, events>>

\* The TUN reader of the daemon sends a packet.
SubmitPacket ==
  /\ packets < MaxPackets
  /\ packets' = packets + 1
  /\ UNCHANGED <<swarmVars, peers, pending, events>>

-----------------------------------------------------------------------------
\* Steps of the swarm and of its handlers that may change the table.
TableStep ==
  \/ \E p \in Peer, rtt \in Rtt : Ping(p, rtt)
  \/ \E p \in Peer, a \in Addr : MdnsDiscovered(p, a) \/ MdnsExpired(p, a)
  \/ \E p \in Peer : RoutingUpdated(p)
  \/ \E c \in Connection : ConnectionEstablished(c) \/ ConnectionClosed(c)

\* Steps that leave it alone.
TrafficStep ==
  \/ \E p \in Peer : IdentifyReceived(p) \/ DataRequest(p)
  \/ \E r \in Request : DataResponse(r) \/ OutboundFailure(r)
  \/ broadcast_data
  \/ SubmitPacket

NodeNext == TableStep \/ TrafficStep

-----------------------------------------------------------------------------
(* What the table says of the network. *)

\* Every row has a reason that still holds: the peer is connected, or mDNS
\* still sees it under some address, or it is a bootstrap node.  Removing the
\* peer on every close and every expiry is what keeps this true.
RowsAreJustified ==
  \A p \in DOMAIN peers :
    \/ Connected(p)
    \/ \E a \in Addr : <<p, a>> \in discovered
    \/ p \in Bootstrap

\* Every request the swarm still works on is remembered, and only those:
\* pending_requests neither leaks an entry when a request fails nor loses one
\* when another request to the same peer completes.
PendingIsInFlight == pending = inflight

\* A peer with a connection is in the table.
ConnectedIsKnown == \A p \in Peer : Connected(p) => p \in DOMAIN peers

=============================================================================
