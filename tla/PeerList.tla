------------------------------ MODULE PeerList ------------------------------
(***************************************************************************)
(* The P2P event loop composed with the daemon's event handler, which      *)
(* keeps the list of peers that status and list show (daemon.rs, task 2).  *)
(* Shutdown and the TUN side of the handler are in Daemon.                 *)
(***************************************************************************)
EXTENDS P2pNode

\* Daemon.peers: Vec<PeerInfo>.  A bag of rows (how often each row is in it): a
\* second push of a row shows, and the order of the rows decides nothing.
VARIABLE listed

Rows == INSTANCE BagsExt

vars == <<conns, closing, discovered, seeds, inflight,
          peers, pending, events, packets, listed>>

TypeOK ==
  /\ NodeTypeOK
  /\ DOMAIN listed \subseteq PeerInfo
  /\ listed \in [DOMAIN listed -> Nat \ {0}]

Init ==
  /\ NodeInit
  /\ listed = [row \in {} |-> 0]

RowsOf(list, p) == {row \in DOMAIN list : row.node_id = p}

ListedIds == {row.node_id : row \in DOMAIN listed}

\* The list after event e: one more row unless the peer has one, all rows but
\* those of a peer that left, and no change for a packet.
ApplyEvent(list, e) ==
  CASE e.kind = "connected" ->
         IF RowsOf(list, e.id) # {} THEN list ELSE Rows!BagAdd(list, e.info)
    [] e.kind = "disconnected" -> Restrict(list, DOMAIN list \ RowsOf(list, e.id))
    [] OTHER -> list

HandleEvent ==
  /\ events # <<>>
  /\ listed' = ApplyEvent(listed, Head(events))
  /\ events' = Tail(events)
  /\ UNCHANGED <<swarmVars, peers, pending, packets>>

Next ==
  \/ NodeNext /\ UNCHANGED listed
  \/ HandleEvent

Spec == Init /\ [][Next]_vars

\* The handler task runs whenever an event waits, identify reports on every
\* connection, and the swarm carries out the closes it was asked for.  The
\* close is strongly fair because MaxEvents may disable it now and then, which
\* the unbounded channel of the code never does.
HandlerIsFair == WF_vars(HandleEvent)
IdentifyIsFair(p) == WF_vars(IdentifyReceived(p) /\ UNCHANGED listed)
CloseIsFair(c) == SF_vars(c \in closing /\ ConnectionClosed(c) /\ UNCHANGED listed)

Fairness ==
  /\ HandlerIsFair
  /\ \A p \in Peer : IdentifyIsFair(p)
  /\ \A c \in Connection : CloseIsFair(c)

FairSpec == Spec /\ Fairness

-----------------------------------------------------------------------------
(* The abstract feed this system implements. *)

FeedOf(q) == [i \in DOMAIN q |-> [kind |-> q[i].kind, id |-> q[i].id]]

Feed == INSTANCE PeerFeed WITH
  MaxFeed <- MaxEvents,
  table   <- DOMAIN peers,
  feed    <- FeedOf(events),
  listed  <- ListedIds

\* Every step of the event loop and of the handler is a step of the abstract
\* feed or leaves it alone.
ImplementsFeed == Feed!Spec

-----------------------------------------------------------------------------
\* A peer that connects is shown as it was announced: when the handler takes a
\* PeerConnected, the list holds the row it carries afterwards, once, and no
\* other row of that peer.  The handler drops the new row if it finds an older
\* one, so this rests on the P2P loop, which announces no peer again before it has
\* announced that it left, and on the order of the channel.
ArrivalIsShown ==
  [][LET e == Head(events)
     IN  events # <<>> /\ e.kind = "connected" /\ events' = Tail(events)
           => RowsOf(listed', e.id) = {e.info} /\ listed'[e.info] = 1]_vars

CaughtUp == events = <<>>

\* Whenever the handler has caught up, the daemon lists the peers of the table,
\* all of them and no others.
ListIsTableWhenCaughtUp == CaughtUp => ListedIds = DOMAIN peers

\* A peer that announced another password does not stay: its connection ends,
\* and in the step that ends it the peer loses its row in the table.
WrongPasswordLeaves ==
  \A c \in Connection :
    (c \in conns /\ WrongPassword(c.peer))
      ~> (c \notin conns /\ c.peer \notin DOMAIN peers)

-----------------------------------------------------------------------------
(* Statements of the documentation, once the handler has caught up. *)

\* `vlkxn list` lists the online peers: a connected peer is listed.
OnlineIsListed ==
  CaughtUp => \A p \in Peer : Connected(p) => p \in ListedIds

\* The handler keeps the peer list: the rows it shows are those of the table.
RowsAreCurrent ==
  CaughtUp => listed = [row \in {peers[p] : p \in DOMAIN peers} |-> 1]

=============================================================================
