------------------------------ MODULE PeerFeed ------------------------------
(***************************************************************************)
(* What the P2P event loop promises to the daemon: a table of peers, an    *)
(* unbounded FIFO channel of NetworkEvents, and a second list of peers on  *)
(* the other side of the channel which follows the table with a delay.     *)
(*                                                                         *)
(* The table is P2pNode.peers, the channel event_tx/event_rx and the list  *)
(* Daemon.peers.  P2pNode and PeerList describe the same three in detail   *)
(* and implement this module.                                              *)
(***************************************************************************)
EXTENDS Naturals, Sequences

CONSTANTS
  Peer,     \* ids of the remote peers
  MaxFeed   \* bound of the model: the channel of the code is unbounded

ASSUME FeedAssumption == MaxFeed \in Nat

VARIABLES
  table,    \* peers the P2P loop knows (the keys of its HashMap)
  feed,     \* NetworkEvents sent and not yet received, oldest first
  listed    \* peers in the list the daemon shows

vars == <<table, feed, listed>>

-----------------------------------------------------------------------------
Event == [kind : {"connected", "disconnected", "packet"}, id : Peer]

TypeOK ==
  /\ table \subseteq Peer
  /\ feed \in Seq(Event)
  /\ listed \subseteq Peer

Init ==
  /\ table = {}
  /\ feed = <<>>
  /\ listed = {}

\* event_tx.send never blocks and its result is ignored; MaxFeed only bounds
\* the model.
Send(kind, p) ==
  /\ Len(feed) < MaxFeed
  /\ feed' = Append(feed, [kind |-> kind, id |-> p])

-----------------------------------------------------------------------------
\* Mutant: a peer seen again is announced again.
ConnectUnguarded(p) ==
  /\ table' = table \cup {p}
  /\ Send("connected", p)
  /\ UNCHANGED listed

\* add_peer for a peer that is not in the table.
Connect(p) ==
  /\ p \notin table
  /\ table' = table \cup {p}
  /\ Send("connected", p)
  /\ UNCHANGED listed

\* Mutant: the departure of a peer is not announced.
DisconnectSilently(p) ==
  /\ p \in table
  /\ table' = table \ {p}
  /\ UNCHANGED <<feed, listed>>

\* remove_peer for a peer that is in the table.
Disconnect(p) ==
  /\ p \in table
  /\ table' = table \ {p}
  /\ Send("disconnected", p)
  /\ UNCHANGED listed

\* A data request from p is handed over as NetworkEvent::PacketReceived.
Receive(p) ==
  /\ Send("packet", p)
  /\ UNCHANGED <<table, listed>>

\* Mutant: the list is given the event instead of the peer.
ApplyWhole(list, e) ==
  CASE e.kind = "connected"    -> list \cup {e}
    [] e.kind = "disconnected" -> list \ {e.id}
    [] OTHER                   -> list

\* The list after event e.
Apply(list, e) ==
  CASE e.kind = "connected"    -> list \cup {e.id}
    [] e.kind = "disconnected" -> list \ {e.id}
    [] OTHER                   -> list

\* Mutant: the events of a channel with several entries come out newest first.
TakeNewest ==
  /\ feed # <<>>
  /\ listed' = Apply(listed, feed[Len(feed)])
  /\ feed' = SubSeq(feed, 1, Len(feed) - 1)
  /\ UNCHANGED table

\* The daemon's event handler receives the oldest event and applies it.
Take ==
  /\ feed # <<>>
  /\ listed' = Apply(listed, Head(feed))
  /\ feed' = Tail(feed)
  /\ UNCHANGED table

Next ==
  \/ \E p \in Peer : Connect(p) \/ Disconnect(p) \/ Receive(p)
  \/ Take

Spec == Init /\ [][Next]_vars

\* The handler task is scheduled whenever an event waits.
FairSpec == Spec /\ WF_vars(Take)

-----------------------------------------------------------------------------
(* The list as it will be once the channel is drained. *)

\* Positions of the events that concern the membership of p.
About(p) == {i \in DOMAIN feed : feed[i].id = p /\ feed[i].kind # "packet"}

WillBeListed(p) ==
  \/ /\ About(p) = {}
     /\ p \in listed
  \/ \E i \in About(p) :
       /\ feed[i].kind = "connected"
       /\ \A j \in About(p) : j <= i

\* Replaying the queued events on the daemon's list yields exactly the P2P
\* table, whatever the interleaving of add_peer, remove_peer and the handler:
\* no peer is announced without being kept, or dropped without a word.
FeedConverges == \A p \in Peer : p \in table <=> WillBeListed(p)

\* Two successive events about one peer never repeat each other, and the
\* oldest one always changes the list: PeerConnected never meets a peer that
\* is already listed, PeerDisconnected never one that is not.
EventsAlternate ==
  \A p \in Peer :
    /\ \A i, j \in About(p) :
         /\ i < j
         /\ \A k \in About(p) : k <= i \/ j <= k
         => feed[i].kind # feed[j].kind
    /\ \A i \in About(p) :
         (\A k \in About(p) : i <= k)
           => (feed[i].kind = "connected" <=> p \notin listed)

\* A peer that stays in the table for good is eventually listed for good.
StablePeerIsListed ==
  \A p \in Peer : <>[](p \in table) => <>[](p \in listed)

\* A peer that is gone from the table for good eventually leaves the list.
GonePeerIsUnlisted ==
  \A p \in Peer : <>[](p \notin table) => <>[](p \notin listed)

=============================================================================
