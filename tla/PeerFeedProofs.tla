--------------------------- MODULE PeerFeedProofs ---------------------------
(* The theorems of PeerFeed: its types and its two safety invariants, for    *)
(* every set of peers and every length of the channel.                       *)
EXTENDS PeerFeed, TLAPS

\* An event sent to a channel comes after those that wait in it.
LEMMA AppendEvent ==
  ASSUME NEW q \in Seq(Event), NEW e \in Event
  PROVE  /\ Append(q, e) \in Seq(Event)
         /\ DOMAIN Append(q, e) = 1..(Len(q) + 1)
         /\ \A i \in 1..Len(q) : Append(q, e)[i] = q[i]
         /\ Append(q, e)[Len(q) + 1] = e
  OBVIOUS

\* Taking the oldest event moves the others one place ahead.
LEMMA TailEvent ==
  ASSUME NEW q \in Seq(Event), q # <<>>
  PROVE  /\ Len(q) \in Nat \ {0}
         /\ Head(q) = q[1]
         /\ q[1] \in Event
         /\ Tail(q) \in Seq(Event)
         /\ DOMAIN Tail(q) = 1..(Len(q) - 1)
         /\ \A i \in 1..(Len(q) - 1) : Tail(q)[i] = q[i + 1]
  OBVIOUS

\* Types: the table and the list hold peers, the channel holds events.
THEOREM TypeCorrect == Spec => []TypeOK
<1>1. Init => TypeOK
  BY DEF Init, TypeOK
<1>2. TypeOK /\ [Next]_vars => TypeOK'
  <2> SUFFICES ASSUME TypeOK, [Next]_vars
               PROVE  TypeOK'
    OBVIOUS
  <2>1. ASSUME NEW p \in Peer, Connect(p)
        PROVE  TypeOK'
    BY <2>1, AppendEvent DEF TypeOK, Connect, Send, Event
  <2>2. ASSUME NEW p \in Peer, Disconnect(p)
        PROVE  TypeOK'
    BY <2>2, AppendEvent DEF TypeOK, Disconnect, Send, Event
  <2>3. ASSUME NEW p \in Peer, Receive(p)
        PROVE  TypeOK'
    BY <2>3, AppendEvent DEF TypeOK, Receive, Send, Event
  <2>4. CASE Take
    <3>1. feed # <<>> /\ Head(feed) \in Event /\ Tail(feed) \in Seq(Event)
      BY <2>4, TailEvent DEF TypeOK, Take
    <3>2. Apply(listed, Head(feed)) \subseteq Peer
      BY <3>1 DEF TypeOK, Apply, Event
    <3> QED
      BY <2>4, <3>1, <3>2 DEF TypeOK, Take
  <2>5. CASE UNCHANGED vars
    BY <2>5 DEF TypeOK, vars
  <2> QED
    BY <2>1, <2>2, <2>3, <2>4, <2>5 DEF Next
<1> QED
  BY <1>1, <1>2, PTL DEF Spec

-----------------------------------------------------------------------------
(* The two invariants, peer by peer: neither is inductive without the other. *)

Converges(p) == p \in table <=> WillBeListed(p)

Alternates(p) ==
  /\ \A i, j \in About(p) :
       /\ i < j
       /\ \A k \in About(p) : k <= i \/ j <= k
       => feed[i].kind # feed[j].kind
  /\ \A i \in About(p) :
       (\A k \in About(p) : i <= k)
         => (feed[i].kind = "connected" <=> p \notin listed)

PeerInv(p) == Converges(p) /\ Alternates(p)

\* What an event appended to the channel does to the peer it is about.
LEMMA AppendAbout ==
  ASSUME TypeOK, NEW e \in Event, feed' = Append(feed, e), NEW p \in Peer
  PROVE  /\ About(p)' = IF e.id = p /\ e.kind # "packet"
                          THEN About(p) \cup {Len(feed) + 1} ELSE About(p)
         /\ \A i \in About(p) : i \in 1..Len(feed) /\ feed'[i] = feed[i]
         /\ feed'[Len(feed) + 1] = e
         /\ Len(feed) \in Nat
<1>1. Len(feed) \in Nat /\ DOMAIN feed = 1..Len(feed)
  BY DEF TypeOK
<1> QED
  BY <1>1, AppendEvent DEF TypeOK, About

\* An event that is not about the membership of p disturbs nothing about p.
LEMMA AppendOther ==
  ASSUME TypeOK, NEW e \in Event, feed' = Append(feed, e), NEW p \in Peer,
         e.id # p \/ e.kind = "packet",
         p \in table' <=> p \in table, listed' = listed,
         PeerInv(p)
  PROVE  PeerInv(p)'
<1>1. About(p)' = About(p) /\ \A i \in About(p) : feed'[i] = feed[i]
  BY AppendAbout
<1>2. WillBeListed(p)' <=> WillBeListed(p)
  BY <1>1 DEF WillBeListed
<1>3. Alternates(p)'
  <2>1. \A i \in About(p)' : i \in About(p) /\ feed'[i] = feed[i]
    BY <1>1
  <2>2. \A i \in About(p) : i \in About(p)'
    BY <1>1
  <2>3. p \in listed' <=> p \in listed
    OBVIOUS
  <2> QED
    BY <2>1, <2>2, <2>3 DEF PeerInv, Alternates
<1> QED
  BY <1>2, <1>3 DEF PeerInv, Converges

\* The membership of p changes, and the change is announced.
LEMMA AppendOwn ==
  ASSUME TypeOK, NEW e \in Event, feed' = Append(feed, e), NEW p \in Peer,
         e.id = p, e.kind # "packet",
         e.kind = "connected" <=> p \notin table,
         e.kind = "connected" <=> p \in table',
         listed' = listed,
         PeerInv(p)
  PROVE  PeerInv(p)'
<1> DEFINE n == Len(feed) + 1
<1>1. /\ About(p)' = About(p) \cup {n}
      /\ \A i \in About(p) : i \in Nat /\ i < n /\ feed'[i] = feed[i]
      /\ feed'[n] = e
      /\ n \in Nat
  BY AppendAbout
<1> HIDE DEF n
<1>2. /\ n \in About(p)'
      /\ \A i \in About(p) : i \in About(p)'
      /\ \A i \in About(p)' : i = n \/ i \in About(p)
      /\ \A i \in About(p)' : i <= n
  BY <1>1
<1>3. e.kind \in {"connected", "disconnected"}
  BY DEF Event
<1>4. WillBeListed(p)' <=> e.kind = "connected"
  <2>1. \A i \in About(p)' : (\A j \in About(p)' : j <= i) <=> i = n
    BY <1>1, <1>2
  <2> QED
    BY <1>1, <1>2, <2>1 DEF WillBeListed
<1>5. ASSUME NEW i \in About(p), \A k \in About(p) : k <= i
      PROVE  feed[i].kind # e.kind
  <2>1. feed[i] \in Event /\ feed[i].kind # "packet"
    BY DEF About, TypeOK
  <2>2. \A j \in About(p) : (\A k \in About(p) : k <= j) <=> j = i
    BY <1>1, <1>5
  <2>3. feed[i].kind = "connected" <=> WillBeListed(p)
    BY <2>2 DEF WillBeListed
  <2> QED
    BY <1>3, <2>1, <2>3 DEF PeerInv, Converges, Event
<1>6. ASSUME NEW i \in About(p)', NEW j \in About(p)', i < j,
             \A k \in About(p)' : k <= i \/ j <= k
      PROVE  feed'[i].kind # feed'[j].kind
  <2>1. i \in About(p)
    BY <1>1, <1>2, <1>6
  <2>2. CASE j = n
    <3>1. \A k \in About(p) : k <= i
      BY <1>1, <1>2, <1>6, <2>2
    <3> QED
      BY <1>1, <1>5, <2>1, <2>2, <3>1
  <2>3. CASE j \in About(p)
    <3>1. \A k \in About(p) : k <= i \/ j <= k
      BY <1>2, <1>6
    <3>2. feed[i].kind # feed[j].kind
      BY <1>6, <2>1, <2>3, <3>1 DEF PeerInv, Alternates
    <3> QED
      BY <1>1, <2>1, <2>3, <3>2
  <2> QED
    BY <1>2, <2>2, <2>3
<1>7. ASSUME NEW i \in About(p)', \A k \in About(p)' : i <= k
      PROVE  feed'[i].kind = "connected" <=> p \notin listed'
  <2>1. CASE i = n
    <3>1. About(p) = {}
      BY <1>1, <1>2, <1>7, <2>1
    <3>2. WillBeListed(p) <=> p \in listed
      BY <3>1 DEF WillBeListed
    <3> QED
      BY <1>1, <2>1, <3>2 DEF PeerInv, Converges
  <2>2. CASE i \in About(p)
    <3>1. \A k \in About(p) : i <= k
      BY <1>2, <1>7
    <3>2. feed[i].kind = "connected" <=> p \notin listed
      BY <2>2, <3>1 DEF PeerInv, Alternates
    <3> QED
      BY <1>1, <2>2, <3>2
  <2> QED
    BY <1>2, <2>1, <2>2
<1> QED
  BY <1>4, <1>6, <1>7 DEF PeerInv, Converges, Alternates

-----------------------------------------------------------------------------
(* The handler takes the oldest event. *)

\* The positions of the other events move by one.
LEMMA TakeAbout ==
  ASSUME TypeOK, Take, NEW p \in Peer
  PROVE  /\ About(p) \subseteq Nat \ {0}
         /\ About(p)' \subseteq Nat \ {0}
         /\ 1 \in About(p) <=> Head(feed).id = p /\ Head(feed).kind # "packet"
         /\ Head(feed) = feed[1] /\ Head(feed) \in Event
         /\ \A i \in About(p)' : i + 1 \in About(p) /\ feed'[i] = feed[i + 1]
         /\ \A i \in About(p) : i # 1 => i - 1 \in About(p)'
<1>1. feed \in Seq(Event) /\ feed # <<>> /\ feed' = Tail(feed)
  BY DEF TypeOK, Take
<1>2. /\ Len(feed) \in Nat \ {0}
      /\ Head(feed) = feed[1] /\ feed[1] \in Event
      /\ DOMAIN feed = 1..Len(feed)
      /\ DOMAIN feed' = 1..(Len(feed) - 1)
      /\ \A i \in 1..(Len(feed) - 1) : feed'[i] = feed[i + 1]
  BY <1>1, TailEvent
<1> QED
  BY <1>2 DEF About

\* A packet, or an event about another peer.
LEMMA TakeOther ==
  ASSUME TypeOK, Take, NEW p \in Peer, 1 \notin About(p), PeerInv(p)
  PROVE  PeerInv(p)'
<1>1. /\ About(p) \subseteq Nat \ {0}
      /\ About(p)' \subseteq Nat \ {0}
      /\ \A i \in About(p)' : i + 1 \in About(p) /\ feed'[i] = feed[i + 1]
      /\ \A i \in About(p) : i - 1 \in About(p)' /\ feed'[i - 1] = feed[i]
  <2>1. \A i \in About(p) : i = (i - 1) + 1
    BY TakeAbout
  <2> QED
    BY <2>1, TakeAbout
<1>2. table' = table /\ (p \in listed' <=> p \in listed)
  BY TakeAbout DEF Take, Apply, Event
<1>3. WillBeListed(p)' <=> WillBeListed(p)
  <2>1. About(p)' = {} <=> About(p) = {}
    BY <1>1
  <2>2. ASSUME NEW i \in About(p), feed[i].kind = "connected",
               \A j \in About(p) : j <= i
        PROVE  WillBeListed(p)'
    <3>1. \A j \in About(p)' : j <= i - 1
      BY <1>1, <2>2
    <3> QED
      BY <1>1, <2>2, <3>1 DEF WillBeListed
  <2>3. ASSUME NEW i \in About(p)', feed'[i].kind = "connected",
               \A j \in About(p)' : j <= i
        PROVE  WillBeListed(p)
    <3>1. \A j \in About(p) : j <= i + 1
      BY <1>1, <2>3
    <3> QED
      BY <1>1, <2>3, <3>1 DEF WillBeListed
  <2> QED
    BY <1>2, <2>1, <2>2, <2>3 DEF WillBeListed
<1>4. ASSUME NEW i \in About(p)', NEW j \in About(p)', i < j,
             \A k \in About(p)' : k <= i \/ j <= k
      PROVE  feed'[i].kind # feed'[j].kind
  <2>1. i + 1 < j + 1 /\ \A k \in About(p) : k <= i + 1 \/ j + 1 <= k
    BY <1>1, <1>4
  <2>2. feed[i + 1].kind # feed[j + 1].kind
    BY <1>1, <2>1 DEF PeerInv, Alternates
  <2> QED
    BY <1>1, <2>2
<1>5. ASSUME NEW i \in About(p)', \A k \in About(p)' : i <= k
      PROVE  feed'[i].kind = "connected" <=> p \notin listed'
  <2>1. \A k \in About(p) : i + 1 <= k
    BY <1>1, <1>5
  <2>2. feed[i + 1].kind = "connected" <=> p \notin listed
    BY <1>1, <2>1 DEF PeerInv, Alternates
  <2> QED
    BY <1>1, <1>2, <2>2
<1> QED
  BY <1>2, <1>3, <1>4, <1>5 DEF PeerInv, Converges, Alternates

\* The event is about the membership of p, and the list follows it.
LEMMA TakeOwn ==
  ASSUME TypeOK, Take, NEW p \in Peer, 1 \in About(p), PeerInv(p)
  PROVE  PeerInv(p)'
<1>1. /\ About(p) \subseteq Nat \ {0}
      /\ About(p)' \subseteq Nat \ {0}
      /\ \A i \in About(p)' : i + 1 \in About(p) /\ feed'[i] = feed[i + 1]
      /\ \A i \in About(p) : i = 1 \/ (i - 1 \in About(p)' /\ feed'[i - 1] = feed[i])
  <2>1. \A i \in About(p) : i = (i - 1) + 1
    BY TakeAbout
  <2> QED
    BY <2>1, TakeAbout
<1>2. table' = table /\ (p \in listed' <=> feed[1].kind = "connected")
  BY TakeAbout DEF Take, Apply, Event
<1>3. feed[1].kind = "connected" <=> p \notin listed
  BY <1>1 DEF PeerInv, Alternates
<1>4. WillBeListed(p)' <=> WillBeListed(p)
  <2>1. CASE About(p)' = {}
    <3>1. About(p) = {1}
      BY <1>1, <2>1
    <3>2. WillBeListed(p) <=> feed[1].kind = "connected"
      BY <3>1 DEF WillBeListed
    <3> QED
      BY <1>2, <2>1, <3>2 DEF WillBeListed
  <2>2. CASE About(p)' # {}
    <3>1. PICK m \in About(p)' : TRUE
      BY <2>2
    <3>2. m + 1 \in About(p) /\ m + 1 > 1
      BY <1>1, <3>1
    <3>3. ASSUME NEW i \in About(p), feed[i].kind = "connected",
                 \A j \in About(p) : j <= i
          PROVE  WillBeListed(p)'
      <4>1. i # 1 /\ \A j \in About(p)' : j <= i - 1
        BY <1>1, <3>2, <3>3
      <4> QED
        BY <1>1, <3>3, <4>1 DEF WillBeListed
    <3>4. ASSUME NEW i \in About(p)', feed'[i].kind = "connected",
                 \A j \in About(p)' : j <= i
          PROVE  WillBeListed(p)
      <4>1. \A j \in About(p) : j <= i + 1
        BY <1>1, <3>4
      <4> QED
        BY <1>1, <3>4, <4>1 DEF WillBeListed
    <3> QED
      BY <2>2, <3>3, <3>4 DEF WillBeListed
  <2> QED
    BY <2>1, <2>2
<1>5. ASSUME NEW i \in About(p)', NEW j \in About(p)', i < j,
             \A k \in About(p)' : k <= i \/ j <= k
      PROVE  feed'[i].kind # feed'[j].kind
  <2>1. i + 1 < j + 1 /\ \A k \in About(p) : k <= i + 1 \/ j + 1 <= k
    BY <1>1, <1>5
  <2>2. feed[i + 1].kind # feed[j + 1].kind
    BY <1>1, <2>1 DEF PeerInv, Alternates
  <2> QED
    BY <1>1, <2>2
<1>6. ASSUME NEW i \in About(p)', \A k \in About(p)' : i <= k
      PROVE  feed'[i].kind = "connected" <=> p \notin listed'
  <2>1. 1 < i + 1 /\ \A k \in About(p) : k <= 1 \/ i + 1 <= k
    BY <1>1, <1>6
  <2>2. feed[1].kind # feed[i + 1].kind
    BY <1>1, <2>1 DEF PeerInv, Alternates
  <2>3. /\ feed[1].kind \in {"connected", "disconnected"}
        /\ feed[i + 1].kind \in {"connected", "disconnected"}
    <3>1. \A j \in About(p) : feed[j] \in Event /\ feed[j].kind # "packet"
      BY DEF About, TypeOK
    <3> QED
      BY <1>1, <3>1 DEF Event
  <2> QED
    BY <1>1, <1>2, <2>2, <2>3
<1> QED
  BY <1>2, <1>4, <1>5, <1>6 DEF PeerInv, Converges, Alternates

-----------------------------------------------------------------------------
Inv == TypeOK /\ \A p \in Peer : PeerInv(p)

LEMMA InvInit == Init => \A p \in Peer : PeerInv(p)
  BY DEF Init, PeerInv, Converges, Alternates, About, WillBeListed

LEMMA InvNext ==
  ASSUME TypeOK, [Next]_vars, NEW p \in Peer, PeerInv(p)
  PROVE  PeerInv(p)'
<1>1. ASSUME NEW q \in Peer, Connect(q)
      PROVE  PeerInv(p)'
  <2> DEFINE e == [kind |-> "connected", id |-> q]
  <2>1. /\ e \in Event /\ e.id = q /\ e.kind = "connected"
        /\ feed' = Append(feed, e)
        /\ q \notin table /\ table' = table \cup {q} /\ listed' = listed
    BY <1>1 DEF Connect, Send, Event
  <2> HIDE DEF e
  <2>2. CASE p = q
    BY <2>1, <2>2, AppendOwn
  <2>3. CASE p # q
    BY <2>1, <2>3, AppendOther
  <2> QED
    BY <2>2, <2>3
<1>2. ASSUME NEW q \in Peer, Disconnect(q)
      PROVE  PeerInv(p)'
  <2> DEFINE e == [kind |-> "disconnected", id |-> q]
  <2>1. /\ e \in Event /\ e.id = q /\ e.kind = "disconnected"
        /\ feed' = Append(feed, e)
        /\ q \in table /\ table' = table \ {q} /\ listed' = listed
    BY <1>2 DEF Disconnect, Send, Event
  <2> HIDE DEF e
  <2>2. CASE p = q
    BY <2>1, <2>2, AppendOwn
  <2>3. CASE p # q
    BY <2>1, <2>3, AppendOther
  <2> QED
    BY <2>2, <2>3
<1>3. ASSUME NEW q \in Peer, Receive(q)
      PROVE  PeerInv(p)'
  <2> DEFINE e == [kind |-> "packet", id |-> q]
  <2>1. /\ e \in Event /\ e.kind = "packet"
        /\ feed' = Append(feed, e)
        /\ table' = table /\ listed' = listed
    BY <1>3 DEF Receive, Send, Event
  <2> HIDE DEF e
  <2> QED
    BY <2>1, AppendOther
<1>4. CASE Take
  BY <1>4, TakeOwn, TakeOther
<1>5. CASE UNCHANGED vars
  BY <1>5 DEF vars, PeerInv, Converges, Alternates, About, WillBeListed
<1> QED
  BY <1>1, <1>2, <1>3, <1>4, <1>5 DEF Next

LEMMA InvAlways == Spec => []Inv
<1>1. Init /\ TypeOK => Inv
  BY InvInit DEF Inv
<1>2. Inv /\ TypeOK' /\ [Next]_vars => Inv'
  BY InvNext DEF Inv
<1> QED
  BY <1>1, <1>2, TypeCorrect, PTL DEF Spec

\* The list, once the events on their way are applied, is the table: in every
\* state of every behaviour, for any number of peers and any channel bound.
THEOREM Convergence == Spec => []FeedConverges
<1>1. Inv => FeedConverges
  BY DEF Inv, PeerInv, Converges, FeedConverges
<1> QED
  BY <1>1, InvAlways, PTL

\* The events about one peer alternate, and the oldest changes the list.
THEOREM Alternation == Spec => []EventsAlternate
<1>1. Inv => EventsAlternate
  BY DEF Inv, PeerInv, Alternates, EventsAlternate
<1> QED
  BY <1>1, InvAlways, PTL

=============================================================================
