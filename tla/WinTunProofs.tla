---------------------------- MODULE WinTunProofs ----------------------------
(* The theorems of WinTun: the handshake of the receiving thread with the    *)
(* TUN reader loses no wakeup and reorders or repeats no packet.             *)
EXTENDS WinTun, TLAPS

-----------------------------------------------------------------------------
\* Types: the bounds hold of every run, whatever the ring and the traffic.
THEOREM TypeCorrect == Spec => []TypeOK
<1> USE WinTunAssumption DEF Packet, ThreadAt, ReaderAt, threadVars, readerVars, deviceVars
<1>1. Init => TypeOK
  BY DEF Init, TypeOK
<1>2. TypeOK /\ [Next]_vars => TypeOK'
  <2> SUFFICES ASSUME TypeOK, [Next]_vars
               PROVE  TypeOK'
    OBVIOUS
  <2> USE DEF TypeOK
  <2>1. CASE HostSends
    <3>1. sent' \in 0..MaxPackets /\ sent + 1 \in Packet
      BY <2>1 DEF HostSends
    <3>2. CASE Len(ring) < RingLen
      <4>1. ring' = Append(ring, sent + 1)
        BY <2>1, <3>2 DEF HostSends
      <4>2. ring' \in Seq(Packet) /\ Len(ring') = Len(ring) + 1
        BY <3>1, <4>1
      <4> QED
        BY <2>1, <3>1, <3>2, <4>2 DEF HostSends
    <3>3. CASE ~ (Len(ring) < RingLen)
      BY <2>1, <3>1, <3>3 DEF HostSends
    <3> QED
      BY <3>2, <3>3
  <2>2. CASE AdapterRemoved
    BY <2>2 DEF AdapterRemoved
  <2>3. CASE Receive
    <3>1. Head(ring) \in Packet /\ Tail(ring) \in Seq(Packet)
            /\ Len(Tail(ring)) <= RingLen
      BY <2>3 DEF Receive
    <3> QED
      BY <2>3, <3>1 DEF Receive
  <2>4. CASE ReceiveFails
    BY <2>4 DEF ReceiveFails
  <2>5. CASE Store
    BY <2>5 DEF Store
  <2>6. CASE Notify
    BY <2>6 DEF Notify
  <2>7. CASE Unlock
    BY <2>7 DEF Unlock
  <2>8. CASE Await
    BY <2>8 DEF Await
  <2>9. CASE Awake
    BY <2>9 DEF Awake
  <2>10. CASE Queue
    BY <2>10 DEF Queue
  <2>11. CASE Read
    <3>1. slot # 0 => Append(delivered, slot) \in Seq(Packet)
      OBVIOUS
    <3>2. delivered' \in Seq(Packet)
      BY <2>11, <3>1 DEF Read
    <3> QED
      BY <2>11, <3>2 DEF Read
  <2>12. CASE Shutdown
    BY <2>12 DEF Shutdown
  <2>13. CASE UNCHANGED vars
    BY <2>13 DEF vars
  <2> QED
    BY <2>1, <2>2, <2>3, <2>4, <2>5, <2>6, <2>7, <2>8, <2>9, <2>10, <2>11,
       <2>12, <2>13
       DEF Next, Outside, Thread, Reader
<1> QED
  BY <1>1, <1>2, PTL DEF Spec

-----------------------------------------------------------------------------
\* No wakeup is lost: a packet in the buffer always has a permit, a
\* notification to come or a reader past its notification.
THEOREM NoWakeupLost == Spec => []NoLostWakeup
<1> USE DEF NoLostWakeup
<1>1. Init => NoLostWakeup
  BY DEF Init
<1>2. TypeOK /\ NoLostWakeup /\ [Next]_vars => NoLostWakeup'
  <2> SUFFICES ASSUME TypeOK, NoLostWakeup, [Next]_vars
               PROVE  NoLostWakeup'
    OBVIOUS
  <2> USE DEF threadVars, readerVars, deviceVars
  <2>1. CASE Outside
    BY <2>1 DEF Outside, HostSends, AdapterRemoved
  <2>2. CASE Thread
    BY <2>2 DEF Thread, Receive, ReceiveFails, Store, Notify, Unlock
  <2>3. CASE Reader
    BY <2>3 DEF TypeOK, Reader, Await, Awake, Queue, Read
  <2>4. CASE Shutdown
    BY <2>4 DEF Shutdown
  <2>5. CASE UNCHANGED vars
    BY <2>5 DEF vars
  <2> QED
    BY <2>1, <2>2, <2>3, <2>4, <2>5 DEF Next
<1> QED
  BY <1>1, <1>2, TypeCorrect, PTL DEF Spec

-----------------------------------------------------------------------------
(* The order of packets along the way: read, in the buffer, with the thread, *)
(* in the ring, and last the one the host sends next.                        *)

\* Packet m, if it is one, left the host before packet n, if it is one.
Before(m, n) == m # 0 /\ n # 0 => m < n

DeliveredInv ==
  \A i \in DOMAIN delivered :
    /\ delivered[i] <= sent
    /\ Before(delivered[i], slot)
    /\ Before(delivered[i], bytes)
    /\ \A j \in DOMAIN ring : delivered[i] < ring[j]

BufferInv == Before(slot, bytes) /\ slot <= sent /\ bytes <= sent

RingInv ==
  /\ \A j \in DOMAIN ring : slot < ring[j] /\ bytes < ring[j] /\ ring[j] <= sent
  /\ \A i, j \in DOMAIN ring : i < j => ring[i] < ring[j]

OrderInv == InOrderOnce /\ DeliveredInv /\ BufferInv /\ RingInv

LEMMA Elements ==
  ASSUME TypeOK
  PROVE  /\ sent \in Nat /\ slot \in Nat /\ bytes \in Nat
         /\ DOMAIN ring = 1..Len(ring) /\ Len(ring) \in Nat
         /\ DOMAIN delivered = 1..Len(delivered) /\ Len(delivered) \in Nat
         /\ \A j \in DOMAIN ring : ring[j] \in Nat \ {0}
         /\ \A i \in DOMAIN delivered : delivered[i] \in Nat \ {0}
<1>1. Packet \subseteq Nat \ {0}
  BY WinTunAssumption DEF Packet
<1>2. \A j \in 1..Len(ring) : ring[j] \in Packet
  BY DEF TypeOK
<1>3. \A i \in 1..Len(delivered) : delivered[i] \in Packet
  BY DEF TypeOK
<1>4. sent \in Nat /\ slot \in Nat /\ bytes \in Nat
  BY <1>1, WinTunAssumption DEF TypeOK
<1>5. ring \in Seq(Packet) /\ delivered \in Seq(Packet)
  BY DEF TypeOK
<1>6. /\ DOMAIN ring = 1..Len(ring) /\ Len(ring) \in Nat
      /\ DOMAIN delivered = 1..Len(delivered) /\ Len(delivered) \in Nat
  BY <1>5
<1> QED
  BY <1>1, <1>2, <1>3, <1>4, <1>6

\* The steps that move no packet.
LEMMA OrderKept ==
  ASSUME OrderInv, UNCHANGED <<sent, ring, bytes, slot, delivered>>
  PROVE  OrderInv'
BY DEF OrderInv, InOrderOnce, DeliveredInv, BufferInv, RingInv, Before

LEMMA OrderStep ==
  ASSUME TypeOK, OrderInv, [Next]_vars
  PROVE  OrderInv'
<1> USE DEF threadVars, readerVars, deviceVars
<1>1. CASE HostSends
  <2>1. UNCHANGED <<bytes, slot, delivered>> /\ sent' = sent + 1
    BY <1>1 DEF HostSends
  <2>2. CASE Len(ring) < RingLen
    <3>1. ring' = Append(ring, sent + 1) /\ ring \in Seq(Packet)
      BY <1>1, <2>2 DEF HostSends, TypeOK
    <3>2. /\ DOMAIN ring' = 1..(Len(ring) + 1)
          /\ \A j \in DOMAIN ring : ring'[j] = ring[j]
          /\ ring'[Len(ring) + 1] = sent + 1
      BY <3>1, Elements
    <3>3. BufferInv'
      BY <2>1, Elements DEF OrderInv, BufferInv, Before
    <3>4. DeliveredInv'
      <4> SUFFICES ASSUME NEW i \in DOMAIN delivered
                   PROVE  /\ delivered[i] <= sent + 1
                          /\ Before(delivered[i], slot)
                          /\ Before(delivered[i], bytes)
                          /\ \A j \in DOMAIN ring' : delivered[i] < ring'[j]
        BY <2>1 DEF DeliveredInv, Before
      <4>1. /\ delivered[i] \in Nat /\ delivered[i] <= sent
            /\ Before(delivered[i], slot) /\ Before(delivered[i], bytes)
            /\ \A j \in DOMAIN ring : delivered[i] < ring[j]
        BY Elements DEF OrderInv, DeliveredInv
      <4>2. \A j \in DOMAIN ring' : j \in DOMAIN ring \/ ring'[j] = sent + 1
        BY <3>2, Elements
      <4>3. \A j \in DOMAIN ring' : delivered[i] < ring'[j]
        BY <3>2, <4>1, <4>2, Elements
      <4> QED
        BY <4>1, <4>3, Elements
    <3>5. RingInv'
      <4>1. \A j \in DOMAIN ring' : slot < ring'[j] /\ bytes < ring'[j] /\ ring'[j] <= sent + 1
        BY <3>2, Elements DEF OrderInv, BufferInv, RingInv
      <4>2. \A i, j \in DOMAIN ring' : i < j => ring'[i] < ring'[j]
        BY <3>2, Elements DEF OrderInv, RingInv
      <4> QED
        BY <2>1, <4>1, <4>2 DEF RingInv
    <3> QED
      BY <2>1, <3>3, <3>4, <3>5 DEF OrderInv, InOrderOnce
  <2>3. CASE ~ (Len(ring) < RingLen)
    <3>1. ring' = ring
      BY <1>1, <2>3 DEF HostSends
    <3> QED
      BY <2>1, <3>1, Elements
         DEF OrderInv, InOrderOnce, DeliveredInv, BufferInv, RingInv, Before
  <2> QED
    BY <2>2, <2>3
<1>2. CASE Receive
  <2>1. /\ UNCHANGED <<sent, slot, delivered>>
        /\ ring # <<>> /\ ring' = Tail(ring) /\ bytes' = ring[1]
        /\ ring \in Seq(Packet)
    BY <1>2 DEF Receive, TypeOK
  <2>2. 1 \in DOMAIN ring
    BY <2>1, Elements
  <2>3. \A j \in DOMAIN ring' : j \in Nat /\ j > 0 /\ j + 1 \in DOMAIN ring
                                  /\ ring'[j] = ring[j + 1]
    BY <2>1, Elements
  <2>4. BufferInv'
    BY <2>1, <2>2, Elements DEF OrderInv, BufferInv, RingInv, Before
  <2>5. DeliveredInv'
    BY <2>1, <2>2, <2>3, Elements DEF OrderInv, DeliveredInv, Before
  <2>6. RingInv'
    <3>1. \A j \in DOMAIN ring' : slot < ring'[j] /\ ring[1] < ring'[j] /\ ring'[j] <= sent
      BY <2>2, <2>3, Elements DEF OrderInv, RingInv
    <3>2. \A i, j \in DOMAIN ring' : i < j => ring'[i] < ring'[j]
      BY <2>3, Elements DEF OrderInv, RingInv
    <3> QED
      BY <2>1, <3>1, <3>2 DEF RingInv
  <2> QED
    BY <2>1, <2>4, <2>5, <2>6 DEF OrderInv, InOrderOnce
<1>3. CASE Store
  BY <1>3, Elements
     DEF Store, OrderInv, InOrderOnce, DeliveredInv, BufferInv, RingInv, Before
<1>4. CASE Read
  <2>1. CASE slot = 0
    BY <1>4, <2>1, OrderKept DEF Read
  <2>2. CASE slot # 0
    <3>1. /\ delivered' = Append(delivered, slot) /\ slot' = 0
          /\ UNCHANGED <<sent, ring, bytes>> /\ delivered \in Seq(Packet)
      BY <1>4, <2>2 DEF Read, TypeOK
    <3>2. /\ DOMAIN delivered' = 1..(Len(delivered) + 1)
          /\ \A i \in DOMAIN delivered : delivered'[i] = delivered[i]
          /\ delivered'[Len(delivered) + 1] = slot
      BY <3>1, Elements
    <3>3. InOrderOnce'
      BY <2>2, <3>2, Elements DEF OrderInv, InOrderOnce, DeliveredInv, Before
    <3>4. DeliveredInv'
      BY <2>2, <3>1, <3>2, Elements DEF OrderInv, DeliveredInv, BufferInv, RingInv, Before
    <3>5. BufferInv' /\ RingInv'
      BY <3>1, Elements DEF OrderInv, BufferInv, RingInv, Before
    <3> QED
      BY <3>3, <3>4, <3>5 DEF OrderInv
  <2> QED
    BY <2>1, <2>2
<1>5. CASE AdapterRemoved \/ ReceiveFails \/ Notify \/ Unlock
             \/ Await \/ Awake \/ Queue \/ Shutdown \/ UNCHANGED vars
  BY <1>5, OrderKept
     DEF AdapterRemoved, ReceiveFails, Notify, Unlock, Await, Awake, Queue, Shutdown, vars
<1> QED
  BY <1>1, <1>2, <1>3, <1>4, <1>5 DEF Next, Outside, Thread, Reader

LEMMA OrderAlways == Spec => []OrderInv
<1>1. Init => OrderInv
  BY DEF Init, OrderInv, InOrderOnce, DeliveredInv, BufferInv, RingInv, Before
<1>2. TypeOK /\ OrderInv /\ [Next]_vars => OrderInv'
  BY OrderStep
<1> QED
  BY <1>1, <1>2, TypeCorrect, PTL DEF Spec

\* read returns the packets in the order they were sent, none of them twice.
THEOREM InOrder == Spec => []InOrderOnce
<1>1. OrderInv => InOrderOnce
  BY DEF OrderInv
<1> QED
  BY <1>1, OrderAlways, PTL

-----------------------------------------------------------------------------
(* The device as a whole. *)

\* The thread has an empty hand but for the lock of the buffer, and a parked
\* reader leaves no permit behind.
HandInv ==
  /\ bytes # 0 <=> thread = "locking"
  /\ reader = "parked" => permit = 0

LEMMA HandAlways == Spec => []HandInv
<1>1. Init => HandInv
  BY DEF Init, HandInv
<1>2. TypeOK /\ HandInv /\ [Next]_vars => HandInv'
  <2> SUFFICES ASSUME TypeOK, HandInv, [Next]_vars
               PROVE  HandInv'
    OBVIOUS
  <2> USE DEF HandInv, threadVars, readerVars, deviceVars
  <2>1. CASE Receive
    <3>1. Head(ring) # 0
      BY <2>1, Elements DEF Receive, TypeOK
    <3> QED
      BY <2>1, <3>1 DEF Receive
  <2>2. CASE HostSends \/ AdapterRemoved \/ ReceiveFails \/ Store \/ Notify \/ Unlock
    BY <2>2 DEF HostSends, AdapterRemoved, ReceiveFails, Store, Notify, Unlock
  <2>3. CASE Reader \/ Shutdown \/ UNCHANGED vars
    BY <2>3 DEF Reader, Await, Awake, Queue, Read, Shutdown, vars
  <2> QED
    BY <2>1, <2>2, <2>3 DEF Next, Outside, Thread
<1> QED
  BY <1>1, <1>2, TypeCorrect, PTL DEF Spec

\* What waits, by the hands it is in.
LEMMA WaitingIs ==
  ASSUME TypeOK
  PROVE  /\ Holding(slot) \in Seq(Packet) /\ Holding(bytes) \in Seq(Packet)
         /\ ring \in Seq(Packet)
         /\ Waiting \in Seq(Packet)
         /\ Len(Waiting) >= Len(ring)
         /\ bytes = 0 => Waiting = Holding(slot) \o ring
         /\ bytes # 0 => Waiting = Holding(slot) \o (<<bytes>> \o ring)
         /\ slot = 0 => Waiting = Holding(bytes) \o ring
         /\ slot # 0 => Waiting = <<slot>> \o (Holding(bytes) \o ring)
<1>1. Holding(slot) \in Seq(Packet) /\ Holding(bytes) \in Seq(Packet) /\ ring \in Seq(Packet)
  BY DEF TypeOK, Holding
<1>2. Waiting = Holding(slot) \o (Holding(bytes) \o ring)
  <2>1. \A a, b, c \in Seq(Packet) : (a \o b) \o c = a \o (b \o c)
    OBVIOUS
  <2> QED
    BY <1>1, <2>1 DEF Waiting
<1>3. /\ bytes = 0 => Holding(bytes) \o ring = ring
      /\ slot = 0 => Waiting = Holding(bytes) \o ring
  <2>1. Holding(0) = <<>> /\ \A a \in Seq(Packet) : <<>> \o a = a
    BY DEF Holding
  <2>2. Holding(bytes) \o ring \in Seq(Packet)
    BY <1>1
  <2> QED
    BY <1>1, <1>2, <2>1, <2>2
<1>4. Waiting \in Seq(Packet) /\ Len(Waiting) >= Len(ring)
  BY <1>1, <1>2
<1> QED
  BY <1>1, <1>2, <1>3, <1>4 DEF Holding

LEMMA AppendLast ==
  ASSUME NEW a \in Seq(Packet), NEW b \in Seq(Packet), NEW e \in Packet
  PROVE  a \o Append(b, e) = Append(a \o b, e)
OBVIOUS

\* Every step of the device is a step of the abstract one or leaves it alone.
LEMMA TunStep ==
  ASSUME TypeOK, TypeOK', HandInv, [Next]_vars
  PROVE  [Device!Send \/ Device!Lose \/ Device!Deliver]_(Device!tunVars)
<1> USE DEF threadVars, readerVars, deviceVars
<1>1. CASE HostSends
  <2>1. CASE Len(ring) < RingLen
    <3>1. ring' = Append(ring, sent + 1) /\ sent + 1 \in Packet
      BY <1>1, <2>1, WinTunAssumption DEF HostSends, TypeOK, Packet
    <3>2. (Holding(slot) \o Holding(bytes)) \o Append(ring, sent + 1)
            = Append((Holding(slot) \o Holding(bytes)) \o ring, sent + 1)
      <4>1. Holding(slot) \o Holding(bytes) \in Seq(Packet)
        BY WaitingIs
      <4> QED
        BY <3>1, <4>1, WaitingIs, AppendLast
    <3>3. Waiting' = Append(Waiting, sent + 1)
      BY <1>1, <3>1, <3>2 DEF Waiting, HostSends
    <3> QED
      BY <1>1, <3>3 DEF HostSends, Device!Send
  <2>2. CASE ~ (Len(ring) < RingLen)
    <3>1. Waiting' = Waiting
      BY <1>1, <2>2 DEF HostSends, Waiting
    <3>2. Len(Waiting) >= RingLen
      <4>1. Len(ring) \in Nat /\ Len(Waiting) \in Nat
        BY WaitingIs
      <4> QED
        BY <2>2, <4>1, WaitingIs, WinTunAssumption
    <3> QED
      BY <1>1, <3>1, <3>2 DEF HostSends, Device!Send
  <2> QED
    BY <2>1, <2>2
<1>2. CASE Receive
  <2>1. /\ bytes = 0 /\ bytes' # 0 /\ UNCHANGED <<sent, slot, delivered>>
        /\ ring = <<bytes'>> \o ring'
    BY <1>2, WaitingIs, Elements DEF Receive, HandInv, TypeOK
  <2>2. Waiting' = Holding(slot') \o (<<bytes'>> \o ring')
    <3>1. /\ Holding(slot') \in Seq(Packet) /\ <<bytes'>> \in Seq(Packet)
          /\ ring' \in Seq(Packet)
      BY <2>1 DEF TypeOK, Holding
    <3> QED
      BY <2>1, <3>1 DEF Waiting, Holding
  <2> QED
    BY <2>1, <2>2, WaitingIs DEF Device!tunVars
<1>3. CASE Store
  <2>1. bytes # 0 /\ bytes' = 0 /\ slot' = bytes /\ UNCHANGED <<sent, ring, delivered>>
    BY <1>3 DEF Store, HandInv
  <2>2. Waiting' = <<bytes>> \o ring
    BY <2>1, WaitingIs DEF Waiting, Holding
  <2>3. CASE slot = 0
    BY <2>1, <2>2, <2>3, WaitingIs DEF Device!tunVars, Holding
  <2>4. CASE slot # 0
    <3>1. Waiting = <<slot>> \o (<<bytes>> \o ring)
      BY <2>1, <2>4, WaitingIs DEF Holding
    <3>2. <<bytes>> \o ring \in Seq(Packet) /\ Len(<<bytes>> \o ring) >= 1 /\ slot \in Packet
      BY <2>1, <2>4, WaitingIs DEF Holding, TypeOK
    <3>3. Len(Waiting) > 1 /\ Waiting' = Tail(Waiting)
      BY <2>2, <3>1, <3>2
    <3> QED
      BY <2>1, <3>3 DEF Device!Lose
  <2> QED
    BY <2>3, <2>4
<1>4. CASE Read
  <2>1. slot' = 0 /\ UNCHANGED <<sent, bytes, ring>>
    BY <1>4 DEF Read
  <2>2. Waiting' = Holding(bytes) \o ring
    BY <2>1, WaitingIs DEF Waiting, Holding
  <2>3. CASE slot = 0
    BY <1>4, <2>1, <2>2, <2>3, WaitingIs DEF Read, Device!tunVars
  <2>4. CASE slot # 0
    <3>1. Waiting = <<slot>> \o (Holding(bytes) \o ring)
      BY <2>4, WaitingIs
    <3>2. Holding(bytes) \o ring \in Seq(Packet) /\ slot \in Packet
      BY <2>4, WaitingIs DEF TypeOK
    <3>3. Waiting # <<>> /\ Head(Waiting) = slot /\ Waiting' = Tail(Waiting)
      BY <2>2, <3>1, <3>2
    <3> QED
      BY <1>4, <2>1, <2>4, <3>3 DEF Read, Device!Deliver
  <2> QED
    BY <2>3, <2>4
<1>5. CASE AdapterRemoved \/ ReceiveFails \/ Notify \/ Unlock
             \/ Await \/ Awake \/ Queue \/ Shutdown \/ UNCHANGED vars
  BY <1>5
     DEF AdapterRemoved, ReceiveFails, Notify, Unlock, Await, Awake,
         Queue, Shutdown, vars, Waiting, Device!tunVars
<1> QED
  BY <1>1, <1>2, <1>3, <1>4, <1>5 DEF Next, Outside, Thread, Reader

\* Ring, thread, buffer, mutex and Notify implement the abstract device, whatever
\* the room in the ring and the traffic.
THEOREM Refinement == Spec => ImplementsTun
<1>1. Init => Device!Init
  BY DEF Init, Device!Init, Waiting, Holding
<1>2. TypeOK /\ TypeOK' /\ HandInv /\ [Next]_vars
        => [Device!Send \/ Device!Lose \/ Device!Deliver]_(Device!tunVars)
  BY TunStep
<1> QED
  BY <1>1, <1>2, TypeCorrect, HandAlways, PTL DEF Spec, ImplementsTun, Device!Spec

-----------------------------------------------------------------------------
(* The end of the thread. *)

\* Only the loss of the adapter ends the receiving thread: no stop of the
\* daemon does, for the thread keeps open the very session whose end it waits
\* for.  This is why ThreadEndsAfterStop fails, with every ring and traffic.
THEOREM OnlyAdapterEndsThread ==
  Spec => [](adapter = "present" => thread # "ended" /\ "thread" \in holders)
<1> DEFINE Kept == adapter = "present" => thread # "ended" /\ "thread" \in holders
<1>1. Init => Kept
  BY DEF Init
<1>2. Kept /\ [Next]_vars => Kept'
  BY DEF Next, Outside, Thread, Reader, HostSends, AdapterRemoved, Receive, ReceiveFails,
         Store, Notify, Unlock, Await, Awake, Queue, Read, Shutdown, vars, threadVars,
         readerVars, deviceVars
<1> QED
  BY <1>1, <1>2, PTL DEF Spec

-----------------------------------------------------------------------------
(* Progress of packet n.  The provers know nothing of ENABLED: that a guard  *)
(* enables the thread or the reader is a hypothesis of the theorem.          *)

ThreadCan == thread \in {"notifying", "unlocking"} \/ (thread = "locking" /\ reader # "queued")

ReaderCan ==
  \/ reader \in {"notified", "locking"}
  \/ reader = "top" /\ permit = 1
  \/ reader = "queued" /\ ~ LockHeld

Settled(n) == reader = "off" \/ \E i \in DOMAIN delivered : delivered[i] >= n

\* The places of packet n, or of the newer one that took its place, in the
\* order it passes through them: with the thread, behind the reader or not; in
\* the buffer, unannounced, announced by a permit or by a notification, and
\* with a reader that goes for the lock or queues for it.
Blocked(n) == bytes = n /\ reader = "queued"
Storable(n) == bytes = n /\ reader # "queued"
Unannounced(n) == slot >= n /\ thread = "notifying" /\ reader \in {"top", "parked"}
Announced(n) == slot >= n /\ permit = 1 /\ reader = "top"
Notified(n) == slot >= n /\ reader = "notified"
Locking(n) == slot >= n /\ reader = "locking"
Queued(n) == slot >= n /\ reader = "queued"

ProgressInv == TypeOK /\ OrderInv /\ HandInv

LEMMA ProgressInvAlways == Spec => []ProgressInv
BY TypeCorrect, OrderAlways, HandAlways, PTL DEF ProgressInv

\* What the buffer holds only grows until it is read, and reading it settles
\* every packet up to it.
LEMMA BufferGrows ==
  ASSUME NEW n \in Packet, ProgressInv, [Next]_vars, slot >= n
  PROVE  slot' >= n \/ Settled(n)'
<1> USE DEF threadVars, readerVars, deviceVars
<1>0. n \in Nat \ {0} /\ slot \in Nat /\ bytes \in Nat
  BY WinTunAssumption, Elements DEF Packet, ProgressInv
<1>1. CASE Store
  BY <1>0, <1>1 DEF Store, ProgressInv, HandInv, OrderInv, BufferInv, Before
<1>2. CASE Read
  <2>1. slot # 0 /\ delivered' = Append(delivered, slot) /\ delivered \in Seq(Packet)
    BY <1>0, <1>2 DEF Read, ProgressInv, TypeOK
  <2>2. /\ Len(delivered) + 1 \in DOMAIN delivered'
        /\ delivered'[Len(delivered) + 1] = slot
    BY <2>1
  <2> QED
    BY <2>2 DEF Settled
<1>3. CASE HostSends \/ AdapterRemoved \/ Receive \/ ReceiveFails \/ Notify \/ Unlock
             \/ Await \/ Awake \/ Queue \/ Shutdown \/ UNCHANGED vars
  BY <1>3 DEF HostSends, AdapterRemoved, Receive, ReceiveFails, Notify, Unlock, Await,
              Awake, Queue, Shutdown, vars
<1> QED
  BY <1>1, <1>2, <1>3 DEF Next, Outside, Thread, Reader

\* A packet in the buffer is in one of the places.
LEMMA BufferPlaces ==
  ASSUME NEW n \in Packet, ProgressInv, NoLostWakeup, slot >= n
  PROVE  Unannounced(n) \/ Announced(n) \/ Notified(n) \/ Locking(n) \/ Queued(n) \/ Settled(n)
<1>1. slot # 0
  BY WinTunAssumption, Elements DEF Packet, ProgressInv
<1> QED
  BY <1>1 DEF ProgressInv, TypeOK, ReaderAt, HandInv, NoLostWakeup, Settled,
              Unannounced, Announced, Notified, Locking, Queued

\* What a step makes of a packet in the buffer: it stays or goes on.
LEMMA BufferStep ==
  ASSUME NEW n \in Packet, ProgressInv, [Next]_vars
  PROVE  /\ Unannounced(n) =>
              Unannounced(n)' \/ Announced(n)' \/ Notified(n)' \/ Locking(n)' \/ Settled(n)'
         /\ Announced(n) => Announced(n)' \/ Locking(n)' \/ Settled(n)'
         /\ Notified(n) => Notified(n)' \/ Locking(n)' \/ Settled(n)'
         /\ Locking(n) => Locking(n)' \/ Queued(n)' \/ Settled(n)'
         /\ Queued(n) => Queued(n)' \/ Settled(n)'
<1> SUFFICES ASSUME slot >= n, slot' >= n, ~ Settled(n)'
             PROVE  /\ Unannounced(n) =>
                         Unannounced(n)' \/ Announced(n)' \/ Notified(n)' \/ Locking(n)'
                    /\ Announced(n) => Announced(n)' \/ Locking(n)'
                    /\ Notified(n) => Notified(n)' \/ Locking(n)'
                    /\ Locking(n) => Locking(n)' \/ Queued(n)'
                    /\ Queued(n) => Queued(n)'
  BY BufferGrows DEF Unannounced, Announced, Notified, Locking, Queued
<1>0. ~ (0 >= n)
  BY WinTunAssumption DEF Packet
<1> USE DEF Unannounced, Announced, Notified, Locking, Queued, LockHeld,
            threadVars, readerVars, deviceVars
<1>1. CASE Thread \/ Outside
  BY <1>1 DEF Thread, Outside, Receive, ReceiveFails, Store, Notify, Unlock, HostSends,
              AdapterRemoved
<1>2. CASE Await \/ Awake \/ Queue
  BY <1>2 DEF Await, Awake, Queue
<1>3. CASE Read
  BY <1>0, <1>3 DEF Read
<1>4. CASE Shutdown \/ UNCHANGED vars
  BY <1>4 DEF Shutdown, vars, Settled
<1> QED
  BY <1>1, <1>2, <1>3, <1>4 DEF Next, Reader

\* The steps that carry a packet in the buffer on.
LEMMA BufferMoves ==
  ASSUME NEW n \in Packet, ProgressInv
  PROVE  /\ Unannounced(n) /\ Thread => Announced(n)' \/ Notified(n)'
         /\ Announced(n) /\ Reader => Locking(n)'
         /\ Notified(n) /\ Reader => Locking(n)'
         /\ Locking(n) /\ Reader => Queued(n)' \/ Settled(n)'
         /\ Queued(n) /\ Reader => Settled(n)'
         /\ Queued(n) /\ thread = "notifying" /\ Thread => (thread = "unlocking")'
         /\ Queued(n) /\ thread = "unlocking" /\ Thread => (~ LockHeld)'
         /\ Queued(n) /\ ~ LockHeld /\ [Next]_vars => Settled(n)' \/ (~ LockHeld)'
<1> USE DEF Unannounced, Announced, Notified, Locking, Queued, LockHeld,
            threadVars, readerVars, deviceVars
<1>1. ASSUME Read, slot >= n
      PROVE  Settled(n)'
  <2>1. Next
    BY <1>1 DEF Next, Reader
  <2>2. slot' = 0 /\ 0 \notin Packet /\ n \in Nat
    BY <1>1, WinTunAssumption DEF Read, Packet
  <2>3. ~ (slot' >= n)
    BY <2>2, WinTunAssumption DEF Packet
  <2> QED
    BY <1>1, <2>1, <2>3, BufferGrows
<1>2. Reader <=> Await \/ Awake \/ Queue \/ Read
  BY DEF Reader
<1>3. /\ Announced(n) /\ Reader => Locking(n)'
      /\ Notified(n) /\ Reader => Locking(n)'
  BY <1>2 DEF Await, Awake, Queue, Read
<1>4. /\ Locking(n) /\ Reader => Queued(n)' \/ Settled(n)'
      /\ Queued(n) /\ Reader => Settled(n)'
  BY <1>1, <1>2 DEF Await, Awake, Queue
<1>5. /\ Unannounced(n) /\ Thread => Announced(n)' \/ Notified(n)'
      /\ Queued(n) /\ thread = "notifying" /\ Thread => (thread = "unlocking")'
      /\ Queued(n) /\ thread = "unlocking" /\ Thread => (~ LockHeld)'
  BY DEF Thread, Receive, ReceiveFails, Store, Notify, Unlock
<1>6. Queued(n) /\ ~ LockHeld /\ [Next]_vars => Settled(n)' \/ (~ LockHeld)'
  BY DEF Next, Outside, Thread, Reader, HostSends, AdapterRemoved, Receive, ReceiveFails,
         Store, Notify, Unlock, Await, Awake, Queue, Read, Shutdown, vars
<1> QED
  BY <1>3, <1>4, <1>5, <1>6

\* A packet that the thread holds waits for a reader that came first, and is
\* then stored: a reader cannot come first twice.
LEMMA HandStep ==
  ASSUME NEW n \in Packet, ProgressInv, [Next]_vars
  PROVE  /\ Blocked(n) => Blocked(n)' \/ Storable(n)' \/ Settled(n)'
         /\ Storable(n) => Storable(n)' \/ (slot >= n)'
         /\ Blocked(n) /\ Reader => Storable(n)'
         /\ Storable(n) /\ Thread => (slot >= n)'
<1>1. n # 0 /\ n \in Nat
  BY WinTunAssumption DEF Packet
<1>2. bytes = n => thread = "locking"
  BY <1>1 DEF ProgressInv, HandInv
<1> USE DEF Blocked, Storable, LockHeld, threadVars, readerVars, deviceVars
<1>3. CASE Thread
  BY <1>1, <1>2, <1>3
     DEF Thread, Receive, ReceiveFails, Store, Notify, Unlock, Reader, Await, Awake, Queue, Read
<1>4. CASE Reader
  BY <1>1, <1>2, <1>4
     DEF Reader, Await, Awake, Queue, Read, Thread, Receive, ReceiveFails, Store, Notify, Unlock
<1>5. CASE (Outside \/ Shutdown \/ UNCHANGED vars) /\ ~ Thread /\ ~ Reader
  BY <1>5 DEF Outside, HostSends, AdapterRemoved, Shutdown, vars, Settled
<1> QED
  BY <1>3, <1>4, <1>5 DEF Next

LEMMA PacketProgress ==
  ASSUME NEW n \in Packet
  PROVE  /\ FairSpec
         /\ [](ThreadCan => ENABLED <<Thread>>_vars)
         /\ [](ReaderCan => ENABLED <<Reader>>_vars)
         => ((bytes = n \/ slot = n) ~> Settled(n))
<1> DEFINE Fair == /\ [][Next]_vars /\ []ProgressInv /\ []NoLostWakeup
                   /\ WF_vars(Thread) /\ WF_vars(Reader)
                   /\ [](ThreadCan => ENABLED <<Thread>>_vars)
                   /\ [](ReaderCan => ENABLED <<Reader>>_vars)
           InBuffer == slot >= n
           InHand == bytes = n
           Asks == thread = "notifying"
           Leaves == thread = "unlocking"
<1>1. Fair => (Queued(n) ~> Settled(n))
  <2>1. ProgressInv /\ [Next]_vars /\ Queued(n) => Queued(n)' \/ Settled(n)'
    BY BufferStep
  <2>2. /\ ProgressInv /\ Queued(n) /\ Asks /\ <<Thread>>_vars => Leaves'
        /\ ProgressInv /\ Queued(n) /\ Leaves /\ <<Thread>>_vars => (~ LockHeld)'
        /\ ProgressInv /\ Queued(n) /\ ~ LockHeld /\ <<Reader>>_vars => Settled(n)'
        /\ ProgressInv /\ Queued(n) /\ ~ LockHeld /\ [Next]_vars => Settled(n)' \/ (~ LockHeld)'
    BY BufferMoves
  <2>3. /\ LockHeld <=> Asks \/ Leaves
        /\ Queued(n) /\ ~ LockHeld => ReaderCan
        /\ Asks \/ Leaves => ThreadCan
    BY DEF LockHeld, Queued, ReaderCan, ThreadCan
  <2>4. ProgressInv /\ Queued(n) /\ Asks /\ [Next]_vars => Asks' \/ Leaves' \/ (~ LockHeld)'
    BY DEF LockHeld
  <2>5. ProgressInv /\ Queued(n) /\ Leaves /\ [Next]_vars => Leaves' \/ (~ LockHeld)'
    BY DEF Queued, LockHeld, Next, Outside, HostSends, AdapterRemoved, Thread, Receive,
           ReceiveFails, Store, Notify, Unlock, Reader, Await, Awake, Queue, Read, Shutdown,
           vars, threadVars, readerVars, deviceVars
  <2> HIDE DEF Asks, Leaves
  <2> QED
    BY <2>1, <2>2, <2>3, <2>4, <2>5, PTL
<1>2. Fair => (Locking(n) ~> Settled(n))
  <2>1. ProgressInv /\ [Next]_vars /\ Locking(n) => Locking(n)' \/ Queued(n)' \/ Settled(n)'
    BY BufferStep
  <2>2. ProgressInv /\ Locking(n) /\ <<Reader>>_vars => Queued(n)' \/ Settled(n)'
    BY BufferMoves
  <2>3. Locking(n) => ReaderCan
    BY DEF Locking, ReaderCan
  <2> QED
    BY <1>1, <2>1, <2>2, <2>3, PTL
<1>3. Fair => (Notified(n) ~> Settled(n))
  <2>1. ProgressInv /\ [Next]_vars /\ Notified(n) => Notified(n)' \/ Locking(n)' \/ Settled(n)'
    BY BufferStep
  <2>2. ProgressInv /\ Notified(n) /\ <<Reader>>_vars => Locking(n)'
    BY BufferMoves
  <2>3. Notified(n) => ReaderCan
    BY DEF Notified, ReaderCan
  <2> QED
    BY <1>2, <2>1, <2>2, <2>3, PTL
<1>4. Fair => (Announced(n) ~> Settled(n))
  <2>1. ProgressInv /\ [Next]_vars /\ Announced(n) => Announced(n)' \/ Locking(n)' \/ Settled(n)'
    BY BufferStep
  <2>2. ProgressInv /\ Announced(n) /\ <<Reader>>_vars => Locking(n)'
    BY BufferMoves
  <2>3. Announced(n) => ReaderCan
    BY DEF Announced, ReaderCan
  <2> QED
    BY <1>2, <2>1, <2>2, <2>3, PTL
<1>5. Fair => (Unannounced(n) ~> Settled(n))
  <2>1. ProgressInv /\ [Next]_vars /\ Unannounced(n)
          => Unannounced(n)' \/ Announced(n)' \/ Notified(n)' \/ Locking(n)' \/ Settled(n)'
    BY BufferStep
  <2>2. ProgressInv /\ Unannounced(n) /\ <<Thread>>_vars => Announced(n)' \/ Notified(n)'
    BY BufferMoves
  <2>3. Unannounced(n) => ThreadCan
    BY DEF Unannounced, ThreadCan
  <2> QED
    BY <1>2, <1>3, <1>4, <2>1, <2>2, <2>3, PTL
<1>6. Fair => (InBuffer ~> Settled(n))
  <2>1. ProgressInv /\ NoLostWakeup /\ InBuffer
          => Unannounced(n) \/ Announced(n) \/ Notified(n) \/ Locking(n) \/ Queued(n) \/ Settled(n)
    BY BufferPlaces
  <2> HIDE DEF InBuffer
  <2> QED
    BY <1>1, <1>2, <1>3, <1>4, <1>5, <2>1, PTL
<1>7. Fair => (InHand ~> Settled(n))
  <2>1. /\ ProgressInv /\ [Next]_vars /\ Blocked(n) => Blocked(n)' \/ Storable(n)' \/ Settled(n)'
        /\ ProgressInv /\ [Next]_vars /\ Storable(n) => Storable(n)' \/ InBuffer'
        /\ ProgressInv /\ Blocked(n) /\ <<Reader>>_vars /\ [Next]_vars => Storable(n)'
        /\ ProgressInv /\ Storable(n) /\ <<Thread>>_vars /\ [Next]_vars => InBuffer'
    BY HandStep
  <2>2. /\ InHand => Blocked(n) \/ Storable(n)
        /\ ProgressInv /\ Blocked(n) => ReaderCan
        /\ ProgressInv /\ Storable(n) => ThreadCan
    <3>1. ProgressInv /\ bytes = n => thread = "locking"
      BY WinTunAssumption DEF ProgressInv, HandInv, Packet
    <3> QED
      BY <3>1 DEF Blocked, Storable, ReaderCan, ThreadCan, LockHeld
  <2> HIDE DEF InBuffer, InHand
  <2> QED
    BY <1>6, <2>1, <2>2, PTL
<1>8. bytes = n \/ slot = n => InHand \/ InBuffer
  BY WinTunAssumption DEF Packet
<1> HIDE DEF InBuffer, InHand
<1> QED
  BY <1>6, <1>7, <1>8, ProgressInvAlways, NoWakeupLost, PTL DEF FairSpec, Spec

\* A packet that the thread has received is read, or a newer one in its place,
\* unless the daemon stops: whatever the order in which the thread, the reader
\* and the Notify take their steps.
THEOREM PacketsAreRead ==
  /\ FairSpec
  /\ [](ThreadCan => ENABLED <<Thread>>_vars)
  /\ [](ReaderCan => ENABLED <<Reader>>_vars)
  => StoredIsReadOrReplaced
BY PacketProgress DEF StoredIsReadOrReplaced, Settled

=============================================================================
