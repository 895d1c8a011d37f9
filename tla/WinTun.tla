------------------------------- MODULE WinTun -------------------------------
(***************************************************************************)
(* The TUN device on Windows (crates/vlkxn-core/src/tun.rs): a thread that *)
(* receives from the wintun ring hands packets to the TUN reader of the    *)
(* daemon through a buffer for one packet, a mutex around it and a Notify. *)
(* A packet is overwritten when the next one comes before it is read.      *)
(*                                                                         *)
(* External, modelled from how the code uses them: the ring of wintun,     *)
(* whose session ends when it is closed or the adapter goes away, tokio's  *)
(* Notify (a parked waiter is handed the notification, else one permit is  *)
(* stored) and its Mutex, which serves those that wait in their order.     *)
(***************************************************************************)
EXTENDS Naturals, Sequences

CONSTANTS
  RingLen,       \* packets the ring holds
  MaxPackets     \* bound of the model on the packets the host sends

ASSUME WinTunAssumption == RingLen \in Nat /\ MaxPackets \in Nat

VARIABLES
  sent,          \* packets the host has sent; the k-th of them is k
  ring,          \* packets in the ring, oldest first
  thread,        \* where the receiving thread is
  bytes,         \* the packet the thread works on
  slot,          \* read_buf: a packet, or 0 when it is empty
  permit,        \* permits stored in read_ready
  reader,        \* where the TUN reader, inside read, is
  delivered,     \* packets read has returned
  holders,       \* who keeps the session open
  adapter        \* whether the adapter is still there

threadVars == <<thread, bytes>>
readerVars == <<reader, delivered>>
deviceVars == <<sent, ring, holders, adapter>>
vars == <<sent, ring, thread, bytes, slot, permit, reader, delivered, holders, adapter>>

-----------------------------------------------------------------------------
Packet == 1..MaxPackets

\* The thread holds the mutex while it is "notifying" or "unlocking".
ThreadAt == {"receiving", "locking", "notifying", "unlocking", "ended"}

\* "parked" and "notified" are inside notified().await, "queued" is inside
\* lock().await, "off" is a reader that was shut down.
ReaderAt == {"top", "parked", "notified", "locking", "queued", "off"}

TypeOK ==
  /\ sent \in 0..MaxPackets
  /\ ring \in Seq(Packet) /\ Len(ring) <= RingLen
  /\ thread \in ThreadAt
  /\ bytes \in Packet \cup {0}
  /\ slot \in Packet \cup {0}
  /\ permit \in {0, 1}
  /\ reader \in ReaderAt
  /\ delivered \in Seq(Packet)
  /\ holders \subseteq {"tun", "thread"}
  /\ adapter \in {"present", "removed"}

\* TunFd::create: the thread gets an Arc of the session of its own.
Init ==
  /\ sent = 0
  /\ ring = <<>>
  /\ thread = "receiving"
  /\ bytes = 0
  /\ slot = 0
  /\ permit = 0
  /\ reader = "top"
  /\ delivered = <<>>
  /\ holders = {"tun", "thread"}
  /\ adapter = "present"

-----------------------------------------------------------------------------
(* The host and the adapter. *)

\* A packet that finds the ring full is dropped.
HostSends ==
  /\ adapter = "present" /\ holders # {}
  /\ sent < MaxPackets
  /\ sent' = sent + 1
  /\ ring' = IF Len(ring) < RingLen THEN Append(ring, sent + 1) ELSE ring
  /\ UNCHANGED <<threadVars, slot, permit, readerVars, holders, adapter>>

\* The adapter is disabled or uninstalled under the running program.
AdapterRemoved ==
  /\ adapter = "present"
  /\ adapter' = "removed"
  /\ UNCHANGED <<sent, ring, threadVars, slot, permit, readerVars, holders>>

-----------------------------------------------------------------------------
(* The receiving thread. *)

Receive ==
  /\ thread = "receiving"
  /\ ring # <<>>
  /\ bytes' = Head(ring)
  /\ ring' = Tail(ring)
  /\ thread' = "locking"
  /\ UNCHANGED <<sent, slot, permit, readerVars, holders, adapter>>

\* receive_blocking fails only when the session or the adapter is gone.
ReceiveFails ==
  /\ thread = "receiving"
  /\ holders = {} \/ adapter = "removed"
  /\ thread' = "ended"
  /\ holders' = holders \ {"thread"}
  /\ UNCHANGED <<sent, ring, bytes, slot, permit, readerVars, adapter>>

\* Mutant: a packet in the buffer is kept and the new one dropped.
StoreKeepsOld ==
  /\ thread = "locking"
  /\ reader # "queued"
  /\ slot' = IF slot = 0 THEN bytes ELSE slot
  /\ bytes' = 0
  /\ thread' = "notifying"
  /\ UNCHANGED <<deviceVars, permit, readerVars>>

\* blocking_lock obtained, after a reader that came first, and the buffer
\* replaced.
Store ==
  /\ thread = "locking"
  /\ reader # "queued"
  /\ slot' = bytes
  /\ bytes' = 0
  /\ thread' = "notifying"
  /\ UNCHANGED <<deviceVars, permit, readerVars>>

\* Mutant: notify_waiters in the place of notify_one.
NotifyParked ==
  /\ thread = "notifying"
  /\ reader' = IF reader = "parked" THEN "notified" ELSE reader
  /\ thread' = "unlocking"
  /\ UNCHANGED <<deviceVars, bytes, slot, permit, delivered>>

\* Mutant: a semaphore in the place of the Notify.
NotifyCounts ==
  /\ thread = "notifying"
  /\ permit' = permit + 1
  /\ thread' = "unlocking"
  /\ UNCHANGED <<deviceVars, bytes, slot, readerVars>>

\* notify_one.
Notify ==
  /\ thread = "notifying"
  /\ \/ /\ reader = "parked"
        /\ reader' = "notified"
        /\ UNCHANGED permit
     \/ /\ reader # "parked"
        /\ permit' = 1
        /\ UNCHANGED reader
  /\ thread' = "unlocking"
  /\ UNCHANGED <<deviceVars, bytes, slot, delivered>>

Unlock ==
  /\ thread = "unlocking"
  /\ thread' = "receiving"
  /\ UNCHANGED <<deviceVars, bytes, slot, permit, readerVars>>

-----------------------------------------------------------------------------
(* The TUN reader: one call of read after the other. *)

\* notified().await takes a stored permit or parks.
Await ==
  /\ reader = "top"
  /\ \/ /\ permit = 1
        /\ permit' = 0
        /\ reader' = "locking"
     \/ /\ permit = 0
        /\ reader' = "parked"
        /\ UNCHANGED permit
  /\ UNCHANGED <<deviceVars, threadVars, slot, delivered>>

Awake ==
  /\ reader = "notified"
  /\ reader' = "locking"
  /\ UNCHANGED <<deviceVars, threadVars, slot, permit, delivered>>

\* The thread has the mutex.
LockHeld == thread \in {"notifying", "unlocking"}

\* Mutant: try_lock in the place of lock().await.
QueueGivesUp ==
  /\ reader = "locking"
  /\ LockHeld
  /\ reader' = "top"
  /\ UNCHANGED <<deviceVars, threadVars, slot, permit, delivered>>

Queue ==
  /\ reader = "locking"
  /\ LockHeld
  /\ reader' = "queued"
  /\ UNCHANGED <<deviceVars, threadVars, slot, permit, delivered>>

\* Mutant: the buffer is not cleared.
ReadKeepsBuffer ==
  /\ reader \in {"locking", "queued"}
  /\ ~ LockHeld
  /\ delivered' = IF slot = 0 THEN delivered ELSE Append(delivered, slot)
  /\ reader' = "top"
  /\ UNCHANGED <<deviceVars, threadVars, slot, permit>>

\* lock().await obtained: copy and clear the buffer.  An empty buffer makes a
\* read of 0 bytes, which the caller skips as shorter than an IP header.
Read ==
  /\ reader \in {"locking", "queued"}
  /\ ~ LockHeld
  /\ delivered' = IF slot = 0 THEN delivered ELSE Append(delivered, slot)
  /\ slot' = 0
  /\ reader' = "top"
  /\ UNCHANGED <<deviceVars, threadVars, permit>>

\* The daemon stops: the reading future is dropped, which passes on a
\* notification it was handed, and with the tasks the TunFd.
Shutdown ==
  /\ reader \in {"parked", "notified", "queued"}
  /\ reader' = "off"
  /\ permit' = IF reader = "notified" THEN 1 ELSE permit
  /\ holders' = holders \ {"tun"}
  /\ UNCHANGED <<sent, ring, threadVars, slot, delivered, adapter>>

-----------------------------------------------------------------------------
Outside == HostSends \/ AdapterRemoved

Thread == Receive \/ ReceiveFails \/ Store \/ Notify \/ Unlock

Reader == Await \/ Awake \/ Queue \/ Read

Next == Outside \/ Thread \/ Reader \/ Shutdown

Spec == Init /\ [][Next]_vars

\* The thread and the reader run whenever they can.
FairSpec == Spec /\ WF_vars(Thread) /\ WF_vars(Reader)

-----------------------------------------------------------------------------
\* A packet in the buffer is on its way to the reader: a permit waits, or the
\* thread is about to notify, or the reader was notified and has not read yet.
\* Taking a permit, overwriting the buffer and reading it may interleave in
\* any way.
NoLostWakeup ==
  slot # 0 =>
    \/ permit = 1
    \/ thread = "notifying"
    \/ reader \in {"notified", "locking", "queued", "off"}

\* Packets may be lost to the buffer for one packet, but read never returns one
\* twice and never an older one after a newer one: an extra notification finds
\* the buffer empty or refilled.
InOrderOnce ==
  \A i, j \in DOMAIN delivered : i < j => delivered[i] < delivered[j]

\* Packet n, or none.
Holding(n) == IF n = 0 THEN <<>> ELSE <<n>>

\* What is on its way to the reader: in the buffer, in the hands of the thread
\* and in the ring.
Waiting == Holding(slot) \o Holding(bytes) \o ring

\* The device of the program, which the abstract one stands for.
Device == INSTANCE Tun WITH Room <- RingLen, waiting <- Waiting

\* Ring, thread, buffer, mutex and Notify together are one queue: a packet is
\* lost only to a full ring or to its successor, which replaces it in the buffer,
\* so the last one of a burst that got in is never lost.
ImplementsTun == Device!Spec

\* A packet the thread has received is read, unless a newer one is
\* read in its place or the daemon stops.
StoredIsReadOrReplaced ==
  \A n \in Packet :
    (bytes = n \/ slot = n)
      ~> (reader = "off" \/ \E i \in DOMAIN delivered : delivered[i] >= n)

-----------------------------------------------------------------------------
(* Statement of the program. *)

\* "Press Ctrl+C to stop": main returns once the runtime has no thread left,
\* so after the shutdown the receiving thread ends.
ThreadEndsAfterStop == reader = "off" ~> thread = "ended"

=============================================================================
