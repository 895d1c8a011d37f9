------------------------------- MODULE Daemon -------------------------------
(***************************************************************************)
(* The daemon of one process (crates/vlkxn-controller/src/daemon.rs) with  *)
(* its three tasks, the TUN device they share on Linux                     *)
(* (crates/vlkxn-core/src/tun.rs), and the process around it, which stops  *)
(* the daemon on Ctrl+C and returns from main (vlkxn-cli, Up).             *)
(*                                                                         *)
(* The tasks are polled by several worker threads; a step is what a task   *)
(* does between two points where another thread may act on shared state.   *)
(* The P2P loop appears through its table and its channel, as PeerFeed     *)
(* specifies them; P2pNode has the detail.                                 *)
(*                                                                         *)
(* External, modelled from how the code uses them: the executor (tokio's   *)
(* Notify, Mutex, select! and runtime shutdown) and the kernel's queue     *)
(* behind the TUN device, opened in blocking mode.                         *)
(***************************************************************************)
EXTENDS Naturals, Sequences, FiniteSets

CONSTANTS
  Peer,          \* ids of the remote peers
  MaxFeed,       \* bound of the model on the (unbounded) event channel
  TunQueueLen,   \* packets the kernel queues on the TUN
  MaxFailures,   \* bound of the model on the failing reads of the TUN
  MaxSessions    \* bound of the model on the successful starts

ASSUME DaemonAssumption ==
  /\ MaxFeed \in Nat
  /\ TunQueueLen \in Nat
  /\ MaxFailures \in Nat
  /\ MaxSessions \in Nat

VARIABLES
  mode,      \* what the owner of the Daemon is doing
  sessions,  \* successful starts so far
  loop,      \* where task 1, the P2P event loop, is
  leaving,   \* earlier sessions whose P2P loop has still to follow their stop
  deaf,      \* earlier sessions whose P2P loop missed it and lives on
  handler,   \* where task 2, the event handler, is
  reader,    \* where task 3, the TUN reader, is
  woken,     \* tasks whose Notified future was there for notify_waiters
  lock,      \* holder of the mutex around the TUN
  current,   \* the event task 2 took from the channel and works on
  tunq,      \* packets queued by the kernel and not read yet
  ready,     \* the AsyncFd of the TUN has seen a packet once
  link,      \* the interface is up: set_ip does not look whether `ip` failed
  failures,  \* failed reads so far
  table,     \* P2pNode.peers, its keys
  feed,      \* event_rx
  listed     \* Daemon.peers

ownerVars == <<mode, sessions>>
strayVars == <<leaving, deaf>>
deviceVars == <<tunq, ready, failures, link>>
tunVars == <<lock, deviceVars>>
feedVars == <<table, feed, listed>>
taskVars == <<loop, strayVars, handler, reader, woken, current>>
vars == <<ownerVars, taskVars, tunVars, feedVars>>

Feed == INSTANCE PeerFeed

-----------------------------------------------------------------------------
NoEvent == [kind |-> "none"]

Task == {"loop", "handler", "reader"}

\* "down" is the daemon before start and after stop; "stopping" is the sleep
\* of stop; "exiting" is the drop of the runtime after main.
Mode == {"down", "up", "stopping", "exiting", "exited"}

\* "spawned" and "top": between two select!s, no Notified exists.
LoopAt == {"off", "spawned", "running"}
HandlerAt == {"off", "top", "select", "handling", "writing"}
ReaderAt == {"off", "top", "select", "waitlock", "waitread", "inread", "sleeping"}

\* Task 2 works on an event exactly while it is "handling".
CurrentOK ==
  /\ handler = "handling" => current \in Feed!Event
  /\ handler # "handling" => current = NoEvent

TypeOK ==
  /\ mode \in Mode
  /\ sessions \in 0..MaxSessions
  /\ loop \in LoopAt
  /\ handler \in HandlerAt
  /\ reader \in ReaderAt
  /\ woken \subseteq Task
  /\ lock \in {"free", "handler", "reader"}
  /\ current \in Feed!Event \cup {NoEvent}
  /\ CurrentOK
  /\ tunq \in 0..TunQueueLen
  /\ ready \in BOOLEAN
  /\ link \in BOOLEAN
  /\ leaving \subseteq 1..MaxSessions
  /\ deaf \subseteq 1..MaxSessions
  /\ failures \in 0..MaxFailures
  /\ Feed!TypeOK

Init ==
  /\ mode = "down"
  /\ sessions = 0
  /\ loop = "off"
  /\ handler = "off"
  /\ reader = "off"
  /\ woken = {}
  /\ lock = "free"
  /\ current = NoEvent
  /\ tunq = 0
  /\ ready = FALSE
  /\ link = FALSE
  /\ leaving = {}
  /\ deaf = {}
  /\ failures = 0
  /\ Feed!Init

\* Tasks 2 and 3 share the TunInterface; the kernel removes a TUN that is not
\* persistent when its descriptor is closed, and refuses a second vlkxn0.
DeviceExists == handler # "off" \/ reader # "off"

-----------------------------------------------------------------------------
(* start, stop and the end of the process. *)

\* A start that fails (the device exists, P2pNode::new fails) changes nothing
\* and is left out.  A P2P loop of the session before goes on beside the new one:
\* until it is polled again if the shutdown is there for it, else for good.  It
\* has nobody at the other end of its channel.
Start ==
  /\ mode = "down"
  /\ sessions < MaxSessions
  /\ ~ DeviceExists
  /\ mode' = "up"
  /\ sessions' = sessions + 1
  /\ loop' = "spawned"
  /\ leaving' = leaving \cup {s \in {sessions} : "loop" \in woken}
  /\ deaf' = deaf \cup {s \in {sessions} : loop # "off" /\ "loop" \notin woken}
  /\ handler' = "top"
  /\ reader' = "top"
  /\ woken' = {}
  /\ lock' = "free"
  /\ current' = NoEvent
  /\ tunq' = 0
  /\ ready' = FALSE
  /\ link' \in BOOLEAN
  /\ table' = {}
  /\ feed' = <<>>
  /\ UNCHANGED <<failures, listed>>

\* Tasks inside their select!, whose Notified notify_waiters reaches.
Registered ==
  {t \in Task : \/ t = "loop" /\ loop = "running"
                \/ t = "handler" /\ handler = "select"
                \/ t = "reader" /\ reader \in {"select", "waitlock", "waitread", "inread"}}

\* Mutant: notify_one in the place of notify_waiters.
StopNotifyOne ==
  /\ mode = "up"
  /\ mode' = "stopping"
  /\ \/ \E t \in Registered : woken' = {t}
     \/ Registered = {} /\ woken' = {}
  /\ UNCHANGED <<sessions, loop, strayVars, handler, reader, current, tunVars, feedVars>>

\* stop, up to its sleep.
Stop ==
  /\ mode = "up"
  /\ mode' = "stopping"
  /\ woken' = Registered
  /\ UNCHANGED <<sessions, loop, strayVars, handler, reader, current, tunVars, feedVars>>

\* Mutant: the list survives the session.
StopFinishKeepsList ==
  /\ mode = "stopping"
  /\ mode' = "down"
  /\ UNCHANGED <<sessions, taskVars, tunVars, feedVars>>

\* The sleep of 200 ms is over, whether or not the tasks have ended.
StopFinish ==
  /\ mode = "stopping"
  /\ mode' = "down"
  /\ listed' = {}
  /\ UNCHANGED <<sessions, taskVars, tunVars, table, feed>>

\* The mutex after its guard is dropped: a reader that queues for it has it.
Released == IF reader = "waitlock" THEN "reader" ELSE "free"

\* main returns: the runtime drops every task as soon as it is not polled,
\* tasks 1 and 2 at once.
Quit ==
  /\ mode = "down"
  /\ sessions > 0
  /\ mode' = "exiting"
  /\ loop' = "off"
  /\ leaving' = {}
  /\ deaf' = {}
  /\ handler' = "off"
  /\ current' = NoEvent
  /\ table' = {}
  /\ feed' = <<>>
  /\ lock' = IF lock = "handler" THEN Released ELSE lock
  /\ woken' = woken \cap {"reader"}
  /\ UNCHANGED <<sessions, reader, deviceVars, listed>>

\* A reader that goes from packet to packet yields only now and then, when it
\* has used up its budget; inside read() it never does.
DropReader ==
  /\ mode = "exiting"
  /\ reader \notin {"off", "inread"}
  /\ reader' = "off"
  /\ woken' = {}
  /\ lock' = "free"
  /\ UNCHANGED <<ownerVars, loop, strayVars, handler, current, deviceVars, feedVars>>

\* The runtime has joined its worker threads.
Exit ==
  /\ mode = "exiting"
  /\ reader = "off"
  /\ mode' = "exited"
  /\ UNCHANGED <<sessions, taskVars, tunVars, feedVars>>

-----------------------------------------------------------------------------
(* Task 1: the P2P event loop. *)

LoopBegins ==
  /\ loop = "spawned"
  /\ loop' = "running"
  /\ UNCHANGED <<ownerVars, strayVars, handler, reader, woken, current, tunVars, feedVars>>

\* P2pNode is dropped; what it sent stays in the channel.
LoopEnds ==
  /\ "loop" \in woken
  /\ loop = "running"
  /\ loop' = "off"
  /\ woken' = woken \ {"loop"}
  /\ table' = {}
  /\ UNCHANGED <<ownerVars, strayVars, handler, reader, current, tunVars, feed, listed>>

\* The P2P loop of session s, which a later start left behind, is polled.
StrayEnds(s) ==
  /\ s \in leaving
  /\ leaving' = leaving \ {s}
  /\ UNCHANGED <<ownerVars, loop, deaf, handler, reader, woken, current, tunVars, feedVars>>

\* The result of event_tx.send is ignored: without a receiver the event is gone
\* and the loop goes on.
LoopStep ==
  /\ loop = "running"
  /\ \E p \in Peer :
       \/ /\ handler # "off"
          /\ Feed!Connect(p) \/ Feed!Disconnect(p) \/ Feed!Receive(p)
       \/ /\ handler = "off"
          /\ table' \in {table \cup {p}, table \ {p}}
          /\ UNCHANGED <<feed, listed>>
  /\ UNCHANGED <<ownerVars, taskVars, tunVars>>

-----------------------------------------------------------------------------
(* Task 2: the event handler. *)

HandlerSelects ==
  /\ handler = "top"
  /\ handler' = "select"
  /\ UNCHANGED <<ownerVars, loop, strayVars, reader, woken, current, tunVars, feedVars>>

\* select! polls its branches in random order: a shutdown that is there may
\* win against a waiting event, or lose and be dropped.
HandlerEnds ==
  /\ "handler" \in woken
  /\ handler = "select"
  /\ handler' = "off"
  /\ woken' = woken \ {"handler"}
  /\ feed' = <<>>
  /\ UNCHANGED <<ownerVars, loop, strayVars, reader, current, tunVars, table, listed>>

HandlerTakes ==
  /\ handler = "select"
  /\ feed # <<>>
  /\ handler' = "handling"
  /\ woken' = woken \ {"handler"}
  /\ current' = Head(feed)
  /\ feed' = Tail(feed)
  /\ UNCHANGED <<ownerVars, loop, strayVars, reader, tunVars, table, listed>>

\* Mutant: a peer that leaves keeps its row.
HandlerListsLeavesRow ==
  /\ handler = "handling"
  /\ current.kind # "packet"
  /\ listed' = listed \cup {current.id}
  /\ handler' = "top"
  /\ current' = NoEvent
  /\ UNCHANGED <<ownerVars, loop, strayVars, reader, woken, tunVars, table, feed>>

\* Mutant: the event that was handled is not let go.
HandlerListsKeepsEvent ==
  /\ handler = "handling"
  /\ current.kind # "packet"
  /\ listed' = Feed!Apply(listed, current)
  /\ handler' = "top"
  /\ UNCHANGED <<ownerVars, loop, strayVars, reader, woken, current, tunVars, table, feed>>

\* The list is written once its RwLock has been acquired.
HandlerLists ==
  /\ handler = "handling"
  /\ current.kind # "packet"
  /\ listed' = Feed!Apply(listed, current)
  /\ handler' = "top"
  /\ current' = NoEvent
  /\ UNCHANGED <<ownerVars, loop, strayVars, reader, woken, tunVars, table, feed>>

\* Mutant: lock().await in the place of try_lock.
HandlerWaitsForTun ==
  /\ handler = "handling"
  /\ current.kind = "packet"
  /\ lock = "free"
  /\ lock' = "handler"
  /\ handler' = "writing"
  /\ current' = NoEvent
  /\ UNCHANGED <<ownerVars, loop, strayVars, reader, woken, deviceVars, feedVars>>

\* Mutant: the guard of try_lock is not asked whether it was obtained.
HandlerIgnoresLock ==
  /\ handler = "handling"
  /\ current.kind = "packet"
  /\ lock' = "handler"
  /\ handler' = "writing"
  /\ current' = NoEvent
  /\ UNCHANGED <<ownerVars, loop, strayVars, reader, woken, deviceVars, feedVars>>

\* try_lock: a packet that arrives while the reader has the TUN is dropped.
HandlerTriesTun ==
  /\ handler = "handling"
  /\ current.kind = "packet"
  /\ \/ /\ lock = "free"
        /\ lock' = "handler"
        /\ handler' = "writing"
     \/ /\ lock # "free"
        /\ handler' = "top"
        /\ UNCHANGED lock
  /\ current' = NoEvent
  /\ UNCHANGED <<ownerVars, loop, strayVars, reader, woken, deviceVars, feedVars>>

\* Mutant: the lock is released without waking the reader that queues for it.
HandlerWroteKeepsLock ==
  /\ handler = "writing"
  /\ link
  /\ handler' = "top"
  /\ UNCHANGED <<ownerVars, loop, strayVars, reader, woken, current, tunVars, feedVars>>

\* The packet is written, or the write fails; the mutex goes to a queued reader.
\* A TUN whose link is down never becomes writable: writable() does not return.
HandlerWrote ==
  /\ handler = "writing"
  /\ link
  /\ handler' = "top"
  /\ lock' = Released
  /\ UNCHANGED <<ownerVars, loop, strayVars, reader, woken, current, deviceVars, feedVars>>

-----------------------------------------------------------------------------
(* Task 3: the TUN reader. *)

ReaderSelects ==
  /\ reader = "top"
  /\ reader' = "select"
  /\ UNCHANGED <<ownerVars, loop, strayVars, handler, woken, current, tunVars, feedVars>>

\* The reading future is dropped, with its place in the queue of the mutex or
\* with the guard.  A reader inside read() cannot be interrupted.
ReaderEnds ==
  /\ "reader" \in woken
  /\ reader \in {"select", "waitlock", "waitread"}
  /\ reader' = "off"
  /\ woken' = woken \ {"reader"}
  /\ lock' = IF lock = "reader" THEN "free" ELSE lock
  /\ UNCHANGED <<ownerVars, loop, strayVars, handler, current, deviceVars, feedVars>>

\* lock().await while the handler writes.
ReaderQueues ==
  /\ reader = "select"
  /\ lock = "handler"
  /\ reader' = "waitlock"
  /\ UNCHANGED <<ownerVars, loop, strayVars, handler, woken, current, tunVars, feedVars>>

\* lock().await obtained; readable() is ready for good once a packet has been
\* seen, for nothing clears it, and read() then blocks.
ReaderLocks ==
  /\ \/ reader = "select" /\ lock = "free"
     \/ reader = "waitlock" /\ lock = "reader"
  /\ lock' = "reader"
  /\ reader' = IF ready THEN "inread" ELSE "waitread"
  /\ UNCHANGED <<ownerVars, loop, strayVars, handler, woken, current, deviceVars, feedVars>>

ReaderReadable ==
  /\ reader = "waitread"
  /\ ready
  /\ reader' = "inread"
  /\ UNCHANGED <<ownerVars, loop, strayVars, handler, woken, current, tunVars, feedVars>>

\* read() returns a packet.  It goes to the P2P loop if it has 20 bytes; a
\* shutdown seen in the meantime loses against the result and is dropped.
ReaderReads ==
  /\ reader = "inread"
  /\ tunq > 0
  /\ tunq' = tunq - 1
  /\ reader' = "top"
  /\ lock' = "free"
  /\ woken' = woken \ {"reader"}
  /\ UNCHANGED <<ownerVars, loop, strayVars, handler, current, ready, failures, link, feedVars>>

\* Mutant: a failed read ends the task.
ReaderFailsForGood ==
  /\ reader = "inread"
  /\ failures < MaxFailures
  /\ failures' = failures + 1
  /\ reader' = "off"
  /\ lock' = "free"
  /\ woken' = woken \ {"reader"}
  /\ UNCHANGED <<ownerVars, loop, strayVars, handler, current, tunq, ready, link, feedVars>>

\* read() fails: the task goes on after a pause.
ReaderFails ==
  /\ reader = "inread"
  /\ failures < MaxFailures
  /\ failures' = failures + 1
  /\ reader' = "sleeping"
  /\ lock' = "free"
  /\ woken' = woken \ {"reader"}
  /\ UNCHANGED <<ownerVars, loop, strayVars, handler, current, tunq, ready, link, feedVars>>

ReaderWakes ==
  /\ reader = "sleeping"
  /\ mode # "exiting"
  /\ reader' = "top"
  /\ UNCHANGED <<ownerVars, loop, strayVars, handler, woken, current, tunVars, feedVars>>

\* The host sends a packet through vlkxn0, which takes one only while its link
\* is up; the kernel drops it when the queue is full.
HostSends ==
  /\ DeviceExists
  /\ link
  /\ tunq < TunQueueLen
  /\ tunq' = tunq + 1
  /\ ready' = TRUE
  /\ UNCHANGED <<ownerVars, taskVars, lock, failures, link, feedVars>>

-----------------------------------------------------------------------------
Owner == Start \/ Stop \/ StopFinish \/ Quit \/ DropReader \/ Exit

LoopTask ==
  \/ LoopBegins \/ LoopEnds \/ LoopStep
  \/ \E s \in 1..MaxSessions : StrayEnds(s)

HandlerTask ==
  \/ HandlerSelects \/ HandlerEnds \/ HandlerTakes
  \/ HandlerLists \/ HandlerTriesTun \/ HandlerWrote

ReaderTask ==
  \/ ReaderSelects \/ ReaderEnds \/ ReaderQueues \/ ReaderLocks
  \/ ReaderReadable \/ ReaderReads \/ ReaderFails \/ ReaderWakes

Next == Owner \/ LoopTask \/ HandlerTask \/ ReaderTask \/ HostSends

Spec == Init /\ [][Next]_vars

\* Tasks 2 and 3 are polled again and again when they can run.  The host need
\* not send packets, and the owner need not start, stop or quit; a stop and an
\* exit that were begun are carried on.
\*
\* Task 1 and the runtime's drop of task 3 get their turn only from a reader
\* that leaves read(): a packet it sends to task 1 puts that task next on the
\* reader's own worker thread, where no other thread takes it from, and read()
\* then blocks that thread.  A reader that is out of read() again and again uses
\* up its budget and yields, hence the strong fairness.
LoopEndsFairly == SF_vars(LoopEnds /\ reader # "inread")

StrayEndsFairly(s) == SF_vars(StrayEnds(s) /\ reader # "inread")

Fairness ==
  /\ WF_vars(StopFinish)
  /\ SF_vars(DropReader)
  /\ WF_vars(Exit)
  /\ LoopEndsFairly
  /\ \A s \in 1..MaxSessions : StrayEndsFairly(s)
  /\ WF_vars(HandlerTask)
  /\ WF_vars(ReaderTask)

FairSpec == Spec /\ Fairness

-----------------------------------------------------------------------------
(* Safety. *)

\* The mutex around the TUN belongs to the task that writes or reads, never to
\* one that has moved on, was shut down or was dropped; and a reader never
\* queues for a mutex nobody holds, so no release is lost on it.
TunLockIsHeld ==
  /\ lock = "handler" <=> handler = "writing"
  /\ lock = "reader" => reader \in {"waitlock", "waitread", "inread"}
  /\ reader \in {"waitread", "inread"} => lock = "reader"
  /\ reader = "waitlock" => lock # "free"

\* A daemon that reports "running" runs: is_running only asks for the shutdown
\* handle, but none of the three tasks ends by itself, whatever fails, and the
\* shutdown of an earlier session ends none of them.
RunningMeansAlive ==
  mode = "up" => loop # "off" /\ handler # "off" /\ reader # "off"

\* Events the list does not reflect yet, the one being handled first.
Undelivered == (IF current = NoEvent THEN <<>> ELSE <<current>>) \o feed

Queue == INSTANCE PeerFeed WITH feed <- Undelivered

\* While the daemon runs, replaying the events on their way yields the table
\* of this session's P2P loop: no row of an earlier session is left over, even
\* though stop does not wait for the handler before it clears the list and a
\* handler that missed the shutdown may write to the list afterwards.
ListTracksTable == mode = "up" => Queue!FeedConverges

\* What a running session knows; between two sessions it counts for nothing.
KnownTable == IF mode = "up" THEN table ELSE {}
KnownFeed == IF mode = "up" THEN Undelivered ELSE <<>>
KnownList == IF mode = "up" THEN listed ELSE {}

\* The event being handled takes one more place than the channel has.
Life == INSTANCE Sessions WITH MaxFeed <- MaxFeed + 1, up <- mode = "up",
                               table <- KnownTable, feed <- KnownFeed,
                               listed <- KnownList

\* The daemon is a series of sessions that know nothing of each other, each of
\* them a PeerFeed: P2P loops and handlers that outlive a stop, the list that
\* is cleared without waiting for them, and the event that a handler holds
\* while the channel goes on show nowhere.
ImplementsSessions == Life!SessionsSpec

-----------------------------------------------------------------------------
(* Liveness. *)

\* A peer that stays in the table of a daemon that stays up, on an interface
\* whose link came up, is eventually shown for good.  The handler never waits
\* for the reader, which may keep the TUN locked for ever; on a link that is
\* down it hangs in its first write.
StablePeerIsShown ==
  \A p \in Peer :
    <>[](mode = "up" /\ link /\ p \in table) => <>[](p \in listed)

\* The queue of the TUN does not stay full while the daemon is up.
TunDrains ==
  (mode = "up" /\ tunq = TunQueueLen) ~> (mode # "up" \/ tunq < TunQueueLen)

\* The P2P loop of session s has not ended: it is that of the present session,
\* or one that a later start left behind.
LoopAlive(s) ==
  \/ sessions = s /\ loop # "off"
  \/ s \in leaving \cup deaf

\* A P2P loop that runs while the daemon is up runs until stop is called and
\* then ends, even if the next session starts before it does, unless a reader
\* stays inside read() for good.
LoopStops ==
  \A s \in 1..MaxSessions :
    [](mode = "up" /\ sessions = s /\ loop = "running"
         => \/ [](mode = "up")
            \/ <>(~ LoopAlive(s))
            \/ <>[](reader = "inread"))

-----------------------------------------------------------------------------
(* Statements of the documentation. *)

\* Task 2 carries P2P packets to the TUN: none it took is set aside.
InboundIsWritten ==
  [][handler = "handling" /\ current.kind = "packet" => handler' # "top"]_vars

\* After Ctrl+C the interface vlkxn0 disappears by itself.
InterfaceDisappears == mode = "exiting" ~> ~ DeviceExists

=============================================================================
