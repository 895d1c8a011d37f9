---------------------------- MODULE DaemonProofs ----------------------------
(* The theorems of Daemon: the mutex around the TUN, the tasks of a running  *)
(* daemon, and the list it keeps across stops and starts.                    *)
EXTENDS Daemon, TLAPS

-----------------------------------------------------------------------------
(* The inductive invariant. *)

\* A shutdown that reaches task 2 reaches it in its select!; the runtime only
\* goes away with it.
WokenInv ==
  /\ "handler" \in woken => handler = "select"
  /\ mode \in {"exiting", "exited"} => handler = "off"

\* Once stop has cleared the list, only a handler that missed the shutdown
\* writes to it: one that is gone, or about to go, has left it empty.
ClearedInv ==
  mode = "down" /\ (handler = "off" \/ "handler" \in woken) => listed = {}

\* A shutdown that reached task 1 is followed while it runs, or with the runtime.
LoopInv ==
  /\ sessions \in Nat
  /\ sessions = 0 => loop = "off"
  /\ "loop" \in woken => loop = "running"
  /\ mode \in {"exiting", "exited"} => loop = "off"

LEMMA LoopAlways == Spec => []LoopInv
<1>1. Init => LoopInv
  BY DEF Init, LoopInv
<1>2. LoopInv /\ [Next]_vars => LoopInv'
  <2> SUFFICES ASSUME LoopInv, [Next]_vars
               PROVE  LoopInv'
    OBVIOUS
  <2> USE DEF LoopInv, ownerVars, tunVars, deviceVars, strayVars, feedVars, taskVars
  <2>1. CASE Owner
    BY <2>1 DEF Owner, Start, Stop, Registered, StopFinish, Quit, DropReader, Exit
  <2>2. CASE LoopTask
    BY <2>2 DEF LoopTask, LoopBegins, LoopEnds, StrayEnds, LoopStep
  <2>3. CASE HandlerTask
    BY <2>3 DEF HandlerTask, HandlerSelects, HandlerEnds, HandlerTakes,
                HandlerLists, HandlerTriesTun, HandlerWrote
  <2>4. CASE ReaderTask
    BY <2>4 DEF ReaderTask, ReaderSelects, ReaderEnds, ReaderQueues, ReaderLocks,
                ReaderReadable, ReaderReads, ReaderFails, ReaderWakes
  <2>5. CASE HostSends \/ UNCHANGED vars
    BY <2>5 DEF HostSends, vars
  <2> QED
    BY <2>1, <2>2, <2>3, <2>4, <2>5 DEF Next
<1> QED
  BY <1>1, <1>2, PTL DEF Spec

\* Types.
THEOREM TypeCorrect == Spec => []TypeOK
<1> DEFINE I == TypeOK
<1> USE DaemonAssumption
<1> USE DEF ownerVars, tunVars, deviceVars, strayVars, feedVars, taskVars, Mode, Task, LoopAt, HandlerAt, ReaderAt
<1>1. Init => I
  <2>1. Init => Feed!TypeOK /\ CurrentOK
    BY DEF Init, CurrentOK, Feed!Init, Feed!TypeOK
  <2>2. Init => sessions \in 0..MaxSessions /\ tunq \in 0..TunQueueLen
                  /\ failures \in 0..MaxFailures
    BY DEF Init
  <2>3. Init => current \in Feed!Event \cup {NoEvent} /\ woken \subseteq Task
    BY DEF Init
  <2> QED
    BY <2>1, <2>2, <2>3 DEF Init, TypeOK
<1>2. LoopInv /\ I /\ [Next]_vars => I'
  <2> SUFFICES ASSUME LoopInv, TypeOK, [Next]_vars
               PROVE  I'
    OBVIOUS
  <2> USE DEF TypeOK, CurrentOK, Feed!TypeOK
  <2>1. CASE Start
    <3>1. Feed!TypeOK'
      BY <2>1 DEF Start
    <3>2. CurrentOK'
      BY <2>1 DEF Start
    <3>3. sessions' \in 0..MaxSessions /\ tunq' \in 0..TunQueueLen
            /\ failures' \in 0..MaxFailures
      BY <2>1 DEF Start
    <3>4. current' \in Feed!Event \cup {NoEvent} /\ woken' \subseteq Task
      BY <2>1 DEF Start
    <3>5. leaving' \subseteq 1..MaxSessions /\ deaf' \subseteq 1..MaxSessions
      <4>1. loop # "off" => sessions \in 1..MaxSessions
        BY DEF LoopInv
      <4> QED
        BY <2>1, <4>1 DEF Start, LoopInv
    <3> HIDE DEF Feed!TypeOK, CurrentOK
    <3> QED
      BY <2>1, <3>1, <3>2, <3>3, <3>4, <3>5 DEF Start
  <2>2. CASE Stop
    BY <2>2 DEF Stop, Registered
  <2>3. CASE StopFinish
    BY <2>3 DEF StopFinish
  <2>4. CASE Quit
    BY <2>4 DEF Quit, Released
  <2>5. CASE DropReader
    BY <2>5 DEF DropReader
  <2>6. CASE Exit
    BY <2>6 DEF Exit
  <2>7. CASE LoopBegins
    BY <2>7 DEF LoopBegins
  <2>8. CASE LoopEnds
    BY <2>8 DEF LoopEnds
  <2>9. CASE LoopStep
    <3>1. /\ table' \subseteq Peer
          /\ feed' \in Seq(Feed!Event)
          /\ listed' = listed
      <4>1. ASSUME NEW k \in {"connected", "disconnected", "packet"},
                   NEW p \in Peer, Feed!Send(k, p)
            PROVE  feed' \in Seq(Feed!Event)
        <5>1. [kind |-> k, id |-> p] \in Feed!Event
          BY DEF Feed!Event
        <5> QED
          BY <4>1, <5>1 DEF Feed!Send
      <4> QED
        BY <2>9, <4>1 DEF LoopStep, Feed!Connect, Feed!Disconnect, Feed!Receive
    <3> QED
      BY <2>9, <3>1 DEF LoopStep
  <2>10. CASE HandlerSelects
    BY <2>10 DEF HandlerSelects
  <2>11. CASE HandlerEnds
    BY <2>11 DEF HandlerEnds
  <2>12. CASE HandlerTakes
    <3>1. Head(feed) \in Feed!Event /\ Tail(feed) \in Seq(Feed!Event)
      BY <2>12 DEF HandlerTakes
    <3> QED
      BY <2>12, <3>1 DEF HandlerTakes
  <2>13. CASE HandlerLists
    <3>1. listed' \subseteq Peer
      BY <2>13 DEF HandlerLists, Feed!Apply, Feed!Event
    <3> QED
      BY <2>13, <3>1 DEF HandlerLists
  <2>14. CASE HandlerTriesTun
    BY <2>14 DEF HandlerTriesTun
  <2>15. CASE HandlerWrote
    BY <2>15 DEF HandlerWrote, Released
  <2>16. CASE ReaderSelects
    BY <2>16 DEF ReaderSelects
  <2>17. CASE ReaderEnds
    BY <2>17 DEF ReaderEnds
  <2>18. CASE ReaderQueues
    BY <2>18 DEF ReaderQueues
  <2>19. CASE ReaderLocks
    BY <2>19 DEF ReaderLocks
  <2>20. CASE ReaderReadable
    BY <2>20 DEF ReaderReadable
  <2>21. CASE ReaderReads
    BY <2>21 DEF ReaderReads
  <2>22. CASE ReaderFails
    BY <2>22 DEF ReaderFails
  <2>23. CASE ReaderWakes
    BY <2>23 DEF ReaderWakes
  <2>24. CASE HostSends
    BY <2>24 DEF HostSends
  <2>25. CASE UNCHANGED vars
    BY <2>25 DEF vars
  <2>26. CASE \E s \in 1..MaxSessions : StrayEnds(s)
    BY <2>26 DEF StrayEnds
  <2> QED
    BY <2>1, <2>2, <2>3, <2>4, <2>5, <2>6, <2>7, <2>8, <2>9, <2>10, <2>11,
       <2>12, <2>13, <2>14, <2>15, <2>16, <2>17, <2>18, <2>19, <2>20, <2>21,
       <2>22, <2>23, <2>24, <2>25, <2>26
       DEF Next, Owner, LoopTask, HandlerTask, ReaderTask
<1> QED
  BY <1>1, <1>2, LoopAlways, PTL DEF Spec

-----------------------------------------------------------------------------
(* The mutex, the tasks of a running daemon and the cleared list. *)

LEMMA WokenStep ==
  ASSUME WokenInv, [Next]_vars
  PROVE  WokenInv'
<1> USE DEF WokenInv, ownerVars, tunVars, deviceVars, strayVars, feedVars, taskVars
<1>1. CASE Owner
  BY <1>1 DEF Owner, Start, Stop, Registered, StopFinish, Quit, DropReader, Exit
<1>2. CASE LoopTask
  BY <1>2 DEF LoopTask, LoopBegins, LoopEnds, StrayEnds, LoopStep
<1>3. CASE HandlerTask
  BY <1>3 DEF HandlerTask, HandlerSelects, HandlerEnds, HandlerTakes,
              HandlerLists, HandlerTriesTun, HandlerWrote
<1>4. CASE ReaderTask
  BY <1>4 DEF ReaderTask, ReaderSelects, ReaderEnds, ReaderQueues, ReaderLocks,
              ReaderReadable, ReaderReads, ReaderFails, ReaderWakes
<1>5. CASE HostSends \/ UNCHANGED vars
  BY <1>5 DEF HostSends, vars
<1> QED
  BY <1>1, <1>2, <1>3, <1>4, <1>5 DEF Next

LEMMA WokenAlways == Spec => []WokenInv
<1>1. Init => WokenInv
  BY DEF Init, WokenInv
<1> QED
  BY <1>1, WokenStep, PTL DEF Spec

\* The mutex around the TUN is always in the hands of the task that uses it.
\* Only the drop of the reader looks beyond the mutex: it frees it for good,
\* because the handler has gone before (WokenInv).
THEOREM LockIsHeld == Spec => []TunLockIsHeld
<1>1. Init => TunLockIsHeld
  BY DEF Init, TunLockIsHeld
<1>2. WokenInv /\ TunLockIsHeld /\ [Next]_vars => TunLockIsHeld'
  <2> SUFFICES ASSUME WokenInv, TunLockIsHeld, [Next]_vars
               PROVE  TunLockIsHeld'
    OBVIOUS
  <2> USE DEF TunLockIsHeld, ownerVars, tunVars, deviceVars, strayVars, feedVars, taskVars
  <2>1. CASE Start \/ Stop \/ StopFinish \/ Exit
    BY <2>1 DEF Start, Stop, StopFinish, Exit
  <2>2. CASE Quit
    BY <2>2 DEF Quit, Released
  <2>3. CASE DropReader
    BY <2>3 DEF DropReader, WokenInv
  <2>4. CASE LoopTask
    BY <2>4 DEF LoopTask, LoopBegins, LoopEnds, StrayEnds, LoopStep
  <2>5. CASE HandlerTask
    BY <2>5 DEF HandlerTask, HandlerSelects, HandlerEnds, HandlerTakes,
                HandlerLists, HandlerTriesTun, HandlerWrote, Released
  <2>6. CASE ReaderTask
    BY <2>6 DEF ReaderTask, ReaderSelects, ReaderEnds, ReaderQueues, ReaderLocks,
                ReaderReadable, ReaderReads, ReaderFails, ReaderWakes
  <2>7. CASE HostSends \/ UNCHANGED vars
    BY <2>7 DEF HostSends, vars
  <2> QED
    BY <2>1, <2>2, <2>3, <2>4, <2>5, <2>6, <2>7 DEF Next, Owner
<1> QED
  BY <1>1, <1>2, WokenAlways, PTL DEF Spec

\* What makes it so: no shutdown is on its way to a task of a running daemon.
AliveInv == RunningMeansAlive /\ (mode = "up" => woken = {})

LEMMA AliveAlways == Spec => []AliveInv
<1>1. Init => AliveInv
  BY DEF Init, AliveInv, RunningMeansAlive
<1>2. AliveInv /\ [Next]_vars => AliveInv'
  <2> SUFFICES ASSUME AliveInv, [Next]_vars
               PROVE  AliveInv'
    OBVIOUS
  <2> USE DEF AliveInv, RunningMeansAlive, ownerVars, tunVars, deviceVars, strayVars, feedVars, taskVars
  <2>1. CASE Owner
    BY <2>1 DEF Owner, Start, Stop, StopFinish, Quit, DropReader, Exit
  <2>2. CASE LoopTask
    BY <2>2 DEF LoopTask, LoopBegins, LoopEnds, StrayEnds, LoopStep
  <2>3. CASE HandlerTask
    BY <2>3 DEF HandlerTask, HandlerSelects, HandlerEnds, HandlerTakes,
                HandlerLists, HandlerTriesTun, HandlerWrote
  <2>4. CASE ReaderTask
    BY <2>4 DEF ReaderTask, ReaderSelects, ReaderEnds, ReaderQueues, ReaderLocks,
                ReaderReadable, ReaderReads, ReaderFails, ReaderWakes
  <2>5. CASE HostSends \/ UNCHANGED vars
    BY <2>5 DEF HostSends, vars
  <2> QED
    BY <2>1, <2>2, <2>3, <2>4, <2>5 DEF Next
<1> QED
  BY <1>1, <1>2, PTL DEF Spec

\* A daemon that reports "running" has its three tasks, through any number of
\* starts and stops.
THEOREM RunningIsAlive == Spec => []RunningMeansAlive
BY AliveAlways, PTL DEF AliveInv

LEMMA ClearedAlways == Spec => []ClearedInv
<1>1. Init => ClearedInv
  BY DEF Init, ClearedInv, Feed!Init
<1>2. WokenInv /\ ClearedInv /\ [Next]_vars => ClearedInv'
  <2> SUFFICES ASSUME WokenInv, ClearedInv, [Next]_vars
               PROVE  ClearedInv'
    OBVIOUS
  <2> USE DEF ClearedInv, WokenInv, ownerVars, tunVars, deviceVars, strayVars, feedVars, taskVars
  <2>1. CASE Owner
    BY <2>1 DEF Owner, Start, Stop, StopFinish, Quit, DropReader, Exit
  <2>2. CASE LoopTask
    BY <2>2 DEF LoopTask, LoopBegins, LoopEnds, StrayEnds, LoopStep,
                Feed!Connect, Feed!Disconnect, Feed!Receive
  <2>3. CASE HandlerTask
    BY <2>3 DEF HandlerTask, HandlerSelects, HandlerEnds, HandlerTakes,
                HandlerLists, HandlerTriesTun, HandlerWrote
  <2>4. CASE ReaderTask
    BY <2>4 DEF ReaderTask, ReaderSelects, ReaderEnds, ReaderQueues, ReaderLocks,
                ReaderReadable, ReaderReads, ReaderFails, ReaderWakes
  <2>5. CASE HostSends \/ UNCHANGED vars
    BY <2>5 DEF HostSends, vars
  <2> QED
    BY <2>1, <2>2, <2>3, <2>4, <2>5 DEF Next
<1> QED
  BY <1>1, <1>2, WokenAlways, PTL DEF Spec

-----------------------------------------------------------------------------
(* The list of a running daemon.  While the daemon is up, its steps are steps *)
(* of PeerFeed on the events the list does not reflect yet; the one being     *)
(* handled needs one more place than the channel has.                         *)

QueueFacts == INSTANCE PeerFeedProofs WITH MaxFeed <- MaxFeed + 1,
                                           feed <- Undelivered

QueueInv == \A p \in Peer : QueueFacts!PeerInv(p)

\* What Undelivered is, and what a step of the channel does to it.
LEMMA UndeliveredIs ==
  ASSUME TypeOK
  PROVE  /\ QueueFacts!TypeOK
         /\ handler # "handling" => Undelivered = feed
         /\ handler = "handling" => Undelivered = <<current>> \o feed
         /\ Len(Undelivered) <= Len(feed) + 1
<1> USE DEF TypeOK, CurrentOK, Feed!TypeOK
<1>1. CASE current = NoEvent
  <2>1. Undelivered = feed
    BY <1>1 DEF Undelivered
  <2>2. handler # "handling"
    BY <1>1 DEF Feed!Event, NoEvent
  <2> QED
    BY <2>1, <2>2 DEF QueueFacts!TypeOK, QueueFacts!Event, Feed!Event
<1>2. CASE current # NoEvent
  <2>1. Undelivered = <<current>> \o feed /\ handler = "handling"
    BY <1>2 DEF Undelivered
  <2>2. <<current>> \o feed \in Seq(Feed!Event) /\ Len(<<current>> \o feed) = Len(feed) + 1
    BY <2>1
  <2> QED
    BY <2>1, <2>2 DEF QueueFacts!TypeOK, QueueFacts!Event, Feed!Event
<1> QED
  BY <1>1, <1>2

\* Sending to the channel adds to the undelivered events.
LEMMA SendUndelivered ==
  ASSUME TypeOK, NEW e \in Feed!Event,
         feed' = Append(feed, e), current' = current
  PROVE  Undelivered' = Append(Undelivered, e)
<1> USE DEF TypeOK, CurrentOK, Feed!TypeOK
<1>1. CASE current = NoEvent
  BY <1>1 DEF Undelivered
<1>2. CASE current # NoEvent
  <2>1. <<current>> \o Append(feed, e) = Append(<<current>> \o feed, e)
    BY <1>2
  <2> QED
    BY <1>2, <2>1 DEF Undelivered
<1> QED
  BY <1>1, <1>2

LEMMA LoopIsFeedStep ==
  ASSUME TypeOK, LoopStep, handler # "off"
  PROVE  QueueFacts!Next
<1>1. current' = current
  BY DEF LoopStep, taskVars
<1>2. ASSUME NEW k \in {"connected", "disconnected", "packet"}, NEW p \in Peer,
             Feed!Send(k, p)
      PROVE  QueueFacts!Send(k, p)
  <2> DEFINE e == [kind |-> k, id |-> p]
  <2>1. e \in Feed!Event
    BY DEF Feed!Event
  <2>2. feed' = Append(feed, e) /\ Len(feed) < MaxFeed
    BY <1>2 DEF Feed!Send
  <2> HIDE DEF e
  <2>3. Undelivered' = Append(Undelivered, e)
    BY <1>1, <2>1, <2>2, SendUndelivered
  <2>4. Len(Undelivered) < MaxFeed + 1
    <3>1. Len(feed) \in Nat /\ Len(Undelivered) \in Nat
      BY UndeliveredIs DEF TypeOK, Feed!TypeOK, QueueFacts!TypeOK
    <3> QED
      BY <2>2, <3>1, UndeliveredIs, DaemonAssumption
  <2> QED
    BY <2>3, <2>4 DEF QueueFacts!Send, e
<1>3. PICK p \in Peer : Feed!Connect(p) \/ Feed!Disconnect(p) \/ Feed!Receive(p)
  BY DEF LoopStep
<1>4. CASE Feed!Connect(p)
  BY <1>2, <1>4 DEF Feed!Connect, QueueFacts!Connect, QueueFacts!Next
<1>5. CASE Feed!Disconnect(p)
  BY <1>2, <1>5 DEF Feed!Disconnect, QueueFacts!Disconnect, QueueFacts!Next
<1>6. CASE Feed!Receive(p)
  BY <1>2, <1>6 DEF Feed!Receive, QueueFacts!Receive, QueueFacts!Next
<1> QED
  BY <1>3, <1>4, <1>5, <1>6

LEMMA HandlerIsFeedStep ==
  ASSUME TypeOK, TypeOK', HandlerLists \/ HandlerTriesTun
  PROVE  QueueFacts!Take
<1>1. handler = "handling" /\ handler' # "handling" /\ feed' = feed /\ table' = table
  BY DEF HandlerLists, HandlerTriesTun, feedVars
<1>2. Undelivered = <<current>> \o feed /\ current \in Feed!Event
  BY <1>1, UndeliveredIs DEF TypeOK, CurrentOK
<1>3. Undelivered' = feed
  <2>1. current' = NoEvent
    BY <1>1 DEF TypeOK, CurrentOK
  <2> QED
    BY <1>1, <2>1 DEF Undelivered
<1>4. feed \in Seq(Feed!Event)
  BY DEF TypeOK, Feed!TypeOK
<1>5. Undelivered # <<>> /\ Head(Undelivered) = current /\ Tail(Undelivered) = feed
  BY <1>2, <1>4
<1>6. listed' = QueueFacts!Apply(listed, current)
  BY <1>2 DEF HandlerLists, HandlerTriesTun, feedVars,
              Feed!Apply, QueueFacts!Apply, Feed!Event
<1> QED
  BY <1>1, <1>3, <1>5, <1>6 DEF QueueFacts!Take

\* Every step of a daemon that is and stays up is a step of the feed.
LEMMA UpIsFeedStep ==
  ASSUME TypeOK, TypeOK', AliveInv,
         mode = "up", mode' = "up", [Next]_vars
  PROVE  [QueueFacts!Next]_QueueFacts!vars
<1> USE DEF ownerVars, tunVars, deviceVars, strayVars, feedVars, taskVars
<1> DEFINE Same == UNCHANGED <<table, feed, current, listed>>
<1>1. Same => UNCHANGED QueueFacts!vars
  BY DEF QueueFacts!vars, Undelivered
<1>2. CASE Owner
  BY <1>2 DEF Owner, Start, Stop, StopFinish, Quit, DropReader, Exit
<1>3. CASE LoopTask
  <2>1. CASE LoopBegins
    BY <1>1, <2>1 DEF LoopBegins
  <2>2. CASE LoopEnds
    BY <2>2 DEF LoopEnds, AliveInv, RunningMeansAlive
  <2>3. CASE LoopStep
    BY <2>3, LoopIsFeedStep DEF AliveInv, RunningMeansAlive
  <2>4. CASE \E s \in 1..MaxSessions : StrayEnds(s)
    BY <1>1, <2>4 DEF StrayEnds
  <2> QED
    BY <1>3, <2>1, <2>2, <2>3, <2>4 DEF LoopTask
<1>4. CASE HandlerTask
  <2>1. CASE HandlerEnds
    BY <2>1 DEF HandlerEnds, AliveInv, RunningMeansAlive
  <2>2. CASE HandlerSelects \/ HandlerWrote
    BY <1>1, <2>2 DEF HandlerSelects, HandlerWrote
  <2>3. CASE HandlerTakes
    <3>1. feed \in Seq(Feed!Event)
      BY DEF TypeOK, Feed!TypeOK
    <3>2. /\ current = NoEvent /\ current' \in Feed!Event /\ current' = Head(feed)
          /\ feed # <<>> /\ feed' = Tail(feed)
      BY <2>3 DEF HandlerTakes, TypeOK, CurrentOK
    <3>3. current' # NoEvent
      BY <3>2 DEF Feed!Event, NoEvent
    <3>4. feed = <<Head(feed)>> \o Tail(feed)
      BY <3>1, <3>2
    <3>5. Undelivered' = Undelivered
      BY <3>2, <3>3, <3>4 DEF Undelivered
    <3> QED
      BY <2>3, <3>5 DEF HandlerTakes, QueueFacts!vars
  <2>4. CASE HandlerLists \/ HandlerTriesTun
    BY <2>4, HandlerIsFeedStep DEF QueueFacts!Next
  <2> QED
    BY <1>4, <2>1, <2>2, <2>3, <2>4 DEF HandlerTask
<1>5. CASE ReaderTask
  BY <1>1, <1>5 DEF ReaderTask, ReaderSelects, ReaderEnds, ReaderQueues, ReaderLocks,
              ReaderReadable, ReaderReads, ReaderFails, ReaderWakes
<1>6. CASE HostSends \/ UNCHANGED vars
  BY <1>1, <1>6 DEF HostSends, vars
<1> QED
  BY <1>2, <1>3, <1>4, <1>5, <1>6 DEF Next

\* A start begins with an empty table, an empty channel and an empty list.
LEMMA StartIsFresh ==
  ASSUME ClearedInv, Start
  PROVE  QueueFacts!Init'
<1>1. listed = {}
  BY DEF Start, DeviceExists, ClearedInv
<1>2. current' = NoEvent /\ feed' = <<>> /\ table' = {} /\ listed' = {}
  BY <1>1 DEF Start
<1> QED
  BY <1>2 DEF QueueFacts!Init, Undelivered

\* Only a start brings a daemon up.
LEMMA UpOrStart ==
  ASSUME [Next]_vars, mode' = "up"
  PROVE  mode = "up" \/ Start
BY DEF Next, Owner, Start, Stop, StopFinish, Quit, DropReader, Exit,
       LoopTask, LoopBegins, LoopEnds, StrayEnds, LoopStep,
       HandlerTask, HandlerSelects, HandlerEnds, HandlerTakes,
       HandlerLists, HandlerTriesTun, HandlerWrote,
       ReaderTask, ReaderSelects, ReaderEnds, ReaderQueues, ReaderLocks,
       ReaderReadable, ReaderReads, ReaderFails, ReaderWakes,
       HostSends, ownerVars, vars

\* The invariant of PeerFeed holds in every session: within one the steps are
\* those of PeerFeed (UpIsFeedStep), and a session can only start when the
\* device is free, that is, when the last handler is gone and has left the
\* list cleared.
LEMMA QueueAlways == Spec => [](mode = "up" => QueueInv)
<1> DEFINE I == mode = "up" => QueueInv
<1>1. Init => I
  BY DEF Init
<1>2. /\ TypeOK /\ TypeOK' /\ AliveInv /\ ClearedInv
      /\ I /\ [Next]_vars
      => I'
  <2> SUFFICES ASSUME TypeOK, TypeOK', AliveInv,
                      ClearedInv, I, [Next]_vars, mode' = "up", NEW p \in Peer
               PROVE  QueueFacts!PeerInv(p)'
    BY DEF QueueInv
  <2>1. CASE mode = "up"
    <3>1. QueueFacts!TypeOK /\ [QueueFacts!Next]_QueueFacts!vars
      BY <2>1, UndeliveredIs, UpIsFeedStep
    <3>2. QueueFacts!PeerInv(p)
      BY <2>1 DEF QueueInv
    <3>3. QueueFacts!FeedAssumption
      BY DaemonAssumption DEF QueueFacts!FeedAssumption
    <3> QED
      BY <3>1, <3>2, <3>3, QueueFacts!InvNext
  <2>2. CASE Start
    <3>1. QueueFacts!Init'
      BY <2>2, StartIsFresh
    <3> QED
      BY <3>1 DEF QueueFacts!Init, QueueFacts!PeerInv, QueueFacts!Converges,
           QueueFacts!Alternates, QueueFacts!About, QueueFacts!WillBeListed
  <2>3. mode = "up" \/ Start
    BY UpOrStart
  <2> QED
    BY <2>1, <2>2, <2>3
<1> QED
  BY <1>1, <1>2, TypeCorrect, AliveAlways, ClearedAlways, PTL DEF Spec

\* While the daemon is up, the list is the table once the events on their way
\* are applied, however many sessions came before and whatever their handlers
\* missed.
THEOREM ListTracks == Spec => []ListTracksTable
<1>1. (mode = "up" => QueueInv) => ListTracksTable
  BY DEF QueueInv, ListTracksTable, QueueFacts!PeerInv, QueueFacts!Converges,
         Queue!FeedConverges, QueueFacts!About, QueueFacts!WillBeListed,
         Queue!About, Queue!WillBeListed
<1> QED
  BY <1>1, QueueAlways, PTL

\* In a running daemon an event about a peer always changes the list when its
\* turn comes: the handler never adds a row that is there and never looks in
\* vain for one to remove, in any session.
THEOREM EventsAlwaysMatter ==
  Spec => [](mode = "up" /\ current # NoEvent =>
               /\ current.kind = "connected" => current.id \notin listed
               /\ current.kind = "disconnected" => current.id \in listed)
<1>1. TypeOK /\ (mode = "up" => QueueInv)
        => (mode = "up" /\ current # NoEvent =>
              /\ current.kind = "connected" => current.id \notin listed
              /\ current.kind = "disconnected" => current.id \in listed)
  <2> SUFFICES ASSUME TypeOK, QueueInv, current # NoEvent
               PROVE  /\ current.kind = "connected" => current.id \notin listed
                      /\ current.kind = "disconnected" => current.id \in listed
    OBVIOUS
  <2>1. current \in Feed!Event /\ feed \in Seq(Feed!Event)
    BY DEF TypeOK, Feed!TypeOK
  <2>2. Undelivered = <<current>> \o feed
    BY DEF Undelivered
  <2>3. /\ 1 \in DOMAIN Undelivered /\ Undelivered[1] = current
        /\ \A k \in DOMAIN Undelivered : 1 <= k
    BY <2>1, <2>2
  <2>4. current.id \in Peer
    BY <2>1 DEF Feed!Event
  <2>5. QueueFacts!Alternates(current.id)
    BY <2>4 DEF QueueInv, QueueFacts!PeerInv
  <2>6. CASE current.kind = "packet"
    BY <2>6
  <2>7. CASE current.kind # "packet"
    <3>1. 1 \in QueueFacts!About(current.id) /\ \A k \in QueueFacts!About(current.id) : 1 <= k
      BY <2>3, <2>7 DEF QueueFacts!About
    <3>2. current.kind \in {"connected", "disconnected"}
      BY <2>1, <2>7 DEF Feed!Event
    <3> QED
      BY <2>3, <2>5, <3>1, <3>2 DEF QueueFacts!Alternates
  <2> QED
    BY <2>6, <2>7
<1> QED
  BY <1>1, TypeCorrect, QueueAlways, PTL

-----------------------------------------------------------------------------
(* The daemon as a series of sessions. *)

\* What counts for the sessions, by whether the daemon is up.
LEMMA KnownIs ==
  /\ mode = "up" => /\ KnownTable = table /\ KnownFeed = Undelivered
                    /\ KnownList = listed
  /\ mode # "up" => KnownTable = {} /\ KnownFeed = <<>> /\ KnownList = {}
BY DEF KnownTable, KnownFeed, KnownList

\* A step of the feed within a session is one of the session.
LEMMA FeedStepIsWork ==
  ASSUME mode = "up", mode' = "up", [QueueFacts!Next]_QueueFacts!vars
  PROVE  [Life!SessionsNext]_Life!sessionVars
<1>1. /\ KnownTable = table /\ KnownFeed = Undelivered /\ KnownList = listed
      /\ KnownTable' = table' /\ KnownFeed' = Undelivered' /\ KnownList' = listed'
      /\ (mode = "up")' = (mode = "up")
  BY KnownIs DEF KnownTable, KnownFeed, KnownList
<1>2. ASSUME NEW k, NEW p \in Peer, QueueFacts!Send(k, p)
      PROVE  Life!Send(k, p)
  BY <1>1, <1>2 DEF QueueFacts!Send, Life!Send
<1>3. CASE \E p \in Peer : QueueFacts!Connect(p) \/ QueueFacts!Disconnect(p) \/ QueueFacts!Receive(p)
  <2>1. PICK p \in Peer : QueueFacts!Connect(p) \/ QueueFacts!Disconnect(p) \/ QueueFacts!Receive(p)
    BY <1>3
  <2>2. Life!Connect(p) \/ Life!Disconnect(p) \/ Life!Receive(p)
    BY <1>1, <1>2, <2>1
       DEF QueueFacts!Connect, QueueFacts!Disconnect, QueueFacts!Receive,
           Life!Connect, Life!Disconnect, Life!Receive
  <2>3. Life!Next
    BY <2>2 DEF Life!Next
  <2> QED
    BY <1>1, <2>3 DEF Life!Work, Life!SessionsNext
<1>4. CASE QueueFacts!Take
  <2>1. Life!Take
    BY <1>1, <1>4 DEF QueueFacts!Take, QueueFacts!Apply, Life!Take, Life!Apply
  <2>2. Life!Next
    BY <2>1 DEF Life!Next
  <2> QED
    BY <1>1, <2>2 DEF Life!Work, Life!SessionsNext
<1>5. CASE UNCHANGED QueueFacts!vars
  BY <1>1, <1>5 DEF QueueFacts!vars, Life!sessionVars
<1> QED
  BY <1>3, <1>4, <1>5 DEF QueueFacts!Next

\* The daemon is a series of sessions that know nothing of each other, for any
\* number of peers, starts and stops: what tasks of an earlier session still
\* do, and the event a handler has in hand, never show in a later one.
THEOREM Refinement == Spec => ImplementsSessions
<1>1. Init => Life!SessionsInit
  BY KnownIs DEF Init, Life!SessionsInit, Life!Init
<1>2. /\ TypeOK /\ TypeOK' /\ AliveInv /\ ClearedInv /\ [Next]_vars
      => [Life!SessionsNext]_Life!sessionVars
  <2> SUFFICES ASSUME TypeOK, TypeOK', AliveInv, ClearedInv, [Next]_vars
               PROVE  [Life!SessionsNext]_Life!sessionVars
    OBVIOUS
  <2>1. CASE mode = "up" /\ mode' = "up"
    BY <2>1, UpIsFeedStep, FeedStepIsWork
  <2>2. CASE mode = "up" /\ mode' # "up"
    <3>1. KnownTable' = {} /\ KnownFeed' = <<>> /\ KnownList' = {}
      BY <2>2 DEF KnownTable, KnownFeed, KnownList
    <3> QED
      BY <2>2, <3>1 DEF Life!End, Life!SessionsNext
  <2>3. CASE mode # "up" /\ mode' = "up"
    <3>1. Start
      BY <2>3, UpOrStart
    <3>2. Undelivered' = <<>> /\ table' = {} /\ listed' = {}
      BY <3>1, StartIsFresh DEF QueueFacts!Init
    <3>3. /\ KnownTable' = {} /\ KnownFeed' = <<>> /\ KnownList' = {}
          /\ KnownTable = {} /\ KnownFeed = <<>> /\ KnownList = {}
      BY <2>3, <3>2 DEF KnownTable, KnownFeed, KnownList
    <3> QED
      BY <2>3, <3>3 DEF Life!Begin, Life!SessionsNext
  <2>4. CASE mode # "up" /\ mode' # "up"
    <3>1. /\ KnownTable' = KnownTable /\ KnownFeed' = KnownFeed /\ KnownList' = KnownList
          /\ (mode = "up")' = (mode = "up")
      BY <2>4 DEF KnownTable, KnownFeed, KnownList
    <3> QED
      BY <3>1 DEF Life!sessionVars
  <2> QED
    BY <2>1, <2>2, <2>3, <2>4
<1> QED
  BY <1>1, <1>2, TypeCorrect, AliveAlways, ClearedAlways, PTL
     DEF Spec, ImplementsSessions, Life!SessionsSpec

-----------------------------------------------------------------------------
(* Progress.  The provers know nothing of ENABLED: that the guard of a fair  *)
(* action enables it is a hypothesis of the theorems, spelled out per        *)
(* action.  A guard leaves out that the step changes something, because all  *)
(* of these steps move a task to another place.                              *)

\* Earlier sessions left their P2P loops behind, each of them in one of two ways.
StrayInv ==
  /\ \A n \in leaving \cup deaf : n \in Nat /\ n < sessions
  /\ leaving \cap deaf = {}

LEMMA StrayAlways == Spec => []StrayInv
<1>1. Init => StrayInv
  BY DEF Init, StrayInv
<1>2. LoopInv /\ StrayInv /\ [Next]_vars => StrayInv'
  <2> SUFFICES ASSUME LoopInv, StrayInv, [Next]_vars
               PROVE  StrayInv'
    OBVIOUS
  <2> USE DEF StrayInv, LoopInv, ownerVars, tunVars, deviceVars, strayVars, feedVars, taskVars
  <2>1. CASE Owner
    BY <2>1 DEF Owner, Start, Stop, StopFinish, Quit, DropReader, Exit
  <2>2. CASE LoopTask
    BY <2>2 DEF LoopTask, LoopBegins, LoopEnds, StrayEnds, LoopStep
  <2>3. CASE HandlerTask
    BY <2>3 DEF HandlerTask, HandlerSelects, HandlerEnds, HandlerTakes,
                HandlerLists, HandlerTriesTun, HandlerWrote
  <2>4. CASE ReaderTask
    BY <2>4 DEF ReaderTask, ReaderSelects, ReaderEnds, ReaderQueues, ReaderLocks,
                ReaderReadable, ReaderReads, ReaderFails, ReaderWakes
  <2>5. CASE HostSends \/ UNCHANGED vars
    BY <2>5 DEF HostSends, vars
  <2> QED
    BY <2>1, <2>2, <2>3, <2>4, <2>5 DEF Next
<1> QED
  BY <1>1, <1>2, LoopAlways, PTL DEF Spec

\* The life of the P2P loop of session s: it runs, it has been told to stop, it
\* has been told and left behind by a start, it is gone.
Up == mode = "up"
Inread == reader = "inread"
Runs(s) == sessions = s /\ loop = "running"
Told(s) == sessions = s /\ loop = "running" /\ "loop" \in woken
Left(s) == s \in leaving
Ended(s) == ~ LoopAlive(s)

LoopLeaves == LoopEnds /\ reader # "inread"
StrayLeaves(s) == StrayEnds(s) /\ reader # "inread"

\* That a guard enables its action.
LoopCanEnd == []("loop" \in woken /\ loop = "running" /\ reader # "inread"
                   => ENABLED <<LoopLeaves>>_vars)
StrayCanEnd(s) == [](s \in leaving /\ reader # "inread"
                       => ENABLED <<StrayLeaves(s)>>_vars)

\* While the daemon is up nothing but stop ends a loop that runs, and stop
\* reaches it; a shutdown that reached it stays with it until it ends, whatever
\* the handler, the reader and the owner do.
LEMMA LoopLife ==
  ASSUME NEW s \in 1..MaxSessions, LoopInv, StrayInv, [Next]_vars
  PROVE  /\ Up /\ Runs(s) => (Up' /\ Runs(s)') \/ Told(s)' \/ Ended(s)'
         /\ Told(s) => Told(s)' \/ Left(s)' \/ Ended(s)'
         /\ Left(s) => Left(s)' \/ Ended(s)'
<1> USE DEF Up, Runs, Told, Left, Ended, LoopAlive, LoopInv, StrayInv,
            ownerVars, tunVars, deviceVars, strayVars, feedVars, taskVars
<1>1. CASE Owner
  BY <1>1 DEF Owner, Start, Stop, Registered, Task, StopFinish, Quit, DropReader, Exit
<1>2. CASE LoopTask
  BY <1>2 DEF LoopTask, LoopBegins, LoopEnds, StrayEnds, LoopStep
<1>3. CASE HandlerTask
  BY <1>3 DEF HandlerTask, HandlerSelects, HandlerEnds, HandlerTakes,
              HandlerLists, HandlerTriesTun, HandlerWrote
<1>4. CASE ReaderTask
  BY <1>4 DEF ReaderTask, ReaderSelects, ReaderEnds, ReaderQueues, ReaderLocks,
              ReaderReadable, ReaderReads, ReaderFails, ReaderWakes
<1>5. CASE HostSends \/ UNCHANGED vars
  BY <1>5 DEF HostSends, vars
<1> QED
  BY <1>1, <1>2, <1>3, <1>4, <1>5 DEF Next

LEMMA LoopLeavesEnds ==
  ASSUME NEW s \in 1..MaxSessions, LoopInv, StrayInv
  PROVE  /\ Told(s) /\ LoopLeaves => Ended(s)'
         /\ Left(s) /\ StrayLeaves(s) => Ended(s)'
BY DEF Told, Left, Ended, LoopAlive, LoopInv, StrayInv, LoopLeaves, LoopEnds,
       StrayLeaves, StrayEnds, ownerVars, strayVars

LEMMA LoopOfSessionStops ==
  ASSUME NEW s \in 1..MaxSessions
  PROVE  /\ Spec /\ LoopEndsFairly /\ StrayEndsFairly(s)
         /\ LoopCanEnd /\ StrayCanEnd(s)
         => [](mode = "up" /\ sessions = s /\ loop = "running"
                 => \/ [](mode = "up")
                    \/ <>(~ LoopAlive(s))
                    \/ <>[](reader = "inread"))
<1>1. LoopInv /\ StrayInv /\ [Next]_vars
        => /\ Up /\ Runs(s) => (Up' /\ Runs(s)') \/ Told(s)' \/ Ended(s)'
           /\ Told(s) => Told(s)' \/ Left(s)' \/ Ended(s)'
           /\ Left(s) => Left(s)' \/ Ended(s)'
  BY LoopLife
<1>2. LoopInv /\ StrayInv
        => /\ Told(s) /\ <<LoopLeaves>>_vars => Ended(s)'
           /\ Left(s) /\ <<StrayLeaves(s)>>_vars => Ended(s)'
  BY LoopLeavesEnds
<1>3. LoopEndsFairly => SF_vars(LoopLeaves)
  BY PTL DEF LoopEndsFairly, LoopLeaves
<1>4. StrayEndsFairly(s) => SF_vars(StrayLeaves(s))
  BY PTL DEF StrayEndsFairly, StrayLeaves
<1>5. LoopCanEnd => [](Told(s) /\ ~ Inread => ENABLED <<LoopLeaves>>_vars)
  <2>1. Told(s) /\ ~ Inread => "loop" \in woken /\ loop = "running" /\ reader # "inread"
    BY DEF Told, Inread
  <2> QED
    BY <2>1, PTL DEF LoopCanEnd
<1>6. StrayCanEnd(s) => [](Left(s) /\ ~ Inread => ENABLED <<StrayLeaves(s)>>_vars)
  <2>1. Left(s) /\ ~ Inread => s \in leaving /\ reader # "inread"
    BY DEF Left, Inread
  <2> QED
    BY <2>1, PTL DEF StrayCanEnd
<1>7. /\ mode = "up" /\ sessions = s /\ loop = "running" <=> Up /\ Runs(s)
      /\ mode = "up" <=> Up
      /\ ~ LoopAlive(s) <=> Ended(s)
      /\ reader = "inread" <=> Inread
  BY DEF Up, Runs, Ended, Inread
<1> DEFINE Live == /\ [][Next]_vars /\ []LoopInv /\ []StrayInv
                   /\ SF_vars(LoopLeaves) /\ SF_vars(StrayLeaves(s))
                   /\ [](Told(s) /\ ~ Inread => ENABLED <<LoopLeaves>>_vars)
                   /\ [](Left(s) /\ ~ Inread => ENABLED <<StrayLeaves(s)>>_vars)
<1>8. Live => [](Left(s) => <>Ended(s) \/ <>[]Inread)
  BY <1>1, <1>2, PTL
<1>9. Live => [](Told(s) => <>Ended(s) \/ <>[]Inread)
  BY <1>1, <1>2, <1>8, PTL
<1>10. Live => [](Up /\ Runs(s) => []Up \/ <>Ended(s) \/ <>[]Inread)
  BY <1>1, <1>9, PTL
<1> QED
  BY <1>3, <1>4, <1>5, <1>6, <1>7, <1>10, LoopAlways, StrayAlways, PTL DEF Spec

\* A P2P loop that runs when stop is called ends, whatever the handler, the
\* reader and the owner do meanwhile, in every one of any number of sessions,
\* unless a reader stays inside read() for good.
THEOREM LoopIsStopped ==
  FairSpec /\ LoopCanEnd /\ (\A s \in 1..MaxSessions : StrayCanEnd(s)) => LoopStops
<1>1. FairSpec => Spec /\ LoopEndsFairly /\ (\A s \in 1..MaxSessions : StrayEndsFairly(s))
  BY PTL DEF FairSpec, Fairness
<1>2. ASSUME NEW s \in 1..MaxSessions
      PROVE  /\ Spec /\ LoopEndsFairly /\ (\A n \in 1..MaxSessions : StrayEndsFairly(n))
             /\ LoopCanEnd /\ (\A n \in 1..MaxSessions : StrayCanEnd(n))
             => [](mode = "up" /\ sessions = s /\ loop = "running"
                     => \/ [](mode = "up")
                        \/ <>(~ LoopAlive(s))
                        \/ <>[](reader = "inread"))
  BY <1>2, LoopOfSessionStops
<1> QED
  BY <1>1, <1>2 DEF LoopStops

-----------------------------------------------------------------------------
(* The queue of the TUN drains. *)

\* A packet in the queue has come through a link that is up; it makes the TUN
\* readable, and nothing makes it unreadable again.
ReadyInv == tunq > 0 => ready /\ link

LEMMA ReadyAlways == Spec => []ReadyInv
<1>1. Init => ReadyInv
  BY DEF Init, ReadyInv
<1>2. TypeOK /\ ReadyInv /\ [Next]_vars => ReadyInv'
  <2> SUFFICES ASSUME TypeOK, ReadyInv, [Next]_vars
               PROVE  ReadyInv'
    OBVIOUS
  <2> USE DEF ReadyInv, ownerVars, tunVars, deviceVars, strayVars, feedVars, taskVars
  <2>1. CASE Owner
    BY <2>1 DEF Owner, Start, Stop, StopFinish, Quit, DropReader, Exit
  <2>2. CASE LoopTask
    BY <2>2 DEF LoopTask, LoopBegins, LoopEnds, StrayEnds, LoopStep
  <2>3. CASE HandlerTask
    BY <2>3 DEF HandlerTask, HandlerSelects, HandlerEnds, HandlerTakes,
                HandlerLists, HandlerTriesTun, HandlerWrote
  <2>4. CASE ReaderTask
    BY <2>4, DaemonAssumption
       DEF ReaderTask, ReaderSelects, ReaderEnds, ReaderQueues, ReaderLocks,
           ReaderReadable, ReaderReads, ReaderFails, ReaderWakes, TypeOK
  <2>5. CASE HostSends \/ UNCHANGED vars
    BY <2>5 DEF HostSends, vars
  <2> QED
    BY <2>1, <2>2, <2>3, <2>4, <2>5 DEF Next
<1> QED
  BY <1>1, <1>2, TypeCorrect, PTL DEF Spec

Full == mode = "up" /\ tunq = TunQueueLen

HandlerMayGo == handler = "writing" /\ link

ReaderMayGo ==
  \/ reader = "top"
  \/ reader = "select" /\ lock # "reader"
  \/ reader = "waitlock" /\ lock = "reader"
  \/ reader = "waitread" /\ ready
  \/ reader = "inread" /\ tunq > 0
  \/ reader = "sleeping" /\ mode = "up"

\* Where the reader of a full queue is, and the order it passes through:
\* asleep after a failed read, between two reads, behind the handler in the
\* queue of the mutex, first in it, and with the mutex.
Sleeps == Full /\ reader = "sleeping"
Tops == Full /\ reader = "top"
Selects == Full /\ reader = "select"
Behind == Full /\ reader = "waitlock" /\ lock = "handler"
First == Full /\ reader = "waitlock" /\ lock = "reader"
Waits == Full /\ reader = "waitread"
Inside == Full /\ reader = "inread"

DrainInv == TypeOK /\ TunLockIsHeld /\ AliveInv /\ ReadyInv

LEMMA DrainPlaces ==
  DrainInv /\ Full => Sleeps \/ Tops \/ Selects \/ Behind \/ First \/ Waits \/ Inside
BY DEF DrainInv, TypeOK, ReaderAt, TunLockIsHeld, AliveInv, RunningMeansAlive, Full,
       Sleeps, Tops, Selects, Behind, First, Waits, Inside

\* What a step other than a failed read makes of a full queue: it is drained,
\* or stop was called, or the reader stays where it was or goes on.
LEMMA DrainStep ==
  ASSUME TunQueueLen # 0, DrainInv, [Next]_vars, ~ ReaderFails \/ UNCHANGED vars, Full'
  PROVE  /\ Sleeps => Sleeps' \/ Tops'
         /\ Tops => Tops' \/ Selects'
         /\ Selects => Selects' \/ Behind' \/ Inside'
         /\ Behind => Behind' \/ First'
         /\ First => First' \/ Inside'
         /\ Waits => Waits' \/ Inside'
         /\ Inside => Inside'
<1> USE DEF Full, Sleeps, Tops, Selects, Behind, First, Waits, Inside, DrainInv,
            ownerVars, tunVars, deviceVars, strayVars, feedVars, taskVars
<1>1. CASE Owner
  BY <1>1 DEF Owner, Start, Stop, StopFinish, Quit, DropReader, Exit
<1>2. CASE LoopTask
  BY <1>2 DEF LoopTask, LoopBegins, LoopEnds, StrayEnds, LoopStep
<1>3. CASE HandlerTask
  BY <1>3 DEF HandlerTask, HandlerSelects, HandlerEnds, HandlerTakes,
              HandlerLists, HandlerTriesTun, HandlerWrote, Released, TunLockIsHeld
<1>4. CASE ReaderTask /\ Full /\ ~ ReaderFails
  <2>1. woken = {} /\ tunq \in Nat /\ TunQueueLen \in Nat
    BY <1>4, DaemonAssumption DEF AliveInv, RunningMeansAlive, TypeOK
  <2>2. ready
    BY <1>4, <2>1 DEF ReadyInv
  <2>3. ~ ReaderReads
    BY <1>4, <2>1 DEF ReaderReads
  <2>4. CASE ReaderSelects \/ ReaderWakes \/ ReaderReadable
    BY <2>4 DEF ReaderSelects, ReaderWakes, ReaderReadable
  <2>5. CASE ReaderLocks \/ ReaderQueues
    BY <2>2, <2>5 DEF ReaderLocks, ReaderQueues
  <2>6. CASE ReaderEnds
    BY <2>1, <2>6 DEF ReaderEnds
  <2> QED
    BY <1>4, <2>3, <2>4, <2>5, <2>6 DEF ReaderTask
<1>5. CASE HostSends \/ UNCHANGED vars
  BY <1>5 DEF HostSends, vars
<1> QED
  BY <1>1, <1>2, <1>3, <1>4, <1>5 DEF Next

\* The steps that carry it on.
LEMMA DrainMoves ==
  ASSUME TunQueueLen # 0, DrainInv, [Next]_vars
  PROVE  /\ Behind /\ HandlerTask => ~ Behind'
         /\ ReaderTask /\ ~ ReaderFails =>
              /\ ~ (Sleeps /\ Sleeps') /\ ~ (Tops /\ Tops') /\ ~ (Selects /\ Selects')
              /\ ~ (First /\ First') /\ ~ (Waits /\ Waits') /\ ~ (Inside /\ Inside')
<1> USE DEF Full, Sleeps, Tops, Selects, Behind, First, Waits, Inside, DrainInv,
            ownerVars, tunVars, deviceVars, strayVars, feedVars, taskVars
<1>1. Behind /\ HandlerTask => ~ Behind'
  BY DEF HandlerTask, HandlerSelects, HandlerEnds, HandlerTakes,
         HandlerLists, HandlerTriesTun, HandlerWrote, Released, TunLockIsHeld
<1>2. ASSUME Full, ReaderTask, ~ ReaderFails
      PROVE  /\ ~ (Sleeps /\ Sleeps') /\ ~ (Tops /\ Tops') /\ ~ (Selects /\ Selects')
             /\ ~ (First /\ First') /\ ~ (Waits /\ Waits') /\ ~ (Inside /\ Inside')
  <2>1. woken = {} /\ tunq \in Nat /\ TunQueueLen \in Nat
    BY <1>2, DaemonAssumption DEF AliveInv, RunningMeansAlive, TypeOK
  <2>2. tunq - 1 # TunQueueLen
    BY <1>2, <2>1
  <2> QED
    BY <1>2, <2>1, <2>2 DEF ReaderTask, ReaderSelects, ReaderEnds, ReaderQueues, ReaderLocks,
       ReaderReadable, ReaderReads, ReaderWakes
<1> QED
  BY <1>1, <1>2

\* The queue of the TUN does not stay full while the daemon is up, unless
\* reading from it fails again and again.  The bound of the model on failures
\* plays no part here.
THEOREM QueueDrains ==
  ASSUME TunQueueLen # 0
  PROVE  /\ FairSpec
         /\ [](HandlerMayGo => ENABLED <<HandlerTask>>_vars)
         /\ [](ReaderMayGo => ENABLED <<ReaderTask>>_vars)
         => TunDrains \/ []<><<ReaderFails>>_vars
<1> DEFINE Fair == /\ [][Next]_vars /\ []DrainInv /\ [][~ ReaderFails]_vars
                   /\ WF_vars(HandlerTask) /\ WF_vars(ReaderTask)
                   /\ [](HandlerMayGo => ENABLED <<HandlerTask>>_vars)
                   /\ [](ReaderMayGo => ENABLED <<ReaderTask>>_vars)
<1>1. DrainInv /\ [Next]_vars /\ [~ ReaderFails]_vars
        => \/ ~ Full'
           \/ /\ Sleeps => Sleeps' \/ Tops'
              /\ Tops => Tops' \/ Selects'
              /\ Selects => Selects' \/ Behind' \/ Inside'
              /\ Behind => Behind' \/ First'
              /\ First => First' \/ Inside'
              /\ Waits => Waits' \/ Inside'
              /\ Inside => Inside'
  BY DrainStep
<1>2. DrainInv /\ [Next]_vars /\ <<HandlerTask>>_vars /\ Behind => ~ Behind'
  BY DrainMoves
<1>3. DrainInv /\ [Next]_vars /\ [~ ReaderFails]_vars /\ <<ReaderTask>>_vars
        => /\ ~ (Sleeps /\ Sleeps') /\ ~ (Tops /\ Tops') /\ ~ (Selects /\ Selects')
           /\ ~ (First /\ First') /\ ~ (Waits /\ Waits') /\ ~ (Inside /\ Inside')
  BY DrainMoves
<1>4. DrainInv => (Behind => HandlerMayGo)
  BY DaemonAssumption
     DEF DrainInv, TypeOK, Full, Behind, TunLockIsHeld, ReadyInv, HandlerMayGo
<1>5. DrainInv => (Sleeps \/ Tops \/ Selects \/ First \/ Waits \/ Inside => ReaderMayGo)
  BY DaemonAssumption
     DEF DrainInv, TypeOK, TunLockIsHeld, ReadyInv, ReaderMayGo, Full,
         Sleeps, Tops, Selects, First, Waits, Inside
<1>6. Fair => (Inside ~> ~ Full)
  BY <1>1, <1>3, <1>5, PTL
<1>7. Fair => (Waits ~> ~ Full) /\ (First ~> ~ Full)
  BY <1>1, <1>3, <1>5, <1>6, PTL
<1>8. Fair => (Behind ~> ~ Full)
  BY <1>1, <1>2, <1>4, <1>7, PTL
<1>9. Fair => (Selects ~> ~ Full)
  BY <1>1, <1>3, <1>5, <1>6, <1>8, PTL
<1>10. Fair => (Tops ~> ~ Full)
  BY <1>1, <1>3, <1>5, <1>9, PTL
<1>11. Fair => (Sleeps ~> ~ Full)
  BY <1>1, <1>3, <1>5, <1>10, PTL
<1>12. Fair => []<>(~ Full)
  <2>1. DrainInv /\ Full => Sleeps \/ Tops \/ Selects \/ Behind \/ First \/ Waits \/ Inside
    BY DrainPlaces
  <2> QED
    BY <2>1, <1>6, <1>7, <1>8, <1>9, <1>10, <1>11, PTL
<1>13. Spec => []DrainInv
  BY TypeCorrect, LockIsHeld, AliveAlways, ReadyAlways, PTL DEF DrainInv
<1>14. /\ TypeOK /\ ~ Full => mode # "up" \/ tunq < TunQueueLen
       /\ mode = "up" /\ tunq = TunQueueLen => Full
  BY DaemonAssumption DEF TypeOK, Full
<1>15. FairSpec => Spec /\ WF_vars(HandlerTask) /\ WF_vars(ReaderTask)
  BY PTL DEF FairSpec, Fairness
<1> QED
  BY <1>12, <1>13, <1>14, <1>15, TypeCorrect, PTL DEF Spec, TunDrains

=============================================================================
