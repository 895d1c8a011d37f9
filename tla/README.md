# A verification project for vlkxn

vlkxn is a peer-to-peer VPN: a libp2p swarm finds peers and carries IP packets
between a TUN device, `vlkxn0`, and the same device on the other nodes. This
directory models its concurrent core in TLA+, checks it with TLC and proves its
safety properties, the refinements and part of the liveness with TLAPS. Paths below are relative to `crates/`.

## The system

| part | state | operations | interacts with |
|---|---|---|---|
| `P2pNode` (`vlkxn-core/src/p2p.rs`) | `peers`, `pending_requests`; the swarm's connections, mDNS records, requests | one handler per swarm event, `add_peer`, `remove_peer`, `broadcast_data` | sends `NetworkEvent`s to the daemon, receives packets from the TUN reader |
| `Daemon` (`vlkxn-controller/src/daemon.rs`) | peer list, `shutdown`, three tasks | `start`, `stop`, `status`, `peer_list` | runs `P2pNode`, owns the TUN, is owned by a CLI or GUI process |
| TUN (`vlkxn-core/src/tun.rs`) | Linux: a descriptor in an `AsyncFd`; Windows: session, receiving thread, one-packet buffer, `Notify` | `create`, `set_ip`, `read`, `write` | shared by two tasks of the daemon behind a mutex |
| codec (`p2p.rs:31`) | none | framing of requests and responses | the swarm |
| `ArpProxy` (`vlkxn-core/src/arp.rs`) | IP to MAC map | `register_ip`, `remove_ip`, `handle_arp_request`, `is_virtual_ip` | nobody uses it |
| configuration, keys (`config.rs`, `crypto.rs`) | `config.toml`, `keys.json`, in the directory of the user | load or create, save; virtual IP of a key | every process of the same user |
| CLI (`vlkxn-cli/src/main.rs`) | none of its own | `up`, `down`, `status`, `list`, `install` | builds a `Daemon` per process |
| GUI (`vlkxn-gui/src/main.rs`) | `AppState`, permission flags | `toggle_vpn`, `run_setup` | builds a runtime and a `Daemon` per click |
| scripts, packaging, CI | none | sequential | - |

What makes it hard:

* several tasks on several threads share the TUN (behind a mutex that is held
  across an `await` and a blocking `read`) and the peer list, and learn of a
  shutdown through `notify_waiters`, which reaches only tasks inside their
  `select!`;
* the peer list is a second copy of the P2P table, kept up to date by events in
  an unbounded channel;
* one row stands for a peer that is known through several connections, mDNS
  addresses and Kademlia at once;
* on Windows a thread and a task hand packets over through one buffer and one
  permit;
* files are created, truncated and rewritten by several processes, any of
  which may be killed or fail, and each of which carries its own copy of the
  settings; the button of the GUI goes on when it could not save, and replaces
  room and nickname by what its window shows, which is never what is stored;
* a packet goes to every peer, as a request on a stream that may be cut
  anywhere and may fail after it has delivered, and the addresses that decide
  who takes it are hashes of 16 bits.

`PROJECT.json` lists each hazard with its line and the properties about it.

### What makes each part correct

* P2P table: a row is there for a reason that still holds; arrivals and
  departures alternate; the requests remembered are those in flight.
* Peer list: once the events are handled it shows the peers of the table; a
  peer that arrives is shown by the row that announced it, once; and no row
  is carried from one session into the next.
* Daemon: a running daemon has its three tasks; a shutdown of one session never
  reaches the next; nobody waits for the TUN for ever.
* TUN on Windows: no lost wakeup, no packet twice, none out of order, and none
  lost but to a full ring or to its successor.
* Files: the identity of a user never changes once it is settled, every process
  of the user has that identity, and no file is damaged without a crash, an
  error or a collision; a setting is changed by a process that was told to, by
  one that read the file before another one saved, or by the button if it is one
  the window shows.
* GUI: the window asks for the permission exactly while it does not have it.
* Network: a packet is written whole, on other nodes than its sender's, once at
  most on each, and taken by one host unless it is for all or hashes agree.

## Modules

| module | models | role |
|---|---|---|
| `PeerFeed` | a table, a FIFO channel, a list that follows the table | abstract specification of what the P2P loop and the handler promise |
| `P2pNode` | `p2p.rs`: one action per swarm event, the table, the requests | component |
| `PeerList` | `P2pNode` composed with the event handler of `daemon.rs` | composition; implements `PeerFeed` |
| `MCPeerList` | two peers with passwords and addresses | model values for TLC |
| `Sessions` | starts and stops, and a `PeerFeed` in between | abstract specification of what the daemon promises over its life |
| `Daemon` | `daemon.rs`, the Linux `read` and `write` of `tun.rs`, Ctrl+C and the return from `main` | composition; implements `Sessions` |
| `Tun` | a queue that hands the packets of the host on, and loses one only when it is full or to the one behind it | abstract specification of a TUN device |
| `WinTun` | the Windows half of `tun.rs` | component; implements `Tun` |
| `Host` | `config.rs`, `crypto.rs`, the commands of the CLI and the button of the GUI as processes of one user | composition over files and interface |
| `Desktop` | settings (`config.rs`, cli `main.rs`) and the windows of the GUI | composition over `Host`, whose steps it refines |
| `MCDesktop` | symmetry | model values for TLC |
| `Addresses` | virtual IP, subnet, MAC address, length prefix | pure operators |
| `Lan` | packets received whole, elsewhere, at most once | abstract specification of the network |
| `VpnNetwork` | a packet from TUN to TUN: `daemon.rs`, `p2p.rs`, the codec | composition of nodes; implements `Lan` |
| `MCVpnNetwork` | symmetry | model values for TLC |
| `PeerFeedProofs`, `PeerListProofs`, `DaemonProofs`, `WinTunProofs`, `HostProofs`, `DesktopProofs`, `NetworkProofs` | | theorems |

### PeerFeed

`table` is the key set of `P2pNode.peers`, `feed` the channel
`event_tx`/`event_rx`, `listed` the ids in `Daemon.peers`. `Connect` and
`Disconnect` are `add_peer` and `remove_peer` for a peer that is new or known,
`Receive` the hand-over of a data request, `Take` one turn of the handler.

### P2pNode and PeerList

`P2pNode` has one action per swarm event that changes state, named after the
event, and `add_peer`, `remove_peer` and `broadcast_data` as in the source. The
swarm is polled by the task that runs the handlers, so a change of the swarm's
state (`conns`, `discovered`, `inflight`, ...) and its handling are one step.
The built-in bootstrap nodes reach the table through `RoutingUpdated` when the
swarm is first polled (`seeds`). A row carries the virtual IP of the local
node because `add_peer` puts it there (p2p.rs:392). `PeerList` adds the list of
the daemon as a bag of rows, in which a second push of a row shows, and the
handler that applies one event at a time.
`Feed` is its refinement mapping: the keys of the table, the events without
their rows, the ids of the list.

### Daemon

`mode` is the owner: down, up, in the sleep of `stop`, dropping the runtime
after `main` has returned, gone. `loop`, `handler` and `reader` say where tasks
1 to 3 are; a step is what a task does between two points where another thread
may act. `woken` holds the tasks whose `Notified` existed when
`notify_waiters` was called: a task at `"top"`, handling an event or asleep
after a failed read is not among them, and misses the shutdown. `lock` is the
tokio mutex around the TUN with its hand-over to a queued reader; `ready` is
the readiness of the `AsyncFd`, which nothing clears, so that every read after
the first packet blocks in the kernel. `stop` does not wait for its tasks, and
`start` only needs the old device to be gone. A P2P loop that has not ended by
then goes on beside the new one: `leaving` are the sessions whose loop has the
shutdown but was not polled since, `deaf` those whose loop missed it. Such a
loop sends to a channel without a receiver and shares nothing with the new one
but the process.

`link` is whether `ip link set up` worked, which `set_ip` does not ask
(tun.rs:48): on an interface whose link is down the host sends nothing, and
the handler never comes back from `writable()` in its first write.

A `start` that fails leaves no state behind and is left out. On Linux a TUN
that is not persistent disappears when the last holder of its descriptor is
dropped, so `DeviceExists` is derived from the tasks that share it.

`Life` is the mapping to `Sessions`. While `mode` is `"up"` the abstract table
is that of the P2P loop, the abstract list that of the daemon, and the abstract
channel the real one with the event in the handler's hands put back at its
head; at any other time all three are empty, whatever the tasks that outlive
the stop still do to the real ones.

### WinTun

`thread` is the blocking thread of `TunFd::create`, `slot` is `read_buf`,
`permit` and the reader's states `"parked"` and `"notified"` are the `Notify`,
`holders` the `Arc`s of the session. Packets are numbered as the host sends
them; `delivered` is what `read` returned. A read of 0 bytes is not delivered:
task 3 skips what is shorter than 20 bytes (daemon.rs:125). The refinement
mapping to `Tun` takes the packet in the buffer, the one in the thread's hands
and those in the ring for one queue (`Waiting`): overwriting the buffer is then
the loss of its oldest packet to the one behind it, and a full ring is the only
place where another one is lost. `StoreKeepsOld`, a thread that drops the newer
packet when the buffer is taken, would break exactly this.

### Host

Both files are in the directory of the user (`ProjectDirs`, config.rs:75), so
`Host` has the processes of one user. What other users run has files of its
own: `sudo vlkxn up`, which the documentation asks for, runs with root's
identity and settings and the GUI of the same person with the person's. Of
such processes only the interface shows, as a start that fails.

Each process goes through `Daemon::new` (`Config::load`, then
`load_or_generate`) and, for `up` and the button, through `Config::save` and
`Daemon::start`. `at` is its next operation: the stage and, within it,
`exists()`, the read, or the truncation and the write that `std::fs::write`
consists of. `files` holds what a reader of `config.toml` and `keys.json` would
find: nothing, a whole file, an empty one, or a mixture of two writes. A parser
error ends the process, and so does an operation that fails (`Fails`), except
the save of the button, whose result nobody looks at (gui main.rs:128); nothing
repairs a damaged file. `interface` is the process that has `vlkxn0`; the
kernel refuses it to a second one. `down`, `status` and `list` build a `Daemon`
of their own and reach no other process: for the files they are one command,
`"inspect"`. `late`, `overlapped`, `torn` (files whose last writer died or
failed between truncating and writing) and `crashes` only record what has
happened and are read by properties alone (`crashes` also by its bound). Keys
are settled when they are whole and no process is on its way to write others.

A crash is the death of a process: what it wrote before is in the file. The
files are not synced, so after a loss of power a write that was complete may be
missing as well; that is outside the model.

### Desktop

Every step of a process is the step of `Host` of the same operation, together
with what it does to settings and windows. `stored` are the settings in
`config.toml` that differ from the default, `mine` those in `Daemon.config` of
each process; a process reads `stored`, replaces some of it, and saves all of
it. `up` replaces what its options say (`asked`). The button replaces room and
nickname, always and by what the window shows, which starts at `"public"` and a
random name and is never filled from the file (gui main.rs:27, 126): a click
undoes what is stored there, and `OnlyStaleSavesUndo` names it as an exception
rather than counting it as something the user asked for. `behind` records who
has read the file before another process's save, `unsaved` who went on without
having saved; only properties read them.

A window is the process that opened it. A click runs `Daemon::new`, the save and
`Daemon::start` on the window's thread, which takes no input meanwhile; the
runtime and the daemon are dropped when the click is over, so `Leave` may
follow `Start` at once. `capable` is whether the process may create the
interface, settled when it is executed; `granted` whether the executable has
the file capability, which a later window will get. `toggle_vpn`'s branches for `Connecting`
and `Connected` cannot be reached: the button is disabled in the first state and
nothing leads to the second.

### Addresses and VpnNetwork

`VirtualIp` is `virtual_ip_from_public_key` from the 16 bits of the hash on.
`MaskOctet` is the netmask of `set_ip`, `SameSubnet` and `BroadcastIp` what a
kernel makes of it. `ToBeBytes` and `FromBeBytes` are the length prefix of the
codec.

`VpnNetwork` follows a packet: `TunReader` (task 3 of the daemon) sends it off,
`broadcast_data` makes one request for each peer of the table, `Arrives` lets the
frame through up to a cut within the length, before, within or after the
packet, `DataRequest` delivers it when both `read_exact` are satisfied and
puts the answer on its way, and `HandlerWrites` writes it or drops it. A request
that fails or times out (`OutboundFailure`) is forgotten by the sender, and what
it has written may still arrive. `packets` numbers what was sent; a packet is its
sender, its length and its destination. Open here, and settled elsewhere: which
peers are in the table (any set; `P2pNode`), and when the TUN is locked (at any
time; `Daemon`). Both are wider than the code, which is sound for the safety
properties stated. The `u16` that counts the bytes of a write on Windows
(tun.rs:165) holds every length the buffer of the reader lets in. `Net` maps `packets` and `written` to `Lan`.

## What the runs check

| run | instance | shows |
|---|---|---|
| `peer_feed` | 2 peers, channel of 4 | the list converges to the table, events alternate, and a fair handler brings the list up to date |
| `peer_list_table` | 2 peers, a direct and a relayed connection each, 2 mDNS addresses, 1 bootstrap node, channel of 2 | every row is justified, an arrival is shown by its own row, the list shows the peers of the table when caught up, and the composition implements `PeerFeed` |
| `peer_list_single` | one connection per peer, no mDNS, 3 request ids | a connected peer is known, `pending_requests` tracks the swarm's requests, a peer with another password loses its connection and its row |
| `daemon` | 1 peer, 2 sessions, channel of 2, TUN queue of 1, 1 failing read | the mutex, the tasks and the list across two sessions, that the whole implements `Sessions`, and the liveness of handler, reader and P2P loop, on a link that came up or not |
| `win_tun` | ring of 2, 5 packets | the handshake of thread and reader, and that together they are a `Tun` |
| `desktop` | 2 processes of one user, of any commands or windows, again and again, 2 key pairs, the setting `"room"`, failing files, 1 crash | settled keys stay and pass to every later process, and keys that were lost stay lost; a damaged file and a split identity have no cause but a last writer that died or failed, or two simultaneous writers; the permission dialog is right; a room is undone by a stale save or by the button only; a process runs with what is stored, unless another one saved since or its click could not save |
| `vpn_network` | 3 nodes with hashes from 4 values, lengths 19, 20 and 65535, 1 packet | a packet is delivered as `Lan` promises, and taken by the host it is for |

Bounds. Two peers are the least that can be confused with one another; two
connections of different type and two addresses are the least in which one
source of a row ends while another goes on. A channel of 2 has an event overtaken by another of
its peer; the abstract run uses 4. Two sessions are the least in which a task
of one meets the next. A ring of 2 with five packets refills the buffer while a
notification is under way, with a stored permit and without.
Two processes are enough for every race on a file, and each may end and begin
again without limit; a crash takes one of them in the middle of a write while
a failing write, of which there may be any number, takes the other. Two
pairs of keys are as many as two processes can write at once. The one setting is
the room, which `up` sets on request and the button always, so that both kinds of
process change what is stored. A second setting that the button leaves alone
takes TLC beyond the time a run may take; that no process undoes one of those
but by a stale save is `OnlyStaleUndo`, proved for any set of settings.
Three nodes are a sender, a receiver and one that overhears.
The hashes are 1 and 257, whose low bytes agree, and 0 and 65535, whose
addresses are the first and the last of the network, the last one the broadcast
address; the lengths are the two around the
check of 20 bytes and the longest the buffer holds. Packets share no state but
sets of requests and events that carry their number, so one packet shows what
there is to see; two packets of three nodes take TLC far beyond the time a run
may take, and the theorem covers any number.
`MaxConns`, `MaxEvents`, `MaxPackets`, `MaxFeed`, `MaxFailures`, `MaxSessions`
and `MaxCrashes` bound the model and not the code; each appears in one guard.
`daemon`, `win_tun` and `vpn_network` allow deadlock: the process ends, or the
hosts stop sending. `desktop` does not: a process can always begin, be it to
fail.

The refinement run has no second password and no ping in the mapping:
`WrongPasswordLeaves` is a matter of `peer_list_single`. `ConnectedIsKnown` is
checked there too, because it holds only while a peer has one connection and no
mDNS record; `online_is_listed` shows what happens beyond.

### Fairness

Tokio polls a task that can run again and again, so the handler and the reader
have weak fairness on the disjunction of their steps; so have the threads of
`WinTun`. The owner need not start, stop or quit, the host need not send, the
network need not do anything.

The P2P loop is not polled that surely. The reader sends it each packet
(daemon.rs:127), which wakes it in the slot of the reader's own worker thread
that no other thread steals from; the reader's next `read()` then blocks that
thread, with the loop behind it, until the host sends another packet. So the
end of a loop, of this session or one left over, is only fair with respect to
moments in which no reader is inside `read()`, and strongly so, since a reader
that comes out again and again uses up its cooperative budget and yields.
`LoopStops` has the exception that follows: a reader that stays inside `read()`
for good. The runtime's drop of the reader is strongly fair for the same reason.

All of this takes at least two worker threads, the default on any machine with
two processors: with one, a blocking `read()` stops every other task.

In `PeerList` the swarm carries out a close it was asked for, strongly because
the bound of the channel, which the code does not have, disables it now and
then.

### Disagreements with the documentation

Each of these runs checks one statement of the documentation, and TLC finds it
violated. `PROJECT.json` quotes the statement.

| run | statement | what the code does |
|---|---|---|
| `online_is_listed` | `list` shows online peers | one of two connections closes, and the peer leaves the list |
| `rows_are_current` | the handler keeps the list | ping and connection type change in the P2P loop's row only |
| `inbound_is_written` | task 2 carries packets to the TUN | `try_lock` fails while the reader waits for a packet, and the packet is dropped |
| `interface_disappears` | the interface goes away after Ctrl+C | a reader in a blocking `read()` keeps process and device until a packet comes |
| `thread_ends_after_stop` | Ctrl+C stops the program | on Windows the receiving thread holds the session it waits for |

Also met, without a run: a peer is listed as soon as mDNS or Kademlia mentions
it, whether or not it can be reached; `down` prints that the interface was removed
(cli main.rs:183) and `status` that the VPN is not running, whatever another
process does; every row of the list shows the address of the local node
(p2p.rs:392), where README.md:21 promises each node an address of its own; that
address is 16 bits of a hash, so it is unique only as far as `UnicastIsPrivate`
says; the room is kept (`_room`) and never compared, so it is the password alone
that separates networks; the button of the GUI starts a daemon
whose runtime is dropped before the click returns, and leaves the window in
`Connecting`, where the button is disabled; it replaces the stored room and nickname
by what the window shows, and starts even if it could not save; `sudo vlkxn up`
(cli main.rs:124) and the GUI of the same person have different identities; two first runs at once may leave one of them with an identity
that is not the stored one, and a crash in the middle of a write leaves a file
that every later start refuses. The last two are the exceptions that
`OneIdentity` and `DamageIsExplained` name, and TLC reaches both.

## What is proved

For every set of peers, every bound and every constant that satisfies the
assumptions stated with them:

* `PeerFeedProofs`: types, `FeedConverges`, `EventsAlternate`. The inductive
  invariant speaks of one peer at a time: the last event about it says whether
  it is in the table, neighbours differ, and the first says whether it is
  listed. Neither property is inductive alone: to know that taking the oldest
  event changes the list, one needs the alternation, and to know that sending
  an event keeps it, one needs what the last one said.
* `PeerListProofs`: types; `RowsAreJustified`; `PendingIsInFlight`;
  `ArrivalIsShown`, from `NextEventMatters`; `ConnectedIsKnown`, for `MaxConns = 1` and no mDNS
  addresses, under which alone it holds: a close then leaves no connection
  behind; `Refinement`, by a step simulation action by action; and, not proved
  again but carried over from `PeerFeed` by the refinement,
  `ListIsTableWhenCaughtUp` and `NextEventMatters` (the search of daemon.rs:87
  for a row of the peer never finds one). Two theorems say how far the
  documentation is right where the runs refute it: `OnlineIsListed` holds with one
  connection to each peer and no mDNS, `RowsAreCurrent` without pings and mDNS.
  The second needs `RowInv`: the last arrival on its way carries the row of the
  table, and so does a row of the list with nothing about its peer on its way.
* `DaemonProofs`: types; `TunLockIsHeld`; `RunningMeansAlive`, which needs that
  a running session has no shutdown on its way to its tasks (`AliveInv`); and
  `ListTracksTable`. The last needs `ClearedInv`: after `stop` has
  cleared the list, only a handler that missed the shutdown can write to it, and a
  handler that is gone, or about to go, has left the list empty. `start` needs
  the old device gone, hence the old handler off, hence the list empty. Inside
  a session the proof reuses the invariant of `PeerFeed` for the channel with the
  event in the handler's hands put back at its head. `Refinement` to `Sessions`
  follows: a step of loop or handler inside a session is one of the
  feed, `stop` ends it, `start` finds nothing left, and every other step is
  a stutter.
* `WinTunProofs`: types; `NoLostWakeup`, which is inductive; `InOrderOnce`,
  from the order of the packets along the whole way (delivered, in the buffer,
  with the thread, in the ring); `Refinement`: a read that finds a packet takes the head of the
  abstract queue, overwriting the buffer loses it to the packet behind, and what
  the thread does besides is a stutter; and `OnlyAdapterEndsThread`, why the run `thread_ends_after_stop`
  fails with any ring: no stop of the daemon ends the thread.
* `HostProofs`: types; `IdentityStays` and `LateHasIdentity`, for which no
  process must be on its way to write the keys; `DamageIsExplained` through
  `FilesInv` (a file that was never written by two at a time has one writer at
  most, which found it empty, and is empty without a writer only if the last one
  died or failed); `OneIdentity` through `KeysInv`, which
  rests on `FilesInv`: nobody is about to truncate keys that exist, and who has
  an identity has the stored one; and `LostKeysStayLost`, from the same argument
  as `IdentityStays`.
* `DesktopProofs`: every behaviour of `Desktop` is one of `Host`
  (`DesktopIsHost`), which carries `IdentityStays`, `LostKeysStayLost`,
  `DamageIsExplained`, `LateHasIdentity` and `OneIdentity` over; types;
  `PermissionIsExplained`; and `RunsWithStored` and `OnlyStaleSavesUndo`, from
  `SettingsInv`: a process that is not behind knows the stored settings up to
  what it replaces, and exactly once it has saved. That
  needs the file: while none exists the stored settings are the default.
* `NetworkProofs`: two suffixes give two addresses, all of them in the network
  and in each other's subnet (`VirtualIpInjective`, `VirtualIpInNetwork`); the
  MAC address of the ARP proxy identifies the address; types;
  `UnicastIsPrivate`; and `Refinement`, for any number of nodes, packets and
  peers. It needs `DeliveryInv`: a queued packet was neither requested nor delivered
  yet, there is one request for each packet and node, and an event or a written
  packet is one that was answered; with it a second write of a packet has
  nowhere to come from.

Four liveness properties have theorems too: `LoopStops`, `TunDrains`,
`StoredIsReadOrReplaced` and `WrongPasswordLeaves`. The prover knows nothing of
`ENABLED`, so each of them has as a hypothesis that the guard of a fair action
enables it, spelled out for each action (`ThreadCan`, `ReaderMayGo`,
`CanClose`, ...); these are read off the actions, whose steps always move a
task or take something away. Everything else is proved: which places a packet,
a connection or a task passes through, that no step of another actor throws it
back, and that the fair step carries it on.

* `LoopStops`: a shutdown that has reached the loop stays with it, and goes with
  it into `leaving` when the next session starts first; no loop of an ended
  session is `deaf` if it was running when stop was called.
* `TunDrains`: the reader of a full queue passes from sleep, select, mutex and
  readiness to `read()` and is never thrown back but by a failed read. The
  theorem says that the queue drains or reads fail again and again, and so
  does not lean on `MaxFailures`; it needs `TunQueueLen # 0`.
* `StoredIsReadOrReplaced`: nine places from the thread's hand to the reader,
  with `NoLostWakeup` to show that there is no tenth, and `HandInv` (no permit
  is left while the reader is parked). A reader may come before the thread at the
  lock, but only once.
* `WrongPasswordLeaves`: a close that was asked for stays asked for, and the
  channel has room again and again (`ChannelBounded`, `MaxEvents # 0`); the step that carries it
  out removes the row.

The proofs assume only the named `ASSUME`s of the modules, which every
run evaluates, and the hypotheses just named.

Only model-checked: `StablePeerIsListed`, `GonePeerIsUnlisted` and
`StablePeerIsShown`. That the queue shrinks up to the last event about a peer
is an induction over its length for a temporal formula, which the provers
at hand cannot do; the step of that induction, that handling an event
brings the next one to the head and changes the list, is in `NextEventMatters`
and `EventsAlwaysMatter`. Neither fairness of the model nor `ENABLED` is
proved of the code.

## What is not modelled

* libp2p, tokio, wintun and the kernel beyond what the code relies on; each
  such definition is marked external in the map. In particular which task runs
  on which worker thread, beyond what the fairness above says of it.
* The contents of packets, the encryption, nicknames, formatting and logging.
* Of what `set_ip` may fail at, only the link (tun.rs:48). A device without an
  address or a route counts as created too; nothing in the code depends on it.
* A loss of power, after which completed writes may be missing; a write that an
  error cuts short over the content of another process.
* Processes of other users beyond the interface they may hold.
* The frame `ArpProxy` builds and its map: nothing calls them.
* `install` of the CLI, the installers, packaging, the service unit and CI:
  sequential scripts, without state of the running system. A unit that restarts the
  service is a process of `Host` that begins again.
* Memory: the channels are unbounded in the code, and bounded by guards here.

## What remains

* The Linux `read` as an implementation of `Tun`: `Daemon` counts packets and
  does not tell them apart, so it needs a queue with names.
* `VpnNetwork` with the tables of `P2pNode` and the lock of `Daemon` in the place
  of its open choices, for liveness: what a ping needs to be answered.
* The three liveness properties that need an induction over the channel.
