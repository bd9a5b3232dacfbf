# sys-GRID0: TLA+ models, checks and proofs

sys-GRID0 is a Nintendo Switch system module. It joins the console to a ZeroTier
network, runs a small IPv4 stack on it (the *VNet*), and sits as a man in the
middle on the console's socket service (`bsd:u`) and network service (`nifm`),
so that games' local-play traffic goes over that network. This directory holds
TLA+ models of its core, TLC runs that check them on small instances, and TLAPS
proofs for all sizes. Line numbers are those of the commit the models were
written from; `PROJECT.json` maps each definition to its lines.

## 1. Inventory

| Component | State | Operations | Interacts with | What makes it correct |
|---|---|---|---|---|
| VNet: sockets and packet pool (`net/vnet.cpp`) | 8 sockets, 32 packets linked into a free list and one queue per socket, the next automatic port | reset, configure, onUdp, udpOpen/Bind/SendTo/RecvFrom/Close | called by the shim and by ZeroTier's frame callback, under `Port::m_vnetLock` | no packet lost or shared, FIFO per socket, fresh automatic ports |
| VNet: IPv4, ARP, fragments (`net/vnet.cpp`) | ARP table, reassembly slots, `m_tick` | learnMac, lookupMac, onArp, onIpv4, sendIpv4 | frames in and out | only whole, unmixed datagrams go up; the table is the hosts heard last |
| Network switch and membership (`zt_port.cpp`) | `m_nwid`, membership and groups in ZeroTier, VNet address, `m_needSubscribe` | pollNetworkSelection, switchNetwork, cbNetworkConfig, subscribeBroadcast | overlay (files), ZeroTier (callbacks), VNet | one network at a time, the selected one in the end |
| Outbound frame ring (`zt_port.cpp`) | 32 slots, two indices, `g_frameLock` | cbEmit, drainOutbound, emptying | bsd:u thread fills, node thread empties | bounded FIFO; no frame of one LAN on another |
| bsd:u socket mirrors (`mitm/bsd_shim.cpp`) | `g_lan_sockets`, beside the VNet's sockets | Socket, Bind, SetSockOpt, SendTo, Close, ShutdownAllSockets, EnsureLanMirror, CleanupAbandonedServices | games, real bsd, VNet, kernel's process list | the two tables agree; nothing leaks when a game exits |
| Wire socket and recovery (`zt_port.cpp`) | `m_wireFd`, failure streak, hang-up, recovery flags | openWireSocket, cbWireSend, maintainWireSocket, RunLoop's poll | ZeroTier, NAT mapper, sleep | a dead socket is replaced; readiness is not claimed without one |
| NAT mapper (`nat_mapper.cpp`) | request with generation, worker state, published endpoint with lease | ConfigureNatMapper, GetNatEndpoint, QuiesceNatMapper, worker loop | node thread, router, nifm | only a current mapping is announced; quiet when quiesced |
| Sleep and wake (`main.cpp`, `zt_port.cpp`) | two events, a flag | RequestQuiesce, WaitQuiesced, SignalResume, HandleSleep, PscThreadMain | psc, node thread, worker | acknowledged means quiet; no wake-up lost |
| bsd:u session lifetime (`mitm/bsd_shim.cpp`, `net/lifetime.hpp`) | parked services, session counters, proxied transfer memory | ShouldMitm, RegisterClient, RegisterClientShared, destructor, ShutdownAllSockets, clean-up | games, real bsd, kernel's process list, libstratosphere | the transfer memory is lent once; live games keep theirs; exited ones give it back |
| bsd:u data path (`mitm/bsd_shim.cpp`) | the connected peer in `g_lan_sockets`; the rest is the VNet's and real bsd's | SendTo, Send, Write, SendMMsg, Recv, Read, RecvFrom, RecvMMsg, Select, Poll, Connect, GetPeerName, GetSockName | games, real bsd, VNet | answers agree with what was sent where; no datagram missed or invented; physical errors stay off the overlay |
| nifm shim (`mitm/nifm_shim.cpp`) | per request: barrier, option | CreateRequest, Submit, Cancel, SetConnectionConfirmationOption, GetRequestState, GetResult, ... | games, real nifm, `LanTransportReady` | Available is said only when it may be, and a held reply comes |
| Configuration (`zt_port.cpp`, `main.cpp`) | `config.ini`, `networks.ini` | MountState, INI readers, ResolveConfiguredNetworkId, WaitForConfiguredNetworkId | overlay, network switch | the node joins what the user asked for, whatever state the files are in |
| Overlay (`overlay/source/main.cpp`) | menus | enter an id, pick a saved network, service switches | rewrites the same files | its writes are found by the node |
| Start-up, arenas, logging, status files, observations, build shims | - | - | - | not modelled (section 7) |

**Threads.** The *node thread* runs `Port::RunLoop` and every ZeroTier callback.
The *bsd:u server thread* runs one handler at a time. The *NAT worker* talks to
the router. The *psc thread* handles power notifications. The *overlay* is
another process that rewrites files. The *nifm server thread* runs one handler at
a time and may hold one for ten seconds.

**What is hard here**: two tables with two locks that are never held together
(mirrors); a switch of network in several fallible steps under live traffic;
processes that exit in the middle of a call; intrusive lists shared by all
sockets; byte counts instead of maps in reassembly; a three-thread handshake
with timeouts (sleep); one game socket that stands for a real and a virtual one,
with no way to wait for both at once (Select, Poll); files that two programs
rewrite in place, and a power switch. `PROJECT.json` lists each hazard at its line with the
properties aimed at it.

## 2. Modules

| Module | Models | Lines of thought |
|---|---|---|
| `VNetSockets` | sockets, pool, ports | the code's own linked lists; one step per call, one per table entry in onUdp's loop |
| `DatagramQueues` | abstract: what the sockets promise | a sequence per socket and a common capacity |
| `VNetSocketsProofs` | theorems about `VNetSockets` | |
| `VNetIp` | ARP table, fragmentation, reassembly | buffers as functions from 8-byte blocks to the datagram whose bytes are there |
| `VNetIpProofs` | theorems about `VNetIp` | |
| `RecentHosts` | abstract: what the ARP table promises | a bounded set of hosts, each with when it was last heard |
| `LanSwitch` | network switch, membership, groups, frame ring | `pc` is where RunLoop is; game and overlay interleave |
| `BoundedChannel` | abstract: what the frame ring promises | a bounded FIFO that may be emptied at a switch |
| `LanSwitchProofs` | theorems about `LanSwitch` | |
| `LanMirror` | shim table and VNet sockets, clean-up | every locked section is a step; `call` is the server thread, `sweep` the node thread |
| `LanMirrorProofs` | theorems about `LanMirror` | |
| `BsdLifetime` | forward services, session counters, the proxied transfer memory | one step per handler, two for RegisterClient (real bsd answers in between), one per locked section of the clean-up |
| `BsdLifetimeProofs` | theorems about `BsdLifetime` | |
| `Uplink` | wire and mapped socket, NAT worker, sleep handshake | node thread, worker and psc thread as three program counters |
| `UplinkProofs` | theorems about `Uplink` | |
| `LanData` | the data path: sends, receives, Connect, Select, Poll | `pc` is where the server thread is in the call; every use of the VNet and every wait in real bsd is a step, and `sent` is what a call has put on which network |
| `LanDataProofs` | theorems about `LanData` | |
| `Settings` | the two files, the overlay's writes, start-up and watcher | a file is a sequence of lines; reading is a step, writing several |
| `NifmRequest` | the request of a game and the hold of its first Available | two steps per look at the transport |
| `Console` | composes `Settings` and `NifmRequest` | joining a network takes the transport down; a power failure restarts both |
| `ConsoleProofs` | theorems about `Console` and its two parts | |
| `MC*` | instances for TLC | |

Correspondence to the code: variables carry the name of the field they stand
for; actions carry the name of the function, or of the step of it, that they
model. `LanSwitch` and `Uplink` both model `RunLoop`, each with the part of the
loop that concerns it; what one sees of the other is a free choice
(`LanSwitch!paused` for the uplink's state, `Uplink!Unreachable` for ZeroTier's
callbacks and the switch). `LanMirror` and `BsdLifetime` both model the clean-up,
one for sockets, the other for services. `LanMirror` and `LanData` both have
`g_lan_sockets`: the first its life (open, bind, close, exit, clean-up), the
second its use, with a mirror opened in one step. `LanSwitch` is handed the
requested network and has the failures of the switch; `Settings` is where that
request comes from, and there a join succeeds. `LanMirror` knows the VNet's sockets only as used or
free with a port; `VNetSockets` has their queues.

External, modelled from how the code uses it: ZeroTier (membership, groups, the
moments it calls back), real bsd, Nintendo's network request, the overlay
library's INI writer (it reads the file, cuts it and writes it as a whole), the kernel's process list, the router, psc,
the network itself. os::Event is modelled as libstratosphere implements it: a
thread waiting when the event is signalled is released even if the event is
cleared before it runs.

## 3. Runs

Small instances, all completed. The number of states is that of the passing run.

| Run | Instance | Checks |
|---|---|---|
| `sockets` | 2 sockets, 2 packets, automatic ports 4..6 (439 000 states) | `TypeOK`; `PoolPartitioned`: free list and queues partition the pool; `SocketsAreQueues`: refinement of `DatagramQueues`; `AutomaticPortIsFresh` |
| `reassembly` | one of two kinds of traffic: 1 host, up to 3 datagrams in at most 7 frames, 2 slots of 24 bytes; or 3 hosts, 2 hardware addresses, 2 ARP entries; 1 reset (171 000) | `TypeOK`; `HandedIsSent`: nothing mixed, cut or early is handed up; `TwoAtOnce`: two interleaved datagrams both arrive; `CacheIsRecent`: refinement of `RecentHosts` |
| `switch` | 2 networks, ring of 3 slots, 2 selections; either everything may fail and there are 3 frames, or only joins of a new network (309 000) | `TypeOK`; `OneLan`; `OnlyLateFramesCross`; `RingIsChannel`: refinement of `BoundedChannel`; `BroadcastHeard`; `SelectionApplied`; `AddressGetsGroups` |
| `stray_frames` | | violation of `FramesStayOnTheirLan` (section 6) |
| `mirrors` | 2 processes with 3 sockets between them, 2 table entries, 2 VNet sockets, 2 ports, 1 reset (582 000) | `TypeOK`; `NoOrphan`; `MirrorsAgree`; `DeadHoldNoSocket` |
| `stale_mirrors`, `late_entry` | | violations of `MirrorsDistinct`, `DeadAreForgotten` (section 6) |
| `uplink` | sleep handling with port mapping or without, 2 failures recycle (825 000) | `TypeOK`; `ConfirmedMeansQuiet`; `RouterLeftAlone`; `AnnouncedIsOurs`; `ReadyMeansSocket`; `WakesUp`; `Recovers` |
| `lifetime` | 2 games that need the proxy memory, 2 sessions (147 000) | `TypeOK`; `LentOnce`; `LiveKeepTheirs`; `UnregisteredKept`; `ExitReleases` |
| `data` | 2 sockets of a game, queues of 1, 1 reset; a game that sends and connects over a failing route, also in a subnet wider than /24, or one that reads and waits (211 000) | `TypeOK`; `AccountedSends`; `OverlayServes`; `ReadyIsTrue`; `QueuedIsReported` |
| `console` | 2 networks; a new console, one with both saved and an old-style id, or one with such an id and the other network saved; 1 use of the overlay, 1 power failure, 2 looks (159 000) | `TypeOK`; `JoinsWhatWasAsked`; `AvailableIsEarned`; `BothGoOn` |
| `incomplete_read` | the same | violation of `IncompleteReadKeepsNetwork` (section 6) |

Where one question needs different surroundings, the initial state chooses them
(`traffic`, `world`, `game`, `title`) and no action changes them: TLC checks them
side by side, and the properties hold in each.

Each property of a passing run has a mutant: an operator defined just before the
definition it alters, with a bug that code could have; with it TLC finds the
property violated.

### Why the bounds are enough

For everything section 4 lists the proofs remove the bounds; the instances below
are chosen so that the same cases happen in them, and for what is only checked
they are what there is.

- *Sockets*: two sockets and two packets give full and empty pool, a queue with
  head equal to and different from its tail, two sockets competing for the last
  packet; three automatic ports make the counter wrap, and there are more ports
  than sockets as in the code.
- *Reassembly*: lengths of two and three fragments and one too long for the
  buffer; two slots and three datagrams force evictions. One host suffices:
  datagrams are told apart by id. ids do not wrap and peers do not restart
  within a run; a wrapped id could mix two datagrams in the code, which then
  only the UDP checksum would notice.
- *ARP*: one more host than entries, and the ticks to hear each again.
- *Switch*: a ring of three slots is full, empty and wrapped; two networks allow
  a switch there and back with frames of the other queued.
- *Mirrors*: three sockets of two processes compete for two table entries, and
  either table is found full: the shim's by the third `Socket`, the VNet also
  while sockets of a process already swept from the table are still to be closed.
  One socket does whatever a game can do, with a port that is mirrored at once
  and one that is when the game broadcasts; the other two, which are there to
  fill the tables, bind Pia's port (`PlainStaysPlain` in `MCLanMirror`). Agreement is stated up to the first
  reset, because a reset breaks it (section 6); leaks are excluded after it too.
- *Lifetime*: two sessions are either a session of each game, which compete for
  the memory, or two of one game, of which the second reuses the registration.
  A full `g_client_sessions` refuses a session and changes nothing; with two
  entries for two games it does not happen. Process ids are not used again.
- *Data*: a queue of one is empty and full, and a second socket is what a loop
  over several can get wrong. Each network has a host whose address ends in 255
  and one whose does not, and the games' surroundings differ in which of the two
  broadcast addresses end in 255 (`ends255`), which a netmask decides. Batches
  have two messages: the second is refused,
  for another network, or without a destination. One reset may come before,
  during or after a call.
- *Console*: two saved networks are as many as the "only one" rule can confuse.
  The overlay is used once, and again if the power failure cut that use off. Two
  looks stand for the 200 of ten seconds.
- *Uplink*: there is no bound besides `FailStreakMax` = 2 for the code's 8; a
  streak counts the same way to either. Time is choice: a timeout, a due retry,
  a lease's end may come at any moment.

### Fairness

- `LanSwitch`: the node thread keeps running (its loop never blocks without a
  time limit), the one-second poll is due and the files readable again and again
  (strong fairness of `PollSwitch`), and joins do not fail for ever.
- `LanMirror`: a handler that began returns, the server thread destroys the
  sessions of dead processes, and the loop comes back to the once-per-second
  clean-up. Nothing is assumed of games.
- `BsdLifetime`: the framework destroys the objects of exited games and drops its
  references, real bsd answers, the clean-up comes back, and its query of the
  process list does not fail for ever. Nothing is assumed of running games,
  except in the premise of `ExitReleases`.
- `LanData`: the server thread goes on, and real bsd answers a call it was not told
  to wait for ever in. Nothing is assumed of datagrams or of the game.
- `Console`: the node thread keeps polling, the overlay ends a write it has begun
  unless the power fails, and the shim's thread goes on. Nothing is assumed of
  the network, of Nintendo's service or of the game.
- `Uplink`: the three threads keep running. One strong fairness condition covers
  what the wire socket's state calls for: a closed one is opened (`socket()` and
  `bind()` do not fail for ever), a datagram leaves through a live one (ZeroTier's
  timers send again and again), or `poll()` reports a dead one. Whenever one of
  them is possible again and again, one of them happens again and again, which is
  less than fairness of each. Nothing is assumed of the worker's success, of
  psc's notifications or of the network, except in the premises of `WakesUp` and
  `Recovers`.

## 4. What is proved

Checked by TLAPS, for every value of the constants allowed by the named
assumptions of the modules.

`VNetSocketsProofs` (assumptions: there is a socket and a packet; more tries
than sockets, no more tries than automatic ports):

- `TypeCorrectness`: `Spec => []TypeOK`
- `PoolStaysPartitioned`: `Spec => []PoolPartitioned`. The code has no
  "which list is this packet on" field, so the invariant says that there *is* an
  assignment of packets to lists and positions under which heads, tails, counts
  and links are right. It is inductive only together with `TypeOK` (a count
  stays in range because a queue cannot be longer than the pool:
  `PositionsBounded`, by the pigeonhole principle). Each action's lemma gives
  the new assignment: `PushStep` appends, `RecvStep` shifts, `CloseStep` moves a
  queue to the free list, after `WalkMeetsQueue` has shown that the walk meets
  exactly the queue. Inductions over an index are replaced by the least
  counterexample (`LeastElement`).
- `AutomaticPortsAreFresh`: `Spec => AutomaticPortIsFresh`, an action property,
  from `TypeOK`.
- `SocketsAlwaysQueues`: `Spec => SocketsAreQueues`, the refinement of
  `DatagramQueues`. A queue is what following `next` from the head gives, and
  `WalkUnique` says that this is the only sequence in which each packet follows the
  one before it (no induction over data: the least index at which two such walks
  differ). `QueueWalk` finds the sequence in the assignment of `PoolPartitioned`;
  `PushIsAppend`, `RecvIsTail`, `CloseIsEmpty` and `SameQueue` say what a step does
  to it. That the free list is empty exactly when all places are taken
  (`PlacesTaken`) is an injection from queue places to packets.

`LanSwitchProofs` (assumptions: the configured network is a network, the ring
has at least two slots):

- `TypeCorrectness`, `OneLanAlways`, `OnlyLateFramesEverCross`,
  `BroadcastAlwaysHeard`. The inductive invariant is
  `TypeOK /\ Membership /\ RingSafe /\ OnlyLateFramesCross /\ Heard`.
  `OneLan` alone is not inductive: it needs that the node is a member of nothing
  between leave and join, and that `m_nwid` is already the old network again
  while it is rejoined (`Membership`). `OnlyLateFramesCross` speaks of the frame
  just taken, so it needs the same of every waiting frame, and that only late
  ones wait while `m_nwid` is about to change (`RingSafe`). `BroadcastHeard`
  needs that the address goes when its network does (`Heard`).
- `RingAlwaysIsChannel`: `Spec => RingIsChannel`, the refinement of
  `BoundedChannel` for every depth. The waiting frames are a sequence computed
  from two indices; `SendIsAppend` and `TakeIsTail` say what moving an index
  does to it on either side of the wrap.


`VNetIpProofs` (assumptions: there is an ARP entry; two reassembly slots or more;
a packet carries at least 8 bytes, as `configure` refuses smaller ones; addresses
are not the broadcast ones). One slot cannot keep two datagrams apart, so
`TwoAtOnce` is false of it; the code has four.

- `TypeCorrectness`, `HandedIsAlwaysSent`, `TwoAlwaysAtOnce`. A buffer of the code
  counts bytes and does not know which. The invariant `Buffered` says that for
  each buffer there is a set of fragments that arrived, of its datagram, whose
  bytes are the count and are in their place. That a complete count is a complete
  datagram then needs that fragments do not overlap and none comes twice
  (`Counted`), and the cardinality of a union of intervals. `Protected` says why a
  sheltered datagram survives: its buffer has everything that arrived, and every
  slot as young is its one neighbour's, or was, so the search for the oldest
  never takes it while a second slot exists.
- `CacheIsAlwaysRecent`: `Spec => CacheIsRecent`, the refinement of
  `RecentHosts`. `learnMac` stops at the first entry that is free or of the host,
  which would make a second entry if a free one could come before the host's.
  The invariant `ArpShape` excludes that: free entries come last, a host has one
  entry, and no two have the same `lastUsed`. `PlaceIsFound` says what the
  search then finds, `OthersStay` that evicting it leaves what `RecentHosts`
  keeps (by counting entries: the table is full exactly when none is free).

`LanMirrorProofs` (assumptions: 0 is no port, tables are not empty):

- `TypeCorrectness`, `NothingOrphaned`, `MirrorsAlwaysAgree`. Table and VNet are
  locked one after the other, so the invariant has what a thread carries from one
  locked section to the next: `CallShape` (what a handler has at each step),
  `HandsClean` (VNet sockets in its or the clean-up's hands are open and nobody
  else's, before a reset), `Descriptors` (the port it read is still the entry's),
  and `OneEntry` (a descriptor has one entry, so the search has no choice).

`BsdLifetimeProofs` (assumptions: none but that the "no process", "no session"
values are neither):

- `TypeCorrectness`, `MemoryIsLentOnce`, and the action properties
  `LivingGamesKeepTheirs`, `UnregisteredStaysOpen`. `OwnerHasIt` is the heart: of
  all sessions the memory was ever lent to, only the owner's is still open. It
  needs what RegisterClient left when it went to ask real bsd (`Registering`) and
  that the last reference closes (`use_count` lemmas). The action properties need
  that the clean-up deals with exited processes only (`SweepsDead`) and that a
  service is parked before the framework drops it (`ParkedFirst`).

`LanDataProofs` (assumptions: queues and VNet not empty, a finite set of
descriptors that are numbers, batches not empty, as the code returns early on
none):

- `TypeCorrectness`, `SendsAreAccounted`, `OverlayAlwaysServes`, and the action
  property `ReadyIsAlwaysTrue`. `CallShape` says what a call is at each step,
  `EmittedToLan` and `HealthyCall` what a send has done and why it was forwarded
  (`TakenGoesThere`: what the VNet takes leaves on the overlay for where it
  belongs, whichever broadcast addresses end in 255),
  `MergedSoFar` that the count agrees with the sets at every look, also half-way.

`UplinkProofs` (assumptions: the failure limit is positive):

- `TypeCorrectness`, `ConfirmedIsQuiet`, `RouterIsLeftAlone`,
  `AnnouncedIsAlwaysOurs`, `ReadyAlwaysMeansSocket`. None is inductive alone.
  `Handshake` says what the two events and the flag are at each step of psc, and
  that a signalled `g_quiesced` has a node thread that waits or is parked unless the
  signal fell between psc's two clears;
  `RequestMatches` that the worker works for the current request only while there
  is one; `SocketsFollow` at which steps of the node thread sockets are open.

`ConsoleProofs` (assumptions: marks such as "none" are no lines, files or
networks; the disks given have files):

- `TypeCorrectness`, and the action properties `JoinsOnlyWhatWasAsked` and
  `AvailableIsAlwaysEarned`, for the composition. `CutMeansEmpty` says that a file
  being rewritten is empty, `ConfigKept` that the overlay's writes to `config.ini`
  change no key that names a network (`ToggleKeepsNames`: `SetIniFileValue` only
  replaces or inserts a line of another key, which an order-preserving map between
  the lines of old and new text shows), and `ReadHolds` that what the node has read
  of `config.ini` is that, or nothing. `HeldCall` and `BarrierTold` say what the shim's thread has established
  at each look. Theorems about the parts are lemmas that hold in the composition
  because each part's step leaves the other's variables or takes its action.

Every invariant and every action property that the passing runs check is a
theorem, and so are the three refinements (`SocketsAreQueues`, `RingIsChannel`,
`CacheIsRecent`). Only model-checked:

- liveness (`SelectionApplied`, `AddressGetsGroups`, `DeadHoldNoSocket`,
  `WakesUp`, `Recovers`, `ExitReleases`, `QueuedIsReported`, `BothGoOn`): it
  rests on fairness and ENABLED;
- that the violations of section 6 exist: they are counterexamples.


## 5. Properties that hold with a condition, and why

- `TwoAtOnce` holds for datagrams that fit the buffer, with at most one other in
  between, and before any reset. The search in `onIpv4` (vnet.cpp:201-211) takes
  the last free slot and then goes on comparing ages, so it may evict a slot in
  use although another is free; `reset` clears `m_tick` but not the slots' ages,
  which makes that more likely: the property is not about stale ages. Without any of the three conditions TLC finds a
  datagram that arrives completely and is not handed up (UDP allows that).
- `BroadcastHeard` is checked with leaves that succeed: a failed `ZT_Node_leave`
  keeps the network, but the pending `m_needSubscribe` is already cleared; the
  next configuration update asks again.
- `SelectionApplied` is checked with rejoins that succeed: if both the join of
  the new network and the rejoin of the old one fail, `m_nwid` is the old one
  and selecting it again is no change, so nothing joins it.
- `ConfirmedMeansQuiet` covers requests made while the node thread is still on
  its way through `HandleSleep` for an earlier one, but for one window (`late`):
  psc has cleared `g_quiesced` for the new request and not yet `g_resumed`. If
  just then the node thread, finishing the earlier request, signals `g_quiesced`
  and falls through the still signalled `g_resumed`, psc clears `g_resumed`,
  raises the flag and finds `g_quiesced` signalled while the node thread reopens
  the socket. main.cpp:275-278 says the transition is acknowledged "only once the
  node thread confirms it has closed the wire socket and stopped writing". Sleep
  handling is off by default.
- A second sleep notification without a wake-up (SleepReady, then
  EssentialServicesSleepReady) always runs into the three-second timeout:
  `RequestQuiesce` clears `g_quiesced`, and the parked node thread does not
  signal again. No property forbids it; it costs time and logs that the node
  thread "did not quiesce".
- `ExitReleases` is for games that are not inside RegisterClient for ever, one
  attempt after the other: the clean-up only tries the registration's lock, once
  per pass, and TLC finds a run in which a game's attempts meet every pass, so
  that an exited game keeps its counter.
- `Recovers` relies on `poll()` reporting a dead wire socket. Failing sends
  alone do not suffice when the mapped socket is alive: its successes reset the
  streak (zt_port.cpp:1049), and TLC finds a run in which the wire socket is
  never replaced. With port mapping off they do suffice.
- `OverlayServes` is for calls during which the VNet is not reset. After a reset the
  mirror's number is stale (section 6), sends go to the physical network and
  physical errors are still suppressed. It excepts `Send` on a socket connected
  to 255.255.255.255: `MirrorConnectedLanDatagram` knows only the subnet, so such
  a datagram goes out physically, although the same destination is bridged by
  SendTo and SendMMsg. It also excepts RecvMMsg, which is only forwarded.
- `QueuedIsReported` is about the moment up to the real service's answer, and
  `ReadyIsTrue` allows for a reset, which empties the queues a look has just found
  full. Select and Poll on a mirror return after 10 ms with nothing when the game
  asked for more; a game has to ask again.
- `AccountedSends` allows `SendTo` to send a host whose address ends in 255 as the
  overlay's broadcast: see below.
- `JoinsWhatWasAsked` lets a node that read one file without its contents join
  what the other asks for alone. With `networks.ini` cut that may be another
  network than the one it is on: see below.
- `BothGoOn` is about the network that the files on the disk ask for. A power
  failure may leave one of them empty; if what is left names no network, start-up
  waits for the overlay. It does not promise that the network of before comes
  back, only that what remains, and what is chosen afterwards, is joined.
- `AvailableIsEarned` allows the ten seconds to run out, and an answer whose two
  halves were true one after the other: `LanTransportReady` reads the wire and
  the address at two moments. The state that is reported was read before the
  hold; Nintendo's service may have taken it back meanwhile.
- `HandleSleep` keeps the hang-up flag and the streak of the socket it closes, so
  the socket opened after a sleep may be recycled at once; `Recovers` shows that
  it heals.

## 6. Where the code and its documentation disagree

Each is a run that TLC finds violated.

- `stray_frames`: "Frames queued for the old virtual LAN must never be emitted on
  the new one" (zt_port.cpp:1370). The ring is emptied before `ZT_Node_leave`
  resets the VNet; a frame a game sends in between goes out on the new network.
  `OnlyLateFramesCross`, checked and proved, says that this window is the only way.
- `stale_mirrors`: "The game-facing socket table is reset by the network-config
  DESTROY callback" (zt_port.cpp:1371). Only the VNet's sockets are; the shim's
  table keeps their numbers, so two game sockets may later share a VNet socket.
- `late_entry`: "A once-per-second kernel process-list check releases exited
  games' parked handles, shadow sockets, counters" (LIFECYCLE_NAT_TESTING.md:16).
  A `Socket` call in flight when its process exits leaves an entry that no later
  pass looks for. `DeadHoldNoSocket` shows that it holds no VNet socket, so only
  one of the eight table entries is lost.

- `incomplete_read`: a failed or incomplete read of `networks.ini` "simply means
  'try again next poll' rather than 'disconnect now'" (zt_port.cpp:500-503; single
  quotes for double). With an id in `config.ini` it does not:
  ResolveConfiguredNetworkId falls back to that id (zt_port.cpp:530), and the
  watcher moves a live node from the selected network to it until the next poll.
  `JoinsWhatWasAsked`, checked and proved, says that nothing worse happens: it goes
  to what the complete `config.ini` asks for, or to what the complete
  `networks.ini` does.

Observations on configuration and on the data path, met while modelling:

- "a ZeroTier-subnet unicast is kept as a unicast" (bsd_shim.cpp:1727-1729). SendTo
  takes every destination whose last octet is 255 for a directed broadcast
  (bsd_shim.cpp:1743), and zt_port.cpp:1193-1194 accepts any prefix. On a network
  wider than /24 a peer such as 10.1.0.255 of 10.1.0.0/16 is therefore sent as the
  overlay's broadcast. So is a physical host ending in 255, which is not sent to
  at all on Wi-Fi then. Send, Write and SendMMsg compare with the netmask and are
  not affected. `LastOctet255` has the code's test, and `AccountedSends` states
  this as the only way a host's datagram goes elsewhere.
- WaitForConfiguredNetworkId writes the template whenever `config.ini` cannot be
  read, also if the overlay just has it open; main.cpp:702 says "on first run".
- Connect on a mirror to an overlay address leaves the real socket's earlier peer
  in place, so a Send the VNet refuses goes to that one.
- A blocking receive that finds no virtual datagram waits in real bsd on the
  shim's thread; a virtual datagram that arrives then does not end it.
- RecvMMsg never returns a virtual datagram that Poll has reported.
- "gets its own single bounded recovery wait" (nifm_shim.cpp:424): the
  compatibility model never waits.
- Initialize keeps the bound wire socket when it refuses for lack of memory or
  when the join fails (zt_port.cpp:1292, 1335), so the retry in NodeThreadMain
  binds the same port beside it.

Smaller observations without a run: bsd_shim.cpp:597 speaks of "all eight shared
RX packet buffers" where vnet.hpp has 32; `onArp` answers a request whose sender
address is 0 to that address, while it learns the frame's; `probePeer` sends
without `m_vnetLock`, so two datagrams may get the same IP id.

## 7. Not modelled

- Header formats, byte order, checksums, ICMP and UDP-checksum arithmetic.
- The INI files' characters: comments, blanks, quotes, digits. `Settings` has the
  lines and what each reader makes of them. Keys read once at start-up (flags,
  the probe address, the psc module id). A card that does not mount: the module
  then runs without files.
- ZeroTier's own files (cbStateGet, cbStatePut): what it does with a damaged one is
  ZeroTier's.
- The serialised layout of an mmsghdr and the capture of browse packets.
- In the nifm shim: calls that are only forwarded, addresses rewritten in replies,
  and the compatibility model's two events, created once and never signalled.
- The overlay's boot flag.
- Start-up, memory arenas, logging, status files, diagnostics, the resource
  probes: no state another part depends on.
- The wire socket's source port, back-off durations and counters (data).
- ZeroTier, libnatpmp, miniupnpc, libstratosphere: external.
- The overlay's user interface.

## 8. Plan

In order:

1. Proofs: what section 5 observes, where it can be stated as an invariant.
2. `BsdLifetime` as an implementation of a lease with one holder, and its clean-up
   joined with `LanMirror`'s.
3. Start-up: Initialize with its failures and the retry around it.
