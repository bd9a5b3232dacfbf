----------------------------- MODULE LanSwitch -----------------------------
(***************************************************************************)
(* Changing the virtual LAN while games use it (source/zt_port.cpp):       *)
(* Port::RunLoop with pollNetworkSelection, switchNetwork, the callback    *)
(* cbNetworkConfig, subscribeBroadcast and drainOutbound on the node       *)
(* thread, and the ring of outbound frames that cbEmit fills from the      *)
(* game's calls on the bsd:u thread.                                       *)
(*                                                                         *)
(* The node thread is sequential: pc is where it is in an iteration of     *)
(* RunLoop.  Between any two of its steps the game may emit frames and the *)
(* overlay may rewrite the selected network.  m_nwid, the VNet's address   *)
(* and m_needSubscribe are written by the node thread only; the ring is    *)
(* shared under g_frameLock.  A frame is the LAN it was made for and       *)
(* whether it was queued after switchNetwork had already emptied the ring. *)
(*                                                                         *)
(* ZeroTier itself (membership, multicast groups, when it calls back) is   *)
(* outside the repository and modelled from how zt_port.cpp uses it.       *)
(***************************************************************************)
EXTENDS Integers, Sequences

CONSTANTS
    Networks,        \* network ids that are ever selected
    Home,            \* the one configured at start
    Ips,             \* addresses controllers assign (0 is none)
    Depth,           \* FrameQueueDepth (zt_port.cpp: 32)
    None,            \* no network
    Worlds,          \* bounds: what a behaviour may suffer, see world
    MaxSelections    \* bound: changes of the selected network

ASSUME SwitchAssumption ==
    /\ Home \in Networks
    /\ None \notin Networks
    /\ Ips \subseteq Nat \ {0}
    /\ Depth \in Nat /\ Depth > 1
    /\ MaxSelections \in Nat
    /\ \A w \in Worlds : w.fails \subseteq {"leave", "join", "restore"} /\ w.sends \in Nat

VARIABLES
    world,          \* which of ZT_Node_leave, ZT_Node_join for a new network and for
                    \* the one just left may fail, and a bound on the frames emitted
    requested,      \* the network the configuration files select
    selections,     \* how often the overlay has changed it
    nwid,           \* m_nwid
    joined,         \* the networks the ZeroTier node is a member of
    groups,         \* its multicast groups: <<network, adi>>, adi 0 for broadcast
    lan,            \* the network the VNet is configured for, or None
    ip,             \* m_vnet.localIp()
    needSubscribe,  \* m_needSubscribe
    paused,         \* m_wireFd < 0 || m_wireRecovering
    pc,             \* where RunLoop is
    other,          \* switchNetwork: the new network until m_nwid is it, then old_nwid
    frames,         \* g_frames
    head,           \* g_head
    tail,           \* g_tail
    taken,          \* the last frame taken and the network it was emitted on
    sends           \* how many frames have been emitted

ringVars == <<frames, head>>
netVars  == <<nwid, joined, groups, lan, ip>>
envVars  == <<world, requested, selections, sends>>
vars == <<envVars, netVars, needSubscribe, paused, pc, other, ringVars, tail, taken>>

Slots   == 0..Depth - 1
NoFrame == [lan |-> None, late |-> FALSE]
Frames  == [lan : Networks, late : BOOLEAN]

(* Port::Initialize: joined, broadcast asked for, no address yet. *)
Init ==
    /\ world \in Worlds
    /\ requested = Home
    /\ selections = 0
    /\ nwid = Home
    /\ joined = {Home}
    /\ groups = {<<Home, 0>>}
    /\ lan = None
    /\ ip = 0
    /\ needSubscribe = FALSE
    /\ paused = FALSE
    /\ pc = "poll"
    /\ other = Home
    /\ frames = [i \in Slots |-> NoFrame]
    /\ head = 0
    /\ tail = 0
    /\ taken = [frame |-> NoFrame, on |-> None]
    /\ sends = 0

(***************************************************************************)
(* The other threads.                                                      *)
(***************************************************************************)

(* The overlay rewrites networks.ini. *)
Select(n) ==
    /\ selections < MaxSelections
    /\ n # requested
    /\ requested' = n
    /\ selections' = selections + 1
    /\ UNCHANGED <<world, sends, netVars, needSubscribe, paused, pc, other, ringVars, tail,
                   taken>>

(* Mutant of Following: the index is not wrapped. *)
FollowingUnwrapped(i) == i + 1

Following(i) == (i + 1) % Depth

(* Mutant of RingFull: the wrap is forgotten in the test for room. *)
RingFullUnwrapped == head + 1 = tail

RingFull == Following(head) = tail

(* cbEmit, reached from any call that makes the VNet send; a VNet without an
   address sends nothing.  A full ring drops the frame. *)
cbEmit ==
    /\ lan # None
    /\ sends < world.sends
    /\ sends' = sends + 1
    /\ IF RingFull
       THEN UNCHANGED ringVars
       ELSE /\ frames' = [frames EXCEPT ![head] = [lan |-> lan, late |-> pc = "leave"]]
            /\ head' = Following(head)
    /\ UNCHANGED <<world, requested, selections, netVars, needSubscribe, paused, pc, other,
                   tail, taken>>

(***************************************************************************)
(* pollNetworkSelection and switchNetwork.                                 *)
(***************************************************************************)

(* Not due yet, files unreadable, or nothing to change. *)
PollSkip ==
    /\ pc = "poll"
    /\ pc' = "wire"
    /\ UNCHANGED <<envVars, netVars, needSubscribe, paused, other, ringVars, tail, taken>>

(* Mutant of ClearRing: the ring keeps the old network's frames. *)
ClearNothing == UNCHANGED tail

ClearRing == tail' = head

(* The beginning of switchNetwork, up to the call of ZT_Node_leave. *)
PollSwitch ==
    /\ pc = "poll"
    /\ requested # nwid
    /\ other' = requested
    /\ ClearRing
    /\ needSubscribe' = FALSE
    /\ pc' = "leave"
    /\ UNCHANGED <<envVars, netVars, paused, ringVars, taken>>

(* Mutant of LeaveFails: the error is noted, but the switch goes on. *)
LeaveFailsIgnored ==
    /\ pc = "leave"
    /\ "leave" \in world.fails
    /\ nwid' = other
    /\ other' = nwid
    /\ pc' = "join"
    /\ UNCHANGED <<envVars, joined, groups, lan, ip, needSubscribe, paused, ringVars,
                   tail, taken>>

LeaveFails ==
    /\ pc = "leave"
    /\ "leave" \in world.fails
    /\ pc' = "wire"
    /\ UNCHANGED <<envVars, netVars, needSubscribe, paused, other, ringVars, tail, taken>>

(* ZT_Node_leave calls cbNetworkConfig(DESTROY), which resets the VNet; then
   m_nwid becomes the new network. *)
Leave ==
    /\ pc = "leave"
    /\ joined' = joined \ {nwid}
    /\ groups' = {g \in groups : g[1] # nwid}
    /\ lan' = None
    /\ ip' = 0
    /\ nwid' = other
    /\ other' = nwid
    /\ pc' = "join"
    /\ UNCHANGED <<envVars, needSubscribe, paused, ringVars, tail, taken>>

Join ==
    /\ pc = "join"
    /\ joined' = joined \cup {nwid}
    /\ pc' = "wire"
    /\ UNCHANGED <<envVars, nwid, groups, lan, ip, needSubscribe, paused, other,
                   ringVars, tail, taken>>

(* Mutant of JoinFails: m_nwid stays the network that could not be joined. *)
JoinFailsKeepsNwid ==
    /\ pc = "join"
    /\ "join" \in world.fails
    /\ pc' = "restore"
    /\ UNCHANGED <<envVars, netVars, needSubscribe, paused, other, ringVars, tail, taken>>

JoinFails ==
    /\ pc = "join"
    /\ "join" \in world.fails
    /\ nwid' = other
    /\ pc' = "restore"
    /\ UNCHANGED <<envVars, joined, groups, lan, ip, needSubscribe, paused, other,
                   ringVars, tail, taken>>

Restore ==
    /\ pc = "restore"
    /\ \/ joined' = joined \cup {other}
       \/ "restore" \in world.fails /\ UNCHANGED joined
    /\ pc' = "wire"
    /\ UNCHANGED <<envVars, nwid, groups, lan, ip, needSubscribe, paused, other,
                   ringVars, tail, taken>>

(***************************************************************************)
(* The rest of an iteration.                                               *)
(***************************************************************************)

(* ZeroTier handles wire packets before, timers after, the frames. *)
InZeroTier == pc \in {"wire", "timers"}

(* Mutant of RequestSubscription: only the first address asks for one. *)
RequestFirstSubscription == needSubscribe' = (needSubscribe \/ ip = 0)

RequestSubscription == needSubscribe' = TRUE

(* cbNetworkConfig for UP and CONFIG_UPDATE; a is the first IPv4 address of
   the configuration, 0 if it has none. *)
cbNetworkConfigUp(n, a) ==
    /\ InZeroTier
    /\ n \in joined
    /\ nwid' = n
    /\ IF a = 0 THEN UNCHANGED <<lan, ip>> ELSE lan' = n /\ ip' = a
    /\ RequestSubscription
    /\ UNCHANGED <<envVars, joined, groups, paused, pc, other, ringVars, tail, taken>>

(* cbNetworkConfig for DOWN. *)
cbNetworkConfigDown ==
    /\ InZeroTier
    /\ lan # None
    /\ lan' = None
    /\ ip' = 0
    /\ UNCHANGED <<envVars, nwid, joined, groups, needSubscribe, paused, pc, other,
                   ringVars, tail, taken>>

(* maintainWireSocket settles whether the uplink works. *)
WireDone ==
    /\ pc = "wire"
    /\ pc' = "subscribe"
    /\ paused' \in BOOLEAN
    /\ UNCHANGED <<envVars, netVars, needSubscribe, other, ringVars, tail, taken>>

(* Mutant of GroupsWanted: plain broadcast only, address resolution is not. *)
GroupsWantedBroadcast == {<<nwid, 0>>}

(* Without an address the second group is the first one again. *)
GroupsWanted == {<<nwid, 0>>, <<nwid, ip>>}

(* What the flag asked for, outside the callback. *)
subscribeBroadcast ==
    /\ pc = "subscribe"
    /\ pc' = "drain"
    /\ needSubscribe' = FALSE
    /\ groups' = IF needSubscribe /\ nwid \in joined
                 THEN groups \cup GroupsWanted
                 ELSE groups
    /\ UNCHANGED <<envVars, nwid, joined, lan, ip, paused, other, ringVars, tail, taken>>

(* One turn of the loop of drainOutbound: take a frame, then emit it on the
   current network or, while the uplink is down, discard it. *)
drainOutbound ==
    /\ pc = "drain"
    /\ tail # head
    /\ tail' = Following(tail)
    /\ taken' = [frame |-> frames[tail], on |-> IF paused THEN None ELSE nwid]
    /\ UNCHANGED <<envVars, netVars, needSubscribe, paused, pc, other, ringVars>>

DrainDone ==
    /\ pc = "drain"
    /\ tail = head
    /\ pc' = "timers"
    /\ UNCHANGED <<envVars, netVars, needSubscribe, paused, other, ringVars, tail, taken>>

TimersDone ==
    /\ pc = "timers"
    /\ pc' = "poll"
    /\ UNCHANGED <<envVars, netVars, needSubscribe, paused, other, ringVars, tail, taken>>

(***************************************************************************)
(* The specification.                                                      *)
(***************************************************************************)
SwitchStep == PollSwitch \/ LeaveFails \/ Leave \/ Join \/ JoinFails \/ Restore
LoopStep   == PollSkip \/ WireDone \/ subscribeBroadcast \/ drainOutbound \/ DrainDone \/ TimersDone
Callback   == cbNetworkConfigDown \/ \E n \in Networks, a \in Ips \cup {0} : cbNetworkConfigUp(n, a)
Others     == cbEmit \/ \E n \in Networks : Select(n)

Next == SwitchStep \/ LoopStep \/ Callback \/ Others

Spec == Init /\ [][Next]_vars

(* The node thread keeps running; a poll is due, and the files readable,
   again and again; and joins do not fail for ever. *)
Fairness ==
    /\ WF_vars(SwitchStep \/ LoopStep)
    /\ SF_vars(PollSwitch)
    /\ SF_vars(Join)

FairSpec == Spec /\ Fairness

(***************************************************************************)
(* Properties.                                                             *)
(***************************************************************************)
TypeOK ==
    /\ world \in Worlds
    /\ requested \in Networks
    /\ selections \in 0..MaxSelections
    /\ nwid \in Networks
    /\ joined \subseteq Networks
    /\ groups \subseteq Networks \X (Ips \cup {0})
    /\ lan \in Networks \cup {None}
    /\ ip \in Ips \cup {0}
    /\ needSubscribe \in BOOLEAN
    /\ paused \in BOOLEAN
    /\ pc \in {"poll", "leave", "join", "restore", "wire", "subscribe", "drain", "timers"}
    /\ other \in Networks
    /\ frames \in [Slots -> Frames \cup {NoFrame}]
    /\ head \in Slots
    /\ tail \in Slots
    /\ taken \in [frame : Frames \cup {NoFrame}, on : Networks \cup {None}]
    /\ sends \in 0..world.sends

(* The console is a member of the network m_nwid names and of no other, and
   the VNet has an address only on a network it is a member of, whichever of
   leave, join and the rejoin of the old network fail (switchNetwork). *)
OneLan ==
    /\ joined \subseteq {nwid}
    /\ lan # None => lan \in joined /\ ip # 0

(* A frame that reaches another LAN than the one it was made for was queued
   between the emptying of the ring and the reset of the VNet: switchNetwork
   leaves no other way (zt_port.cpp:1370). *)
OnlyLateFramesCross ==
    taken.on \notin {None, taken.frame.lan} => taken.frame.late

(* "Frames queued for the old virtual LAN must never be emitted on the new
   one" (zt_port.cpp:1370), without exception. *)
FramesStayOnTheirLan == taken.on \in {None, taken.frame.lan}

(* While the VNet has an address and no request is pending, the node is in
   the broadcast group and the address-resolution group of that address.  (A
   failed leave breaks it: switchNetwork has dropped the pending request.) *)
BroadcastHeard ==
    "leave" \notin world.fails /\ ip # 0 /\ ~needSubscribe /\ pc # "leave" => {<<nwid, 0>>, <<nwid, ip>>} \subseteq groups

(* The frames that wait, the oldest first. *)
Queue == [i \in 1..(head + Depth - tail) % Depth |-> frames[(tail + i - 1) % Depth]]

Channel == INSTANCE BoundedChannel WITH
    Capacity <- Depth - 1, Messages <- Frames, NoMessage <- NoFrame,
    chan <- Queue, out <- taken.frame, changing <- pc = "leave"

(* The ring of frames is a FIFO of Depth - 1 places whatever cbEmit,
   drainOutbound and the clearing in switchNetwork do to its two indices:
   nothing is emitted twice, out of order, or after it was thrown away. *)
RingIsChannel == Channel!Spec

(* Once the overlay leaves the selection alone, the console ends up a member
   of the selected network for good, however often joins fail first, if
   leaving a network and going back to it work. *)
SelectionApplied ==
    <>[](world.fails \subseteq {"join"} => nwid = requested /\ joined = {requested})

(* Again and again the address in use is one that other members can resolve:
   however often controllers change it, its groups get subscribed, although
   the callback that brings an address may not do it. *)
AddressGetsGroups ==
    []<>("leave" \notin world.fails /\ lan # None => {<<lan, 0>>, <<lan, ip>>} \subseteq groups)
=============================================================================
