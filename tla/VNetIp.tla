------------------------------- MODULE VNetIp -------------------------------
(***************************************************************************)
(* The IPv4 and ARP half of the virtual network stack                      *)
(* (source/net/vnet.cpp): the neighbour cache that every received frame    *)
(* feeds, the cutting of datagrams into fragments, and their reassembly.   *)
(*                                                                         *)
(* Peers run the same sendIpv4 (or a PC's stack, which cuts the same way); *)
(* what they send is on the `wire' and arrives in any order, each fragment *)
(* at most once or, if lost, never.  A datagram is its sender, its IP id   *)
(* (which stands for id, destination and protocol) and its length; ids do  *)
(* not wrap within the bound on sends.  A reassembly buffer is a function from       *)
(* 8-byte blocks to the datagram whose bytes are there.                    *)
(*                                                                         *)
(* Everything runs under Port::m_vnetLock: one call is one step.           *)
(***************************************************************************)
EXTENDS Integers, FiniteSetsExt

CONSTANTS
    Hosts,       \* addresses of peers
    Macs,        \* hardware addresses of peers
    Unknown,     \* no hardware address (the code's 0)
    Everyone,    \* a broadcast address
    Group,       \* MacBroadcast
    ArpEntries,  \* entries of m_arp              (vnet.hpp: 16)
    ReasmSlots,  \* entries of m_reasm            (vnet.hpp: 4)
    ReasmMax,    \* bytes of a reassembly buffer  (vnet.hpp: 2176)
    MaxPayload,  \* m_mtu - ip4::MinHeader        (1480)
    Traffics,    \* bounds: what traffic a behaviour may have, see TrafficOK
    MaxResets    \* bound: resets of the VNet

(* A bound on the traffic of a behaviour: the peers that send datagrams and
   their hardware addresses, the lengths, how many datagrams, into how many
   frames in all; the addresses the console sends to; and how many frames
   make ARP's m_tick advance (the code lets it wrap at 2^32). *)
TrafficOK(t) ==
    /\ t.hosts \subseteq Hosts
    /\ t.macs \subseteq Macs
    /\ t.lengths \subseteq Nat \ {0}
    /\ t.sends \in Nat
    /\ t.frames \in Nat
    /\ t.targets \subseteq Hosts \cup {Everyone}
    /\ t.ticks \in Nat

ASSUME IpAssumption ==
    /\ ArpEntries \in Nat \ {0}
    /\ ReasmSlots \in Nat /\ ReasmSlots >= 2
    /\ MaxPayload \in Nat /\ MaxPayload >= 8     \* configure: m_mtu >= 576
    /\ ReasmMax \in Nat
    /\ \A t \in Traffics : TrafficOK(t)
    /\ Everyone \notin Hosts
    /\ {Unknown, Group} \cap Macs = {}
    /\ MaxResets \in Nat

VARIABLES
    traffic,  \* the bound that holds in this behaviour
    arp,      \* m_arp
    reasm,    \* m_reasm
    tick,     \* m_tick
    wire,     \* fragments on their way to the console
    sent,     \* datagrams the peers have sent
    arrived,  \* fragments that have arrived, of datagrams in more than one
    between,  \* per datagram: others with a fragment since its first arrived
    handed,   \* payloads given to deliverIpv4
    lookup,   \* the last neighbour sendIpv4 looked up, and the answer
    resets    \* how often the VNet has been reset

rxVars == <<wire, sent, arrived, between, handed>>
vars == <<traffic, arp, reasm, tick, rxVars, lookup, resets>>

Entries == 0..ArpEntries - 1
Slots   == 0..ReasmSlots - 1
BlockOf(byte) == byte \div 8
Blocks  == 0..BlockOf(ReasmMax)
Datagrams == [src : traffic.hosts, id : 1..traffic.sends, len : traffic.lengths]

NoNeighbour == [ip |-> Everyone, mac |-> Unknown, lastUsed |-> 0]
NoDatagram  == [src |-> Everyone, id |-> 0, len |-> 0]
FreeSlot    == [used |-> FALSE, key |-> NoDatagram, received |-> 0, total |-> 0,
                age |-> 0, data |-> [b \in Blocks |-> NoDatagram]]

Init ==
    /\ traffic \in Traffics
    /\ arp = [i \in Entries |-> NoNeighbour]
    /\ reasm = [i \in Slots |-> FreeSlot]
    /\ tick = 0
    /\ wire = {}
    /\ sent = {}
    /\ arrived = {}
    /\ between = [d \in {} |-> {}]
    /\ handed = {}
    /\ lookup = [ip |-> Everyone, mac |-> Group]
    /\ resets = 0

(* Slots are marked free; their ages stay, while m_tick starts again. *)
reset ==
    /\ resets < MaxResets
    /\ resets' = resets + 1
    /\ arp' = [i \in Entries |-> NoNeighbour]
    /\ reasm' = [i \in Slots |-> [reasm[i] EXCEPT !.used = FALSE]]
    /\ tick' = 0
    /\ UNCHANGED <<rxVars, lookup>>

(***************************************************************************)
(* The neighbour cache.                                                    *)
(***************************************************************************)
Known(i, ip) == arp[i].mac # Unknown /\ arp[i].ip = ip
Free(i) == arp[i].mac = Unknown

(* Mutant of PlaceFor: a full table always gives up its first entry. *)
PlaceForFirst(ip) ==
    IF \E i \in Entries : Known(i, ip) \/ Free(i)
    THEN CHOOSE i \in Entries : (Known(i, ip) \/ Free(i)) /\ \A j \in 0..i - 1 : ~(Known(j, ip) \/ Free(j))
    ELSE 0

(* Where learnMac stops: the first entry that has the address or is free;
   otherwise the one learnt longest ago, the first of equals. *)
PlaceFor(ip) ==
    IF \E i \in Entries : Known(i, ip) \/ Free(i)
    THEN CHOOSE i \in Entries : (Known(i, ip) \/ Free(i)) /\ \A j \in 0..i - 1 : ~(Known(j, ip) \/ Free(j))
    ELSE CHOOSE i \in Entries :
             \A j \in Entries :
                 arp[i].lastUsed < arp[j].lastUsed \/ (arp[i].lastUsed = arp[j].lastUsed /\ i <= j)

Learns(ip, mac) == ip \in Hosts /\ mac \in Macs

(* learnMac; the second argument of the pair is the tick it leaves. *)
learnMac(ip, mac) ==
    IF Learns(ip, mac)
    THEN [arp |-> [arp EXCEPT ![PlaceFor(ip)] = [ip |-> ip, mac |-> mac, lastUsed |-> tick + 1]],
          tick |-> tick + 1]
    ELSE [arp |-> arp, tick |-> tick]

(* onArp, a request or a reply: the sender is learnt by the address it gives
   or else by that of the frame.  The answer to a request changes nothing. *)
onArp(ip, senderMac, srcMac) ==
    LET after == learnMac(ip, IF senderMac = Unknown THEN srcMac ELSE senderMac) IN
    /\ tick < traffic.ticks
    /\ arp' = after.arp
    /\ tick' = after.tick
    /\ UNCHANGED <<reasm, rxVars, lookup, resets>>

lookupMac(ip) ==
    IF ip = Everyone THEN Group
    ELSE IF \E i \in Entries : Known(i, ip)
    THEN arp[CHOOSE i \in Entries : Known(i, ip) /\ \A j \in 0..i - 1 : ~Known(j, ip)].mac
    ELSE Unknown

(***************************************************************************)
(* Sending.                                                                *)
(***************************************************************************)

(* Mutant of Chunk: as much as fits, not a multiple of 8. *)
ChunkUnrounded == MaxPayload

Chunk == BlockOf(MaxPayload) * 8

Fragment(d, off) ==
    LET take == Min({Chunk, d.len - off}) IN
    [of |-> d, block |-> BlockOf(off), len |-> take, more |-> off + take < d.len]

(* The frames sendIpv4 makes of a datagram. *)
Fragments(d) ==
    IF d.len <= MaxPayload
    THEN {[of |-> d, block |-> 0, len |-> d.len, more |-> FALSE]}
    ELSE {Fragment(d, k * Chunk) : k \in 0..(d.len - 1) \div Chunk}

Frames(ds) == UNION {Fragments(d) : d \in ds}

(* A send of the console: without a neighbour an ARP request goes out instead
   and the datagram is dropped. *)
sendIpv4(ip) ==
    /\ lookup' = [ip |-> ip, mac |-> lookupMac(ip)]
    /\ UNCHANGED <<arp, reasm, tick, rxVars, resets>>

(* A send of a peer. *)
PeerSends(h, len) ==
    LET d == [src |-> h, id |-> Cardinality(sent) + 1, len |-> len] IN
    /\ Cardinality(sent) < traffic.sends
    /\ Cardinality(Frames(sent \cup {d})) <= traffic.frames
    /\ sent' = sent \cup {d}
    /\ wire' = wire \cup Fragments(d)
    /\ UNCHANGED <<arp, reasm, tick, arrived, between, handed, lookup, resets>>

(***************************************************************************)
(* onIpv4.                                                                 *)
(***************************************************************************)
Whole(f) == f.block = 0 /\ ~f.more

(* A packet that is not a fragment goes straight up. *)
onIpv4Whole(f, mac) ==
    LET after == learnMac(f.of.src, mac) IN
    /\ Whole(f)
    /\ arp' = after.arp
    /\ tick' = after.tick
    /\ wire' = wire \ {f}
    /\ handed' = handed \cup {[len |-> f.len, data |-> [b \in 0..BlockOf(f.len - 1) |-> f.of]]}
    /\ UNCHANGED <<reasm, sent, arrived, between, lookup, resets>>

Matching(d) == {i \in Slots : reasm[i].used /\ reasm[i].key = d}

(* Mutant of Victim: the newest instead of the oldest. *)
VictimNewest ==
    CHOOSE i \in Slots : \A j \in Slots : reasm[i].age >= reasm[j].age

(* The slot the search ends with when none matches: from the last free slot
   (or the first slot) on, the smallest age, free or not. *)
Victim ==
    LET unused == {i \in Slots : ~reasm[i].used}
        from   == IF unused = {} THEN 0 ELSE Max(unused)
    IN  CHOOSE i \in from..ReasmSlots - 1 :
            \A j \in from..ReasmSlots - 1 :
                reasm[i].age < reasm[j].age \/ (reasm[i].age = reasm[j].age /\ i <= j)

SlotFor(d) == IF Matching(d) # {} THEN Min(Matching(d)) ELSE Victim

(* Mutant of Opened: the counts of the earlier datagram stay. *)
OpenedUncleared(d) == [reasm[SlotFor(d)] EXCEPT !.used = TRUE, !.key = d]

(* The slot for the fragments of d, started afresh unless it has some. *)
Opened(d) ==
    IF Matching(d) # {} THEN reasm[SlotFor(d)]
    ELSE [reasm[SlotFor(d)] EXCEPT !.used = TRUE, !.key = d, !.received = 0, !.total = 0]

(* The fragment copied into the slot and counted. *)
Filled(slot, f) ==
    [slot EXCEPT
        !.data = [b \in Blocks |-> IF b \in f.block..BlockOf(f.block * 8 + f.len - 1)
                                   THEN f.of ELSE @[b]],
        !.received = @ + f.len,
        !.total = IF f.more THEN @ ELSE f.block * 8 + f.len]

Complete(slot) == slot.total # 0 /\ slot.received >= slot.total

Payload(slot) == [len |-> slot.total, data |-> [b \in 0..BlockOf(slot.total - 1) |-> slot.data[b]]]

(* History: what has arrived, and which other datagrams came in between. *)
Note(f) ==
    /\ arrived' = arrived \cup {f}
    /\ between' = [d \in DOMAIN between \cup {f.of} |->
                      IF d = f.of THEN IF d \in DOMAIN between THEN between[d] ELSE {}
                      ELSE between[d] \cup {f.of}]

onIpv4Fragment(f, mac) ==
    LET after == learnMac(f.of.src, mac)
        aged  == [Opened(f.of) EXCEPT !.age = after.tick + 1]
        slot  == Filled(aged, f)
        at    == SlotFor(f.of)
    IN
    /\ ~Whole(f)
    /\ arp' = after.arp
    /\ tick' = after.tick + 1
    /\ wire' = wire \ {f}
    /\ Note(f)
    /\ \/ /\ f.block * 8 + f.len > ReasmMax
          /\ reasm' = [reasm EXCEPT ![at] = [aged EXCEPT !.used = FALSE]]
          /\ UNCHANGED handed
       \/ /\ f.block * 8 + f.len <= ReasmMax
          /\ Complete(slot)
          /\ reasm' = [reasm EXCEPT ![at] = [slot EXCEPT !.used = FALSE]]
          /\ handed' = handed \cup {Payload(slot)}
       \/ /\ f.block * 8 + f.len <= ReasmMax
          /\ ~Complete(slot)
          /\ reasm' = [reasm EXCEPT ![at] = slot]
          /\ UNCHANGED handed
    /\ UNCHANGED <<sent, lookup, resets>>

Receive(f, mac) == onIpv4Whole(f, mac) \/ onIpv4Fragment(f, mac)

Step ==
    \/ reset
    \/ \E h \in Hosts \cup {Unknown}, m, s \in Macs \cup {Unknown} : onArp(h, m, s)
    \/ \E h \in traffic.targets : sendIpv4(h)
    \/ \E h \in traffic.hosts, len \in traffic.lengths : PeerSends(h, len)
    \/ \E f \in wire, m \in traffic.macs : Receive(f, m)

Next == Step /\ UNCHANGED traffic

Spec == Init /\ [][Next]_vars

(***************************************************************************)
(* Properties.                                                             *)
(***************************************************************************)
Ticks == 0..traffic.ticks + 2 * traffic.frames

Buffers ==
    [used : BOOLEAN, key : Datagrams \cup {NoDatagram}, received : 0..ReasmMax, total : 0..ReasmMax,
     age : Ticks, data : [Blocks -> Datagrams \cup {NoDatagram}]]

TypeOK ==
    /\ traffic \in Traffics
    /\ arp \in [Entries -> [ip : Hosts \cup {Everyone}, mac : Macs \cup {Unknown}, lastUsed : Ticks]]
    /\ reasm \in [Slots -> Buffers]
    /\ tick \in Ticks
    /\ sent \subseteq Datagrams
    /\ wire \cup arrived \subseteq Frames(sent)
    /\ between \in [DOMAIN between -> SUBSET sent] /\ DOMAIN between \subseteq sent
    /\ lookup \in [ip : Hosts \cup {Everyone}, mac : Macs \cup {Unknown, Group}]
    /\ resets \in 0..MaxResets

(* What is handed to deliverIpv4 is a datagram a peer sent, complete, of its
   length and with every byte its own, whatever was lost, overtaken, evicted
   or too long: the byte counts of onIpv4 stand in for a map of what has
   arrived, and they suffice because nothing arrives twice. *)
HandedIsSent ==
    \A p \in handed : \E d \in sent :
        p = [len |-> d.len, data |-> [b \in 0..BlockOf(d.len - 1) |-> d]]

Fits(d) == d.len <= ReasmMax

(* Two datagrams may arrive interleaved: one whose fragments have all
   arrived has been handed up if at most one other, that itself fits the
   buffer, came in between.  (With two others the search of onIpv4 may evict
   it although a slot is free, and so may one that does not fit; after a
   reset one other is enough, since ages survive a reset and m_tick does
   not.) *)
TwoAtOnce ==
    resets = 0 =>
        \A d \in DOMAIN between :
            /\ Fits(d)
            /\ Fragments(d) \subseteq arrived
            /\ Cardinality(between[d]) <= 1
            /\ \A o \in between[d] : Fits(o)
            => [len |-> d.len, data |-> [b \in 0..BlockOf(d.len - 1) |-> d]] \in handed

(***************************************************************************)
(* What the neighbour cache is for.                                        *)
(***************************************************************************)
Neighbours == INSTANCE RecentHosts WITH
    Capacity <- ArpEntries,
    known <- {arp[i] : i \in {j \in Entries : ~Free(j)}},
    answer <- lookup

(* The ARP table keeps the promise of RecentHosts: learnMac never makes two
   entries for a host, gives up the host heard longest ago, and sendIpv4
   addresses a frame to where its host was last heard. *)
CacheIsRecent == Neighbours!Spec
=============================================================================
