---------------------------- MODULE VNetSockets ----------------------------
(***************************************************************************)
(* The receive half of the virtual network stack (source/net/vnet.cpp):    *)
(* the socket table, the packet pool every socket shares, and the socket   *)
(* calls the bsd:u shim drives through Port.                               *)
(*                                                                         *)
(* The pool is kept as the code keeps it: one array of packets whose       *)
(* `next' fields thread both the free list and one queue per socket, and   *)
(* per socket a head, a tail and a count.  All of it is guarded by         *)
(* Port::m_vnetLock, so every call is one step, except that the loop of    *)
(* onUdp over the socket table is one step per table entry: `rx' is that   *)
(* loop's state, and no other call runs while it is busy.                  *)
(*                                                                         *)
(* A datagram is its sender (src, standing for srcIp, srcPort and the      *)
(* payload) and its length.  An address is AnyIp, MyIp (m_ip), OtherIp or  *)
(* BcastIp.  Frame parsing, ARP, IPv4 and reassembly are in VNetIp.        *)
(***************************************************************************)
EXTENDS Integers, Sequences

CONSTANTS
    MaxSockets,      \* entries of m_socks          (vnet.hpp: 8)
    PoolPackets,     \* entries of m_pool           (vnet.hpp: 32)
    MaxDatagram,     \* longest datagram kept       (vnet.hpp: 2048)
    EphemeralFirst,  \* first automatic port        (vnet.cpp: 49152)
    PortMax,         \* largest port, the u16 limit (65535)
    EphemeralTries,  \* attempts of udpBind         (vnet.cpp: 4096)
    BindPorts,       \* ports callers bind and peers send to
    Datagrams,       \* datagrams peers send
    BufSizes,        \* buffer sizes callers receive into
    BindIps,         \* addresses callers bind
    AutoBinders      \* sockets on which callers ask for an automatic port

Socks == 0..MaxSockets - 1
Pkts  == 0..PoolPackets - 1
Ports == 0..PortMax
Nil   == -1

AnyIp   == "any"
MyIp    == "mine"
OtherIp == "other"
BcastIp == "bcast"
DestIps == {MyIp, BcastIp}   \* what onIpv4 lets through (isForUs)

ASSUME SizesAssumption ==
    /\ MaxSockets \in Nat \ {0}
    /\ PoolPackets \in Nat \ {0}
    /\ MaxDatagram \in Nat

(* At most MaxSockets ports are ever taken, so enough tries find a free one;
   and there are no more tries than automatic ports, so no candidate repeats. *)
ASSUME PortsAssumption ==
    /\ EphemeralFirst \in Nat \ {0}
    /\ PortMax \in Nat
    /\ EphemeralTries \in Nat
    /\ MaxSockets < EphemeralTries
    /\ EphemeralTries <= PortMax - EphemeralFirst + 1
    /\ BindPorts \subseteq 1..PortMax

ASSUME DatagramsAssumption ==
    /\ \A d \in Datagrams : d.len \in Nat
    /\ BufSizes \subseteq Nat
    /\ BindIps \subseteq {AnyIp, MyIp, OtherIp}

VARIABLES
    configured,     \* m_configured
    used,           \* m_socks[].used
    localIp,        \* m_socks[].localIp
    localPort,      \* m_socks[].localPort
    qHead,          \* m_socks[].qHead
    qTail,          \* m_socks[].qTail
    qCount,         \* m_socks[].qCount
    next,           \* m_pool[].next
    pkt,            \* the contents of m_pool[]
    freeList,       \* m_freeList
    nextEphemeral,  \* m_nextEphemeral
    rx,             \* the loop of onUdp: the datagram and the entry it is at
    report          \* what the last delivery or udpRecvFrom reported

socketVars == <<used, localIp, localPort>>
queueVars  == <<qHead, qTail, qCount>>
poolVars   == <<next, pkt, freeList>>
vars == <<configured, socketVars, queueVars, poolVars, nextEphemeral, rx, report>>

NoDatagram == [src |-> "none", len |-> 0]
Idle   == [busy |-> FALSE, sock |-> 0, dst |-> MyIp, port |-> 0,
           dgram |-> NoDatagram]
Report(op, n, d) == [op |-> op, n |-> n, dgram |-> d]
Empty == Report("received", -1, NoDatagram)    \* the -1 of an empty queue

(***************************************************************************)
(* reset: what VNet looks like before a network is configured and again    *)
(* after one goes down.                                                    *)
(***************************************************************************)
ResetFreeList == [p \in Pkts |-> IF p + 1 < PoolPackets THEN p + 1 ELSE Nil]

Init ==
    /\ configured = FALSE
    /\ used = [s \in Socks |-> FALSE]
    /\ localIp = [s \in Socks |-> AnyIp]
    /\ localPort = [s \in Socks |-> 0]
    /\ qHead = [s \in Socks |-> Nil]
    /\ qTail = [s \in Socks |-> Nil]
    /\ qCount = [s \in Socks |-> 0]
    /\ next = ResetFreeList
    /\ pkt = [p \in Pkts |-> NoDatagram]
    /\ freeList = 0
    /\ nextEphemeral = EphemeralFirst
    /\ rx = Idle
    /\ report = Empty

reset ==
    /\ ~rx.busy
    /\ configured' = FALSE
    /\ used' = [s \in Socks |-> FALSE]
    /\ localIp' = [s \in Socks |-> AnyIp]
    /\ localPort' = [s \in Socks |-> 0]
    /\ qHead' = [s \in Socks |-> Nil]
    /\ qTail' = [s \in Socks |-> Nil]
    /\ qCount' = [s \in Socks |-> 0]
    /\ next' = ResetFreeList
    /\ freeList' = 0
    /\ nextEphemeral' = EphemeralFirst
    /\ UNCHANGED <<pkt, rx, report>>

configure ==
    /\ ~rx.busy
    /\ configured' = TRUE
    /\ UNCHANGED <<socketVars, queueVars, poolVars, nextEphemeral, rx, report>>

(***************************************************************************)
(* onUdp: every open socket bound to the destination port gets a copy.     *)
(***************************************************************************)
onUdp(d, dst, port) ==
    /\ configured
    /\ ~rx.busy
    /\ rx' = [busy |-> TRUE, sock |-> 0, dst |-> dst, port |-> port, dgram |-> d]
    /\ UNCHANGED <<configured, socketVars, queueVars, poolVars, nextEphemeral, report>>

Listens(s) ==
    /\ used[s]
    /\ localPort[s] = rx.port
    /\ localIp[s] = rx.dst \/ localIp[s] = AnyIp \/ rx.dst = BcastIp

NextEntry ==
    rx' = IF rx.sock + 1 < MaxSockets THEN [rx EXCEPT !.sock = @ + 1] ELSE Idle

(* allocPkt, then append the packet to the queue of the socket. *)
pushToSocket(s, d) ==
    LET idx == freeList IN
    /\ freeList' = next[idx]
    /\ pkt' = [pkt EXCEPT ![idx] = d]
    /\ IF qTail[s] = Nil
       THEN /\ next' = [next EXCEPT ![idx] = Nil]
            /\ qHead' = [qHead EXCEPT ![s] = idx]
       ELSE /\ next' = [next EXCEPT ![idx] = Nil, ![qTail[s]] = idx]
            /\ UNCHANGED qHead
    /\ qTail' = [qTail EXCEPT ![s] = idx]
    /\ qCount' = [qCount EXCEPT ![s] = @ + 1]

(* Mutant of PushOutcome: the longest datagram allowed is dropped too. *)
PushOutcomeOffByOne(d) ==
    CASE d.len >= MaxDatagram -> "tooBig"
      [] d.len < MaxDatagram /\ freeList = Nil -> "noBuffer"
      [] OTHER -> "queued"

(* The first test of pushToSocket that stops it, as the counter it bumps. *)
PushOutcome(d) ==
    CASE d.len > MaxDatagram -> "tooBig"
      [] d.len <= MaxDatagram /\ freeList = Nil -> "noBuffer"
      [] OTHER -> "queued"

DeliverToEntry ==
    /\ rx.busy
    /\ Listens(rx.sock)
    /\ PushOutcome(rx.dgram) = "queued"
    /\ pushToSocket(rx.sock, rx.dgram)
    /\ report' = Report("queued", 0, NoDatagram)
    /\ NextEntry
    /\ UNCHANGED <<configured, socketVars, nextEphemeral>>

(* dropTooBig or dropNoBuffer, for this socket only. *)
DropAtEntry ==
    /\ rx.busy
    /\ Listens(rx.sock)
    /\ PushOutcome(rx.dgram) # "queued"
    /\ report' = Report(PushOutcome(rx.dgram), 0, rx.dgram)
    /\ NextEntry
    /\ UNCHANGED <<configured, socketVars, queueVars, poolVars, nextEphemeral>>

SkipEntry ==
    /\ rx.busy
    /\ ~Listens(rx.sock)
    /\ NextEntry
    /\ UNCHANGED <<configured, socketVars, queueVars, poolVars, nextEphemeral, report>>

(***************************************************************************)
(* The socket calls.                                                       *)
(***************************************************************************)

(* The first unused entry; with none, InvalidSocket and no change. *)
udpOpen(s) ==
    /\ ~rx.busy
    /\ ~used[s]
    /\ \A t \in Socks : t < s => used[t]
    /\ used' = [used EXCEPT ![s] = TRUE]
    /\ localIp' = [localIp EXCEPT ![s] = AnyIp]
    /\ localPort' = [localPort EXCEPT ![s] = 0]
    /\ qHead' = [qHead EXCEPT ![s] = Nil]
    /\ qTail' = [qTail EXCEPT ![s] = Nil]
    /\ qCount' = [qCount EXCEPT ![s] = 0]
    /\ UNCHANGED <<configured, poolVars, nextEphemeral, rx, report>>

BoundIp(ip) == IF ip = MyIp THEN AnyIp ELSE ip

bindPort(s, ip, port) ==
    /\ localIp' = [localIp EXCEPT ![s] = BoundIp(ip)]
    /\ localPort' = [localPort EXCEPT ![s] = port]

udpBind(s, ip, port) ==
    /\ ~rx.busy
    /\ used[s]
    /\ bindPort(s, ip, port)
    /\ UNCHANGED <<configured, used, queueVars, poolVars, nextEphemeral, rx, report>>

(* Mutant of EphemeralAt: the counter is not brought back after a wrap. *)
EphemeralAtUnwrapped(k) == nextEphemeral + k

(* The port the k-th try looks at: m_nextEphemeral counts up, and after the
   u16 wraps to 0 it restarts at EphemeralFirst. *)
EphemeralAt(k) ==
    IF nextEphemeral + k <= PortMax
    THEN nextEphemeral + k
    ELSE EphemeralFirst + (nextEphemeral + k - PortMax - 1)

Taken(port) == \E t \in Socks : used[t] /\ localPort[t] = port

(* Mutant of BindsAtTry: the first port, whoever has it. *)
BindsAtFirstTry(k) == k = 0

(* The first try whose port nobody has. *)
BindsAtTry(k) ==
    /\ ~Taken(EphemeralAt(k))
    /\ \A j \in 0..k - 1 : Taken(EphemeralAt(j))

udpBindEphemeral(s, ip) ==
    /\ ~rx.busy
    /\ used[s]
    /\ \E k \in 0..EphemeralTries - 1 :
           /\ BindsAtTry(k)
           /\ bindPort(s, ip, EphemeralAt(k))
           /\ nextEphemeral' = EphemeralAt(k + 1)
    /\ UNCHANGED <<configured, used, queueVars, poolVars, rx, report>>

(* The part of udpSendTo that touches the socket: an unbound one gets an
   automatic port first. *)
udpSendToUnbound(s) ==
    /\ configured
    /\ localPort[s] = 0
    /\ udpBindEphemeral(s, AnyIp)

Truncated(d, max) == Report("received", IF d.len < max THEN d.len ELSE max, d)

udpRecvFromEmpty(s) ==
    /\ ~rx.busy
    /\ used[s]
    /\ qHead[s] = Nil
    /\ report' = Empty
    /\ UNCHANGED <<configured, socketVars, queueVars, poolVars, nextEphemeral, rx>>

udpRecvFromPeek(s, max) ==
    /\ ~rx.busy
    /\ used[s]
    /\ qHead[s] # Nil
    /\ report' = Truncated(pkt[qHead[s]], max)
    /\ UNCHANGED <<configured, socketVars, queueVars, poolVars, nextEphemeral, rx>>

(* Take the head off the queue, then freePkt puts it first on the free list. *)
udpRecvFrom(s, max) ==
    LET idx == qHead[s] IN
    /\ ~rx.busy
    /\ used[s]
    /\ idx # Nil
    /\ report' = Truncated(pkt[idx], max)
    /\ qHead' = [qHead EXCEPT ![s] = next[idx]]
    /\ qTail' = IF next[idx] = Nil THEN [qTail EXCEPT ![s] = Nil] ELSE qTail
    /\ qCount' = [qCount EXCEPT ![s] = @ - 1]
    /\ next' = [next EXCEPT ![idx] = freeList]
    /\ freeList' = idx
    /\ UNCHANGED <<configured, socketVars, pkt, nextEphemeral, rx>>

(* What the loop of udpClose leaves behind.  `at' numbers the packets the
   loop meets, walking from qHead along next until it is negative; each one
   is put on the free list in front of the one before it.                   *)
Walk(s, at, n) ==
    /\ n > 0 => at[0] = qHead[s]
    /\ n = 0 => qHead[s] = Nil
    /\ \A i \in 0..n - 1 : next[at[i]] = IF i = n - 1 THEN Nil ELSE at[i + 1]

(* Mutant of FreeWalked: the queue is dropped and its packets are lost. *)
FreeWalkedNothing(at, n) == UNCHANGED <<freeList, next>>

FreeWalked(at, n) ==
    /\ freeList' = IF n = 0 THEN freeList ELSE at[n - 1]
    /\ next' = [p \in Pkts |->
                  IF \E i \in 0..n - 1 : at[i] = p
                  THEN LET i == CHOOSE j \in 0..n - 1 : at[j] = p
                       IN  IF i = 0 THEN freeList ELSE at[i - 1]
                  ELSE next[p]]

udpClose(s) ==
    /\ ~rx.busy
    /\ used[s]
    /\ \E n \in 0..PoolPackets : \E at \in [0..n - 1 -> Pkts] :
           Walk(s, at, n) /\ FreeWalked(at, n)
    /\ used' = [used EXCEPT ![s] = FALSE]
    /\ localIp' = [localIp EXCEPT ![s] = AnyIp]
    /\ localPort' = [localPort EXCEPT ![s] = 0]
    /\ qHead' = [qHead EXCEPT ![s] = Nil]
    /\ qTail' = [qTail EXCEPT ![s] = Nil]
    /\ qCount' = [qCount EXCEPT ![s] = 0]
    /\ UNCHANGED <<configured, pkt, nextEphemeral, rx, report>>

(***************************************************************************)
(* Properties.                                                             *)
(***************************************************************************)

Deliveries == [busy : BOOLEAN, sock : Socks, dst : DestIps,
               port : BindPorts \cup {0}, dgram : Datagrams \cup {NoDatagram}]
Reports    == [op : {"received", "queued", "noBuffer", "tooBig"},
               n : Nat \cup {-1}, dgram : Datagrams \cup {NoDatagram}]

(* Types: indices into the tables or Nil, ports within u16, automatic ports
   never below EphemeralFirst. *)
TypeOK ==
    /\ configured \in BOOLEAN
    /\ used \in [Socks -> BOOLEAN]
    /\ localIp \in [Socks -> {AnyIp, OtherIp}]
    /\ localPort \in [Socks -> Ports]
    /\ qHead \in [Socks -> Pkts \cup {Nil}]
    /\ qTail \in [Socks -> Pkts \cup {Nil}]
    /\ qCount \in [Socks -> 0..PoolPackets]
    /\ next \in [Pkts -> Pkts \cup {Nil}]
    /\ pkt \in [Pkts -> Datagrams \cup {NoDatagram}]
    /\ freeList \in Pkts \cup {Nil}
    /\ nextEphemeral \in EphemeralFirst..PortMax
    /\ rx \in Deliveries
    /\ report \in Reports

(* A list is a socket's queue, or the free list, which is number -1. *)
Free  == -1
Lists == Socks \cup {Free}
First(l) == IF l = Free THEN freeList ELSE qHead[l]

(* Heads and next fields never lead from one list into another. *)
StaysHome(home) ==
    /\ \A l \in Lists : First(l) # Nil => home[First(l)] = l
    /\ \A p \in Pkts : next[p] # Nil => home[next[p]] = home[p]

(* home and pos say on which list, and how far from its head, every packet
   is: no two share a place, places have no gaps, and next leads from each
   packet to the one after it and ends the list. *)
Placement(home, pos) ==
    /\ \A p, q \in Pkts : home[p] = home[q] /\ pos[p] = pos[q] => p = q
    /\ \A p \in Pkts : \A i \in 0..pos[p] :
           \E q \in Pkts : home[q] = home[p] /\ pos[q] = i
    /\ \A p \in Pkts : \A q \in Pkts :
           next[p] = q <=> home[q] = home[p] /\ pos[q] = pos[p] + 1
    /\ \A l \in Lists : \A p \in Pkts :
           First(l) = p <=> home[p] = l /\ pos[p] = 0

(* The queue fields of a socket describe the list its packets form: the tail
   is its last packet, the count its length, and a closed socket has none. *)
QueueFields(home, pos) ==
    \A s \in Socks :
        /\ \A p \in Pkts :
               qTail[s] = p <=> home[p] = s /\ pos[p] = qCount[s] - 1
        /\ \A p \in Pkts : home[p] = s => pos[p] < qCount[s]
        /\ qCount[s] > 0 => qTail[s] # Nil
        /\ ~used[s] => qCount[s] = 0

(* No packet is lost and none is on two lists: at every moment the packets
   are exactly shared out between the free list and the queues of open
   sockets, each of them a proper list (allocPkt, freePkt, pushToSocket,
   udpRecvFrom, udpClose and reset together). *)
PoolPartitioned ==
    \E home \in [Pkts -> Lists] :
        /\ StaysHome(home)
        /\ \E pos \in [Pkts -> 0..PoolPackets - 1] :
               Placement(home, pos) /\ QueueFields(home, pos)

(* An automatic port is a real port of the automatic range, and no other
   open socket has it, also after the counter has wrapped (udpBind). *)
AutomaticPortIsFresh ==
    [][\A s \in Socks :
          used'[s] /\ localPort'[s] # localPort[s] /\ nextEphemeral' # nextEphemeral
          => /\ localPort'[s] \in EphemeralFirst..PortMax
             /\ \A t \in Socks \ {s} : used[t] => localPort[t] # localPort'[s]]_vars

(***************************************************************************)
(* The node thread resets, configures and delivers; the shim's thread      *)
(* makes the socket calls.                                                 *)
(***************************************************************************)
NodeStep ==
    \/ reset
    \/ configure
    \/ \E d \in Datagrams, dst \in DestIps, port \in BindPorts : onUdp(d, dst, port)
    \/ DeliverToEntry
    \/ DropAtEntry
    \/ SkipEntry

CallStep ==
    \E s \in Socks :
        \/ udpOpen(s)
        \/ \E ip \in BindIps, port \in BindPorts : udpBind(s, ip, port)
        \/ s \in AutoBinders /\ \E ip \in BindIps : udpBindEphemeral(s, ip)
        \/ s \in AutoBinders /\ udpSendToUnbound(s)
        \/ udpRecvFromEmpty(s)
        \/ \E max \in BufSizes : udpRecvFromPeek(s, max)
        \/ \E max \in BufSizes : udpRecvFrom(s, max)
        \/ udpClose(s)

Next == NodeStep \/ CallStep

Spec == Init /\ [][Next]_vars

(***************************************************************************)
(* What the lists are for.                                                 *)
(***************************************************************************)

(* The n-th packet of a list from its head, which is the first. *)
PacketAt(head, follow, n) ==
    LET walk[i \in 1..n] == IF i = 1 THEN head ELSE follow[walk[i - 1]]
    IN  walk[n]

QueueOf(s) == [i \in 1..qCount[s] |-> pkt[PacketAt(qHead[s], next, i)]]

Abstract == INSTANCE DatagramQueues WITH
    Sockets <- Socks, Capacity <- PoolPackets, MaxLen <- MaxDatagram,
    Payloads <- Datagrams, Sizes <- BufSizes,
    open <- used, queue <- [s \in Socks |-> QueueOf(s)], report <- report

(* The sockets keep the promise of DatagramQueues: datagrams come out of
   each socket in the order they arrived for it, whole or cut to the buffer,
   once; only a datagram that is too long or finds all PoolPackets queued is
   lost; nothing of an earlier owner is left in a reopened socket. *)
SocketsAreQueues == Abstract!Spec
=============================================================================
