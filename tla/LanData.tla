------------------------------ MODULE LanData ------------------------------
(***************************************************************************)
(* The data path of the bsd:u shim (source/mitm/bsd_shim.cpp): how a       *)
(* game's calls on a UDP socket are split between the virtual network and  *)
(* the real bsd service.  SendTo, Send, Write, SendMMsg, Recv, Read,       *)
(* RecvFrom, RecvMMsg, Select, Poll, Connect and the two name calls.       *)
(*                                                                         *)
(* One thread serves the game, so one call is in progress at a time (pc),  *)
(* and only it changes the shim's table.  A call is several steps: each    *)
(* use of the VNet takes Port::m_vnetLock for itself, and a forwarded call *)
(* waits in the real service.  Between two of them the node thread may     *)
(* deliver datagrams, reset the VNet or give it an address again.          *)
(*                                                                         *)
(* Payloads are abstracted to what decides their way: the destination,     *)
(* whether the VNet refuses the length, whether it is a browse reply.      *)
(* Queues are their lengths (VNetSockets has their contents).  Sockets are *)
(* not closed here and a mirror is opened in one step; LanMirror has the   *)
(* life of the table.  The real service is modelled from how it is used.   *)
(***************************************************************************)
EXTENDS Integers, Sequences, FiniteSetsExt

CONSTANTS
    Fds,        \* the game's UDP sockets, numbers
    NoFd,       \* net::InvalidSocket
    MaxSockets, \* m_socks of the VNet (vnet.hpp: 16)
    MaxQueue,   \* bound: datagrams waiting on one socket, virtual or real
    MaxResets,  \* bound: resets of the VNet
    Games       \* bounds: the calls a game makes, see game

(* Destinations by what the shim's tests tell apart: hosts of the overlay
   network, its broadcast address, 255.255.255.255, hosts of the physical
   network and its broadcast address.  A network wider than /24 has hosts
   whose last octet is 255. *)
LanHosts  == {"peer", "peer255"}
WifiHosts == {"wifiHost", "wifiHost255"}
Hosts     == LanHosts \cup WifiHosts
Dests     == Hosts \cup {"lanBroadcast", "everyone", "wifiBroadcast"}
Subnet    == LanHosts \cup {"lanBroadcast"}
NoDest    == "none"

(* A message: to NoDest if the call names no destination; big if it is longer
   than the VNet's MaxDatagram; reply if it is a PIA browse reply. *)
Messages == [to : Dests \cup {NoDest}, big : BOOLEAN, reply : BOOLEAN]

ASSUME DataAssumption ==
    /\ MaxSockets \in Nat \ {0}
    /\ MaxQueue \in Nat \ {0}
    /\ MaxResets \in Nat
    /\ Fds \subseteq Nat /\ IsFiniteSet(Fds)
    /\ NoFd \notin Fds \cup 0..MaxSockets - 1
    /\ \A g \in Games : /\ g.senders \subseteq Fds /\ g.readers \subseteq Fds
                        /\ g.faulty \subseteq Fds
                        /\ g.batches \subseteq Seq(Messages) \ {<<>>}  \* vlen > 0
                        /\ g.singles \subseteq Messages
                        /\ g.peers \subseteq Dests
                        /\ g.ends255 \subseteq {"lanBroadcast", "wifiBroadcast"}
                        /\ g.watches \subseteq [Fds -> SUBSET {"in", "out"}]

VARIABLES
    game,       \* the sockets and messages this game uses, whose physical route
                \* may fail, which broadcast addresses end in 255 (prefix up to /24)
    configured, \* m_vnet.configured()
    open,       \* the VNet sockets in use
    queued,     \* datagrams waiting on each of them
    resets,     \* how often the VNet has been reset
    table,      \* g_lan_sockets: boundPort # 0, vnetFd if mirrored, connected peer
    real,       \* the real sockets: bound, peer, datagrams waiting, pending error
    pc,         \* where the server thread is in the call
    call,       \* the call in progress, or the last one, with its results
    sent,       \* what it has put on which network
    healthy     \* history: the VNet has not been reset since the call began, and
                \* the socket it names was usable then

vnetVars == <<configured, open, queued, resets>>
vars == <<game, vnetVars, table, real, pc, call, sent, healthy>>

VFds    == 0..MaxSockets - 1
Sends   == {"SendTo", "Send", "SendMMsg"}
Reads   == {"Recv", "RecvFrom", "Read", "RecvMMsg"}
Waits   == {"Select", "Poll"}
Nothing == [f \in Fds |-> {}]

(* How long the game lets a call wait: not at all, some time, for ever. *)
Timeouts == {"now", "bounded", "never"}

(* wait and peek are what the real service is asked for; todo are the watched
   sockets the loop of Select or Poll has still to look at. *)
NoCall == [op |-> "none", fd |-> NoFd, msgs |-> <<>>, peek |-> FALSE, wait |-> "now",
           watch |-> Nothing, todo |-> {}, ret |-> 0, err |-> "ok", ready |-> Nothing,
           name |-> NoDest]

Init ==
    /\ game \in Games
    /\ configured = FALSE
    /\ open = {}
    /\ queued = [v \in VFds |-> 0]
    /\ resets = 0
    /\ table = [f \in Fds |-> [port |-> FALSE, vfd |-> NoFd, peer |-> NoDest]]
    /\ real = [f \in Fds |-> [bound |-> FALSE, peer |-> NoDest, rx |-> 0, error |-> "ok"]]
    /\ pc = "idle"
    /\ call = NoCall
    /\ sent = <<>>
    /\ healthy = FALSE

(***************************************************************************)
(* Looking up the table.                                                   *)
(***************************************************************************)
GetLanVfd(f) == table[f].vfd
Mirrored(f)  == GetLanVfd(f) # NoFd
Usable(f)    == configured /\ GetLanVfd(f) \in open

(* Mutant of LanSocketReadable: an open socket is taken for a readable one. *)
LanSocketOpen(f) == GetLanVfd(f) \in open

LanSocketReadable(f) == GetLanVfd(f) \in open /\ queued[GetLanVfd(f)] > 0

IsOverlayDestination(d) == configured /\ d \in Subnet \cup {"everyone"}

(* A mirror for a bound socket, if the VNet has an address and a socket left. *)
EnsureLanMirror(f, port) ==
    LET candidate == Min(VFds \ open)
        wanted == port /\ ~Mirrored(f) /\ configured /\ open # VFds
    IN
    /\ table' = [table EXCEPT ![f].port = port, ![f].vfd = IF wanted THEN candidate ELSE @]
    /\ open' = IF wanted THEN open \cup {candidate} ELSE open

(* A call begins; what is not said of it is as in NoCall. *)
Begins(f) ==
    /\ pc = "idle"
    /\ sent' = <<>>
    /\ healthy' = (f \in Fds => Usable(f))
    /\ UNCHANGED <<game, configured, queued, resets, real>>

Returns(ret, err) ==
    /\ pc' = "idle"
    /\ call' = [call EXCEPT !.ret = ret, !.err = err]

(***************************************************************************)
(* Bind to a LAN port, and the two name calls.                             *)
(***************************************************************************)
Bind(f) ==
    /\ pc = "idle"
    /\ ~real[f].bound
    /\ real' = [real EXCEPT ![f].bound = TRUE]
    /\ EnsureLanMirror(f, TRUE)
    /\ call' = [NoCall EXCEPT !.op = "Bind", !.fd = f]
    /\ sent' = <<>>
    /\ healthy' = FALSE
    /\ UNCHANGED <<game, configured, queued, resets, pc>>

(* The port comes from the real socket and is learnt on the way; the address
   is the managed one for a mirrored socket. *)
GetSockName(f) ==
    /\ Begins(f)
    /\ call' = [NoCall EXCEPT !.op = "GetSockName", !.fd = f,
                   !.name = IF Mirrored(f) /\ configured THEN "managed" ELSE "physical"]
    /\ table' = [table EXCEPT ![f].port = @ \/ real[f].bound]
    /\ UNCHANGED <<open, pc>>

GetPeerName(f) ==
    LET name == IF Mirrored(f) /\ table[f].peer # NoDest THEN table[f].peer ELSE real[f].peer IN
    /\ Begins(f)
    /\ call' = [NoCall EXCEPT !.op = "GetPeerName", !.fd = f, !.name = name,
                   !.ret = IF name = NoDest THEN -1 ELSE 0]
    /\ UNCHANGED <<open, table, pc>>

(***************************************************************************)
(* Sending.                                                                *)
(***************************************************************************)

(* What SendTo takes for a broadcast: every address whose last octet is 255,
   whatever the prefix; a broadcast address that ends otherwise is none. *)
LastOctet255 == {"peer255", "wifiHost255", "everyone"} \cup game.ends255

(* SendTo, up to the VNet: the first broadcast of a bound socket opens its
   mirror. *)
SendTo(f, m) ==
    /\ m.to # NoDest
    /\ Begins(f)
    /\ IF m.to \in LastOctet255 THEN EnsureLanMirror(f, table[f].port)
       ELSE UNCHANGED <<table, open>>
    /\ call' = [NoCall EXCEPT !.op = "SendTo", !.fd = f, !.msgs = <<m>>]
    /\ pc' = IF table'[f].vfd # NoFd THEN "emit" ELSE "forward"

(* Send and Write: for a connected mirror. *)
Send(f, m) ==
    /\ m.to = NoDest
    /\ Begins(f)
    /\ call' = [NoCall EXCEPT !.op = "Send", !.fd = f, !.msgs = <<m>>]
    /\ pc' = IF Mirrored(f) /\ table[f].peer # NoDest THEN "emit" ELSE "forward"
    /\ UNCHANGED <<open, table>>

(* The destination the shim takes for a message. *)
To(f, m) == IF m.to = NoDest THEN table[f].peer ELSE m.to

(* SendMMsg with the first loop of MirrorMMsgBuffer: a batch goes to the VNet
   only if every message of it has a destination on the overlay. *)
SendMMsg(f, ms) ==
    /\ Begins(f)
    /\ call' = [NoCall EXCEPT !.op = "SendMMsg", !.fd = f, !.msgs = ms]
    /\ pc' = IF Mirrored(f) /\ \A i \in DOMAIN ms : IsOverlayDestination(To(f, ms[i]))
             THEN "emit" ELSE "forward"
    /\ UNCHANGED <<open, table>>

(* Which messages are sent as the overlay's broadcast. *)
AsBroadcast(m) ==
    \/ call.op = "SendTo" /\ m.to \in LastOctet255 /\ ~m.reply
    \/ call.op = "SendMMsg" /\ To(call.fd, m) \in {"everyone", "lanBroadcast"}

(* MirrorLanBroadcast and MirrorLanDatagram with udpSendTo: what the VNet
   takes, even if it then asks for the neighbour and drops the datagram. *)
Accepts(m) ==
    /\ Usable(call.fd)
    /\ ~m.big
    /\ AsBroadcast(m) \/ To(call.fd, m) \in Subnet

OnLan(m) == [net |-> "lan", to |-> IF AsBroadcast(m) THEN "lanBroadcast" ELSE To(call.fd, m)]

(* Mutant of GiveUp: a batch that was cut short is handed on as a whole. *)
GiveUpAll == pc' = "forward" /\ UNCHANGED call

(* A message was refused: what was sent before it counts; if there was none
   the call is forwarded. *)
GiveUp ==
    IF sent = <<>> THEN pc' = "forward" /\ UNCHANGED call
    ELSE Returns(Len(sent), "ok")

(* One message to the VNet: the whole of SendTo and Send, or a turn of the
   second loop of MirrorMMsgBuffer. *)
Emit ==
    LET m == call.msgs[Len(sent) + 1] IN
    /\ pc = "emit"
    /\ \/ /\ Accepts(m)
          /\ sent' = Append(sent, OnLan(m))
          /\ IF Len(sent') = Len(call.msgs) THEN Returns(Len(sent'), "ok")
             ELSE UNCHANGED <<pc, call>>
       \/ /\ ~Accepts(m)
          /\ GiveUp
          /\ UNCHANGED sent
    /\ UNCHANGED <<game, vnetVars, table, real, healthy>>

(* Where the real service sends a message. *)
RealTo(f, m) == IF m.to = NoDest THEN real[f].peer ELSE m.to

(* The real service takes the first n messages, or none and says why. *)
ForwardSend ==
    LET f == call.fd IN
    /\ pc = "forward"
    /\ call.op \in Sends
    /\ \/ \E n \in 1..Len(call.msgs) :
              /\ \A i \in 1..n : RealTo(f, call.msgs[i]) # NoDest
              /\ sent' = sent \o [i \in 1..n |-> [net |-> "wifi", to |-> RealTo(f, call.msgs[i])]]
              /\ Returns(n, "ok")
              /\ real' = [real EXCEPT ![f].bound = TRUE]
       \/ /\ f \in game.faulty \/ RealTo(f, call.msgs[1]) = NoDest
          /\ Returns(-1, IF RealTo(f, call.msgs[1]) = NoDest THEN "unconnected" ELSE "route")
          /\ UNCHANGED <<sent, real>>
    /\ UNCHANGED <<game, vnetVars, table, healthy>>

(***************************************************************************)
(* Connect.  "unspec" is AF_UNSPEC, which disconnects.                     *)
(***************************************************************************)
Peer(d) == IF d = "unspec" THEN NoDest ELSE d

(* On a mirror, an overlay destination and a disconnect stay in the table. *)
ConnectLan(f, d) ==
    /\ Mirrored(f)
    /\ d = "unspec" \/ IsOverlayDestination(d)
    /\ Begins(f)
    /\ call' = [NoCall EXCEPT !.op = "Connect", !.fd = f, !.name = Peer(d)]
    /\ table' = [table EXCEPT ![f].peer = Peer(d)]
    /\ UNCHANGED <<open, pc>>

ConnectReal(f, d) ==
    /\ ~(Mirrored(f) /\ (d = "unspec" \/ IsOverlayDestination(d)))
    /\ Begins(f)
    /\ call' = [NoCall EXCEPT !.op = "Connect", !.fd = f, !.name = Peer(d)]
    /\ pc' = "forward"
    /\ UNCHANGED <<open, table>>

ForwardConnect ==
    LET f == call.fd IN
    /\ pc = "forward"
    /\ call.op = "Connect"
    /\ \/ /\ real' = [real EXCEPT ![f].peer = call.name, ![f].bound = TRUE]
          /\ table' = [table EXCEPT ![f].peer = call.name]
          /\ Returns(0, "ok")
       \/ /\ f \in game.faulty
          /\ Returns(-1, "route")
          /\ UNCHANGED <<real, table>>
    /\ UNCHANGED <<game, vnetVars, sent, healthy>>

(***************************************************************************)
(* Receiving.                                                              *)
(***************************************************************************)

(* Recv, RecvFrom and Read: a queued virtual datagram wins over the real
   socket.  Read has no flags, and RecvMMsg only forwards. *)
Receive(op, f, peek, wait) ==
    LET virtual == op # "RecvMMsg" /\ LanSocketReadable(f) IN
    /\ op = "Read" => ~peek
    /\ pc = "idle"
    /\ sent' = <<>>
    /\ healthy' = Usable(f)
    /\ call' = [NoCall EXCEPT !.op = op, !.fd = f, !.peek = peek, !.wait = wait,
                             !.ret = IF virtual THEN 1 ELSE 0]
    /\ pc' = IF virtual THEN "idle" ELSE "forward"
    /\ queued' = IF virtual /\ ~peek THEN [queued EXCEPT ![GetLanVfd(f)] = @ - 1] ELSE queued
    /\ UNCHANGED <<game, configured, open, resets, table, real>>

(* Mutant of SuppressPhysicalUdpError: the physical error is passed on. *)
PassPhysicalUdpError(f, e) == e

(* On a mirrored socket a late route error is reported as no data yet. *)
SuppressPhysicalUdpError(f, e) ==
    IF call.op # "RecvMMsg" /\ Mirrored(f) /\ e = "route" THEN "again" ELSE e

(* The real service has an error, a datagram or nothing for the call; it keeps
   a call that may wait. *)
ForwardReceive ==
    LET f == call.fd
        error == real[f].error
        some == real[f].rx > 0
    IN
    /\ pc = "forward"
    /\ call.op \in Reads
    /\ \/ /\ error # "ok"
          /\ real' = [real EXCEPT ![f].error = "ok"]
          /\ Returns(-1, SuppressPhysicalUdpError(f, error))
       \/ /\ error = "ok" /\ some
          /\ real' = [real EXCEPT ![f].rx = IF call.peek THEN @ ELSE @ - 1]
          /\ Returns(1, "ok")
       \/ /\ error = "ok" /\ ~some /\ call.wait # "never"
          /\ Returns(-1, "again")
          /\ UNCHANGED real
    /\ UNCHANGED <<game, vnetVars, table, sent, healthy>>

(***************************************************************************)
(* Select and Poll.                                                        *)
(***************************************************************************)
Watched(w)   == {f \in Fds : "in" \in w[f]}
WatchesVNet  == \E f \in Watched(call.watch) : Mirrored(f)

(* The watched sockets are looked at one by one, each under the VNet's lock. *)
StartWait(op, w, t) ==
    /\ Begins(NoFd)
    /\ call' = [NoCall EXCEPT !.op = op, !.watch = w, !.wait = t, !.todo = Watched(w)]
    /\ pc' = "look"
    /\ UNCHANGED <<open, table>>

First == Min(call.todo)

(* Mutant of PhysicalWait: the game's timeout is kept when nothing was found. *)
PhysicalWaitAsAsked == call.wait

(* Nothing found on a mirrored socket: the real service may wait 10 ms. *)
PhysicalWait == IF WatchesVNet /\ call.wait # "now" THEN "bounded" ELSE call.wait

(* The first loop: Select leaves it at the first readable mirror, Poll goes on;
   a readable mirror turns the wait into a look. *)
Look ==
    /\ pc = "look"
    /\ IF call.todo = {}
       THEN call' = [call EXCEPT !.wait = PhysicalWait] /\ pc' = "forward"
       ELSE IF ~LanSocketReadable(First)
       THEN call' = [call EXCEPT !.todo = @ \ {First}] /\ UNCHANGED pc
       ELSE /\ call' = [call EXCEPT !.wait = "now",
                                   !.todo = IF call.op = "Select" THEN {} ELSE @ \ {First}]
            /\ UNCHANGED pc
    /\ UNCHANGED <<game, vnetVars, table, real, sent, healthy>>

(* What the real service calls the number of ready sockets: Select counts the
   bits of its sets, Poll the entries with an event. *)
RealCount(op, ready) ==
    IF op = "Select" THEN Cardinality({b \in Fds \X {"in", "out"} : b[2] \in ready[b[1]]})
    ELSE Cardinality({f \in Fds : ready[f] # {}})

(* The real service answers when a real socket is ready or the wait is over;
   the result is merged if a mirror was watched. *)
ForwardWait ==
    /\ pc = "forward"
    /\ call.op \in Waits
    /\ \E w \in SUBSET {f \in Fds : "out" \in call.watch[f]} :
          LET readable == {f \in Watched(call.watch) : real[f].rx > 0 \/ real[f].error # "ok"}
              ready == [f \in Fds |-> (IF f \in readable THEN {"in"} ELSE {})
                                     \cup (IF f \in w THEN {"out"} ELSE {})]
          IN
          /\ call.wait # "never" \/ ready # Nothing
          /\ call' = [call EXCEPT !.ready = ready, !.ret = RealCount(call.op, ready),
                                 !.todo = IF WatchesVNet THEN Watched(call.watch) ELSE {}]
          /\ pc' = IF WatchesVNet THEN "merge" ELSE "idle"
    /\ UNCHANGED <<game, vnetVars, table, real, sent, healthy>>

(* It may also refuse the call. *)
RefuseWait ==
    /\ pc = "forward"
    /\ call.op \in Waits
    /\ Returns(-1, "fail")
    /\ UNCHANGED <<game, vnetVars, table, real, sent, healthy>>

(* Mutant of CountsAsNew: Poll takes Select's rule. *)
CountsAsNewBit(f) == "in" \notin call.ready[f]

(* Whether a readable mirror adds one to the real count. *)
CountsAsNew(f) ==
    IF call.op = "Select" THEN "in" \notin call.ready[f] ELSE call.ready[f] = {}

(* The second loop. *)
Merge ==
    /\ pc = "merge"
    /\ call' = IF call.todo = {} THEN call
               ELSE IF ~LanSocketReadable(First) THEN [call EXCEPT !.todo = @ \ {First}]
               ELSE [call EXCEPT !.todo = @ \ {First},
                                 !.ret = IF CountsAsNew(First) THEN @ + 1 ELSE @,
                                 !.ready[First] = @ \cup {"in"}]
    /\ pc' = IF call.todo = {} THEN "idle" ELSE "merge"
    /\ UNCHANGED <<game, vnetVars, table, real, sent, healthy>>

(***************************************************************************)
(* The node thread and the physical network.                               *)
(***************************************************************************)

(* A datagram for a VNet socket that has room. *)
Deliver(v) ==
    /\ v \in open
    /\ queued[v] < MaxQueue
    /\ queued' = [queued EXCEPT ![v] = @ + 1]
    /\ UNCHANGED <<game, configured, open, resets, table, real, pc, call, sent, healthy>>

(* The VNet gets its address. *)
Configure ==
    /\ ~configured
    /\ configured' = TRUE
    /\ UNCHANGED <<game, open, queued, resets, table, real, pc, call, sent, healthy>>

(* The VNet is reset: no address, no sockets, no datagrams. *)
Reset ==
    /\ resets < MaxResets
    /\ configured
    /\ configured' = FALSE
    /\ open' = {}
    /\ queued' = [v \in VFds |-> 0]
    /\ resets' = resets + 1
    /\ healthy' = FALSE
    /\ UNCHANGED <<game, table, real, pc, call, sent>>

WifiArrives(f) ==
    /\ real[f].bound
    /\ real[f].rx < MaxQueue
    /\ real' = [real EXCEPT ![f].rx = @ + 1]
    /\ UNCHANGED <<game, vnetVars, table, pc, call, sent, healthy>>

(* A late ICMP or route error of an earlier physical datagram. *)
RouteError(f) ==
    /\ real[f].bound
    /\ real[f].error = "ok"
    /\ real' = [real EXCEPT ![f].error = "route"]
    /\ UNCHANGED <<game, vnetVars, table, pc, call, sent, healthy>>

(* The game's calls, the server thread's further steps, everyone else's. *)
Calls ==
    \/ \E f \in Fds : Bind(f)
    \/ \E f \in game.senders :
          \/ GetSockName(f)
          \/ GetPeerName(f)
          \/ \E m \in game.singles : SendTo(f, m) \/ Send(f, m)
          \/ \E ms \in game.batches : SendMMsg(f, ms)
          \/ \E d \in game.peers \cup {"unspec"} : ConnectLan(f, d) \/ ConnectReal(f, d)
    \/ \E op \in Reads, f \in game.readers, peek \in BOOLEAN, wait \in {"now", "never"} :
          Receive(op, f, peek, wait)
    \/ \E op \in Waits, w \in game.watches, t \in Timeouts : StartWait(op, w, t)

Server == Emit \/ ForwardSend \/ ForwardConnect \/ ForwardReceive \/ Look \/ ForwardWait \/ Merge

Environment ==
    \/ \E v \in VFds : Deliver(v)
    \/ Configure
    \/ Reset
    \/ \E f \in game.readers : WifiArrives(f)
    \/ \E f \in game.faulty : RouteError(f)

Next == Calls \/ Server \/ RefuseWait \/ Environment

(* The server thread goes on, and the real service ends a wait it was given a
   bound for; it need not refuse one. *)
Spec == Init /\ [][Next]_vars /\ WF_vars(Server)

(***************************************************************************)
(* Properties.                                                             *)
(***************************************************************************)

Calling == [op : {"none", "Bind", "GetSockName", "GetPeerName", "Connect"} \cup Sends \cup Reads \cup Waits,
            fd : Fds \cup {NoFd}, msgs : Seq(Messages), peek : BOOLEAN, wait : Timeouts,
            watch : [Fds -> SUBSET {"in", "out"}], todo : SUBSET Fds, ret : Int,
            err : {"ok", "route", "again", "unconnected", "fail"},
            ready : [Fds -> SUBSET {"in", "out"}],
            name : Dests \cup {NoDest, "managed", "physical"}]

(* The variables have their types; a mirror names a socket of the VNet. *)
TypeOK ==
    /\ game \in Games
    /\ configured \in BOOLEAN
    /\ open \subseteq VFds
    /\ queued \in [VFds -> 0..MaxQueue]
    /\ resets \in 0..MaxResets
    /\ table \in [Fds -> [port : BOOLEAN, vfd : VFds \cup {NoFd}, peer : Dests \cup {NoDest}]]
    /\ real \in [Fds -> [bound : BOOLEAN, peer : Dests \cup {NoDest},
                         rx : 0..MaxQueue, error : {"ok", "route"}]]
    /\ pc \in {"idle", "emit", "look", "merge", "forward"}
    /\ call \in Calling
    /\ sent \in Seq([net : {"lan", "wifi"}, to : Dests])
    /\ healthy \in BOOLEAN

(* Whether s, on one of the networks, is where message m belongs if m names a
   host: at that host, and at a physical one only by the physical network.
   SendTo may take a host that ends in 255 for the overlay's broadcast. *)
WellAddressed(m, s) ==
    /\ m.to \in Hosts =>
          \/ s.to = m.to
          \/ /\ call.op = "SendTo" /\ m.to \in LastOctet255
             /\ s = [net |-> "lan", to |-> "lanBroadcast"]
    /\ s.to \in WifiHosts => s.net = "wifi"

(* What SendTo, Send, Write and SendMMsg answer is what they sent: ret counts
   the messages that left, in order, all of them on one network, and a failed
   call sent none.  A batch the VNet takes only in part, because a message is
   too long or the VNet is reset between two of them, is not repeated on the
   physical network.  What names a host goes to that host, to a physical one
   never over the overlay; the one exception is a host ending in 255, which
   SendTo may send as the overlay's broadcast. *)
AccountedSends ==
    pc = "idle" /\ call.op \in Sends =>
        /\ Len(sent) = IF call.ret < 0 THEN 0 ELSE call.ret
        /\ \A i, j \in DOMAIN sent : sent[i].net = sent[j].net
        /\ \A i \in DOMAIN sent : WellAddressed(call.msgs[i], sent[i])

(* What a game may expect the overlay to carry. *)
ForOverlay(m) ==
    /\ ~m.big
    /\ \/ To(call.fd, m) \in Subnet
       \/ To(call.fd, m) = "everyone" /\ call.op # "Send" /\ ~m.reply

(* As long as the VNet keeps its address and the mirror's socket, everything
   for the overlay goes out there and only there, whatever the physical route
   is worth, and no single receive reports a physical route error. *)
OverlayServes ==
    pc = "idle" /\ healthy =>
        /\ call.op \in Sends /\ (\A i \in DOMAIN call.msgs : ForOverlay(call.msgs[i]))
              => /\ call.ret = Len(call.msgs)
                 /\ \A i \in DOMAIN sent : sent[i].net = "lan"
        /\ call.op \in Reads \ {"RecvMMsg"} => call.err # "route"

(* Select or Poll returns to the game without an error. *)
WaitEnds == pc # "idle" /\ pc' = "idle" /\ call.op \in Waits /\ call'.ret >= 0

(* The count agrees with the sets, and only what was asked for is set. *)
CountAgrees ==
    /\ call'.ret = RealCount(call.op, call'.ready)
    /\ \A f \in Fds : call'.ready[f] \subseteq call.watch[f]

(* There is something to read, on one of the two networks. *)
Readable(f) == LanSocketReadable(f) \/ real[f].rx > 0 \/ real[f].error # "ok"

(* What the game reads off a successful Select or Poll is so when the call
   returns: the count agrees with the sets and, unless the VNet was reset
   meanwhile, a socket it reports readable has something to read.  Datagrams
   may arrive between the two looks at a socket, and between the looks at two
   sockets. *)
ReadyIsTrue ==
    [][WaitEnds => /\ CountAgrees
                   /\ healthy => \A f \in Fds : "in" \in call'.ready[f] => Readable(f)]_vars

(* A datagram queued for a watched mirror before the real service answers ends
   the call and is reported, even if it came after the first look and the
   game's timeout is infinite, unless the real service fails or the VNet is
   reset. *)
QueuedIsReported ==
    \A f \in Fds :
        (pc \in {"look", "forward"} /\ f \in Watched(call.watch) /\ LanSocketReadable(f))
            ~> /\ pc = "idle" /\ call.op \in Waits
               /\ "in" \in call.ready[f] \/ call.ret < 0 \/ ~healthy

=============================================================================
