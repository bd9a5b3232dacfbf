----------------------------- MODULE LanMirror -----------------------------
(***************************************************************************)
(* The shim's table of game sockets that are mirrored on the virtual LAN   *)
(* (g_lan_sockets in source/mitm/bsd_shim.cpp) beside the VNet's sockets   *)
(* it refers to.                                                           *)
(*                                                                         *)
(* Two threads work on them.  The bsd:u server thread runs one handler at  *)
(* a time (`call'); the node thread resets and configures the VNet from    *)
(* ZeroTier's callbacks and sweeps out the sockets of processes that have  *)
(* exited (`sweep').  The table has g_lan_sockets_lock, the VNet           *)
(* Port::m_vnetLock, and the code never holds both: every locked section   *)
(* is one step here, and the other thread may step in between.             *)
(*                                                                         *)
(* Real bsd, which assigns descriptors and checks binds, and the kernel,   *)
(* which ends processes, are outside the repository.  A handler whose      *)
(* forwarded call fails changes nothing and is left out, and so are reads: *)
(* receiving and sending use the table without changing it.                *)
(***************************************************************************)
EXTENDS Integers, FiniteSets

CONSTANTS
    Pids,        \* game processes
    Fds,         \* descriptors of one process
    MaxLanSockets,  \* entries of g_lan_sockets (bsd_shim.cpp: 8)
    MaxSockets,     \* sockets of the VNet      (vnet.hpp: 8)
    Ports,       \* ports games bind, not 0
    PiaPorts,    \* those IsPiaLanPort accepts
    NoPid,       \* pid 0: a free entry
    MaxResets    \* bound: how often the virtual network goes down

Entries == 0..MaxLanSockets - 1
Vfds    == 0..MaxSockets - 1
Invalid == -1                    \* net::InvalidSocket

ASSUME MirrorAssumption ==
    /\ NoPid \notin Pids
    /\ MaxLanSockets \in Nat \ {0}
    /\ MaxSockets \in Nat \ {0}
    /\ Ports \subseteq Nat \ {0}
    /\ PiaPorts \subseteq Ports
    /\ MaxResets \in Nat

VARIABLES
    table,       \* g_lan_sockets
    configured,  \* m_vnet.configured()
    used,        \* the VNet's m_socks[].used
    vport,       \* the VNet's m_socks[].localPort
    call,        \* the handler the server thread is in
    sweep,       \* the node thread's ForgetLanSocketsForPid
    alive,       \* processes that run
    sessions,    \* processes with a bsd:u session object
    parked,      \* processes with an entry in g_parked_forward_services
    counted,     \* processes with an entry in g_client_sessions
    real,        \* real bsd: per process, its descriptors and their ports
    resets       \* how often the network has gone down

vnetVars == <<configured, used, vport>>
osVars   == <<alive, sessions, real>>
known    == <<parked, counted>>  \* what CleanupAbandonedServices looks for
vars == <<table, vnetVars, call, sweep, osVars, known, resets>>

Closed   == -1                   \* a descriptor that is not open; 0 is unbound
NoEntry  == [pid |-> NoPid, fd |-> 0, vfd |-> 0, port |-> 0,
             broadcast |-> FALSE, mirrored |-> FALSE]
NoCall   == [at |-> "idle", pid |-> NoPid, fd |-> 0, port |-> 0,
             vfd |-> Invalid, close |-> {}]
NoSweep  == [at |-> "idle", pid |-> NoPid, close |-> {}]

Init ==
    /\ table = [e \in Entries |-> NoEntry]
    /\ configured = FALSE
    /\ used = [v \in Vfds |-> FALSE]
    /\ vport = [v \in Vfds |-> 0]
    /\ call = NoCall
    /\ sweep = NoSweep
    /\ alive = Pids
    /\ sessions = Pids
    /\ parked = {}
    /\ counted = Pids
    /\ real = [p \in Pids |-> [f \in Fds |-> Closed]]
    /\ resets = 0

(***************************************************************************)
(* The table.                                                              *)
(***************************************************************************)
Matches(e, p, f) == table[e].pid = p /\ table[e].fd = f

(* FindLanSocketLocked(p, f) returns e. *)
Finds(e, p, f) == Matches(e, p, f) /\ \A d \in Entries : d < e => ~Matches(d, p, f)

NotFound(p, f) == \A e \in Entries : ~Matches(e, p, f)

(* The part of a call that is left: close these VNet sockets, then return. *)
Closing(vs) == [NoCall EXCEPT !.at = IF vs = {} THEN "idle" ELSE "close", !.close = vs]

(* VNet::udpClose, which ignores a socket that is not open. *)
udpClose(v) ==
    /\ used' = [used EXCEPT ![v] = FALSE]
    /\ vport' = [vport EXCEPT ![v] = 0]

(***************************************************************************)
(* Handlers of the server thread, each from its forwarded call on.         *)
(***************************************************************************)
Begins(p, f, at, port) ==
    /\ call.at = "idle"
    /\ p \in alive
    /\ p \in sessions
    /\ call' = [NoCall EXCEPT !.at = at, !.pid = p, !.fd = f, !.port = port]

(* Socket, as far as the forwarded call: real bsd opens a descriptor. *)
Socket(p, f) ==
    /\ real[p][f] = Closed
    /\ real' = [real EXCEPT ![p][f] = 0]
    /\ Begins(p, f, "track", 0)
    /\ UNCHANGED <<table, vnetVars, sweep, alive, sessions, known, resets>>

(* The rest of Socket: the first free entry, if any. *)
SocketTrack ==
    /\ call.at = "track"
    /\ \/ /\ \A e \in Entries : table[e].pid # NoPid
          /\ UNCHANGED table
       \/ \E e \in Entries :
             /\ table[e].pid = NoPid
             /\ \A d \in Entries : d < e => table[d].pid # NoPid
             /\ table' = [table EXCEPT ![e] = [NoEntry EXCEPT
                             !.pid = call.pid, !.fd = call.fd, !.vfd = Invalid]]
    /\ call' = NoCall
    /\ UNCHANGED <<vnetVars, sweep, osVars, known, resets>>

(* Bind: real bsd accepts one bind of an open descriptor. *)
Bind(p, f, port) ==
    /\ real[p][f] = 0
    /\ real' = [real EXCEPT ![p][f] = port]
    /\ Begins(p, f, "bind", port)
    /\ UNCHANGED <<table, vnetVars, sweep, alive, sessions, known, resets>>

(* Then the port is noted, and a LAN port, or a socket that broadcasts, is
   mirrored. *)
BindNote ==
    /\ call.at = "bind"
    /\ \/ NotFound(call.pid, call.fd) /\ call' = NoCall /\ UNCHANGED table
       \/ \E e \in Entries :
             /\ Finds(e, call.pid, call.fd)
             /\ table' = [table EXCEPT ![e].port = call.port]
             /\ call' = IF call.port \in PiaPorts \/ table[e].broadcast
                        THEN [call EXCEPT !.at = "ensure"] ELSE NoCall
    /\ UNCHANGED <<vnetVars, sweep, osVars, known, resets>>

(* SetSockOpt(SO_BROADCAST): a bound socket that turns it on is mirrored. *)
SetSockOpt(p, f, on) ==
    /\ real[p][f] # Closed
    /\ Begins(p, f, IF on THEN "broadcastOn" ELSE "broadcastOff", 0)
    /\ UNCHANGED <<table, vnetVars, sweep, osVars, known, resets>>

SetSockOptNote ==
    /\ call.at \in {"broadcastOn", "broadcastOff"}
    /\ \/ NotFound(call.pid, call.fd) /\ call' = NoCall /\ UNCHANGED table
       \/ \E e \in Entries :
             /\ Finds(e, call.pid, call.fd)
             /\ table' = [table EXCEPT ![e].broadcast = call.at = "broadcastOn"]
             /\ call' = IF call.at = "broadcastOn" /\ table[e].port # 0
                        THEN [call EXCEPT !.at = "ensure", !.port = table[e].port]
                        ELSE NoCall
    /\ UNCHANGED <<vnetVars, sweep, osVars, known, resets>>

(* SendTo of a directed broadcast mirrors a bound socket that is not yet. *)
SendTo(p, f) ==
    /\ \E e \in Entries :
          /\ Finds(e, p, f)
          /\ ~table[e].mirrored
          /\ table[e].port # 0
          /\ Begins(p, f, "ensure", table[e].port)
    /\ UNCHANGED <<table, vnetVars, sweep, osVars, known, resets>>

(***************************************************************************)
(* EnsureLanMirror.                                                        *)
(***************************************************************************)
EnsureCheck ==
    /\ call.at = "ensure"
    /\ call' = IF \E e \in Entries : Finds(e, call.pid, call.fd) /\ ~table[e].mirrored
               THEN [call EXCEPT !.at = "open"] ELSE NoCall
    /\ UNCHANGED <<table, vnetVars, sweep, osVars, known, resets>>

OpenLanSocket ==
    /\ call.at = "open"
    /\ \/ /\ ~configured \/ \A v \in Vfds : used[v]
          /\ call' = NoCall
          /\ UNCHANGED <<used, vport>>
       \/ \E v \in Vfds :
             /\ configured
             /\ ~used[v]
             /\ \A w \in Vfds : w < v => used[w]
             /\ used' = [used EXCEPT ![v] = TRUE]
             /\ vport' = [vport EXCEPT ![v] = 0]
             /\ call' = [call EXCEPT !.at = "bindMirror", !.vfd = v]
    /\ UNCHANGED <<table, configured, sweep, osVars, known, resets>>

BindLanSocket ==
    /\ call.at = "bindMirror"
    /\ IF configured /\ used[call.vfd]
       THEN /\ vport' = [vport EXCEPT ![call.vfd] = call.port]
            /\ call' = [call EXCEPT !.at = "install"]
       ELSE /\ call' = Closing({call.vfd})
            /\ UNCHANGED vport
    /\ UNCHANGED <<table, configured, used, sweep, osVars, known, resets>>

(* Mutant of Discard: a mirror that could not be installed stays open. *)
DiscardNothing == NoCall

Discard == Closing({call.vfd})

(* The entry is looked up again: it may be gone. *)
EnsureInstall ==
    /\ call.at = "install"
    /\ \/ \E e \in Entries :
             /\ Finds(e, call.pid, call.fd)
             /\ ~table[e].mirrored
             /\ table' = [table EXCEPT ![e].vfd = call.vfd, ![e].mirrored = TRUE]
             /\ call' = NoCall
       \/ /\ ~\E e \in Entries : Finds(e, call.pid, call.fd) /\ ~table[e].mirrored
          /\ call' = Discard
          /\ UNCHANGED table
    /\ UNCHANGED <<vnetVars, sweep, osVars, known, resets>>

(***************************************************************************)
(* Close and ShutdownAllSockets: forget under the table's lock, close the  *)
(* VNet sockets after it.                                                  *)
(***************************************************************************)
Close(p, f) ==
    /\ real[p][f] # Closed
    /\ real' = [real EXCEPT ![p][f] = Closed]
    /\ Begins(p, f, "forget", 0)
    /\ UNCHANGED <<table, vnetVars, sweep, alive, sessions, known, resets>>

(* Mutant of ToClose: an entry without a mirror is not told apart. *)
ToCloseUnchecked(e) == {table[e].vfd}

ToClose(e) == {table[e].vfd} \ {Invalid}

(* Mutant of Cleared: the entry stays. *)
ClearedNot(e) == table

Cleared(e) == [table EXCEPT ![e] = NoEntry]

ForgetLanSocket ==
    /\ call.at = "forget"
    /\ \/ NotFound(call.pid, call.fd) /\ call' = NoCall /\ UNCHANGED table
       \/ \E e \in Entries :
             /\ Finds(e, call.pid, call.fd)
             /\ table' = Cleared(e)
             /\ call' = Closing(ToClose(e))
    /\ UNCHANGED <<vnetVars, sweep, osVars, known, resets>>

ShutdownAllSockets(p) ==
    /\ Begins(p, 0, "forgetAll", 0)
    /\ UNCHANGED <<table, vnetVars, sweep, osVars, known, resets>>

Owned(p)  == {e \in Entries : table[e].pid = p}
VfdsOf(p) == {table[e].vfd : e \in Owned(p)} \ {Invalid}

(* Mutant of Forgotten: the entries of the process stay. *)
ForgottenNot(p) == table

Forgotten(p) == [e \in Entries |-> IF table[e].pid = p THEN NoEntry ELSE table[e]]

ForgetLanSocketsForPid ==
    /\ call.at = "forgetAll"
    /\ table' = Forgotten(call.pid)
    /\ call' = Closing(VfdsOf(call.pid))
    /\ UNCHANGED <<vnetVars, sweep, osVars, known, resets>>

CloseLanSocket ==
    /\ call.at = "close"
    /\ \E v \in call.close :
          /\ udpClose(v)
          /\ call' = Closing(call.close \ {v})
    /\ UNCHANGED <<table, configured, sweep, osVars, known, resets>>

(***************************************************************************)
(* The node thread: the network's callbacks, and CleanupAbandonedServices  *)
(* for a process the kernel no longer lists.                               *)
(***************************************************************************)
NetworkDown ==
    /\ sweep = NoSweep
    /\ resets < MaxResets
    /\ resets' = resets + 1
    /\ configured' = FALSE
    /\ used' = [v \in Vfds |-> FALSE]
    /\ vport' = [v \in Vfds |-> 0]
    /\ UNCHANGED <<table, call, sweep, osVars, known>>

NetworkUp ==
    /\ sweep = NoSweep
    /\ ~configured
    /\ configured' = TRUE
    /\ UNCHANGED <<table, used, vport, call, sweep, osVars, known, resets>>

CleanupForget(p) ==
    /\ sweep = NoSweep
    /\ p \in (parked \cup counted) \ alive
    /\ table' = Forgotten(p)
    /\ sweep' = [at |-> "close", pid |-> p, close |-> VfdsOf(p)]
    /\ UNCHANGED <<vnetVars, call, osVars, known, resets>>

CleanupClose ==
    /\ sweep.at = "close"
    /\ \E v \in sweep.close :
          /\ udpClose(v)
          /\ sweep' = [sweep EXCEPT !.close = @ \ {v}]
    /\ UNCHANGED <<table, configured, call, osVars, known, resets>>

(* Parked services are released, unless the framework still uses one. *)
CleanupRelease ==
    /\ sweep.at = "close"
    /\ sweep.close = {}
    /\ parked' \in {parked, parked \ {sweep.pid}}
    /\ sweep' = [sweep EXCEPT !.at = "count"]
    /\ UNCHANGED <<table, vnetVars, call, osVars, counted, resets>>

(* So is the session counter, unless the registration lock is taken or the
   registration of the process is still in use: then it stays for the next
   pass. *)
CleanupDone ==
    /\ sweep.at = "count"
    /\ counted' \in {counted, counted \ {sweep.pid}}
    /\ sweep' = NoSweep
    /\ UNCHANGED <<table, vnetVars, call, osVars, parked, resets>>

(***************************************************************************)
(* The rest of the system.                                                 *)
(***************************************************************************)

(* The kernel ends a process at any time, also while a call of it runs. *)
Exit(p) ==
    /\ p \in alive
    /\ alive' = alive \ {p}
    /\ real' = [real EXCEPT ![p] = [f \in Fds |-> Closed]]
    /\ UNCHANGED <<table, vnetVars, call, sweep, sessions, known, resets>>

(* The server thread destroys the session objects of a process, between its
   calls; ~BsdShim parks the service of one that has exited. *)
DestroySessions(p) ==
    /\ p \in sessions \ alive
    /\ call.at = "idle"
    /\ sessions' = sessions \ {p}
    /\ parked' = parked \cup {p}
    /\ UNCHANGED <<table, vnetVars, call, sweep, alive, real, counted, resets>>

CallBegins ==
    \E p \in Pids :
        \/ ShutdownAllSockets(p)
        \/ \E f \in Fds :
              \/ Socket(p, f)
              \/ \E port \in Ports : Bind(p, f, port)
              \/ \E on \in BOOLEAN : SetSockOpt(p, f, on)
              \/ SendTo(p, f)
              \/ Close(p, f)

CallStep ==
    \/ SocketTrack \/ BindNote \/ SetSockOptNote
    \/ EnsureCheck \/ OpenLanSocket \/ BindLanSocket \/ EnsureInstall
    \/ ForgetLanSocket \/ ForgetLanSocketsForPid \/ CloseLanSocket

NodeStep == NetworkDown \/ NetworkUp \/ CleanupClose \/ CleanupRelease \/ CleanupDone
            \/ \E p \in Pids : CleanupForget(p)

Next == CallBegins \/ CallStep \/ NodeStep \/ \E p \in Pids : Exit(p) \/ DestroySessions(p)

Spec == Init /\ [][Next]_vars

(* Calls return, session objects of dead processes are destroyed, and the
   node thread's loop keeps coming back to the clean-up. *)
Fairness ==
    /\ WF_vars(CallStep)
    /\ WF_vars(CleanupClose \/ CleanupRelease \/ CleanupDone)
    /\ \A p \in Pids : SF_vars(DestroySessions(p)) /\ SF_vars(CleanupForget(p))

FairSpec == Spec /\ Fairness

(***************************************************************************)
(* Properties.                                                             *)
(***************************************************************************)
TypeOK ==
    /\ table \in [Entries -> [pid : Pids \cup {NoPid}, fd : Fds \cup {0},
                              vfd : Vfds \cup {Invalid}, port : Ports \cup {0},
                              broadcast : BOOLEAN, mirrored : BOOLEAN]]
    /\ configured \in BOOLEAN
    /\ used \in [Vfds -> BOOLEAN]
    /\ vport \in [Vfds -> Ports \cup {0}]
    /\ call \in [at : {"idle", "track", "bind", "broadcastOn", "broadcastOff", "ensure",
                       "open", "bindMirror", "install", "forget", "forgetAll", "close"},
                 pid : Pids \cup {NoPid}, fd : Fds \cup {0}, port : Ports \cup {0},
                 vfd : Vfds \cup {Invalid}, close : SUBSET Vfds]
    /\ sweep \in [at : {"idle", "close", "count"}, pid : Pids \cup {NoPid}, close : SUBSET Vfds]
    /\ alive \subseteq Pids
    /\ sessions \subseteq Pids
    /\ parked \subseteq Pids
    /\ counted \subseteq Pids
    /\ real \in [Pids -> [Fds -> Ports \cup {0, Closed}]]
    /\ resets \in 0..MaxResets

Mirrored == {e \in Entries : table[e].mirrored}

(* No VNet socket is lost: each one in use belongs to an entry of the table,
   or a call or the clean-up still holds it and will close or install it.
   The VNet has only MaxSockets, and nothing else would ever free one. *)
NoOrphan ==
    \A v \in Vfds : used[v] =>
        \/ \E e \in Mirrored : table[e].vfd = v
        \/ call.at \in {"bindMirror", "install"} /\ call.vfd = v
        \/ v \in call.close
        \/ v \in sweep.close

(* As long as the network has not gone down, a mirrored game socket has a
   VNet socket to itself, and it is open and bound to the port the game
   bound. *)
MirrorsAgree ==
    resets = 0 => \A e \in Mirrored :
        /\ used[table[e].vfd]
        /\ vport[table[e].vfd] = table[e].port
        /\ \A d \in Mirrored \ {e} : table[d].vfd # table[e].vfd

(* "The game-facing socket table is reset by the network-config DESTROY
   callback" (zt_port.cpp:1371): what a network that went down leaves behind
   never makes two game sockets use one VNet socket. *)
MirrorsDistinct ==
    \A d, e \in Mirrored : d # e => table[d].vfd # table[e].vfd

(* A process that has exited does not hold VNet sockets for good, even if a
   call of it was running when it was swept: from some time on no entry of
   it is mirrored (CleanupAbandonedServices; with NoOrphan, its VNet sockets
   are free again). *)
DeadHoldNoSocket ==
    \A p \in Pids : <>[](p \notin alive => Owned(p) \cap Mirrored = {})

(* "A once-per-second kernel process-list check releases exited games' parked
   handles, shadow sockets, counters" (LIFECYCLE_NAT_TESTING.md:16): from some
   time on the table has no entry of a process that has exited. *)
DeadAreForgotten == \A p \in Pids : <>[](p \notin alive => Owned(p) = {})
=============================================================================
