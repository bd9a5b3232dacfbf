-------------------------- MODULE LanMirrorProofs --------------------------
(***************************************************************************)
(* Proofs about LanMirror for every set of processes, descriptors and      *)
(* ports and every size of the two tables: its types, NoOrphan and         *)
(* MirrorsAgree.                                                           *)
(*                                                                         *)
(* The table and the VNet are never locked together, so both need to know  *)
(* what the handler and the clean-up carry from one locked section to the  *)
(* next: which VNet sockets they have in their hands, that nobody else has *)
(* them, and that the port a handler read from an entry is still the       *)
(* entry's when the mirror is installed.                                   *)
(***************************************************************************)
EXTENDS LanMirror, TLAPS

EntryType == [pid : Pids \cup {NoPid}, fd : Fds \cup {0}, vfd : Vfds \cup {Invalid},
              port : Ports \cup {0}, broadcast : BOOLEAN, mirrored : BOOLEAN]

CallType == [at : {"idle", "track", "bind", "broadcastOn", "broadcastOff", "ensure",
                   "open", "bindMirror", "install", "forget", "forgetAll", "close"},
             pid : Pids \cup {NoPid}, fd : Fds \cup {0}, port : Ports \cup {0},
             vfd : Vfds \cup {Invalid}, close : SUBSET Vfds]

(* Handlers that work for one descriptor. *)
OnDescriptor == {"track", "bind", "broadcastOn", "broadcastOff", "ensure", "open",
                 "bindMirror", "install", "forget"}

(* EnsureLanMirror, from its first look at the table to its second. *)
Ensuring == {"ensure", "open", "bindMirror", "install"}

(* EnsureLanMirror with a VNet socket in its hands. *)
Holding == call.at \in {"bindMirror", "install"}

(* What the handler and the clean-up carry along. *)
CallShape ==
    /\ call.at \in OnDescriptor => call.pid \in Pids /\ call.fd \in Fds
    /\ call.at = "forgetAll" => call.pid \in Pids
    /\ call.at \in Ensuring \cup {"bind"} => call.port # 0
    /\ Holding => call.vfd # Invalid
    /\ call.at # "close" => call.close = {}
    /\ sweep.at # "close" => sweep.close = {}

(* An entry in use is for a descriptor, and its mirror is there or not. *)
EntryShape ==
    \A e \in Entries :
        /\ table[e].pid # NoPid => table[e].fd \in Fds
        /\ table[e].pid # NoPid /\ ~table[e].mirrored => table[e].vfd = Invalid
        /\ table[e].mirrored => /\ table[e].pid # NoPid
                                /\ table[e].vfd # Invalid
                                /\ table[e].port # 0

(* One entry per descriptor: FindLanSocketLocked has no choice. *)
OneEntry ==
    /\ \A d, e \in Entries :
          table[d].pid # NoPid /\ table[d].pid = table[e].pid /\ table[d].fd = table[e].fd
          => d = e
    /\ call.at = "track" => NotFound(call.pid, call.fd)

(* An entry of a running process is for a descriptor that real bsd has     *)
(* open, or Close is about to forget it; no port is noted before real bsd  *)
(* has bound the descriptor; and what the handler in progress was told of  *)
(* its descriptor is still so.                                             *)
EntriesOpen ==
    \A e \in Entries : table[e].pid \in alive =>
        LET port == real[table[e].pid][table[e].fd] IN
        /\ port = Closed => call.at = "forget" /\ Matches(e, call.pid, call.fd)
        /\ port = 0 => table[e].port = 0

PortsKnown ==
    \A e \in Entries : Matches(e, call.pid, call.fd) =>
        /\ call.at = "bind" => table[e].port = 0
        /\ call.at \in Ensuring => table[e].port = call.port

StillOpen ==
    call.pid \in alive =>
        /\ call.at = "track" => real[call.pid][call.fd] # Closed
        /\ call.at = "bind" => real[call.pid][call.fd] # 0

Descriptors == EntriesOpen /\ PortsKnown /\ StillOpen

(* Before the network first goes down, the VNet sockets in the handler's   *)
(* or the clean-up's hands are open and nobody else's.                     *)
HandsClean ==
    resets = 0 =>
        /\ Holding =>
              /\ used[call.vfd]
              /\ call.vfd \notin sweep.close
              /\ \A e \in Mirrored : table[e].vfd # call.vfd
              /\ call.at = "install" => vport[call.vfd] = call.port
        /\ \A v \in call.close \cup sweep.close :
              used[v] /\ \A e \in Mirrored : table[e].vfd # v
        /\ call.close \cap sweep.close = {}

Inv ==
    /\ TypeOK
    /\ CallShape
    /\ EntryShape
    /\ OneEntry
    /\ Descriptors
    /\ HandsClean
    /\ NoOrphan
    /\ MirrorsAgree

(***************************************************************************)
(* What a step starts from and leaves behind.                              *)
(***************************************************************************)
(* The values that stand for nothing are none of the others. *)
LEMMA Constants ==
    /\ NoPid \notin Pids /\ Ports \subseteq Nat /\ 0 \notin Ports
    /\ Invalid \notin Vfds /\ Invalid \in Int /\ Vfds \subseteq Int
    /\ Closed \notin Ports /\ Closed # 0
    /\ 0 \in Entries /\ 0 \in Vfds /\ Entries \subseteq Int
BY MirrorAssumption DEF Invalid, Vfds, Closed, Entries

(* The cleared entry and the call that is none have their types. *)
LEMMA Defaults ==
    /\ NoEntry \in EntryType
    /\ NoEntry.pid = NoPid /\ ~NoEntry.mirrored
    /\ NoCall \in CallType
    /\ NoCall.at = "idle" /\ NoCall.close = {} /\ NoCall.pid = NoPid
<1>1. NoEntry.broadcast \in BOOLEAN /\ NoEntry.mirrored \in BOOLEAN
  BY Zenon DEF NoEntry
<1>2. NoEntry \in EntryType
  BY Constants DEF NoEntry, EntryType
<1>3. NoCall \in CallType
  BY DEF NoCall, CallType
<1>4. NoEntry.pid = NoPid /\ ~NoEntry.mirrored
  BY DEF NoEntry
<1>5. NoCall.at = "idle" /\ NoCall.close = {} /\ NoCall.pid = NoPid
  BY DEF NoCall
<1> QED BY <1>2, <1>3, <1>4, <1>5

(* What the handlers write into an entry fits. *)
LEMMA EntryUpdates ==
    ASSUME NEW x \in EntryType, NEW v \in Vfds, NEW port \in Ports \cup {0}, NEW on \in BOOLEAN
    PROVE  /\ [x EXCEPT !.port = port] \in EntryType
           /\ [x EXCEPT !.broadcast = on] \in EntryType
           /\ [x EXCEPT !.vfd = v, !.mirrored = TRUE] \in EntryType
BY DEF EntryType

(* The rest of a call that only has VNet sockets to close. *)
LEMMA ClosingShape ==
    ASSUME NEW vs \in SUBSET Vfds
    PROVE  /\ Closing(vs) \in CallType
           /\ Closing(vs).at = IF vs = {} THEN "idle" ELSE "close"
           /\ Closing(vs).close = vs
           /\ Closing(vs).pid = NoPid
BY DEF Closing, NoCall, CallType

(* Closing a VNet socket leaves a state of the VNet. *)
LEMMA UdpCloseTypes ==
    ASSUME TypeOK, NEW v \in Vfds, udpClose(v)
    PROVE  used' \in [Vfds -> BOOLEAN] /\ vport' \in [Vfds -> Ports \cup {0}]
<1>1. used' \in [Vfds -> BOOLEAN]
  BY Zenon DEF TypeOK, udpClose
<1>2. vport' \in [Vfds -> Ports \cup {0}]
  BY DEF TypeOK, udpClose
<1> QED BY <1>1, <1>2

(* A process's entries are forgotten; its VNet sockets are to be closed. *)
LEMMA ForgottenTypes ==
    ASSUME TypeOK, NEW p
    PROVE  Forgotten(p) \in [Entries -> EntryType] /\ VfdsOf(p) \in SUBSET Vfds
<1>1. table \in [Entries -> EntryType]
  BY DEF TypeOK, EntryType
<1>2. Forgotten(p) \in [Entries -> EntryType]
  BY <1>1, Defaults DEF Forgotten
<1>3. \A e \in Entries : table[e].vfd \in Vfds \cup {Invalid}
  BY <1>1 DEF EntryType
<1>4. VfdsOf(p) \in SUBSET Vfds
  BY <1>3 DEF VfdsOf, Owned
<1> QED BY <1>2, <1>4

(* Every step keeps the types. *)
LEMMA TypeStep == TypeOK /\ CallShape /\ [Next]_vars => TypeOK'
<1> SUFFICES ASSUME TypeOK, CallShape, [Next]_vars PROVE TypeOK'
  OBVIOUS
<1>0. /\ table \in [Entries -> EntryType] /\ call \in CallType
      /\ NoEntry \in EntryType /\ NoCall \in CallType
  BY Defaults DEF TypeOK, EntryType, CallType
<1> USE Constants, MirrorAssumption DEF TypeOK, CallShape, vnetVars, osVars, known
<1>1. ASSUME NEW p \in Pids, ShutdownAllSockets(p)
      PROVE  TypeOK'
  BY <1>1 DEF ShutdownAllSockets, Begins, NoCall
<1>2. ASSUME NEW p \in Pids, NEW f \in Fds, Socket(p, f)
      PROVE  TypeOK'
  BY <1>2 DEF Socket, Begins, NoCall
<1>3. ASSUME NEW p \in Pids, NEW f \in Fds, NEW port \in Ports, Bind(p, f, port)
      PROVE  TypeOK'
  BY <1>3 DEF Bind, Begins, NoCall
<1>4. ASSUME NEW p \in Pids, NEW f \in Fds, NEW on \in BOOLEAN, SetSockOpt(p, f, on)
      PROVE  TypeOK'
  BY <1>4 DEF SetSockOpt, Begins, NoCall
<1>5. ASSUME NEW p \in Pids, NEW f \in Fds, SendTo(p, f)
      PROVE  TypeOK'
  <2>1. PICK e \in Entries : Begins(p, f, "ensure", table[e].port)
    BY <1>5 DEF SendTo
  <2>2. table[e].port \in Ports \cup {0}
    BY <1>0 DEF EntryType
  <2>3. call' \in CallType
    BY <1>0, <2>1, <2>2 DEF Begins, NoCall, CallType
  <2> QED BY <1>5, <2>3 DEF SendTo, CallType
<1>6. ASSUME NEW p \in Pids, NEW f \in Fds, Close(p, f)
      PROVE  TypeOK'
  BY <1>6 DEF Close, Begins, NoCall
<1>7. CASE SocketTrack
  <2>1. [NoEntry EXCEPT !.pid = call.pid, !.fd = call.fd, !.vfd = Invalid] \in EntryType
    BY <1>0 DEF NoEntry, EntryType, CallType
  <2>2. table' \in [Entries -> EntryType]
    BY <1>0, <1>7, <2>1 DEF SocketTrack
  <2> QED BY <1>0, <1>7, <2>2 DEF SocketTrack, EntryType, CallType
<1>8. CASE BindNote
  <2>1. ASSUME NEW e \in Entries
        PROVE  [table EXCEPT ![e].port = call.port] \in [Entries -> EntryType]
    <3>1. [table[e] EXCEPT !.port = call.port] \in EntryType
      BY <1>0, EntryUpdates
    <3> QED BY <1>0, <3>1
  <2>2. table' \in [Entries -> EntryType]
    BY <1>0, <1>8, <2>1 DEF BindNote
  <2>3. call' \in CallType
    BY <1>0, <1>8 DEF BindNote, CallType
  <2> QED BY <1>8, <2>2, <2>3 DEF BindNote, EntryType, CallType
<1>9. CASE SetSockOptNote
  <2>1. ASSUME NEW e \in Entries, NEW on \in BOOLEAN,
               table' = [table EXCEPT ![e].broadcast = on]
        PROVE  table' \in [Entries -> EntryType]
    <3>1. [table[e] EXCEPT !.broadcast = on] \in EntryType
      BY <1>0, EntryUpdates
    <3> QED BY <1>0, <2>1, <3>1
  <2>2. ASSUME NEW e \in Entries, call' = [call EXCEPT !.at = "ensure", !.port = table[e].port]
        PROVE  call' \in CallType
    <3>1. table[e].port \in Ports \cup {0}
      BY <1>0 DEF EntryType
    <3> QED BY <1>0, <2>2, <3>1 DEF CallType
  <2>3. /\ \/ UNCHANGED table
           \/ \E e \in Entries, on \in BOOLEAN : table' = [table EXCEPT ![e].broadcast = on]
        /\ \/ call' = NoCall
           \/ \E e \in Entries : call' = [call EXCEPT !.at = "ensure", !.port = table[e].port]
    BY <1>9 DEF SetSockOptNote
  <2>4. table' \in [Entries -> EntryType] /\ call' \in CallType
    BY <1>0, <2>1, <2>2, <2>3
  <2> QED BY <1>9, <2>4 DEF SetSockOptNote, EntryType, CallType
<1>10. CASE EnsureCheck
  BY <1>10 DEF EnsureCheck, NoCall
<1>11. CASE OpenLanSocket
  <2>1. used' \in [Vfds -> BOOLEAN] /\ vport' \in [Vfds -> Ports \cup {0}]
    BY <1>11 DEF OpenLanSocket
  <2>2. ASSUME NEW v \in Vfds, call' = [call EXCEPT !.at = "bindMirror", !.vfd = v]
        PROVE  call' \in CallType
    BY <1>0, <2>2 DEF CallType
  <2>3. \/ call' = NoCall
        \/ \E v \in Vfds : call' = [call EXCEPT !.at = "bindMirror", !.vfd = v]
    BY <1>11 DEF OpenLanSocket
  <2>4. call' \in CallType
    BY <1>0, <2>2, <2>3
  <2> QED BY <1>11, <2>1, <2>4 DEF OpenLanSocket, CallType
<1>12. CASE BindLanSocket
  <2>1. call.vfd \in Vfds
    BY <1>12 DEF BindLanSocket, Holding
  <2>2. Closing({call.vfd}) \in CallType
    BY <2>1, ClosingShape
  <2>3. [call EXCEPT !.at = "install"] \in CallType
    BY <1>0 DEF CallType
  <2>4. call' \in CallType
    BY <1>12, <2>2, <2>3 DEF BindLanSocket
  <2>5. vport' \in [Vfds -> Ports \cup {0}]
    BY <1>12 DEF BindLanSocket
  <2> QED BY <1>12, <2>4, <2>5 DEF BindLanSocket, CallType
<1>13. CASE EnsureInstall
  <2>1. call.vfd \in Vfds
    BY <1>13 DEF EnsureInstall, Holding
  <2>2. Closing({call.vfd}) \in CallType
    BY <2>1, ClosingShape
  <2>3. call' \in CallType
    BY <1>0, <1>13, <2>2 DEF EnsureInstall, Discard
  <2>4. ASSUME NEW e \in Entries
        PROVE  [table EXCEPT ![e].vfd = call.vfd, ![e].mirrored = TRUE]
                  \in [Entries -> EntryType]
    <3>1. [table[e] EXCEPT !.vfd = call.vfd, !.mirrored = TRUE] \in EntryType
      BY <1>0, <2>1, EntryUpdates
    <3> QED BY <1>0, <3>1
  <2>5. table' \in [Entries -> EntryType]
    BY <1>0, <1>13, <2>4 DEF EnsureInstall
  <2> QED BY <1>13, <2>3, <2>5 DEF EnsureInstall, EntryType, CallType
<1>14. CASE ForgetLanSocket
  <2>1. ASSUME NEW e \in Entries
        PROVE  Cleared(e) \in [Entries -> EntryType] /\ Closing(ToClose(e)) \in CallType
    <3>1. ToClose(e) \in SUBSET Vfds
      BY <1>0 DEF ToClose, EntryType
    <3>2. Closing(ToClose(e)) \in CallType
      BY <3>1, ClosingShape
    <3>3. Cleared(e) \in [Entries -> EntryType]
      BY <1>0 DEF Cleared
    <3> QED BY <3>2, <3>3
  <2>2. table' \in [Entries -> EntryType] /\ call' \in CallType
    BY <1>0, <1>14, <2>1 DEF ForgetLanSocket
  <2> QED BY <1>14, <2>2 DEF ForgetLanSocket, EntryType, CallType
<1>15. CASE ForgetLanSocketsForPid
  <2>1. table' \in [Entries -> EntryType] /\ VfdsOf(call.pid) \in SUBSET Vfds
    BY <1>15, ForgottenTypes DEF ForgetLanSocketsForPid
  <2>2. call' \in CallType
    BY <1>15, <2>1, ClosingShape DEF ForgetLanSocketsForPid
  <2> QED BY <1>15, <2>1, <2>2 DEF ForgetLanSocketsForPid, EntryType, CallType
<1>16. CASE CloseLanSocket
  <2>1. PICK v \in call.close : udpClose(v) /\ call' = Closing(call.close \ {v})
    BY <1>16 DEF CloseLanSocket
  <2>2. v \in Vfds /\ call.close \ {v} \in SUBSET Vfds
    BY <1>0 DEF CallType
  <2>3. call' \in CallType
    BY <2>1, <2>2, ClosingShape
  <2>4. used' \in [Vfds -> BOOLEAN] /\ vport' \in [Vfds -> Ports \cup {0}]
    BY <2>1, <2>2, UdpCloseTypes
  <2> QED BY <1>16, <2>3, <2>4 DEF CloseLanSocket, CallType
<1>17. CASE NetworkDown
  <2>1. used' \in [Vfds -> BOOLEAN] /\ configured' \in BOOLEAN
    BY <1>17, Zenon DEF NetworkDown
  <2> QED BY <1>17, <2>1 DEF NetworkDown
<1>18. CASE NetworkUp
  BY <1>18 DEF NetworkUp
<1>19. CASE CleanupClose
  <2>1. PICK v \in sweep.close : udpClose(v) /\ sweep' = [sweep EXCEPT !.close = @ \ {v}]
    BY <1>19 DEF CleanupClose
  <2>2. used' \in [Vfds -> BOOLEAN] /\ vport' \in [Vfds -> Ports \cup {0}]
    BY <2>1, UdpCloseTypes
  <2> QED BY <1>19, <2>1, <2>2 DEF CleanupClose
<1>20. CASE CleanupRelease
  BY <1>20 DEF CleanupRelease
<1>21. CASE CleanupDone
  BY <1>21 DEF CleanupDone, NoSweep
<1>22. ASSUME NEW p \in Pids, CleanupForget(p)
      PROVE  TypeOK'
  <2>1. table' \in [Entries -> EntryType] /\ VfdsOf(p) \in SUBSET Vfds
    BY <1>22, ForgottenTypes DEF CleanupForget
  <2> QED BY <1>22, <2>1 DEF CleanupForget, EntryType
<1>23. ASSUME NEW p \in Pids, Exit(p)
      PROVE  TypeOK'
  BY <1>23 DEF Exit
<1>24. ASSUME NEW p \in Pids, DestroySessions(p)
      PROVE  TypeOK'
  BY <1>24 DEF DestroySessions
<1>25. CASE UNCHANGED vars
  BY <1>25 DEF vars
<1> QED BY <1>1, <1>2, <1>3, <1>4, <1>5, <1>6, <1>7, <1>8, <1>9, <1>10,
           <1>11, <1>12, <1>13, <1>14, <1>15, <1>16, <1>17, <1>18, <1>19, <1>20,
           <1>21, <1>22, <1>23, <1>24, <1>25
        DEF Next, CallBegins, CallStep, NodeStep

(***************************************************************************)
(* What each step does to the entries of the table, one at a time.         *)
(***************************************************************************)
(* SocketTrack fills one free entry, without a mirror. *)
LEMMA TrackEffect ==
    ASSUME TypeOK, SocketTrack
    PROVE  \/ UNCHANGED table
           \/ \E e \in Entries :
                 /\ table[e].pid = NoPid
                 /\ table'[e].pid = call.pid /\ table'[e].fd = call.fd
                 /\ table'[e].vfd = Invalid /\ table'[e].port = 0 /\ ~table'[e].mirrored
                 /\ \A d \in Entries \ {e} : table'[d] = table[d]
<1>1. CASE UNCHANGED table
  BY <1>1
<1>2. ASSUME NEW e \in Entries, table[e].pid = NoPid,
             table' = [table EXCEPT ![e] = [NoEntry EXCEPT !.pid = call.pid,
                                               !.fd = call.fd, !.vfd = Invalid]]
      PROVE  /\ table'[e].pid = call.pid /\ table'[e].fd = call.fd
             /\ table'[e].vfd = Invalid /\ table'[e].port = 0 /\ ~table'[e].mirrored
             /\ \A d \in Entries \ {e} : table'[d] = table[d]
  <2>1. table'[e] = [NoEntry EXCEPT !.pid = call.pid, !.fd = call.fd, !.vfd = Invalid]
    BY <1>2 DEF TypeOK
  <2> QED BY <1>2, <2>1 DEF TypeOK, NoEntry
<1> QED BY <1>1, <1>2 DEF SocketTrack

(* BindNote changes the port of the entry it finds. *)
LEMMA BindEffect ==
    ASSUME TypeOK, BindNote
    PROVE  \/ UNCHANGED table
           \/ \E e \in Entries :
                 /\ Finds(e, call.pid, call.fd)
                 /\ table'[e].pid = table[e].pid /\ table'[e].fd = table[e].fd
                 /\ table'[e].vfd = table[e].vfd /\ table'[e].mirrored = table[e].mirrored
                 /\ table'[e].port = call.port
                 /\ \A d \in Entries \ {e} : table'[d] = table[d]
<1>1. ASSUME NEW e \in Entries, table' = [table EXCEPT ![e].port = call.port]
      PROVE  /\ table'[e].pid = table[e].pid /\ table'[e].fd = table[e].fd
             /\ table'[e].vfd = table[e].vfd /\ table'[e].mirrored = table[e].mirrored
             /\ table'[e].port = call.port
             /\ \A d \in Entries \ {e} : table'[d] = table[d]
  BY <1>1 DEF TypeOK
<1> QED BY <1>1 DEF BindNote

(* SetSockOptNote changes none of these fields. *)
LEMMA BroadcastEffect ==
    ASSUME TypeOK, SetSockOptNote
    PROVE  \A d \in Entries :
              /\ table'[d].pid = table[d].pid /\ table'[d].fd = table[d].fd
              /\ table'[d].vfd = table[d].vfd /\ table'[d].mirrored = table[d].mirrored
              /\ table'[d].port = table[d].port
<1>1. ASSUME NEW e \in Entries, NEW on, table' = [table EXCEPT ![e].broadcast = on],
             NEW d \in Entries
      PROVE  /\ table'[d].pid = table[d].pid /\ table'[d].fd = table[d].fd
             /\ table'[d].vfd = table[d].vfd /\ table'[d].mirrored = table[d].mirrored
             /\ table'[d].port = table[d].port
  BY <1>1 DEF TypeOK
<1>2. UNCHANGED table \/ \E e \in Entries, on \in BOOLEAN : table' = [table EXCEPT ![e].broadcast = on]
  BY DEF SetSockOptNote
<1> QED BY <1>1, <1>2

(* EnsureInstall gives one entry its mirror, or has the mirror closed. *)
LEMMA InstallEffect ==
    ASSUME TypeOK, EnsureInstall
    PROVE  \/ UNCHANGED table /\ call' = Closing({call.vfd})
           \/ /\ call' = NoCall
              /\ \E e \in Entries :
                    /\ Finds(e, call.pid, call.fd) /\ ~table[e].mirrored
                    /\ table'[e].pid = table[e].pid /\ table'[e].fd = table[e].fd
                    /\ table'[e].vfd = call.vfd /\ table'[e].mirrored
                    /\ table'[e].port = table[e].port
                    /\ \A d \in Entries \ {e} : table'[d] = table[d]
<1>1. ASSUME NEW e \in Entries,
             table' = [table EXCEPT ![e].vfd = call.vfd, ![e].mirrored = TRUE]
      PROVE  /\ table'[e].pid = table[e].pid /\ table'[e].fd = table[e].fd
             /\ table'[e].vfd = call.vfd /\ table'[e].mirrored
             /\ table'[e].port = table[e].port
             /\ \A d \in Entries \ {e} : table'[d] = table[d]
  BY <1>1 DEF TypeOK
<1> QED BY <1>1 DEF EnsureInstall, Discard

(* ForgetLanSocket clears one entry and has its mirror closed. *)
LEMMA ForgetEffect ==
    ASSUME TypeOK, ForgetLanSocket
    PROVE  \/ UNCHANGED table /\ call' = NoCall /\ NotFound(call.pid, call.fd)
           \/ \E e \in Entries :
                 /\ Finds(e, call.pid, call.fd)
                 /\ call' = Closing({table[e].vfd} \ {Invalid})
                 /\ table'[e] = NoEntry
                 /\ \A d \in Entries \ {e} : table'[d] = table[d]
BY DEF ForgetLanSocket, TypeOK, Cleared, ToClose

(* ForgetLanSocketsForPid clears the entries of the process alone. *)
LEMMA ForgottenEffect ==
    ASSUME NEW p, table' = Forgotten(p)
    PROVE  \A d \in Entries :
              /\ table[d].pid = p => table'[d] = NoEntry
              /\ table[d].pid # p => table'[d] = table[d]
BY DEF Forgotten

(* A handler begins when no other runs, and has nothing in its hands. *)
Begun ==
    /\ call.at = "idle"
    /\ call'.at \in {"track", "bind", "broadcastOn", "broadcastOff", "ensure",
                     "forget", "forgetAll"}
    /\ call'.close = {}
    /\ UNCHANGED <<table, configured, used, vport, sweep, alive, resets>>

(* The forwarded call is all there is of a handler so far. *)
LEMMA BeginFrame == CallBegins => Begun
<1> USE DEF Begun, Begins, NoCall, vnetVars, osVars
<1>1. ASSUME NEW p, ShutdownAllSockets(p) PROVE Begun
  BY <1>1 DEF ShutdownAllSockets
<1>2. ASSUME NEW p, NEW f, Socket(p, f) PROVE Begun
  BY <1>2 DEF Socket
<1>3. ASSUME NEW p, NEW f, NEW port, Bind(p, f, port) PROVE Begun
  BY <1>3 DEF Bind
<1>4. ASSUME NEW p, NEW f, NEW on \in BOOLEAN, SetSockOpt(p, f, on) PROVE Begun
  BY <1>4 DEF SetSockOpt
<1>5. ASSUME NEW p, NEW f, SendTo(p, f) PROVE Begun
  BY <1>5 DEF SendTo
<1>6. ASSUME NEW p, NEW f, Close(p, f) PROVE Begun
  BY <1>6 DEF Close
<1> QED BY <1>1, <1>2, <1>3, <1>4, <1>5, <1>6 DEF CallBegins

(* What a handler does first tells which it is. *)
LEMMA WhichBegan ==
    ASSUME CallBegins
    PROVE  /\ call'.at = "track" => \E p \in Pids, f \in Fds : Socket(p, f)
           /\ call'.at = "bind" => \E p \in Pids, f \in Fds, port \in Ports : Bind(p, f, port)
<1> USE DEF Begins, NoCall
<1>1. ASSUME NEW p, ShutdownAllSockets(p) PROVE call'.at \notin {"track", "bind"}
  BY <1>1 DEF ShutdownAllSockets
<1>2. ASSUME NEW p, NEW f, Socket(p, f) PROVE call'.at # "bind"
  BY <1>2 DEF Socket
<1>3. ASSUME NEW p, NEW f, NEW port, Bind(p, f, port) PROVE call'.at # "track"
  BY <1>3 DEF Bind
<1>4. ASSUME NEW p, NEW f, NEW on \in BOOLEAN, SetSockOpt(p, f, on)
      PROVE  call'.at \notin {"track", "bind"}
  BY <1>4 DEF SetSockOpt
<1>5. ASSUME NEW p, NEW f, SendTo(p, f) PROVE call'.at \notin {"track", "bind"}
  BY <1>5 DEF SendTo
<1>6. ASSUME NEW p, NEW f, Close(p, f) PROVE call'.at \notin {"track", "bind"}
  BY <1>6 DEF Close
<1> QED BY <1>1, <1>2, <1>3, <1>4, <1>5, <1>6 DEF CallBegins

(* These steps concern neither the table nor the VNet's sockets. *)
Elsewhere ==
    \/ NetworkUp \/ CleanupRelease \/ CleanupDone
    \/ \E p \in Pids : Exit(p) \/ DestroySessions(p)
    \/ UNCHANGED vars

(* At most they let a process exit or the clean-up go on. *)
LEMMA ElsewhereFrame ==
    ASSUME TypeOK, CallShape, Elsewhere
    PROVE  /\ UNCHANGED <<table, used, vport, call, resets>>
           /\ sweep'.close = sweep.close
           /\ sweep'.at # "close" => sweep'.close = {}
           /\ alive' \subseteq alive
           /\ \A p \in alive' : real'[p] = real[p]
<1> USE DEF TypeOK, CallShape, vnetVars, osVars
<1>1. CASE NetworkUp
  BY <1>1 DEF NetworkUp
<1>5. CASE CleanupRelease
  <2>1. sweep.close = {} /\ sweep'.close = sweep.close
    BY <1>5 DEF CleanupRelease
  <2> QED BY <1>5, <2>1 DEF CleanupRelease
<1>6. CASE CleanupDone
  <2>1. sweep.close = {} /\ sweep'.close = {}
    BY <1>6 DEF CleanupDone, NoSweep
  <2> QED BY <1>6, <2>1 DEF CleanupDone
<1>2. ASSUME NEW p \in Pids, Exit(p)
      PROVE  /\ UNCHANGED <<table, used, vport, call, sweep, resets>>
             /\ alive' \subseteq alive
             /\ \A q \in alive' : real'[q] = real[q]
  BY <1>2 DEF Exit
<1>3. ASSUME NEW p \in Pids, DestroySessions(p)
      PROVE  UNCHANGED <<table, used, vport, call, sweep, resets, alive, real>>
  BY <1>3 DEF DestroySessions
<1>4. CASE UNCHANGED vars
  BY <1>4 DEF vars
<1> QED BY <1>1, <1>2, <1>3, <1>4, <1>5, <1>6 DEF Elsewhere

(* The steps that are left. *)
LEMMA StepCases ==
    ASSUME [Next]_vars
    PROVE  \/ CallBegins \/ CallStep \/ Elsewhere
           \/ NetworkDown \/ CleanupClose
           \/ \E p \in Pids : CleanupForget(p)
BY DEF Next, NodeStep, Elsewhere

(* What the handler and the clean-up carry along keeps its shape. *)
LEMMA ShapeStep == TypeOK /\ CallShape /\ EntryShape /\ [Next]_vars => CallShape'
<1> SUFFICES ASSUME TypeOK, CallShape, EntryShape, [Next]_vars PROVE CallShape'
  OBVIOUS
<1>0. /\ table \in [Entries -> EntryType] /\ call \in CallType
      /\ \A e \in Entries : table[e] \in EntryType
  BY DEF TypeOK, EntryType, CallType
<1> USE Constants DEF CallShape, OnDescriptor, Ensuring, Holding
<1>1. CASE CallBegins
  <2> USE BeginFrame, <1>1 DEF Begun
  <2>1. ASSUME NEW p \in Pids, ShutdownAllSockets(p) PROVE CallShape'
    BY <2>1 DEF ShutdownAllSockets, Begins, NoCall
  <2>2. ASSUME NEW p \in Pids, NEW f \in Fds, Socket(p, f) PROVE CallShape'
    BY <2>2 DEF Socket, Begins, NoCall
  <2>3. ASSUME NEW p \in Pids, NEW f \in Fds, NEW port \in Ports, Bind(p, f, port)
        PROVE  CallShape'
    BY <2>3 DEF Bind, Begins, NoCall
  <2>4. ASSUME NEW p \in Pids, NEW f \in Fds, NEW on \in BOOLEAN, SetSockOpt(p, f, on)
        PROVE  CallShape'
    BY <2>4 DEF SetSockOpt, Begins, NoCall
  <2>5. ASSUME NEW p \in Pids, NEW f \in Fds, SendTo(p, f) PROVE CallShape'
    BY <2>5 DEF SendTo, Begins, NoCall
  <2>6. ASSUME NEW p \in Pids, NEW f \in Fds, Close(p, f) PROVE CallShape'
    BY <2>6 DEF Close, Begins, NoCall
  <2> QED BY <2>1, <2>2, <2>3, <2>4, <2>5, <2>6 DEF CallBegins
<1>2. CASE CallStep
  <2>1. CASE SocketTrack
    BY <2>1 DEF SocketTrack, NoCall
  <2>2. CASE BindNote
    BY <2>2, <1>0 DEF BindNote, NoCall, CallType
  <2>3. CASE SetSockOptNote
    <3>1. /\ UNCHANGED sweep
          /\ \/ call' = NoCall
             \/ \E e \in Entries : /\ table[e].port # 0
                                   /\ call' = [call EXCEPT !.at = "ensure", !.port = table[e].port]
      BY <2>3 DEF SetSockOptNote
    <3>2. ASSUME NEW e \in Entries, table[e].port # 0,
                 call' = [call EXCEPT !.at = "ensure", !.port = table[e].port]
          PROVE  CallShape'
      BY <2>3, <3>1, <3>2, <1>0 DEF SetSockOptNote, CallType
    <3> QED BY <3>1, <3>2, Defaults
  <2>4. CASE EnsureCheck
    BY <2>4, <1>0 DEF EnsureCheck, NoCall, CallType
  <2>5. CASE OpenLanSocket
    <3>1. ASSUME NEW v \in Vfds, call' = [call EXCEPT !.at = "bindMirror", !.vfd = v]
          PROVE  CallShape'
      BY <2>5, <3>1, <1>0 DEF OpenLanSocket, CallType
    <3>2. /\ UNCHANGED sweep
          /\ \/ call' = NoCall
             \/ \E v \in Vfds : call' = [call EXCEPT !.at = "bindMirror", !.vfd = v]
      BY <2>5 DEF OpenLanSocket
    <3> QED BY <3>1, <3>2, Defaults
  <2>6. CASE BindLanSocket
    <3>1. call.vfd \in Vfds
      BY <2>6, <1>0 DEF BindLanSocket, CallType
    <3> QED BY <2>6, <3>1, <1>0, ClosingShape DEF BindLanSocket, CallType
  <2>7. CASE EnsureInstall
    <3>1. call.vfd \in Vfds
      BY <2>7, <1>0 DEF EnsureInstall, CallType
    <3>2. UNCHANGED sweep /\ (call' = NoCall \/ call' = Closing({call.vfd}))
      BY <2>7 DEF EnsureInstall, Discard
    <3>3. {call.vfd} \in SUBSET Vfds
      BY <3>1
    <3> QED BY <3>2, <3>3, ClosingShape, Defaults
  <2>8. CASE ForgetLanSocket
    <3>1. ASSUME NEW e \in Entries PROVE ToClose(e) \in SUBSET Vfds
      BY <1>0 DEF ToClose, EntryType
    <3>2. UNCHANGED sweep /\ (call' = NoCall \/ \E e \in Entries : call' = Closing(ToClose(e)))
      BY <2>8 DEF ForgetLanSocket
    <3>3. ASSUME NEW e \in Entries, call' = Closing(ToClose(e)) PROVE CallShape'
      BY <3>1, <3>2, <3>3, ClosingShape
    <3> QED BY <3>2, <3>3, Defaults
  <2>9. CASE ForgetLanSocketsForPid
    BY <2>9, ForgottenTypes, ClosingShape DEF ForgetLanSocketsForPid
  <2>10. CASE CloseLanSocket
    <3>1. PICK v \in call.close : UNCHANGED sweep /\ call' = Closing(call.close \ {v})
      BY <2>10 DEF CloseLanSocket
    <3>2. call.close \ {v} \in SUBSET Vfds
      BY <1>0 DEF CallType
    <3> QED BY <3>1, <3>2, ClosingShape
  <2> QED BY <1>2, <2>1, <2>2, <2>3, <2>4, <2>5, <2>6, <2>7, <2>8, <2>9, <2>10 DEF CallStep
<1>3. CASE Elsewhere
  BY <1>3, ElsewhereFrame
<1>4. CASE NetworkDown
  BY <1>4 DEF NetworkDown
<1>5. CASE CleanupClose
  BY <1>5 DEF CleanupClose, TypeOK
<1>6. ASSUME NEW p \in Pids, CleanupForget(p) PROVE CallShape'
  BY <1>6 DEF CleanupForget
<1> QED BY <1>1, <1>2, <1>3, <1>4, <1>5, <1>6, StepCases

(* A free entry is never mirrored, one in use is mirrored or has no VNet   *)
(* socket.                                                                 *)
LEMMA EntryStep == TypeOK /\ CallShape /\ EntryShape /\ Descriptors /\ [Next]_vars => EntryShape'
<1> SUFFICES ASSUME TypeOK, CallShape, EntryShape, Descriptors, [Next]_vars PROVE EntryShape'
  OBVIOUS
<1> USE Constants DEF EntryShape
<1>1. CASE CallBegins
  BY <1>1, BeginFrame DEF Begun
<1>2. CASE CallStep
  <2>1. CASE SocketTrack
    <3>1. call.pid \in Pids /\ call.fd \in Fds
      BY <2>1 DEF SocketTrack, CallShape, OnDescriptor
    <3> QED BY <2>1, <3>1, TrackEffect
  <2>2. CASE BindNote
    BY <2>2, BindEffect DEF BindNote, CallShape, Ensuring
  <2>3. CASE SetSockOptNote
    BY <2>3, BroadcastEffect
  <2>4. CASE EnsureInstall
    <3>1. call.vfd # Invalid /\ call.port # 0 /\ call.pid \in Pids
      BY <2>4 DEF EnsureInstall, CallShape, Holding, Ensuring, OnDescriptor
    <3>2. \A e \in Entries : Matches(e, call.pid, call.fd) => table[e].port = call.port
      BY <2>4 DEF EnsureInstall, Descriptors, PortsKnown, Ensuring
    <3> QED BY <2>4, <3>1, <3>2, InstallEffect DEF Finds, Matches
  <2>5. CASE ForgetLanSocket
    BY <2>5, ForgetEffect, Defaults
  <2>6. CASE ForgetLanSocketsForPid
    BY <2>6, ForgottenEffect, Defaults DEF ForgetLanSocketsForPid
  <2>7. CASE EnsureCheck \/ OpenLanSocket \/ BindLanSocket \/ CloseLanSocket
    BY <2>7 DEF EnsureCheck, OpenLanSocket, BindLanSocket, CloseLanSocket
  <2> QED BY <1>2, <2>1, <2>2, <2>3, <2>4, <2>5, <2>6, <2>7 DEF CallStep
<1>3. CASE Elsewhere
  BY <1>3, ElsewhereFrame
<1>4. CASE NetworkDown
  BY <1>4 DEF NetworkDown
<1>5. CASE CleanupClose
  BY <1>5 DEF CleanupClose
<1>6. ASSUME NEW p \in Pids, CleanupForget(p) PROVE EntryShape'
  BY <1>6, ForgottenEffect, Defaults DEF CleanupForget
<1> QED BY <1>1, <1>2, <1>3, <1>4, <1>5, <1>6, StepCases

(* No step but the beginning of a handler comes to these places. *)
LEMMA CallGoesOn ==
    ASSUME TypeOK, CallShape, CallStep
    PROVE  /\ call'.at \in Ensuring \cup {"idle", "close"}
           /\ UNCHANGED <<sweep, alive, real, resets>>
<1>0. /\ call \in CallType
      /\ \A e \in Entries : {table[e].vfd} \ {Invalid} \in SUBSET Vfds
  BY DEF TypeOK, CallType
<1> USE <1>0, Defaults DEF Ensuring, osVars
<1>1. CASE SocketTrack \/ BindNote \/ SetSockOptNote \/ EnsureCheck
  BY <1>1 DEF SocketTrack, BindNote, SetSockOptNote, EnsureCheck, CallType
<1>2. CASE OpenLanSocket
  BY <1>2 DEF OpenLanSocket, CallType
<1>3. CASE BindLanSocket
  <2>1. {call.vfd} \in SUBSET Vfds
    BY <1>3 DEF BindLanSocket, CallShape, Holding, CallType
  <2> QED BY <1>3, <2>1, ClosingShape DEF BindLanSocket, CallType
<1>4. CASE EnsureInstall
  <2>1. {call.vfd} \in SUBSET Vfds
    BY <1>4 DEF EnsureInstall, CallShape, Holding, CallType
  <2> QED BY <1>4, <2>1, ClosingShape DEF EnsureInstall, Discard
<1>5. CASE ForgetLanSocket
  <2>1. ASSUME NEW e \in Entries, call' = Closing({table[e].vfd} \ {Invalid})
        PROVE  call'.at \in {"idle", "close"}
    BY <2>1, ClosingShape
  <2>2. call'.at \in {"idle", "close"}
    BY <1>5, <2>1, ForgetEffect
  <2> QED BY <1>5, <2>2 DEF ForgetLanSocket
<1>6. CASE ForgetLanSocketsForPid
  BY <1>6, ForgottenTypes, ClosingShape DEF ForgetLanSocketsForPid
<1>7. CASE CloseLanSocket
  <2>1. PICK v \in call.close : call' = Closing(call.close \ {v})
    BY <1>7 DEF CloseLanSocket
  <2>2. call.close \ {v} \in SUBSET Vfds
    BY DEF CallType
  <2> QED BY <1>7, <2>1, <2>2, ClosingShape DEF CloseLanSocket
<1> QED BY <1>1, <1>2, <1>3, <1>4, <1>5, <1>6, <1>7 DEF CallStep

(* A new entry is for a descriptor that had none. *)
LEMMA OneEntryStep ==
    TypeOK /\ CallShape /\ OneEntry /\ Descriptors /\ [Next]_vars => OneEntry'
<1> SUFFICES ASSUME TypeOK, CallShape, OneEntry, Descriptors, [Next]_vars PROVE OneEntry'
  OBVIOUS
<1> USE Constants DEF OneEntry, NotFound, Matches
<1>1. CASE CallBegins
  <2>1. CASE call'.at = "track"
    <3>1. PICK p \in Pids, f \in Fds : Socket(p, f)
      BY <1>1, <2>1, WhichBegan
    <3>2. NotFound(p, f)
      BY <3>1 DEF Socket, Begins, Descriptors, EntriesOpen
    <3>3. call'.pid = p /\ call'.fd = f
      BY <3>1 DEF Socket, Begins, NoCall
    <3> QED BY <1>1, <3>2, <3>3, BeginFrame DEF Begun
  <2> QED BY <1>1, <2>1, BeginFrame DEF Begun
<1>2. CASE CallStep
  <2>0. call'.at # "track"
    BY <1>2, CallGoesOn DEF Ensuring
  <2>1. CASE SocketTrack
    BY <2>0, <2>1, TrackEffect DEF SocketTrack, CallShape, OnDescriptor
  <2>2. CASE BindNote
    BY <2>0, <2>2, BindEffect
  <2>3. CASE SetSockOptNote
    BY <2>0, <2>3, BroadcastEffect
  <2>4. CASE EnsureInstall
    BY <2>0, <2>4, InstallEffect
  <2>5. CASE ForgetLanSocket
    <3>1. \A d \in Entries : table'[d] = table[d] \/ table'[d].pid = NoPid
      BY <2>5, ForgetEffect, Defaults
    <3> QED BY <2>0, <3>1
  <2>6. CASE ForgetLanSocketsForPid
    BY <2>0, <2>6, ForgottenEffect, Defaults DEF ForgetLanSocketsForPid
  <2>7. CASE EnsureCheck \/ OpenLanSocket \/ BindLanSocket \/ CloseLanSocket
    BY <2>0, <2>7 DEF EnsureCheck, OpenLanSocket, BindLanSocket, CloseLanSocket
  <2> QED BY <1>2, <2>1, <2>2, <2>3, <2>4, <2>5, <2>6, <2>7 DEF CallStep
<1>3. CASE Elsewhere
  BY <1>3, ElsewhereFrame
<1>4. CASE NetworkDown
  BY <1>4 DEF NetworkDown
<1>5. CASE CleanupClose
  BY <1>5 DEF CleanupClose
<1>6. ASSUME NEW p \in Pids, CleanupForget(p) PROVE OneEntry'
  BY <1>6, ForgottenEffect, Defaults DEF CleanupForget, CallShape, OnDescriptor
<1> QED BY <1>1, <1>2, <1>3, <1>4, <1>5, <1>6, StepCases

(* What real bsd has of a descriptor agrees with what the table notes of   *)
(* it, and with what the handler in progress was told.                     *)
LEMMA DescriptorStep ==
    TypeOK /\ CallShape /\ EntryShape /\ OneEntry /\ Descriptors /\ [Next]_vars => Descriptors'
<1> SUFFICES ASSUME TypeOK, CallShape, EntryShape, OneEntry, Descriptors, [Next]_vars
             PROVE  Descriptors'
  OBVIOUS
<1>0. /\ alive \subseteq Pids
      /\ \A p \in Pids : real[p] \in [Fds -> Ports \cup {0, Closed}]
      /\ DOMAIN real = Pids
      /\ \A e \in Entries : table[e].pid \in alive =>
            table[e].pid # NoPid /\ table[e].pid \in Pids /\ table[e].fd \in Fds
  BY Constants DEF TypeOK, EntryShape
<1> USE Constants DEF Matches, Descriptors, EntriesOpen, PortsKnown, StillOpen
<1>1. CASE CallBegins
  <2>0. UNCHANGED <<table, alive>> /\ call.at = "idle"
    BY <1>1, BeginFrame DEF Begun
  <2>1. ASSUME NEW p \in Pids, ShutdownAllSockets(p) PROVE Descriptors'
    BY <2>0, <2>1 DEF ShutdownAllSockets, Begins, NoCall, osVars, Ensuring
  <2>2. ASSUME NEW p \in Pids, NEW f \in Fds, Socket(p, f) PROVE Descriptors'
    <3>1. /\ real[p][f] = Closed /\ p \in alive
          /\ real' = [real EXCEPT ![p][f] = 0]
          /\ call'.at = "track" /\ call'.pid = p /\ call'.fd = f
      BY <2>2 DEF Socket, Begins, NoCall
    <3>2. \A e \in Entries : ~Matches(e, p, f)
      BY <2>0, <3>1
    <3> QED BY <1>0, <2>0, <3>1, <3>2 DEF Ensuring
  <2>3. ASSUME NEW p \in Pids, NEW f \in Fds, NEW port \in Ports, Bind(p, f, port)
        PROVE  Descriptors'
    <3>1. /\ real[p][f] = 0 /\ p \in alive
          /\ real' = [real EXCEPT ![p][f] = port]
          /\ call'.at = "bind" /\ call'.pid = p /\ call'.fd = f
      BY <2>3 DEF Bind, Begins, NoCall
    <3>2. \A e \in Entries : Matches(e, p, f) => table[e].port = 0
      BY <3>1
    <3> QED BY <1>0, <2>0, <3>1, <3>2 DEF Ensuring
  <2>4. ASSUME NEW p \in Pids, NEW f \in Fds, NEW on \in BOOLEAN, SetSockOpt(p, f, on)
        PROVE  Descriptors'
    BY <2>0, <2>4 DEF SetSockOpt, Begins, NoCall, osVars, Ensuring
  <2>5. ASSUME NEW p \in Pids, NEW f \in Fds, SendTo(p, f) PROVE Descriptors'
    <3>1. PICK e \in Entries : Finds(e, p, f) /\ Begins(p, f, "ensure", table[e].port)
      BY <2>5 DEF SendTo
    <3>2. \A d \in Entries : Matches(d, p, f) => d = e
      BY <3>1 DEF Finds, OneEntry
    <3>3. call'.at = "ensure" /\ call'.pid = p /\ call'.fd = f /\ call'.port = table[e].port
      BY <3>1 DEF Begins, NoCall
    <3>4. UNCHANGED real
      BY <2>5 DEF SendTo, osVars
    <3> QED BY <2>0, <3>2, <3>3, <3>4
  <2>6. ASSUME NEW p \in Pids, NEW f \in Fds, Close(p, f) PROVE Descriptors'
    <3>1. /\ real' = [real EXCEPT ![p][f] = Closed]
          /\ call'.at = "forget" /\ call'.pid = p /\ call'.fd = f
      BY <2>6 DEF Close, Begins, NoCall
    <3> QED BY <1>0, <2>0, <3>1 DEF Ensuring
  <2> QED BY <1>1, <2>1, <2>2, <2>3, <2>4, <2>5, <2>6 DEF CallBegins
<1>2. CASE CallStep
  <2>0. call'.at \in Ensuring \cup {"idle", "close"} /\ UNCHANGED <<alive, real>>
    BY <1>2, CallGoesOn
  <2>1. StillOpen'
    BY <2>0 DEF Ensuring
  <2>2. EntriesOpen'
    <3> USE <1>0, <2>0 DEF Ensuring
    <3>1. CASE SocketTrack
      BY <3>1, TrackEffect DEF SocketTrack, CallShape, OnDescriptor
    <3>2. CASE BindNote
      <4>1. call.at = "bind" /\ call.pid \in Pids
        BY <3>2 DEF BindNote, CallShape, OnDescriptor
      <4>2. ASSUME NEW e \in Entries, Finds(e, call.pid, call.fd),
                   table'[e].pid = table[e].pid, table'[e].fd = table[e].fd,
                   \A d \in Entries \ {e} : table'[d] = table[d]
            PROVE  EntriesOpen'
        <5>1. table[e].pid = call.pid /\ table[e].fd = call.fd
          BY <4>2 DEF Finds
        <5>2. ASSUME NEW d \in Entries, table'[d].pid \in alive
              PROVE  /\ real[table'[d].pid][table'[d].fd] # Closed
                     /\ real[table'[d].pid][table'[d].fd] = 0 => table'[d].port = 0
          <6>1. CASE d = e
            BY <4>1, <4>2, <5>1, <5>2, <6>1
          <6>2. CASE d # e
            BY <4>1, <4>2, <5>2, <6>2
          <6> QED BY <6>1, <6>2
        <5> QED BY <5>2
      <4>3. CASE UNCHANGED table
        BY <4>1, <4>3
      <4> QED BY <3>2, <4>2, <4>3, BindEffect
    <3>3. CASE SetSockOptNote
      <4>1. call.at # "forget"
        BY <3>3 DEF SetSockOptNote
      <4> QED BY <4>1, <3>3, BroadcastEffect
    <3>4. CASE EnsureInstall
      <4>1. call.at # "forget"
        BY <3>4 DEF EnsureInstall
      <4>2. \A d \in Entries : /\ table'[d].pid = table[d].pid /\ table'[d].fd = table[d].fd
                               /\ table'[d].port = table[d].port
        BY <3>4, InstallEffect
      <4> QED BY <4>1, <4>2
    <3>5. CASE ForgetLanSocket
      <4>1. \A d \in Entries : \/ table'[d].pid = NoPid
                               \/ table'[d] = table[d] /\ ~Matches(d, call.pid, call.fd)
        <5>1. call.pid \in Pids
          BY <3>5 DEF ForgetLanSocket, CallShape, OnDescriptor
        <5>2. ASSUME NEW d \in Entries, NEW e \in Entries,
                     Finds(e, call.pid, call.fd), Matches(d, call.pid, call.fd)
              PROVE  d = e
          BY <5>1, <5>2 DEF Finds, OneEntry
        <5> QED BY <3>5, <5>2, ForgetEffect, Defaults DEF NotFound
      <4> QED BY <4>1
    <3>6. CASE ForgetLanSocketsForPid
      <4>1. call.at # "forget"
        BY <3>6 DEF ForgetLanSocketsForPid
      <4>2. \A d \in Entries : table'[d].pid = NoPid \/ table'[d] = table[d]
        BY <3>6, ForgottenEffect, Defaults DEF ForgetLanSocketsForPid
      <4> QED BY <4>1, <4>2
    <3>7. CASE EnsureCheck \/ OpenLanSocket \/ BindLanSocket \/ CloseLanSocket
      <4>1. call.at # "forget" /\ UNCHANGED table
        BY <3>7 DEF EnsureCheck, OpenLanSocket, BindLanSocket, CloseLanSocket
      <4> QED BY <4>1
    <3> QED BY <1>2, <3>1, <3>2, <3>3, <3>4, <3>5, <3>6, <3>7 DEF CallStep
  <2>3. PortsKnown'
    <3> USE <2>0 DEF Ensuring
    <3>0. ASSUME NEW e \in Entries, NEW d \in Entries, call.pid \in Pids,
                 Matches(e, call.pid, call.fd), Matches(d, call.pid, call.fd)
          PROVE  d = e
      BY <3>0 DEF OneEntry
    <3>1. CASE BindNote
      <4>1. CASE call' = NoCall
        BY <4>1, Defaults
      <4>2. CASE call' # NoCall
        <5>1. call' = [call EXCEPT !.at = "ensure"] /\ call.pid \in Pids
          BY <3>1, <4>2 DEF BindNote, CallShape, OnDescriptor
        <5>2. call'.pid = call.pid /\ call'.fd = call.fd /\ call'.port = call.port
          BY <5>1 DEF TypeOK
        <5>3. PICK e \in Entries :
                 /\ Finds(e, call.pid, call.fd)
                 /\ table'[e].port = call.port
                 /\ \A d \in Entries \ {e} : table'[d] = table[d]
          BY <3>1, <4>2, BindEffect DEF BindNote, TypeOK
        <5> QED BY <3>0, <5>1, <5>2, <5>3 DEF Finds
      <4> QED BY <4>1, <4>2
    <3>2. CASE SetSockOptNote
      <4>1. CASE call' = NoCall
        BY <4>1, Defaults
      <4>2. CASE call' # NoCall
        <5>1. PICK e \in Entries :
                 /\ Finds(e, call.pid, call.fd)
                 /\ call' = [call EXCEPT !.at = "ensure", !.port = table[e].port]
          BY <3>2, <4>2 DEF SetSockOptNote
        <5>2. call'.pid = call.pid /\ call'.fd = call.fd /\ call'.port = table[e].port
          BY <5>1 DEF TypeOK
        <5>3. call.pid \in Pids
          BY <3>2 DEF SetSockOptNote, CallShape, OnDescriptor
        <5> QED BY <3>0, <5>1, <5>2, <5>3, <3>2, BroadcastEffect DEF Finds
      <4> QED BY <4>1, <4>2
    <3>3. CASE EnsureCheck \/ OpenLanSocket \/ BindLanSocket
      <4>1. UNCHANGED table
        BY <3>3 DEF EnsureCheck, OpenLanSocket, BindLanSocket
      <4>2. CASE call'.at \in Ensuring
        <5>1. /\ call'.pid = call.pid /\ call'.fd = call.fd /\ call'.port = call.port
              /\ call.at \in Ensuring
          <6>1. CASE EnsureCheck
            BY <4>2, <6>1, Defaults DEF EnsureCheck, TypeOK
          <6>2. CASE OpenLanSocket
            BY <4>2, <6>2, Defaults DEF OpenLanSocket, TypeOK
          <6>3. CASE BindLanSocket
            BY <4>2, <6>3 DEF BindLanSocket, TypeOK, Closing, NoCall
          <6> QED BY <3>3, <6>1, <6>2, <6>3
        <5> QED BY <4>1, <5>1
      <4> QED BY <4>2
    <3>4. CASE SocketTrack \/ EnsureInstall \/ ForgetLanSocket \/ ForgetLanSocketsForPid
               \/ CloseLanSocket
      <4>1. call' = NoCall \/ \E vs : call' = Closing(vs)
        BY <3>4 DEF SocketTrack, EnsureInstall, Discard, ForgetLanSocket, ForgetLanSocketsForPid,
                    CloseLanSocket
      <4>2. ASSUME NEW vs, call' = Closing(vs) PROVE call'.at \notin Ensuring \cup {"bind"}
        BY <4>2 DEF Closing, NoCall
      <4>3. call'.at \notin Ensuring \cup {"bind"}
        BY <4>1, <4>2, Defaults
      <4> QED BY <4>3
    <3> QED BY <1>2, <3>1, <3>2, <3>3, <3>4 DEF CallStep
  <2> QED BY <2>1, <2>2, <2>3
<1>3. CASE Elsewhere
  <2>1. UNCHANGED <<table, call>> /\ alive' \subseteq alive /\ \A p \in alive' : real'[p] = real[p]
    BY <1>3, ElsewhereFrame
  <2>2. EntriesOpen'
    BY <2>1
  <2>3. PortsKnown' /\ StillOpen'
    BY <2>1
  <2> QED BY <2>2, <2>3
<1>4. CASE NetworkDown
  BY <1>4 DEF NetworkDown, osVars
<1>5. CASE CleanupClose
  BY <1>5 DEF CleanupClose, osVars
<1>6. ASSUME NEW p \in Pids, CleanupForget(p) PROVE Descriptors'
  <2>1. /\ UNCHANGED <<call, alive, real>>
        /\ \A d \in Entries : table'[d] = table[d] \/ table'[d].pid = NoPid
    BY <1>6, ForgottenEffect, Defaults DEF CleanupForget, osVars
  <2>2. EntriesOpen'
    BY <1>0, <2>1
  <2>3. PortsKnown' /\ StillOpen'
    BY <2>1 DEF CallShape, OnDescriptor, Ensuring
  <2> QED BY <2>2, <2>3
<1> QED BY <1>1, <1>2, <1>3, <1>4, <1>5, <1>6, StepCases

(* Until the network first goes down, a VNet socket passes from hand to    *)
(* hand and is nowhere twice.                                              *)
LEMMA HandsStep ==
    /\ TypeOK /\ CallShape /\ EntryShape /\ Descriptors /\ HandsClean /\ MirrorsAgree
    /\ [Next]_vars
    => HandsClean' /\ MirrorsAgree'
<1> SUFFICES ASSUME TypeOK, CallShape, EntryShape, Descriptors, HandsClean, MirrorsAgree,
                    [Next]_vars, resets' = 0
             PROVE  HandsClean' /\ MirrorsAgree'
  BY DEF HandsClean, MirrorsAgree
<1>0. /\ \A e \in Entries : table[e].vfd \in Vfds \cup {Invalid}
      /\ DOMAIN used = Vfds /\ DOMAIN vport = Vfds
      /\ call.close \in SUBSET Vfds /\ sweep.close \in SUBSET Vfds
      /\ call.vfd \in Vfds \cup {Invalid}
  BY DEF TypeOK
<1>a. resets = 0
  <2>1. resets' = resets \/ NetworkDown
    BY StepCases, BeginFrame, CallGoesOn, ElsewhereFrame
    DEF Begun, CleanupClose, CleanupForget
  <2> QED BY <2>1 DEF NetworkDown, TypeOK
<1> USE Constants, <1>0, <1>a DEF HandsClean, MirrorsAgree, Mirrored, Holding
<1>1. CASE CallBegins
  BY <1>1, BeginFrame DEF Begun, CallShape
<1>2. CASE CallStep
  <2>0. UNCHANGED sweep
    BY <1>2, CallGoesOn
  <2> USE <2>0
  <2>1. CASE SocketTrack
    <3>1. UNCHANGED <<used, vport>> /\ call' = NoCall
      BY <2>1 DEF SocketTrack, vnetVars
    <3>2. ASSUME NEW e \in Entries, table'[e].mirrored PROVE table'[e] = table[e]
      BY <2>1, <3>2, TrackEffect
    <3> QED BY <2>1, <3>1, <3>2, Defaults DEF SocketTrack, CallShape
  <2>2. CASE BindNote
    <3>1. UNCHANGED <<used, vport>> /\ call'.close = call.close /\ ~Holding'
      BY <2>2, Defaults DEF BindNote, vnetVars, CallShape, TypeOK
    <3>2. ASSUME NEW e \in Entries, table'[e].mirrored PROVE table'[e] = table[e]
      <4>1. \A d \in Entries : Finds(d, call.pid, call.fd) => ~table[d].mirrored
        BY <2>2 DEF BindNote, Finds, Descriptors, PortsKnown, EntryShape
      <4> QED BY <2>2, <3>2, <4>1, BindEffect
    <3> QED BY <3>1, <3>2
  <2>3. CASE SetSockOptNote
    <3>1. UNCHANGED <<used, vport>> /\ call'.close = call.close /\ ~Holding'
      <4>1. CASE call' = NoCall
        BY <2>3, <4>1, Defaults DEF SetSockOptNote, vnetVars, CallShape
      <4>2. ASSUME NEW e \in Entries, call' = [call EXCEPT !.at = "ensure", !.port = table[e].port]
            PROVE  call'.close = call.close /\ ~Holding'
        BY <4>2 DEF TypeOK
      <4> QED BY <2>3, <4>1, <4>2 DEF SetSockOptNote, vnetVars
    <3> QED BY <2>3, <3>1, BroadcastEffect
  <2>4. CASE EnsureCheck
    <3>1. UNCHANGED <<table, used, vport>> /\ call'.close = call.close /\ ~Holding'
      BY <2>4, Defaults DEF EnsureCheck, vnetVars, CallShape, TypeOK
    <3> QED BY <3>1
  <2>5. CASE OpenLanSocket
    <3>1. CASE call' = NoCall
      <4>1. UNCHANGED <<table, used, vport>>
        BY <2>5, <3>1, Defaults DEF OpenLanSocket, TypeOK
      <4> QED BY <3>1, <4>1, Defaults
    <3>2. CASE call' # NoCall
      <4>1. PICK v \in Vfds :
               /\ ~used[v]
               /\ used' = [used EXCEPT ![v] = TRUE] /\ vport' = [vport EXCEPT ![v] = 0]
               /\ call' = [call EXCEPT !.at = "bindMirror", !.vfd = v]
        BY <2>5, <3>2 DEF OpenLanSocket
      <4>2. call'.at = "bindMirror" /\ call'.vfd = v /\ call'.close = {} /\ UNCHANGED table
        BY <2>5, <4>1 DEF OpenLanSocket, TypeOK, CallShape
      <4> QED BY <4>1, <4>2
    <3> QED BY <3>1, <3>2
  <2>6. CASE BindLanSocket
    <3>1. call.vfd \in Vfds /\ call.close = {} /\ UNCHANGED <<table, used>>
      BY <2>6 DEF BindLanSocket, CallShape
    <3>2. CASE vport' = [vport EXCEPT ![call.vfd] = call.port] /\ call' = [call EXCEPT !.at = "install"]
      <4>1. call'.at = "install" /\ call'.vfd = call.vfd /\ call'.port = call.port /\ call'.close = {}
        BY <3>1, <3>2 DEF TypeOK
      <4> QED BY <2>6, <3>1, <3>2, <4>1 DEF BindLanSocket
    <3>3. CASE call' = Closing({call.vfd}) /\ UNCHANGED vport
      <4>1. call'.at = "close" /\ call'.close = {call.vfd}
        <5>1. {call.vfd} \in SUBSET Vfds
          BY <3>1
        <5> QED BY <3>3, <5>1, ClosingShape
      <4>2. ~Holding' /\ used[call.vfd] /\ call.vfd \notin sweep.close
        BY <2>6, <4>1 DEF BindLanSocket
      <4> QED BY <2>6, <3>1, <3>3, <4>1, <4>2 DEF BindLanSocket
    <3> QED BY <2>6, <3>2, <3>3 DEF BindLanSocket
  <2>7. CASE EnsureInstall
    <3>1. UNCHANGED <<used, vport>> /\ call.at = "install" /\ call.vfd \in Vfds /\ call.close = {}
      BY <2>7 DEF EnsureInstall, vnetVars, CallShape
    <3>2. CASE UNCHANGED table /\ call' = Closing({call.vfd})
      <4>1. call'.at = "close" /\ call'.close = {call.vfd}
        <5>1. {call.vfd} \in SUBSET Vfds
          BY <3>1
        <5> QED BY <3>2, <5>1, ClosingShape
      <4> QED BY <3>1, <3>2, <4>1
    <3>3. ASSUME call' = NoCall, NEW e \in Entries,
                 Finds(e, call.pid, call.fd), ~table[e].mirrored,
                 table'[e].vfd = call.vfd, table'[e].mirrored,
                 table'[e].port = table[e].port,
                 \A d \in Entries \ {e} : table'[d] = table[d]
          PROVE  HandsClean' /\ MirrorsAgree'
      <4>1. table[e].port = call.port
        BY <3>1, <3>3 DEF Descriptors, PortsKnown, Ensuring, Finds
      <4>2. ~Holding' /\ call'.close = {}
        BY <3>3, Defaults
      <4>3. /\ used[call.vfd] /\ call.vfd \notin sweep.close
            /\ vport[call.vfd] = table[e].port
            /\ \A d \in Entries : table[d].mirrored => table[d].vfd # call.vfd
        BY <3>1, <4>1
      <4>4. \A d \in Entries \ {e} : table'[d] = table[d]
        BY <3>3
      <4>5. HandsClean'
        BY <3>1, <3>3, <4>2, <4>3, <4>4
      <4>6. MirrorsAgree'
        BY <3>1, <3>3, <4>3, <4>4
      <4> QED BY <4>5, <4>6
    <3> QED BY <2>7, <3>2, <3>3, InstallEffect
  <2>8. CASE ForgetLanSocket
    <3>1. UNCHANGED <<used, vport>> /\ call.close = {} /\ call.pid # NoPid
      BY <2>8 DEF ForgetLanSocket, vnetVars, CallShape, OnDescriptor
    <3>2. CASE UNCHANGED table /\ call' = NoCall
      BY <3>1, <3>2, Defaults
    <3>3. ASSUME NEW e \in Entries, Finds(e, call.pid, call.fd),
                 call' = Closing({table[e].vfd} \ {Invalid}), table'[e] = NoEntry,
                 \A d \in Entries \ {e} : table'[d] = table[d]
          PROVE  HandsClean' /\ MirrorsAgree'
      <4>1. call'.at \in {"idle", "close"} /\ call'.close = {table[e].vfd} \ {Invalid}
        <5>1. {table[e].vfd} \ {Invalid} \in SUBSET Vfds
          OBVIOUS
        <5> QED BY <3>3, <5>1, ClosingShape
      <4>2. table[e].vfd # Invalid => table[e].mirrored
        BY <3>1, <3>3 DEF Finds, Matches, EntryShape
      <4>3. \A d \in Entries : table'[d].mirrored => d # e /\ table'[d] = table[d]
        BY <3>3, Defaults
      <4> QED BY <3>1, <4>1, <4>2, <4>3
    <3> QED BY <2>8, <3>2, <3>3, ForgetEffect
  <2>9. CASE ForgetLanSocketsForPid
    <3>1. UNCHANGED <<used, vport>> /\ call.close = {} /\ call.pid # NoPid
      BY <2>9 DEF ForgetLanSocketsForPid, vnetVars, CallShape
    <3>2. call'.at \in {"idle", "close"} /\ call'.close = VfdsOf(call.pid)
      BY <2>9, ForgottenTypes, ClosingShape DEF ForgetLanSocketsForPid
    <3>3. \A v \in VfdsOf(call.pid) : \E e \in Entries :
             table[e].pid = call.pid /\ table[e].mirrored /\ table[e].vfd = v
      BY <3>1 DEF VfdsOf, Owned, EntryShape
    <3>4. \A e \in Entries : table'[e].mirrored => table'[e] = table[e] /\ table[e].pid # call.pid
      BY <2>9, ForgottenEffect, Defaults DEF ForgetLanSocketsForPid
    <3> QED BY <3>1, <3>2, <3>3, <3>4
  <2>10. CASE CloseLanSocket
    <3>1. PICK v \in call.close : udpClose(v) /\ call' = Closing(call.close \ {v})
      BY <2>10 DEF CloseLanSocket
    <3>2. call'.at \in {"idle", "close"} /\ call'.close = call.close \ {v}
      BY <3>1, ClosingShape
    <3>3. UNCHANGED table
      BY <2>10 DEF CloseLanSocket
    <3>4. \A w \in Vfds \ {v} : (used[w] => used'[w]) /\ vport'[w] = vport[w]
      BY <3>1 DEF udpClose
    <3>5. v \notin sweep.close /\ \A e \in Entries : table[e].mirrored => table[e].vfd # v
      OBVIOUS
    <3>6. ~Holding' /\ v \in Vfds
      BY <3>2
    <3>7. HandsClean'
      <4>1. \A w \in call'.close \cup sweep.close : w \in Vfds \ {v} /\ used[w]
        BY <3>2, <3>5
      <4>2. \A w \in call'.close \cup sweep.close : used'[w]
        BY <3>4, <4>1
      <4>3. \A w \in call'.close \cup sweep.close, e \in Entries :
               table[e].mirrored => table[e].vfd # w
        BY <3>2
      <4> QED BY <3>2, <3>3, <3>6, <4>2, <4>3
    <3>8. MirrorsAgree'
      BY <3>3, <3>4, <3>5 DEF EntryShape
    <3> QED BY <3>7, <3>8
  <2> QED BY <1>2, <2>1, <2>2, <2>3, <2>4, <2>5, <2>6, <2>7, <2>8, <2>9, <2>10 DEF CallStep
<1>3. CASE Elsewhere
  BY <1>3, ElsewhereFrame
<1>4. CASE NetworkDown
  BY <1>4 DEF NetworkDown
<1>5. CASE CleanupClose
  <2>1. PICK v \in sweep.close : udpClose(v) /\ sweep' = [sweep EXCEPT !.close = @ \ {v}]
    BY <1>5 DEF CleanupClose
  <2>2. sweep'.close = sweep.close \ {v} /\ UNCHANGED <<table, call>>
    BY <1>5, <2>1 DEF CleanupClose, TypeOK
  <2> QED BY <2>1, <2>2 DEF udpClose
<1>6. ASSUME NEW p \in Pids, CleanupForget(p) PROVE HandsClean' /\ MirrorsAgree'
  <2>1. UNCHANGED <<used, vport, call>> /\ sweep.close = {} /\ sweep'.close = VfdsOf(p)
    BY <1>6 DEF CleanupForget, NoSweep, vnetVars
  <2>2. \A v \in VfdsOf(p) : \E e \in Entries :
           table[e].pid = p /\ table[e].mirrored /\ table[e].vfd = v
    BY DEF VfdsOf, Owned, EntryShape
  <2>3. \A e \in Entries : table'[e].mirrored => table'[e] = table[e] /\ table[e].pid # p
    BY <1>6, ForgottenEffect, Defaults DEF CleanupForget
  <2> QED BY <2>1, <2>2, <2>3
<1> QED BY <1>1, <1>2, <1>3, <1>4, <1>5, <1>6, StepCases

(* A VNet socket in use is always somebody's. *)
Held(v) ==
    \/ \E e \in Mirrored : table[e].vfd = v
    \/ Holding /\ call.vfd = v
    \/ v \in call.close
    \/ v \in sweep.close

(* It changes hands in one step, and is closed before it is dropped. *)
LEMMA OrphanStep ==
    TypeOK /\ CallShape /\ EntryShape /\ NoOrphan /\ [Next]_vars => NoOrphan'
<1> SUFFICES ASSUME TypeOK, CallShape, EntryShape, [Next]_vars,
                    NEW v \in Vfds, used'[v], used[v] => Held(v)
             PROVE  Held(v)'
  BY DEF NoOrphan, Held, Holding
<1>0. /\ \A e \in Entries : table[e].vfd \in Vfds \cup {Invalid}
      /\ DOMAIN used = Vfds
      /\ call.close \in SUBSET Vfds /\ sweep.close \in SUBSET Vfds
      /\ call.vfd \in Vfds \cup {Invalid}
  BY DEF TypeOK
<1> USE Constants, <1>0 DEF Held, Mirrored, Holding
<1>1. CASE CallBegins
  BY <1>1, BeginFrame DEF Begun, CallShape
<1>2. CASE CallStep
  <2>0. UNCHANGED sweep
    BY <1>2, CallGoesOn
  <2> USE <2>0
  <2>1. CASE SocketTrack
    <3>1. used[v] /\ ~Holding /\ call.close = {}
      BY <2>1 DEF SocketTrack, vnetVars, CallShape
    <3>2. ASSUME NEW e \in Entries, table[e].mirrored PROVE table'[e] = table[e]
      BY <2>1, <3>2, TrackEffect DEF EntryShape
    <3> QED BY <3>1, <3>2
  <2>2. CASE BindNote
    <3>1. used[v] /\ ~Holding /\ call.close = {}
      BY <2>2 DEF BindNote, vnetVars, CallShape
    <3>2. ASSUME NEW e \in Entries, table[e].mirrored
          PROVE  table'[e].mirrored /\ table'[e].vfd = table[e].vfd
      BY <2>2, <3>2, BindEffect
    <3> QED BY <3>1, <3>2
  <2>3. CASE SetSockOptNote
    <3>1. used[v] /\ ~Holding /\ call.close = {}
      BY <2>3 DEF SetSockOptNote, vnetVars, CallShape
    <3> QED BY <2>3, <3>1, BroadcastEffect
  <2>4. CASE EnsureCheck
    <3>1. used[v] /\ ~Holding /\ call.close = {} /\ UNCHANGED table
      BY <2>4 DEF EnsureCheck, vnetVars, CallShape
    <3> QED BY <3>1
  <2>5. CASE OpenLanSocket
    <3>1. ~Holding /\ call.close = {} /\ UNCHANGED table
      BY <2>5 DEF OpenLanSocket, CallShape
    <3>2. CASE used[v]
      BY <3>1, <3>2
    <3>3. CASE ~used[v]
      <4>1. PICK w \in Vfds :
               /\ used' = [used EXCEPT ![w] = TRUE]
               /\ call' = [call EXCEPT !.at = "bindMirror", !.vfd = w]
        BY <2>5, <3>3 DEF OpenLanSocket
      <4>2. v = w
        BY <3>3, <4>1
      <4> QED BY <4>1, <4>2 DEF TypeOK
    <3> QED BY <3>2, <3>3
  <2>6. CASE BindLanSocket
    <3>1. used[v] /\ call.vfd \in Vfds /\ call.close = {} /\ UNCHANGED table
      BY <2>6 DEF BindLanSocket, CallShape
    <3>2. CASE call' = [call EXCEPT !.at = "install"]
      BY <3>1, <3>2 DEF TypeOK
    <3>3. CASE call' = Closing({call.vfd})
      <4>1. {call.vfd} \in SUBSET Vfds
        BY <3>1
      <4>2. call'.close = {call.vfd}
        BY <3>3, <4>1, ClosingShape
      <4> QED BY <3>1, <4>2
    <3> QED BY <2>6, <3>2, <3>3 DEF BindLanSocket
  <2>7. CASE EnsureInstall
    <3>1. used[v] /\ call.vfd \in Vfds /\ call.close = {}
      BY <2>7 DEF EnsureInstall, vnetVars, CallShape
    <3>2. CASE UNCHANGED table /\ call' = Closing({call.vfd})
      <4>1. {call.vfd} \in SUBSET Vfds
        BY <3>1
      <4>2. call'.close = {call.vfd}
        BY <3>2, <4>1, ClosingShape
      <4> QED BY <3>1, <3>2, <4>2
    <3>3. ASSUME NEW e \in Entries, ~table[e].mirrored,
                 table'[e].vfd = call.vfd, table'[e].mirrored,
                 \A d \in Entries \ {e} : table'[d] = table[d]
          PROVE  Held(v)'
      BY <3>1, <3>3
    <3> QED BY <2>7, <3>2, <3>3, InstallEffect
  <2>8. CASE ForgetLanSocket
    <3>1. used[v] /\ ~Holding /\ call.close = {}
      BY <2>8 DEF ForgetLanSocket, vnetVars, CallShape
    <3>2. CASE UNCHANGED table
      BY <3>1, <3>2
    <3>3. ASSUME NEW e \in Entries, call' = Closing({table[e].vfd} \ {Invalid}),
                 \A d \in Entries \ {e} : table'[d] = table[d]
          PROVE  Held(v)'
      <4>1. {table[e].vfd} \ {Invalid} \in SUBSET Vfds
        OBVIOUS
      <4>2. call'.close = {table[e].vfd} \ {Invalid}
        BY <3>3, <4>1, ClosingShape
      <4> QED BY <3>1, <3>3, <4>2
    <3> QED BY <2>8, <3>2, <3>3, ForgetEffect
  <2>9. CASE ForgetLanSocketsForPid
    <3>1. used[v] /\ ~Holding /\ call.close = {}
      BY <2>9 DEF ForgetLanSocketsForPid, vnetVars, CallShape
    <3>2. call'.close = VfdsOf(call.pid)
      BY <2>9, ForgottenTypes, ClosingShape DEF ForgetLanSocketsForPid
    <3>3. \A e \in Entries : table'[e] = table[e] \/ table[e].vfd \in VfdsOf(call.pid) \cup {Invalid}
      BY <2>9, ForgottenEffect DEF ForgetLanSocketsForPid, VfdsOf, Owned
    <3> QED BY <3>1, <3>2, <3>3
  <2>10. CASE CloseLanSocket
    <3>1. PICK w \in call.close : udpClose(w) /\ call' = Closing(call.close \ {w})
      BY <2>10 DEF CloseLanSocket
    <3>2. call.close \ {w} \in SUBSET Vfds /\ w \in Vfds
      OBVIOUS
    <3>3. call'.close = call.close \ {w} /\ UNCHANGED table
      BY <2>10, <3>1, <3>2, ClosingShape DEF CloseLanSocket
    <3>4. used[v] /\ v # w
      BY <3>1, <3>2 DEF udpClose
    <3>5. ~Holding
      BY <2>10 DEF CloseLanSocket
    <3> QED BY <3>3, <3>4, <3>5
  <2> QED BY <1>2, <2>1, <2>2, <2>3, <2>4, <2>5, <2>6, <2>7, <2>8, <2>9, <2>10 DEF CallStep
<1>3. CASE Elsewhere
  BY <1>3, ElsewhereFrame
<1>4. CASE NetworkDown
  BY <1>4 DEF NetworkDown
<1>5. CASE CleanupClose
  <2>1. PICK w \in sweep.close : udpClose(w) /\ sweep' = [sweep EXCEPT !.close = @ \ {w}]
    BY <1>5 DEF CleanupClose
  <2>2. sweep'.close = sweep.close \ {w} /\ UNCHANGED <<table, call>>
    BY <1>5, <2>1 DEF CleanupClose, TypeOK
  <2>3. used[v] /\ v # w
    BY <2>1 DEF udpClose
  <2> QED BY <2>2, <2>3
<1>6. ASSUME NEW p \in Pids, CleanupForget(p) PROVE Held(v)'
  <2>1. used[v] /\ UNCHANGED call /\ sweep.close = {} /\ sweep'.close = VfdsOf(p)
    BY <1>6 DEF CleanupForget, NoSweep, vnetVars
  <2>2. \A e \in Entries : table'[e] = table[e] \/ table[e].vfd \in VfdsOf(p) \cup {Invalid}
    BY <1>6, ForgottenEffect DEF CleanupForget, VfdsOf, Owned
  <2> QED BY <2>1, <2>2
<1> QED BY <1>1, <1>2, <1>3, <1>4, <1>5, <1>6, StepCases

(* The inductive invariant holds in every state. *)
LEMMA Invariance == Spec => []Inv
<1>1. ASSUME Init PROVE Inv
  <2> USE <1>1, Constants, Defaults DEF Init
  <2>1. /\ table \in [Entries -> EntryType] /\ call \in CallType
        /\ \A e \in Entries : table[e].pid = NoPid /\ ~table[e].mirrored
    OBVIOUS
  <2>2. configured \in BOOLEAN /\ used \in [Vfds -> BOOLEAN]
    BY Zenon
  <2>3. TypeOK
    BY <2>1, <2>2, MirrorAssumption DEF TypeOK, EntryType, CallType, NoSweep
  <2>4. CallShape /\ EntryShape /\ OneEntry /\ Descriptors
    BY <2>1, <2>3 DEF CallShape, OnDescriptor, Ensuring, Holding, NoSweep, EntryShape, OneEntry,
                Descriptors, EntriesOpen, PortsKnown, StillOpen, TypeOK, NoCall
  <2>5. HandsClean /\ NoOrphan /\ MirrorsAgree
    BY <2>1 DEF HandsClean, Holding, NoSweep, NoOrphan, MirrorsAgree, Mirrored
  <2> QED BY <2>3, <2>4, <2>5 DEF Inv
<1>2. Inv /\ [Next]_vars => Inv'
  BY TypeStep, ShapeStep, EntryStep, OneEntryStep, DescriptorStep, HandsStep, OrphanStep DEF Inv
<1> QED BY <1>1, <1>2, PTL DEF Spec

(***************************************************************************)
(* The theorems.                                                           *)
(***************************************************************************)

(* The table, the VNet's sockets and what the two threads carry between
   their locked sections keep their types, however many processes there are
   and however large the two tables. *)
THEOREM TypeCorrectness == Spec => []TypeOK
<1>1. Inv => TypeOK
  BY DEF Inv
<1> QED BY <1>1, Invariance, PTL

(* No VNet socket leaks: each one in use is an entry's or still in the
   hands of EnsureLanMirror, of a close or of the clean-up, in every order
   of the handlers, the network's callbacks and the exits of processes. *)
THEOREM NothingOrphaned == Spec => []NoOrphan
<1>1. Inv => NoOrphan
  BY DEF Inv
<1> QED BY <1>1, Invariance, PTL

(* Until the network goes down, what EnsureLanMirror installs is an open
   VNet socket of its own with the port of the game's bind, although the
   table is not locked while the socket is opened and bound. *)
THEOREM MirrorsAlwaysAgree == Spec => []MirrorsAgree
<1>1. Inv => MirrorsAgree
  BY DEF Inv
<1> QED BY <1>1, Invariance, PTL
=============================================================================
