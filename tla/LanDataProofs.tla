---------------------------- MODULE LanDataProofs ----------------------------
(***************************************************************************)
(* Proofs about LanData for every set of sockets, every game and every     *)
(* bound: its types, AccountedSends, OverlayServes and ReadyIsTrue.        *)
(*                                                                         *)
(* A call is several steps, and the VNet may be reset or fed between them. *)
(* What has to be known in the middle of a call is which step follows for  *)
(* whom, what has been sent so far and why a send was forwarded, and that  *)
(* Select and Poll have counted and reported so far what is so.            *)
(***************************************************************************)
EXTENDS LanData, FiniteSetTheorems, WellFoundedInduction, TLAPS

(* The call fits the step it is at. *)
CallShape ==
    /\ call.op \in Sends => call.fd \in Fds /\ call.msgs # <<>>
    /\ call.op = "SendTo" => \A i \in DOMAIN call.msgs : call.msgs[i].to # NoDest
    /\ pc = "emit" => call.op \in Sends /\ Len(sent) < Len(call.msgs)
    /\ pc \in {"look", "merge"} => call.op \in Waits
    /\ pc = "forward" =>
          /\ call.op \in Sends \cup Reads \cup Waits \cup {"Connect"}
          /\ call.op \notin Waits => call.fd \in Fds
          /\ call.op \in Sends => sent = <<>>
          /\ call.op = "Connect" => call.name \in Dests \cup {NoDest}
    /\ pc # "idle" /\ call.op \in Waits => call.todo \subseteq Watched(call.watch)

(* What a send that is not over has put on the overlay. *)
EmittedToLan ==
    pc = "emit" => \A i \in DOMAIN sent :
        sent[i].net = "lan" /\ WellAddressed(call.msgs[i], sent[i])

(* While the VNet keeps what the call found, the socket stays usable, and  *)
(* a send is forwarded only because of a message that is not for the       *)
(* overlay.                                                                *)
HealthyCall ==
    pc # "idle" /\ healthy =>
        /\ call.fd \in Fds => Usable(call.fd)
        /\ pc = "forward" /\ call.op \in Sends =>
              \E i \in DOMAIN call.msgs : ~ForOverlay(call.msgs[i])

(* While the results are merged, the count agrees with the sets, only what *)
(* was asked for is set, and what is reported is so.                       *)
MergedSoFar ==
    pc = "merge" =>
        /\ call.ret = RealCount(call.op, call.ready)
        /\ \A f \in Fds : call.ready[f] \subseteq call.watch[f]
        /\ healthy => \A f \in Fds : "in" \in call.ready[f] => Readable(f)

Inv ==
    /\ TypeOK
    /\ CallShape
    /\ EmittedToLan
    /\ HealthyCall
    /\ MergedSoFar
    /\ AccountedSends
    /\ OverlayServes

-----------------------------------------------------------------------------
(* Numbers.                                                                *)

(* The smallest number of a set is one of it. *)
LEMMA MinIsLeast ==
    ASSUME NEW S, S \subseteq Nat, S # {}
    PROVE  Min(S) \in S /\ \A x \in S : Min(S) <= x
<1> DEFINE R == {p \in Nat \X Nat : p[1] < p[2]}
<1>1. IsWellFoundedOn(R, Nat)
  BY NatLessThanWellFounded DEF OpToRel
<1>2. \A x, y \in Nat : <<y, x>> \in R <=> y < x
  OBVIOUS
<1> HIDE DEF R
<1>3. PICK x \in S : \A y \in S : ~(<<y, x>> \in R)
  BY <1>1, WFMin
<1>4. ASSUME NEW y \in S
      PROVE  x <= y
  <2>1. x \in Nat /\ y \in Nat
    OBVIOUS
  <2>2. ~(y < x)
    BY <1>2, <1>3, <2>1
  <2> QED
    BY <2>1, <2>2
<1> QED
  BY <1>4 DEF Min

(* So the VNet socket that is handed out is a free one, and the watched    *)
(* socket that is looked at next is one of those that are left.            *)
LEMMA FreeVFd == open # VFds /\ open \subseteq VFds => Min(VFds \ open) \in VFds \ open
<1>1. VFds \ open \subseteq Nat
  BY DataAssumption DEF VFds
<1> QED
  BY <1>1, MinIsLeast

LEMMA FirstIsLeft == call.todo \subseteq Fds /\ call.todo # {} => First \in call.todo
BY MinIsLeast, DataAssumption DEF First

-----------------------------------------------------------------------------
(* The record of the call.                                                 *)

Ops   == {"none", "Bind", "GetSockName", "GetPeerName", "Connect"} \cup Sends \cup Reads \cup Waits
Names == Dests \cup {NoDest, "managed", "physical"}
Errs  == {"ok", "route", "again", "unconnected", "fail"}
Sets  == [Fds -> SUBSET {"in", "out"}]

(* No call is a call... *)
LEMMA NoCallType == NoCall \in Calling
<1>1. NoCall.peek \in BOOLEAN
  BY Zenon DEF NoCall
<1>2. NoCall.ready \in Sets /\ NoCall.watch \in Sets
  BY DEF NoCall, Nothing, Sets
<1>3. NoCall.msgs \in Seq(Messages) /\ NoCall.msgs = <<>>
  BY DEF NoCall
<1> QED
  BY <1>1, <1>2, <1>3 DEF NoCall, Calling, Timeouts, Sets

(* ...and stays one with another field, for each way the calls begin and   *)
(* go on.                                                                  *)
LEMMA CallWithMessages ==
    ASSUME NEW c \in Calling, NEW o \in Ops, NEW f \in Fds, NEW ms \in Seq(Messages)
    PROVE  [c EXCEPT !.op = o, !.fd = f, !.msgs = ms] \in Calling
BY DEF Calling, Ops

LEMMA CallWithName ==
    ASSUME NEW c \in Calling, NEW o \in Ops, NEW f \in Fds
    PROVE  /\ [c EXCEPT !.op = o, !.fd = f] \in Calling
           /\ \A n \in Names : [c EXCEPT !.op = o, !.fd = f, !.name = n] \in Calling
           /\ \A n \in Names, r \in Int :
                 [c EXCEPT !.op = o, !.fd = f, !.name = n, !.ret = r] \in Calling
<1>1. [c EXCEPT !.op = o, !.fd = f] \in Calling
  BY DEF Calling, Ops
<1>2. ASSUME NEW n \in Names
      PROVE  [c EXCEPT !.op = o, !.fd = f, !.name = n] \in Calling
  BY DEF Calling, Ops, Names
<1>3. ASSUME NEW n \in Names, NEW r \in Int
      PROVE  [c EXCEPT !.op = o, !.fd = f, !.name = n, !.ret = r] \in Calling
  BY DEF Calling, Ops, Names
<1> QED
  BY <1>1, <1>2, <1>3

LEMMA CallToReceive ==
    ASSUME NEW c \in Calling, NEW o \in Ops, NEW f \in Fds, NEW p \in BOOLEAN,
           NEW w \in Timeouts, NEW r \in Int
    PROVE  [c EXCEPT !.op = o, !.fd = f, !.peek = p, !.wait = w, !.ret = r] \in Calling
BY DEF Calling, Ops

LEMMA CallToWait ==
    ASSUME NEW c \in Calling, NEW o \in Ops, NEW s \in Sets, NEW w \in Timeouts,
           NEW left \in SUBSET Fds
    PROVE  [c EXCEPT !.op = o, !.watch = s, !.wait = w, !.todo = left] \in Calling
BY DEF Calling, Ops, Sets

LEMMA CallGoesOn ==
    ASSUME NEW c \in Calling
    PROVE  /\ \A r \in Int, e \in Errs : [c EXCEPT !.ret = r, !.err = e] \in Calling
           /\ \A w \in Timeouts : [c EXCEPT !.wait = w] \in Calling
           /\ \A left \in SUBSET Fds : [c EXCEPT !.todo = left] \in Calling
           /\ \A w \in Timeouts, left \in SUBSET Fds :
                 [c EXCEPT !.wait = w, !.todo = left] \in Calling
           /\ \A s \in Sets, r \in Int, left \in SUBSET Fds :
                 [c EXCEPT !.ready = s, !.ret = r, !.todo = left] \in Calling
BY DEF Calling, Sets, Errs

(* What the fields of a call are. *)
LEMMA CallFields ==
    ASSUME NEW c \in Calling
    PROVE  /\ c.op \in Ops /\ c.fd \in Fds \cup {NoFd} /\ c.msgs \in Seq(Messages)
           /\ c.peek \in BOOLEAN /\ c.wait \in Timeouts /\ c.watch \in Sets
           /\ c.todo \subseteq Fds /\ c.ret \in Int /\ c.err \in Errs
           /\ c.ready \in Sets /\ c.name \in Names
BY DEF Calling, Ops, Names, Errs, Sets

-----------------------------------------------------------------------------
(* What Select and Poll count.                                             *)

Bits(ready) == {b \in Fds \X {"in", "out"} : b[2] \in ready[b[1]]}

Events(ready) == {f \in Fds : ready[f] # {}}

(* What there is to count is finite. *)
LEMMA CountsAreFinite ==
    ASSUME NEW ready
    PROVE  IsFiniteSet(Bits(ready)) /\ IsFiniteSet(Events(ready))
<1>1. IsFiniteSet(Fds \X {"in", "out"})
  <2>1. IsFiniteSet({"in"} \cup {"out"})
    BY FS_Singleton, FS_Union
  <2>2. {"in", "out"} = {"in"} \cup {"out"}
    OBVIOUS
  <2>3. IsFiniteSet(Fds) /\ IsFiniteSet({"in", "out"})
    BY <2>1, <2>2, DataAssumption
  <2> QED
    BY <2>3, FS_Product
<1>2. Bits(ready) \subseteq Fds \X {"in", "out"} /\ Events(ready) \subseteq Fds
  BY DEF Bits, Events
<1> QED
  BY <1>1, <1>2, FS_Subset, DataAssumption

(* The count is a number... *)
LEMMA RealCountType ==
    ASSUME NEW op, NEW ready
    PROVE  RealCount(op, ready) \in Nat
<1>1. Cardinality(Bits(ready)) \in Nat /\ Cardinality(Events(ready)) \in Nat
  BY CountsAreFinite, FS_CardinalityType
<1> QED
  BY <1>1 DEF RealCount, Bits, Events

(* ...which a socket that becomes readable raises by one, for Select if it *)
(* was not readable and for Poll if it had no event: CountsAsNew is right. *)
LEMMA OneMore ==
    ASSUME NEW op, NEW ready \in Sets, NEW f \in Fds
    PROVE  RealCount(op, [ready EXCEPT ![f] = @ \cup {"in"}])
             = IF (op = "Select" /\ "in" \notin ready[f]) \/ (op # "Select" /\ ready[f] = {})
               THEN RealCount(op, ready) + 1 ELSE RealCount(op, ready)
<1> DEFINE after == [ready EXCEPT ![f] = @ \cup {"in"}]
<1>1. \A g \in Fds : after[g] = IF g = f THEN ready[f] \cup {"in"} ELSE ready[g]
  BY DEF Sets
<1> HIDE DEF after
<1>2. CASE op = "Select"
  <2>1. Bits(after) = Bits(ready) \cup {<<f, "in">>}
    <3>1. \A g \in Fds, e \in {"in", "out"} :
             e \in after[g] <=> e \in ready[g] \/ (g = f /\ e = "in")
      BY <1>1
    <3> QED
      BY <3>1 DEF Bits
  <2>2. <<f, "in">> \in Bits(ready) <=> "in" \in ready[f]
    BY DEF Bits
  <2>3. Cardinality(Bits(after)) = IF "in" \notin ready[f] THEN Cardinality(Bits(ready)) + 1
                                   ELSE Cardinality(Bits(ready))
    BY <2>1, <2>2, CountsAreFinite, FS_AddElement
  <2> QED
    BY <1>2, <2>3 DEF RealCount, Bits, after
<1>3. CASE op # "Select"
  <2>1. Events(after) = Events(ready) \cup {f}
    BY <1>1 DEF Events
  <2>2. f \in Events(ready) <=> ready[f] # {}
    BY DEF Events
  <2>3. Cardinality(Events(after)) = IF ready[f] = {} THEN Cardinality(Events(ready)) + 1
                                     ELSE Cardinality(Events(ready))
    BY <2>1, <2>2, CountsAreFinite, FS_AddElement
  <2> QED
    BY <1>3, <2>3 DEF RealCount, Events, after
<1> QED
  BY <1>2, <1>3

-----------------------------------------------------------------------------
(* The types.                                                              *)

RowType    == [port : BOOLEAN, vfd : VFds \cup {NoFd}, peer : Dests \cup {NoDest}]
SocketType == [bound : BOOLEAN, peer : Dests \cup {NoDest}, rx : 0..MaxQueue,
               error : {"ok", "route"}]
SentType   == [net : {"lan", "wifi"}, to : Dests]

(* A mirror is opened on a free VNet socket or not at all; one that is     *)
(* there stays, and so do the peers.                                       *)
LEMMA EnsureEffect ==
    ASSUME TypeOK, NEW f \in Fds, NEW port \in BOOLEAN, EnsureLanMirror(f, port)
    PROVE  /\ table' \in [Fds -> RowType]
           /\ open' \subseteq VFds /\ open \subseteq open'
           /\ \A g \in Fds :
                 /\ table'[g].peer = table[g].peer
                 /\ Mirrored(g) => table'[g].vfd = table[g].vfd
<1> DEFINE candidate == Min(VFds \ open)
           wanted == port /\ ~Mirrored(f) /\ configured /\ open # VFds
           vfd == IF wanted THEN candidate ELSE table[f].vfd
<1>1. wanted => candidate \in VFds \ open
  BY FreeVFd DEF TypeOK
<1>2. table' = [table EXCEPT ![f].port = port, ![f].vfd = vfd]
      /\ open' = IF wanted THEN open \cup {candidate} ELSE open
  BY DEF EnsureLanMirror
<1>3. table \in [Fds -> RowType] /\ vfd \in VFds \cup {NoFd}
  BY <1>1 DEF TypeOK, RowType
<1>4. Mirrored(f) => vfd = table[f].vfd
  OBVIOUS
<1>5. open' \subseteq VFds /\ open \subseteq open'
  BY <1>1, <1>2 DEF TypeOK
<1> HIDE DEF candidate, wanted, vfd
<1>6. [table[f] EXCEPT !.port = port, !.vfd = vfd] \in RowType
  BY <1>3 DEF RowType
<1>7. table' = [table EXCEPT ![f] = [table[f] EXCEPT !.port = port, !.vfd = vfd]]
  BY <1>2, <1>3 DEF RowType
<1>8. table' \in [Fds -> RowType]
  BY <1>3, <1>6, <1>7
<1>9. \A g \in Fds :
        /\ table'[g].peer = table[g].peer
        /\ Mirrored(g) => table'[g].vfd = table[g].vfd
  BY <1>3, <1>4, <1>7 DEF RowType
<1> QED
  BY <1>5, <1>8, <1>9

(* What the call of a game brings has its type. *)
LEMMA GameTypes ==
    ASSUME TypeOK
    PROVE  /\ game.senders \subseteq Fds /\ game.readers \subseteq Fds /\ game.faulty \subseteq Fds
           /\ game.batches \subseteq Seq(Messages) \ {<<>>}
           /\ game.singles \subseteq Messages /\ game.peers \subseteq Dests
           /\ game.watches \subseteq Sets
BY DataAssumption DEF TypeOK, Sets

(* A call that begins and then has its type leaves everything in its type. *)
LEMMA BeginsTypes ==
    ASSUME TypeOK, NEW f \in Fds \cup {NoFd}, Begins(f), call' \in Calling,
           table' \in [Fds -> RowType], open' \subseteq VFds,
           pc' \in {"idle", "emit", "look", "merge", "forward"}
    PROVE  TypeOK'
<1>1. healthy' \in BOOLEAN
  BY DEF Begins, Usable
<1>2. sent' \in Seq([net : {"lan", "wifi"}, to : Dests])
  BY DEF Begins
<1> QED
  BY <1>1, <1>2 DEF TypeOK, Begins, RowType

(* Calls on one socket begin with types. *)
LEMMA CallsTypes ==
    ASSUME TypeOK, Calls
    PROVE  TypeOK'
<1> USE GameTypes
<1>1. table \in [Fds -> RowType] /\ open \subseteq VFds
      /\ pc \in {"idle", "emit", "look", "merge", "forward"}
  BY DEF TypeOK, RowType
<1>2. ASSUME NEW f \in Fds, Bind(f)
      PROVE  TypeOK'
  <2>1. table' \in [Fds -> RowType] /\ open' \subseteq VFds
    <3>1. EnsureLanMirror(f, TRUE)
      BY <1>2 DEF Bind
    <3>2. TRUE \in BOOLEAN
      BY Zenon
    <3> QED
      BY <3>1, <3>2, EnsureEffect
  <2>2. call' \in Calling
    BY <1>2, NoCallType, CallWithName DEF Bind, Ops, Names
  <2>3. real' \in [Fds -> SocketType]
    <3>1. real \in [Fds -> SocketType] /\ real' = [real EXCEPT ![f].bound = TRUE]
      BY <1>2 DEF TypeOK, SocketType, Bind
    <3>2. [real[f] EXCEPT !.bound = TRUE] \in SocketType
      BY <3>1 DEF SocketType
    <3> QED
      BY <3>1, <3>2
  <2>4. healthy' \in BOOLEAN
    BY <1>2, Zenon DEF Bind
  <2>5. sent' \in Seq([net : {"lan", "wifi"}, to : Dests])
    BY <1>2 DEF Bind
  <2> QED
    BY <1>2, <2>1, <2>2, <2>3, <2>4, <2>5 DEF TypeOK, Bind, RowType, SocketType
<1>3. ASSUME NEW f \in Fds, GetSockName(f)
      PROVE  TypeOK'
  <2>1. call' \in Calling
    BY <1>3, NoCallType, CallWithName DEF GetSockName, Ops, Names
  <2>2. table' \in [Fds -> RowType]
    <3>1. (table[f].port \/ real[f].bound) \in BOOLEAN
      BY Zenon
    <3>2. [table[f] EXCEPT !.port = @ \/ real[f].bound] \in RowType
      BY <1>1, <3>1 DEF RowType
    <3> QED
      BY <1>1, <1>3, <3>2 DEF GetSockName
  <2> QED
    BY <1>1, <1>3, <2>1, <2>2, BeginsTypes DEF GetSockName
<1>4. ASSUME NEW f \in Fds, GetPeerName(f)
      PROVE  TypeOK'
  <2> DEFINE name == IF Mirrored(f) /\ table[f].peer # NoDest THEN table[f].peer
                     ELSE real[f].peer
  <2>1. name \in Names
    BY DEF TypeOK, Names
  <2>2. (IF name = NoDest THEN -1 ELSE 0) \in Int
    OBVIOUS
  <2>3. call' \in Calling
    BY <1>4, <2>1, <2>2, NoCallType, CallWithName DEF GetPeerName, Ops
  <2> QED
    BY <1>1, <1>4, <2>3, BeginsTypes DEF GetPeerName
<1>5. ASSUME NEW f \in Fds, NEW m \in Messages, SendTo(f, m)
      PROVE  TypeOK'
  <2>1. table' \in [Fds -> RowType] /\ open' \subseteq VFds
    <3>1. CASE m.to \in LastOctet255
      <4>1. EnsureLanMirror(f, table[f].port) /\ table[f].port \in BOOLEAN
        BY <1>5, <3>1 DEF SendTo, TypeOK
      <4> QED
        BY <4>1, EnsureEffect
    <3>2. CASE m.to \notin LastOctet255
      BY <1>1, <1>5, <3>2 DEF SendTo
    <3> QED
      BY <3>1, <3>2
  <2>2. call' \in Calling
    <3>1. <<m>> \in Seq(Messages) /\ "SendTo" \in Ops
      BY DEF Ops, Sends
    <3> QED
      BY <1>5, <3>1, NoCallType, CallWithMessages DEF SendTo
  <2> QED
    BY <1>5, <2>1, <2>2, BeginsTypes DEF SendTo
<1>6. ASSUME NEW f \in Fds, NEW m \in Messages, Send(f, m)
      PROVE  TypeOK'
  <2>1. call' \in Calling
    <3>1. <<m>> \in Seq(Messages) /\ "Send" \in Ops
      BY DEF Ops, Sends
    <3> QED
      BY <1>6, <3>1, NoCallType, CallWithMessages DEF Send
  <2> QED
    BY <1>1, <1>6, <2>1, BeginsTypes DEF Send
<1>7. ASSUME NEW f \in Fds, NEW ms \in game.batches, SendMMsg(f, ms)
      PROVE  TypeOK'
  <2>1. call' \in Calling
    BY <1>7, NoCallType, CallWithMessages DEF SendMMsg, Ops, Sends
  <2> QED
    BY <1>1, <1>7, <2>1, BeginsTypes DEF SendMMsg
<1>8. ASSUME NEW f \in Fds, NEW d \in Dests \cup {"unspec"},
             ConnectLan(f, d) \/ ConnectReal(f, d)
      PROVE  TypeOK'
  <2>1. Peer(d) \in Dests \cup {NoDest}
    BY DEF Peer
  <2>2. call' \in Calling
    <3>1. call' = [NoCall EXCEPT !.op = "Connect", !.fd = f, !.name = Peer(d)]
      BY <1>8 DEF ConnectLan, ConnectReal
    <3>2. Peer(d) \in Names /\ "Connect" \in Ops
      BY <2>1 DEF Names, Ops
    <3> QED
      BY <3>1, <3>2, NoCallType, CallWithName
  <2>3. table' \in [Fds -> RowType]
    <3>1. [table[f] EXCEPT !.peer = Peer(d)] \in RowType
      BY <1>1, <2>1 DEF RowType
    <3> QED
      BY <1>1, <1>8, <3>1 DEF ConnectLan, ConnectReal
  <2> QED
    BY <1>1, <1>8, <2>2, <2>3, BeginsTypes DEF ConnectLan, ConnectReal
<1>9. ASSUME NEW op \in Reads, NEW f \in Fds, NEW peek \in BOOLEAN,
             NEW wait \in {"now", "never"}, Receive(op, f, peek, wait)
      PROVE  TypeOK'
  <2> DEFINE virtual == op # "RecvMMsg" /\ LanSocketReadable(f)
  <2>1. op \in Ops /\ wait \in Timeouts /\ (IF virtual THEN 1 ELSE 0) \in Int
    BY DEF Ops, Timeouts
  <2>2. call' = [NoCall EXCEPT !.op = op, !.fd = f, !.peek = peek, !.wait = wait,
                               !.ret = IF virtual THEN 1 ELSE 0]
    BY <1>9 DEF Receive
  <2>3. call' \in Calling
    BY <2>1, <2>2, NoCallType, CallToReceive
  <2>4. queued' \in [VFds -> 0..MaxQueue]
    <3>1. CASE virtual /\ ~peek
      <4>1. GetLanVfd(f) \in VFds /\ queued[GetLanVfd(f)] - 1 \in 0..MaxQueue
        BY <3>1, DataAssumption DEF LanSocketReadable, TypeOK
      <4> QED
        BY <1>9, <3>1, <4>1 DEF Receive, TypeOK
    <3>2. CASE ~(virtual /\ ~peek)
      BY <1>9, <3>2 DEF Receive, TypeOK
    <3> QED
      BY <3>1, <3>2
  <2>5. healthy' \in BOOLEAN
    BY <1>9 DEF Receive, Usable
  <2>6. sent' \in Seq([net : {"lan", "wifi"}, to : Dests])
        /\ pc' \in {"idle", "forward"}
    BY <1>9 DEF Receive
  <2> QED
    BY <1>9, <2>3, <2>4, <2>5, <2>6 DEF TypeOK, Receive
<1>10. ASSUME NEW op \in Waits, NEW w \in Sets, NEW t \in Timeouts, StartWait(op, w, t)
       PROVE  TypeOK'
  <2>1. Watched(w) \in SUBSET Fds /\ op \in Ops
    BY DEF Watched, Ops
  <2>2. call' \in Calling
    BY <1>10, <2>1, NoCallType, CallToWait DEF StartWait
  <2> QED
    BY <1>1, <1>10, <2>2, BeginsTypes DEF StartWait
<1> QED
  BY <1>2, <1>3, <1>4, <1>5, <1>6, <1>7, <1>8, <1>9, <1>10 DEF Calls

(* A step of the second loop that finds a readable mirror. *)
MergedCall ==
    [call EXCEPT !.todo = @ \ {First}, !.ret = IF CountsAsNew(First) THEN @ + 1 ELSE @,
                 !.ready[First] = @ \cup {"in"}]

LEMMA MergedType ==
    ASSUME call \in Calling, call.todo # {}
    PROVE  /\ First \in Fds
           /\ MergedCall = [call EXCEPT !.ready = [call.ready EXCEPT ![First] = @ \cup {"in"}],
                              !.ret = IF CountsAsNew(First) THEN call.ret + 1 ELSE call.ret,
                              !.todo = call.todo \ {First}]
           /\ MergedCall \in Calling
<1>1. First \in Fds
  BY CallFields, FirstIsLeft
<1>2. MergedCall = [call EXCEPT !.ready = [call.ready EXCEPT ![First] = @ \cup {"in"}],
                              !.ret = IF CountsAsNew(First) THEN call.ret + 1 ELSE call.ret,
                              !.todo = call.todo \ {First}]
  BY DEF MergedCall, Calling
<1>3. [call.ready EXCEPT ![First] = @ \cup {"in"}] \in Sets
  BY <1>1, CallFields DEF Sets
<1>4. (IF CountsAsNew(First) THEN call.ret + 1 ELSE call.ret) \in Int
      /\ call.todo \ {First} \in SUBSET Fds
  BY CallFields
<1> QED
  BY <1>1, <1>2, <1>3, <1>4, CallGoesOn

(* The server thread's further steps keep the types of a call that fits    *)
(* its step... *)
LEMMA ServerTypes ==
    ASSUME Inv, Server \/ RefuseWait
    PROVE  TypeOK'
<1> USE DEF Inv
<1>1. call \in Calling /\ sent \in Seq(SentType) /\ real \in [Fds -> SocketType]
      /\ table \in [Fds -> RowType]
  BY DEF TypeOK, SentType, SocketType, RowType
<1>2. ASSUME NEW r \in Int, NEW e \in Errs, Returns(r, e)
      PROVE  call' \in Calling /\ pc' = "idle"
  BY <1>1, <1>2, CallGoesOn DEF Returns
<1>3. CASE Emit
  <2> DEFINE m == call.msgs[Len(sent) + 1]
  <2>1. call.fd \in Fds /\ m \in Messages /\ Len(sent) < Len(call.msgs)
    BY <1>1, <1>3, CallFields DEF Emit, CallShape
  <2>2. CASE Accepts(m) /\ sent' = Append(sent, OnLan(m))
    <3>1. OnLan(m) \in SentType
      BY <2>1, <2>2 DEF Accepts, OnLan, SentType, Subnet, Dests, Hosts, LanHosts
    <3>2. sent' \in Seq(SentType) /\ Len(sent') \in Int
      BY <1>1, <2>2, <3>1
    <3>3. call' \in Calling /\ pc' \in {"idle", "emit"}
      <4>1. CASE Returns(Len(sent'), "ok")
        BY <1>2, <3>2, <4>1 DEF Errs
      <4>2. CASE UNCHANGED <<pc, call>>
        BY <1>1, <1>3, <4>2 DEF Emit
      <4> QED
        BY <1>3, <2>1, <2>2, <4>1, <4>2 DEF Emit
    <3> QED
      BY <1>3, <3>2, <3>3 DEF TypeOK, Emit, vnetVars, SentType
  <2>3. CASE GiveUp /\ UNCHANGED sent
    <3>1. call' \in Calling /\ pc' \in {"idle", "forward"}
      <4>1. Len(sent) \in Int
        BY <1>1
      <4> QED
        BY <1>1, <1>2, <2>3, <4>1 DEF GiveUp, Errs
    <3> QED
      BY <1>3, <2>3, <3>1 DEF TypeOK, Emit, vnetVars
  <2> QED
    BY <1>3, <2>2, <2>3 DEF Emit
<1>4. CASE ForwardSend
  <2> DEFINE f == call.fd
  <2>1. f \in Fds /\ sent = <<>> /\ call.msgs \in Seq(Messages)
    BY <1>1, <1>4, CallFields DEF ForwardSend, CallShape
  <2>2. ASSUME NEW n \in 1..Len(call.msgs),
               \A i \in 1..n : RealTo(f, call.msgs[i]) # NoDest,
               sent' = sent \o [i \in 1..n |-> [net |-> "wifi", to |-> RealTo(f, call.msgs[i])]],
               Returns(n, "ok"), real' = [real EXCEPT ![f].bound = TRUE]
        PROVE  TypeOK'
    <3>1. \A i \in 1..n : [net |-> "wifi", to |-> RealTo(f, call.msgs[i])] \in SentType
      <4>1. real[f].peer \in Dests \cup {NoDest}
        BY <1>1, <2>1 DEF SocketType
      <4>2. ASSUME NEW i \in 1..n
            PROVE  RealTo(f, call.msgs[i]) \in Dests
        <5>1. call.msgs[i] \in Messages
          BY <2>1
        <5>2. call.msgs[i].to \in Dests \cup {NoDest}
          BY <5>1 DEF Messages
        <5> QED
          BY <2>2, <4>1, <5>2 DEF RealTo
      <4> QED
        BY <4>2 DEF SentType
    <3>2. [i \in 1..n |-> [net |-> "wifi", to |-> RealTo(f, call.msgs[i])]] \in Seq(SentType)
      BY <2>1, <3>1
    <3>3. sent' \in Seq(SentType)
      BY <1>1, <2>2, <3>2
    <3>4. [real[f] EXCEPT !.bound = TRUE] \in SocketType
      BY <1>1, <2>1 DEF SocketType
    <3>5. real' \in [Fds -> SocketType]
      BY <1>1, <2>1, <2>2, <3>4
    <3>6. call' \in Calling /\ pc' = "idle"
      BY <1>2, <2>1, <2>2 DEF Errs
    <3> QED
      BY <1>4, <3>3, <3>5, <3>6 DEF TypeOK, ForwardSend, vnetVars, SocketType, SentType
  <2>3. ASSUME NEW e \in {"unconnected", "route"}, Returns(-1, e), UNCHANGED <<sent, real>>
        PROVE  TypeOK'
    <3>1. call' \in Calling /\ pc' = "idle"
      BY <1>2, <2>3 DEF Errs
    <3> QED
      BY <1>4, <2>3, <3>1 DEF TypeOK, ForwardSend, vnetVars
  <2> QED
    BY <1>4, <2>2, <2>3 DEF ForwardSend
<1>5. CASE ForwardConnect
  <2> DEFINE f == call.fd
  <2>1. f \in Fds /\ call.name \in Dests \cup {NoDest}
    BY <1>5 DEF ForwardConnect, CallShape, Waits
  <2>2. CASE Returns(0, "ok") /\ real' = [real EXCEPT ![f].peer = call.name, ![f].bound = TRUE]
             /\ table' = [table EXCEPT ![f].peer = call.name]
    <3>1. [real[f] EXCEPT !.peer = call.name, !.bound = TRUE] \in SocketType
      <4>1. real[f] \in SocketType
        BY <1>1, <2>1
      <4> QED
        BY <2>1, <4>1 DEF SocketType
    <3>2. real' = [real EXCEPT ![f] = [real[f] EXCEPT !.peer = call.name, !.bound = TRUE]]
      BY <1>1, <2>1, <2>2 DEF SocketType
    <3>3. [table[f] EXCEPT !.peer = call.name] \in RowType
      BY <1>1, <2>1 DEF RowType
    <3>4. real' \in [Fds -> SocketType] /\ table' \in [Fds -> RowType]
      BY <1>1, <2>1, <2>2, <3>1, <3>2, <3>3
    <3>5. call' \in Calling /\ pc' = "idle"
      BY <1>2, <2>2 DEF Errs
    <3> QED
      BY <1>5, <3>4, <3>5 DEF TypeOK, ForwardConnect, vnetVars, SocketType, RowType
  <2>3. CASE Returns(-1, "route") /\ UNCHANGED <<real, table>>
    <3>1. call' \in Calling /\ pc' = "idle"
      BY <1>2, <2>3 DEF Errs
    <3> QED
      BY <1>5, <2>3, <3>1 DEF TypeOK, ForwardConnect, vnetVars
  <2> QED
    BY <1>5, <2>2, <2>3 DEF ForwardConnect
<1>6. CASE ForwardReceive
  <2> DEFINE f == call.fd
  <2>1. f \in Fds
    BY <1>6 DEF ForwardReceive, CallShape, Reads, Waits
  <2>2. SuppressPhysicalUdpError(f, real[f].error) \in Errs
    BY <1>1, <2>1 DEF SuppressPhysicalUdpError, Errs, SocketType
  <2>3. call' \in Calling /\ pc' = "idle"
    <3>1. CASE Returns(-1, SuppressPhysicalUdpError(f, real[f].error))
      BY <1>2, <2>2, <3>1
    <3>2. CASE Returns(1, "ok")
      BY <1>2, <3>2 DEF Errs
    <3>3. CASE Returns(-1, "again")
      BY <1>2, <3>3 DEF Errs
    <3> QED
      BY <1>6, <3>1, <3>2, <3>3 DEF ForwardReceive
  <2>4. real' \in [Fds -> SocketType]
    <3>1. CASE real' = [real EXCEPT ![f].error = "ok"]
      <4>1. [real[f] EXCEPT !.error = "ok"] \in SocketType
        BY <1>1, <2>1 DEF SocketType
      <4> QED
        BY <1>1, <2>1, <3>1, <4>1
    <3>2. CASE /\ real[f].rx > 0
               /\ real' = [real EXCEPT ![f].rx = IF call.peek THEN @ ELSE @ - 1]
      <4>1. real[f].rx - 1 \in 0..MaxQueue
        BY <1>1, <2>1, <3>2, DataAssumption DEF SocketType
      <4>2. [real[f] EXCEPT !.rx = IF call.peek THEN @ ELSE @ - 1] \in SocketType
        BY <1>1, <2>1, <4>1 DEF SocketType
      <4> QED
        BY <1>1, <2>1, <3>2, <4>2
    <3>3. CASE UNCHANGED real
      BY <1>1, <3>3
    <3> QED
      BY <1>6, <3>1, <3>2, <3>3 DEF ForwardReceive
  <2>5. UNCHANGED <<game, vnetVars, table, sent, healthy>>
    BY <1>6 DEF ForwardReceive
  <2> QED
    BY <2>3, <2>4, <2>5 DEF TypeOK, vnetVars, SocketType
<1>7. CASE Look
  <2>1. call.todo \subseteq Fds /\ call.todo \ {First} \in SUBSET Fds
    BY <1>1, CallFields
  <2>2. PhysicalWait \in Timeouts /\ "now" \in Timeouts
    BY <1>1, CallFields DEF PhysicalWait, Timeouts
  <2>3. call' \in Calling
    <3>1. CASE call' = [call EXCEPT !.wait = PhysicalWait]
      BY <1>1, <2>2, <3>1, CallGoesOn
    <3>2. CASE call' = [call EXCEPT !.todo = @ \ {First}]
      BY <1>1, <2>1, <3>2, CallGoesOn
    <3>3. CASE call' = [call EXCEPT !.wait = "now",
                          !.todo = IF call.op = "Select" THEN {} ELSE @ \ {First}]
      <4>1. (IF call.op = "Select" THEN {} ELSE call.todo \ {First}) \in SUBSET Fds
        BY <2>1
      <4> QED
        BY <1>1, <2>2, <3>3, <4>1, CallGoesOn
    <3> QED
      BY <1>7, <3>1, <3>2, <3>3 DEF Look
  <2>4. pc' \in {"look", "forward"} /\ UNCHANGED <<game, vnetVars, table, real, sent, healthy>>
    BY <1>7 DEF Look
  <2> QED
    BY <2>3, <2>4 DEF TypeOK, vnetVars
<1>8. CASE ForwardWait
  <2>1. PICK w \in SUBSET {f \in Fds : "out" \in call.watch[f]} :
          LET readable == {f \in Watched(call.watch) : real[f].rx > 0 \/ real[f].error # "ok"}
              ready == [f \in Fds |-> (IF f \in readable THEN {"in"} ELSE {})
                                     \cup (IF f \in w THEN {"out"} ELSE {})]
          IN call' = [call EXCEPT !.ready = ready, !.ret = RealCount(call.op, ready),
                                  !.todo = IF WatchesVNet THEN Watched(call.watch) ELSE {}]
    BY <1>8 DEF ForwardWait
  <2> DEFINE readable == {f \in Watched(call.watch) : real[f].rx > 0 \/ real[f].error # "ok"}
             ready == [f \in Fds |-> (IF f \in readable THEN {"in"} ELSE {})
                                    \cup (IF f \in w THEN {"out"} ELSE {})]
  <2>2. ready \in Sets
    BY DEF Sets
  <2>3. RealCount(call.op, ready) \in Int
    BY <2>2, RealCountType
  <2>4. (IF WatchesVNet THEN Watched(call.watch) ELSE {}) \in SUBSET Fds
    BY DEF Watched
  <2>5. call' \in Calling
    BY <1>1, <2>1, <2>2, <2>3, <2>4, CallGoesOn
  <2>6. pc' \in {"merge", "idle"} /\ UNCHANGED <<game, vnetVars, table, real, sent, healthy>>
    BY <1>8 DEF ForwardWait
  <2> QED
    BY <2>5, <2>6 DEF TypeOK, vnetVars
<1>9. CASE Merge
  <2>1. call' \in Calling
    <3>1. CASE call.todo = {}
      BY <1>1, <1>9, <3>1 DEF Merge
    <3>2. CASE call.todo # {} /\ ~LanSocketReadable(First)
      <4>1. call.todo \ {First} \in SUBSET Fds
        BY <1>1, CallFields
      <4> QED
        BY <1>1, <1>9, <3>2, <4>1, CallGoesOn DEF Merge
    <3>3. CASE call.todo # {} /\ LanSocketReadable(First)
      <4>1. call' = [call EXCEPT !.todo = @ \ {First},
                                 !.ret = IF CountsAsNew(First) THEN @ + 1 ELSE @,
                                 !.ready[First] = @ \cup {"in"}]
        BY <1>9, <3>3 DEF Merge
      <4> QED
        BY <1>1, <3>3, <4>1, MergedType DEF MergedCall
    <3> QED
      BY <3>1, <3>2, <3>3
  <2>2. pc' \in {"merge", "idle"} /\ UNCHANGED <<game, vnetVars, table, real, sent, healthy>>
    BY <1>9 DEF Merge
  <2> QED
    BY <2>1, <2>2 DEF TypeOK, vnetVars
<1>10. CASE RefuseWait
  <2>1. call' \in Calling /\ pc' = "idle"
    BY <1>2, <1>10 DEF RefuseWait, Errs
  <2> QED
    BY <1>10, <2>1 DEF TypeOK, RefuseWait, vnetVars
<1> QED
  BY <1>3, <1>4, <1>5, <1>6, <1>7, <1>8, <1>9, <1>10 DEF Server

(* ...and the rest of the world does not touch the call. *)
LEMMA EnvironmentTypes ==
    ASSUME TypeOK, Environment
    PROVE  TypeOK'
<1>1. ASSUME NEW v \in VFds, Deliver(v)
      PROVE  TypeOK'
  <2>1. queued[v] + 1 \in 0..MaxQueue
    BY <1>1, DataAssumption DEF Deliver, TypeOK
  <2> QED
    BY <1>1, <2>1 DEF Deliver, TypeOK
<1>2. CASE Configure
  <2>1. configured' \in BOOLEAN
    BY <1>2, Zenon DEF Configure
  <2> QED
    BY <1>2, <2>1 DEF Configure, TypeOK
<1>3. CASE Reset
  <2>1. configured' \in BOOLEAN /\ healthy' \in BOOLEAN
    BY <1>3, Zenon DEF Reset
  <2>2. resets + 1 \in 0..MaxResets /\ 0 \in 0..MaxQueue
    BY <1>3, DataAssumption DEF Reset, TypeOK
  <2> QED
    BY <1>3, <2>1, <2>2 DEF Reset, TypeOK
<1>4. ASSUME NEW f \in Fds, WifiArrives(f) \/ RouteError(f)
      PROVE  TypeOK'
  <2>1. real \in [Fds -> SocketType]
    BY DEF TypeOK, SocketType
  <2>2. real' \in [Fds -> SocketType]
    <3>1. CASE WifiArrives(f)
      <4>1. real[f].rx + 1 \in 0..MaxQueue
        BY <2>1, <3>1, DataAssumption DEF WifiArrives, SocketType
      <4>2. [real[f] EXCEPT !.rx = @ + 1] \in SocketType
        BY <2>1, <4>1 DEF SocketType
      <4> QED
        BY <2>1, <3>1, <4>2 DEF WifiArrives
    <3>2. CASE RouteError(f)
      <4>1. [real[f] EXCEPT !.error = "route"] \in SocketType
        BY <2>1 DEF SocketType
      <4> QED
        BY <2>1, <3>2, <4>1 DEF RouteError
    <3> QED
      BY <1>4, <3>1, <3>2
  <2>3. UNCHANGED <<game, vnetVars, table, pc, call, sent, healthy>>
    BY <1>4 DEF WifiArrives, RouteError
  <2> QED
    BY <2>2, <2>3 DEF TypeOK, SocketType, vnetVars
<1>5. game.readers \subseteq Fds /\ game.faulty \subseteq Fds
  BY GameTypes
<1> QED
  BY <1>1, <1>2, <1>3, <1>4, <1>5 DEF Environment

(* So every step keeps the types. *)
LEMMA TypeStep == Inv /\ Next => TypeOK'
BY CallsTypes, ServerTypes, EnvironmentTypes DEF Inv, Next

-----------------------------------------------------------------------------
(* What is known of the call, step by step.                                *)

Known ==
    /\ CallShape
    /\ EmittedToLan
    /\ HealthyCall
    /\ MergedSoFar
    /\ AccountedSends
    /\ OverlayServes

(* Where a message belongs is settled when its call begins. *)
LEMMA AddressedAlike ==
    ASSUME game' = game, call'.op = call.op
    PROVE  \A x, y : WellAddressed(x, y)' <=> WellAddressed(x, y)
BY DEF WellAddressed, LastOctet255

(* The node thread and the physical network change nothing of it: they add *)
(* to what is readable and usable, or reset the VNet, which is not healthy.*)
LEMMA EnvironmentKeeps ==
    ASSUME Inv, Environment
    PROVE  Known'
<1>1. UNCHANGED <<game, table, pc, call, sent>>
  BY DEF Environment, Deliver, Configure, Reset, WifiArrives, RouteError
<1>2. healthy' => healthy /\ configured' \in {configured, TRUE} /\ open' = open
  BY DEF Environment, Deliver, Configure, Reset, WifiArrives, RouteError, vnetVars
<1>3. ASSUME healthy', NEW f \in Fds, Readable(f)
      PROVE  Readable(f)'
  <2>1. ASSUME NEW v \in VFds, Deliver(v)
        PROVE  Readable(f)'
    BY <1>3, <2>1 DEF Deliver, Readable, LanSocketReadable, GetLanVfd, Inv, TypeOK
  <2>2. CASE Configure
    BY <1>3, <2>2 DEF Configure, Readable, LanSocketReadable, GetLanVfd
  <2>3. ~Reset
    BY <1>3 DEF Reset
  <2>4. ASSUME NEW g \in Fds, WifiArrives(g)
        PROVE  Readable(f)'
    BY <1>3, <2>4 DEF WifiArrives, Readable, LanSocketReadable, GetLanVfd, Inv, TypeOK,
       vnetVars
  <2>5. ASSUME NEW g \in Fds, RouteError(g)
        PROVE  Readable(f)'
    BY <1>3, <2>5 DEF RouteError, Readable, LanSocketReadable, GetLanVfd, Inv, TypeOK, vnetVars
  <2>6. game.readers \subseteq Fds /\ game.faulty \subseteq Fds
    BY GameTypes DEF Inv
  <2> QED
    BY <2>1, <2>2, <2>3, <2>4, <2>5, <2>6 DEF Environment
<1>4. healthy' => \A f \in Fds : Usable(f) => Usable(f)'
  BY <1>1, <1>2 DEF Usable, GetLanVfd
<1>5. \A m : ForOverlay(m)' <=> ForOverlay(m)
  BY <1>1 DEF ForOverlay, To
<1>6. CallShape' /\ EmittedToLan' /\ AccountedSends'
  <2>1. \A x, y : WellAddressed(x, y)' <=> WellAddressed(x, y)
    BY <1>1, AddressedAlike
  <2> QED
    BY <1>1, <2>1 DEF Inv, CallShape, EmittedToLan, AccountedSends, Watched
<1>7. HealthyCall'
  BY <1>1, <1>2, <1>4, <1>5 DEF Inv, HealthyCall
<1>8. MergedSoFar'
  BY <1>1, <1>2, <1>3 DEF Inv, MergedSoFar, RealCount
<1>9. OverlayServes'
  BY <1>1, <1>2, <1>5 DEF Inv, OverlayServes
<1> QED
  BY <1>6, <1>7, <1>8, <1>9 DEF Known

(* A call that begins and is not a send, a receive or a wait has little    *)
(* to keep...                                                              *)
LEMMA OtherCall ==
    ASSUME call'.op \in {"Bind", "GetSockName", "GetPeerName", "Connect"},
           pc' = "idle" \/ (pc' = "forward" /\ call'.op = "Connect" /\ call'.fd \in Fds
                            /\ call'.name \in Dests \cup {NoDest}),
           pc' # "idle" /\ healthy' => Usable(call.fd)'
    PROVE  Known'
BY DEF Known, CallShape, EmittedToLan, HealthyCall, MergedSoFar, AccountedSends,
   OverlayServes, Sends, Reads, Waits

(* ...and a send begins with nothing sent, to go out on the overlay or to  *)
(* be forwarded for a reason.                                              *)
LEMMA SendBegins ==
    ASSUME sent' = <<>>, call'.op \in Sends, call'.fd \in Fds, call'.msgs \in Seq(Messages),
           call'.msgs # <<>>, pc' \in {"emit", "forward"},
           call'.op = "SendTo" => \A i \in DOMAIN call'.msgs : call'.msgs[i].to # NoDest,
           healthy' => Usable(call.fd)',
           healthy' /\ pc' = "forward" =>
              (\E i \in DOMAIN call.msgs : ~ForOverlay(call.msgs[i]))'
    PROVE  Known'
<1>1. CallShape'
  BY DEF CallShape, Sends, Waits
<1>2. EmittedToLan' /\ MergedSoFar' /\ AccountedSends' /\ OverlayServes'
  BY DEF EmittedToLan, MergedSoFar, AccountedSends, OverlayServes
<1>3. HealthyCall'
  BY DEF HealthyCall
<1> QED
  BY <1>1, <1>2, <1>3 DEF Known

(* A socket that is usable has a mirror, which opening one does not change.*)
LEMMA UsableStays ==
    ASSUME TypeOK, NEW f \in Fds, Usable(f), configured' = configured, open \subseteq open',
           table'[f].vfd = table[f].vfd
    PROVE  Mirrored(f) /\ Usable(f)'
BY DataAssumption DEF TypeOK, Usable, Mirrored, GetLanVfd, VFds

(* Every call of the game begins as it should. *)
LEMMA CallsKeep ==
    ASSUME Inv, Calls
    PROVE  Known'
<1>0. TypeOK
  BY DEF Inv
<1> USE GameTypes, <1>0
<1>1. ASSUME NEW f \in Fds, Bind(f) \/ GetSockName(f) \/ GetPeerName(f)
      PROVE  Known'
  <2>1. pc' = "idle" /\ call'.op \in {"Bind", "GetSockName", "GetPeerName"}
    BY <1>1 DEF Bind, GetSockName, GetPeerName, Begins, NoCall
  <2> QED
    BY <2>1, OtherCall
<1>2. ASSUME NEW f \in Fds, NEW d \in Dests \cup {"unspec"},
             ConnectLan(f, d) \/ ConnectReal(f, d)
      PROVE  Known'
  <2>1. call' = [NoCall EXCEPT !.op = "Connect", !.fd = f, !.name = Peer(d)]
    BY <1>2 DEF ConnectLan, ConnectReal
  <2>2. call'.op = "Connect" /\ call'.fd = f /\ call'.name \in Dests \cup {NoDest}
    BY <2>1 DEF NoCall, Peer
  <2>3. CASE ConnectLan(f, d)
    BY <2>2, <2>3, OtherCall DEF ConnectLan, Begins
  <2>4. CASE ConnectReal(f, d)
    <3>1. pc' = "forward" /\ (healthy' => Usable(f))
          /\ UNCHANGED <<configured, open, table>>
      BY <2>4 DEF ConnectReal, Begins
    <3>2. healthy' => Usable(call.fd)'
      BY <2>2, <3>1 DEF Usable, GetLanVfd
    <3> QED
      BY <2>2, <3>1, <3>2, OtherCall
  <2> QED
    BY <1>2, <2>3, <2>4
<1>3. ASSUME NEW f \in Fds, NEW m \in Messages, SendTo(f, m)
      PROVE  Known'
  <2>1. call' = [NoCall EXCEPT !.op = "SendTo", !.fd = f, !.msgs = <<m>>]
    BY <1>3 DEF SendTo
  <2>2. call'.op = "SendTo" /\ call'.fd = f /\ call'.msgs = <<m>>
    BY <2>1 DEF NoCall
  <2>3. /\ m.to # NoDest /\ sent' = <<>>
        /\ (healthy' => Usable(f)) /\ configured' = configured
        /\ pc' = IF table'[f].vfd # NoFd THEN "emit" ELSE "forward"
    BY <1>3 DEF SendTo, Begins
  <2>4. open \subseteq open' /\ (Mirrored(f) => table'[f].vfd = table[f].vfd)
    <3>1. CASE m.to \in LastOctet255
      <4>1. EnsureLanMirror(f, table[f].port) /\ table[f].port \in BOOLEAN
        BY <1>3, <3>1 DEF SendTo, TypeOK
      <4>2. open \subseteq open'
        BY <4>1, EnsureEffect
      <4>3. \A g \in Fds : Mirrored(g) => table'[g].vfd = table[g].vfd
        BY <4>1, EnsureEffect
      <4> QED
        BY <4>2, <4>3
    <3>2. CASE m.to \notin LastOctet255
      BY <1>3, <3>2 DEF SendTo
    <3> QED
      BY <3>1, <3>2
  <2>5. healthy' => Mirrored(f)
    BY <2>3, DataAssumption DEF TypeOK, Usable, Mirrored, VFds
  <2>6. healthy' => Usable(call.fd)' /\ pc' = "emit"
    BY <2>2, <2>3, <2>4, <2>5, UsableStays DEF Mirrored, GetLanVfd
  <2>7. call'.msgs \in Seq(Messages) /\ call'.msgs # <<>>
        /\ \A i \in DOMAIN call'.msgs : call'.msgs[i] = m
    BY <2>2
  <2> QED
    BY <2>2, <2>3, <2>6, <2>7, SendBegins DEF Sends
<1>4. ASSUME NEW f \in Fds, NEW m \in Messages, Send(f, m)
      PROVE  Known'
  <2>1. call' = [NoCall EXCEPT !.op = "Send", !.fd = f, !.msgs = <<m>>]
    BY <1>4 DEF Send
  <2>2. call'.op = "Send" /\ call'.fd = f /\ call'.msgs = <<m>>
    BY <2>1 DEF NoCall
  <2>3. /\ m.to = NoDest /\ sent' = <<>> /\ (healthy' => Usable(f))
        /\ UNCHANGED <<configured, open, table>>
        /\ pc' = IF Mirrored(f) /\ table[f].peer # NoDest THEN "emit" ELSE "forward"
    BY <1>4 DEF Send, Begins
  <2>4. healthy' => Usable(call.fd)' /\ Mirrored(f)
    BY <2>2, <2>3, UsableStays
  <2>5. call'.msgs \in Seq(Messages) /\ call'.msgs # <<>>
        /\ 1 \in DOMAIN call'.msgs /\ call'.msgs[1] = m
    BY <2>2
  <2>6. healthy' /\ pc' = "forward" => ~ForOverlay(call.msgs[1])'
    <3>1. healthy' /\ pc' = "forward" => table'[f].peer = NoDest
      BY <2>3, <2>4
    <3>2. call'.msgs[1].to = NoDest
      BY <2>3, <2>5
    <3> QED
      BY <2>2, <3>1, <3>2 DEF ForOverlay, To, Subnet, LanHosts, NoDest
  <2> QED
    BY <2>2, <2>3, <2>4, <2>5, <2>6, SendBegins DEF Sends
<1>5. ASSUME NEW f \in Fds, NEW ms \in game.batches, SendMMsg(f, ms)
      PROVE  Known'
  <2>1. call' = [NoCall EXCEPT !.op = "SendMMsg", !.fd = f, !.msgs = ms]
    BY <1>5 DEF SendMMsg
  <2>2. call'.op = "SendMMsg" /\ call'.fd = f /\ call'.msgs = ms
        /\ ms \in Seq(Messages) /\ ms # <<>>
    BY <2>1 DEF NoCall
  <2>3. /\ sent' = <<>> /\ (healthy' => Usable(f))
        /\ UNCHANGED <<configured, open, table>>
        /\ pc' = IF Mirrored(f) /\ \A i \in DOMAIN ms : IsOverlayDestination(To(f, ms[i]))
                 THEN "emit" ELSE "forward"
    BY <1>5 DEF SendMMsg, Begins
  <2>4. healthy' => Usable(call.fd)' /\ Mirrored(f) /\ configured
    BY <2>2, <2>3, UsableStays DEF Usable
  <2>5. ASSUME healthy', pc' = "forward"
        PROVE  (\E i \in DOMAIN call.msgs : ~ForOverlay(call.msgs[i]))'
    <3>1. PICK i \in DOMAIN ms : ~IsOverlayDestination(To(f, ms[i]))
      BY <2>3, <2>4, <2>5
    <3>2. ~ForOverlay(call.msgs[i])'
      BY <2>2, <2>3, <2>4, <2>5, <3>1 DEF ForOverlay, To, IsOverlayDestination
    <3> QED
      BY <2>2, <3>2
  <2> QED
    BY <2>2, <2>3, <2>4, <2>5, SendBegins DEF Sends
<1>6. ASSUME NEW op \in Reads, NEW f \in Fds, NEW peek \in BOOLEAN,
             NEW wait \in {"now", "never"}, Receive(op, f, peek, wait)
      PROVE  Known'
  <2>1. call'.op = op /\ call'.fd = f /\ call'.err = "ok"
    BY <1>6 DEF Receive, NoCall
  <2>2. pc' \in {"idle", "forward"} /\ (healthy' => Usable(f))
        /\ UNCHANGED <<configured, open, table>>
    BY <1>6 DEF Receive
  <2>3. healthy' => Usable(call.fd)'
    BY <2>1, <2>2 DEF Usable, GetLanVfd
  <2>4. op \notin Sends \cup Waits
    BY DEF Reads, Sends, Waits
  <2>5. CallShape' /\ EmittedToLan' /\ MergedSoFar' /\ AccountedSends' /\ OverlayServes'
    BY <2>1, <2>2, <2>4 DEF CallShape, EmittedToLan, MergedSoFar, AccountedSends,
       OverlayServes, Reads, Sends, Waits
  <2>6. HealthyCall'
    BY <2>1, <2>2, <2>3, <2>4 DEF HealthyCall
  <2> QED
    BY <2>5, <2>6 DEF Known
<1>7. ASSUME NEW op \in Waits, NEW w \in Sets, NEW t \in Timeouts, StartWait(op, w, t)
      PROVE  Known'
  <2>1. /\ call'.op = op /\ call'.fd = NoFd /\ call'.watch = w /\ call'.todo = Watched(w)
        /\ pc' = "look"
    BY <1>7 DEF StartWait, NoCall
  <2>2. op \notin Sends \cup Reads /\ NoFd \notin Fds
    BY DataAssumption DEF Reads, Sends, Waits
  <2>3. CallShape'
    BY <2>1, <2>2 DEF CallShape, Sends, Waits
  <2>4. EmittedToLan' /\ HealthyCall' /\ MergedSoFar'
    BY <2>1, <2>2 DEF EmittedToLan, HealthyCall, MergedSoFar
  <2>5. AccountedSends' /\ OverlayServes'
    BY <2>1, <2>2 DEF AccountedSends, OverlayServes
  <2> QED
    BY <2>3, <2>4, <2>5 DEF Known
<1> QED
  BY <1>1, <1>2, <1>3, <1>4, <1>5, <1>6, <1>7 DEF Calls

(* What the server thread returns with. *)
LEMMA ReturnsEffect ==
    ASSUME call \in Calling, NEW r, NEW e, Returns(r, e)
    PROVE  /\ pc' = "idle" /\ call'.ret = r /\ call'.err = e
           /\ call'.op = call.op /\ call'.fd = call.fd /\ call'.msgs = call.msgs
BY DEF Returns, Calling

(* A send that returns has only to say the truth about what it sent... *)
LEMMA SendEnds ==
    ASSUME Inv, call.op \in Sends, pc' = "idle", call'.op = call.op, call'.fd = call.fd,
           call'.msgs = call.msgs, AccountedSends', OverlayServes'
    PROVE  Known'
<1>1. CallShape'
  BY DEF Inv, CallShape, Sends
<1>2. EmittedToLan' /\ HealthyCall' /\ MergedSoFar'
  BY DEF EmittedToLan, HealthyCall, MergedSoFar
<1> QED
  BY <1>1, <1>2 DEF Known

(* ...and a Select or Poll that goes on keeps to the watched sockets. *)
LEMMA WaitGoesOn ==
    ASSUME Inv, call.op \in Waits, pc # "idle", call'.op = call.op, call'.fd = call.fd,
           call'.watch = call.watch, call'.todo \subseteq Watched(call.watch),
           pc' \in {"look", "forward", "merge", "idle"},
           UNCHANGED <<configured, open, table, healthy>>, MergedSoFar'
    PROVE  Known'
<1>1. call'.op \notin Sends \cup Reads \cup {"Connect"}
  BY DEF Sends, Reads, Waits
<1>2. CallShape'
  BY <1>1 DEF CallShape, Watched, Sends
<1>3. EmittedToLan' /\ AccountedSends' /\ OverlayServes'
  BY <1>1 DEF EmittedToLan, AccountedSends, OverlayServes
<1>4. HealthyCall'
  BY <1>1 DEF Inv, HealthyCall, Usable, GetLanVfd
<1> QED
  BY <1>2, <1>3, <1>4 DEF Known

(* What is for the overlay, the VNet takes. *)
LEMMA TakesItsOwn ==
    ASSUME Usable(call.fd), call.op \in Sends, NEW m, ForOverlay(m),
           call.op = "SendTo" => m.to # NoDest
    PROVE  Accepts(m)
<1>1. ~m.big
  BY DEF ForOverlay
<1>2. AsBroadcast(m) \/ To(call.fd, m) \in Subnet
  <2>1. CASE To(call.fd, m) = "everyone" /\ call.op = "SendTo" /\ ~m.reply
    BY <2>1 DEF AsBroadcast, To, LastOctet255
  <2>2. CASE To(call.fd, m) = "everyone" /\ call.op = "SendMMsg"
    BY <2>2 DEF AsBroadcast
  <2> QED
    BY <2>1, <2>2 DEF ForOverlay, Sends
<1> QED
  BY <1>1, <1>2 DEF Accepts

(* What it takes goes out on the overlay, where it belongs. *)
LEMMA TakenGoesThere ==
    ASSUME NEW m, Accepts(m), call.op \in Sends
    PROVE  OnLan(m).net = "lan" /\ WellAddressed(m, OnLan(m))
<1>1. m.to \in Hosts => To(call.fd, m) = m.to
  BY DEF To, NoDest, Hosts, LanHosts, WifiHosts
<1>2. CASE AsBroadcast(m)
  <2>1. OnLan(m) = [net |-> "lan", to |-> "lanBroadcast"]
    BY <1>2 DEF OnLan
  <2>2. m.to \in Hosts => call.op = "SendTo" /\ m.to \in LastOctet255
    BY <1>1, <1>2 DEF AsBroadcast, Hosts, LanHosts, WifiHosts
  <2> QED
    BY <2>1, <2>2 DEF WellAddressed, WifiHosts
<1>3. CASE ~AsBroadcast(m)
  <2>1. OnLan(m) = [net |-> "lan", to |-> To(call.fd, m)]
    BY <1>3 DEF OnLan
  <2>2. To(call.fd, m) \notin WifiHosts
    BY <1>3 DEF Accepts, Subnet, LanHosts, WifiHosts
  <2> QED
    BY <1>1, <2>1, <2>2 DEF WellAddressed
<1> QED
  BY <1>2, <1>3

(* One message to the VNet. *)
LEMMA EmitKeeps ==
    ASSUME Inv, Emit
    PROVE  Known'
<1> DEFINE m == call.msgs[Len(sent) + 1]
<1>1. /\ call \in Calling /\ sent \in Seq(SentType) /\ call.msgs \in Seq(Messages)
      /\ pc = "emit" /\ call.op \in Sends /\ call.fd \in Fds /\ Len(sent) < Len(call.msgs)
      /\ UNCHANGED <<game, configured, open, table, healthy>>
  BY CallFields DEF Inv, TypeOK, CallShape, Emit, vnetVars, SentType
<1>2. Len(sent) \in Nat /\ Len(sent) + 1 \in DOMAIN call.msgs /\ m \in Messages
  BY <1>1
<1>3. call.op = "SendTo" => m.to # NoDest
  BY <1>2 DEF Inv, CallShape
<1>4. healthy => Usable(call.fd)
  BY <1>1 DEF Inv, HealthyCall
<1>5. healthy /\ ForOverlay(m) => Accepts(m)
  BY <1>1, <1>3, <1>4, TakesItsOwn
<1>6. CASE Accepts(m) /\ sent' = Append(sent, OnLan(m))
  <2>1. sent' \in Seq(SentType) /\ Len(sent') = Len(sent) + 1
        /\ \A i \in DOMAIN sent' :
              \/ i \in DOMAIN sent /\ sent'[i] = sent[i]
              \/ i = Len(sent) + 1 /\ sent'[i] = OnLan(m)
    <3>1. OnLan(m) \in SentType
      BY <1>2, <1>6 DEF Accepts, OnLan, SentType, Subnet, Dests, Hosts, LanHosts
    <3> DEFINE item == OnLan(m)
    <3>2. item \in SentType /\ sent' = Append(sent, item)
      BY <1>6, <3>1
    <3> HIDE DEF item
    <3>3. /\ sent' \in Seq(SentType) /\ Len(sent') = Len(sent) + 1
          /\ DOMAIN sent' = 1..Len(sent) + 1 /\ DOMAIN sent = 1..Len(sent)
          /\ \A i \in 1..Len(sent) : sent'[i] = sent[i]
          /\ sent'[Len(sent) + 1] = item
      BY <1>1, <3>2
    <3>4. \A i \in DOMAIN sent' : i \in DOMAIN sent \/ i = Len(sent) + 1
      BY <1>2, <3>3
    <3>5. \A i \in DOMAIN sent : sent'[i] = sent[i]
      BY <3>3
    <3> QED
      BY <3>3, <3>4, <3>5, Zenon DEF item
  <2>2. \A i \in DOMAIN sent' : sent'[i].net = "lan" /\ WellAddressed(call.msgs[i], sent'[i])
    <3>1. OnLan(m).net = "lan" /\ WellAddressed(m, OnLan(m))
      BY <1>1, <1>6, TakenGoesThere
    <3>2. \A i \in DOMAIN sent : sent[i].net = "lan" /\ WellAddressed(call.msgs[i], sent[i])
      BY <1>1 DEF Inv, EmittedToLan
    <3> QED
      BY <2>1, <3>1, <3>2
  <2>3. CASE Len(sent') = Len(call.msgs) /\ Returns(Len(sent'), "ok")
    <3>1. /\ pc' = "idle" /\ call'.ret = Len(sent') /\ call'.op = call.op
          /\ call'.fd = call.fd /\ call'.msgs = call.msgs
      BY <1>1, <2>3, ReturnsEffect
    <3>2. AccountedSends'
      <4>1. (\A i \in DOMAIN sent : WellAddressed(call.msgs[i], sent[i]))'
        BY <1>1, <2>2, <3>1, AddressedAlike
      <4> QED
        BY <2>1, <2>2, <1>2, <3>1, <4>1 DEF AccountedSends
    <3>3. call'.op \notin Reads
      BY <1>1, <3>1 DEF Sends, Reads
    <3>4. OverlayServes'
      BY <2>2, <2>3, <3>1, <3>3 DEF OverlayServes
    <3> QED
      BY <1>1, <3>1, <3>2, <3>4, SendEnds
  <2>4. CASE Len(sent') # Len(call.msgs) /\ UNCHANGED <<pc, call>>
    <3>1. CallShape'
      BY <1>1, <1>2, <2>1, <2>4 DEF Inv, CallShape, Watched, Sends, Waits
    <3>2. EmittedToLan'
      BY <1>1, <2>2, <2>4, AddressedAlike DEF EmittedToLan
    <3>3. HealthyCall'
      BY <1>1, <1>4, <2>4 DEF HealthyCall, Usable, GetLanVfd
    <3>4. MergedSoFar' /\ AccountedSends' /\ OverlayServes'
      BY <1>1, <2>4 DEF MergedSoFar, AccountedSends, OverlayServes
    <3> QED
      BY <3>1, <3>2, <3>3, <3>4 DEF Known
  <2> QED
    BY <1>6, <2>3, <2>4 DEF Emit
<1>7. CASE ~Accepts(m) /\ GiveUp /\ UNCHANGED sent
  <2>1. CASE sent # <<>> /\ Returns(Len(sent), "ok")
    <3>1. /\ pc' = "idle" /\ call'.ret = Len(sent) /\ call'.op = call.op
          /\ call'.fd = call.fd /\ call'.msgs = call.msgs
      BY <1>1, <2>1, ReturnsEffect
    <3>2. AccountedSends'
      <4>1. \A i \in DOMAIN sent : sent[i].net = "lan" /\ WellAddressed(call.msgs[i], sent[i])
        BY <1>1 DEF Inv, EmittedToLan
      <4>2. (\A i \in DOMAIN sent : WellAddressed(call.msgs[i], sent[i]))'
        BY <1>1, <1>7, <3>1, <4>1, AddressedAlike
      <4> QED
        BY <1>1, <1>2, <1>7, <3>1, <4>1, <4>2 DEF AccountedSends
    <3>3. call'.op \notin Reads
      BY <1>1, <3>1 DEF Sends, Reads
    <3>4. healthy' => ~ForOverlay(m)'
      BY <1>1, <1>5, <1>7, <3>1 DEF ForOverlay, To
    <3>5. OverlayServes'
      BY <1>2, <1>7, <3>1, <3>3, <3>4 DEF OverlayServes
    <3> QED
      BY <1>1, <3>1, <3>2, <3>5, SendEnds
  <2>2. CASE sent = <<>> /\ pc' = "forward" /\ UNCHANGED call
    <3>1. CallShape'
      BY <1>1, <1>7, <2>2 DEF Inv, CallShape, Watched, Sends, Waits
    <3>2. healthy' => ~ForOverlay(m)'
      BY <1>1, <1>5, <1>7, <2>2 DEF ForOverlay, To
    <3>3. healthy' => Usable(call.fd)'
      BY <1>1, <1>4, <2>2 DEF Usable, GetLanVfd
    <3>4. HealthyCall'
      <4>1. ASSUME healthy'
            PROVE  (\E i \in DOMAIN call.msgs : ~ForOverlay(call.msgs[i]))'
        BY <1>2, <1>7, <2>2, <3>2, <4>1
      <4> QED
        BY <3>3, <4>1 DEF HealthyCall
    <3>5. EmittedToLan' /\ MergedSoFar' /\ AccountedSends' /\ OverlayServes'
      BY <2>2 DEF EmittedToLan, MergedSoFar, AccountedSends, OverlayServes
    <3> QED
      BY <3>1, <3>4, <3>5 DEF Known
  <2> QED
    BY <1>7, <2>1, <2>2 DEF GiveUp
<1> QED
  BY <1>6, <1>7 DEF Emit

(* What the real service is asked to send is sent there and nowhere else,  *)
(* and would not have been for the overlay.                                *)
LEMMA ForwardSendKeeps ==
    ASSUME Inv, ForwardSend
    PROVE  Known'
<1> DEFINE f == call.fd
<1>1. /\ call \in Calling /\ call.msgs \in Seq(Messages) /\ call.op \in Sends /\ sent = <<>>
      /\ pc = "forward" /\ UNCHANGED <<game, table, healthy>>
  BY CallFields DEF Inv, TypeOK, CallShape, ForwardSend
<1>2. ASSUME pc' = "idle", call'.op = call.op, call'.fd = call.fd, call'.msgs = call.msgs
      PROVE  OverlayServes'
  <2>1. healthy' => (\E i \in DOMAIN call.msgs : ~ForOverlay(call.msgs[i]))'
    <3>1. \A x : ForOverlay(x)' <=> ForOverlay(x)
      BY <1>1, <1>2 DEF ForOverlay, To
    <3> QED
      BY <1>1, <1>2, <3>1 DEF Inv, HealthyCall
  <2>2. call'.op \notin Reads
    BY <1>1, <1>2 DEF Sends, Reads
  <2> QED
    BY <2>1, <2>2 DEF OverlayServes
<1>3. ASSUME NEW n \in 1..Len(call.msgs), Returns(n, "ok"),
             sent' = sent \o [i \in 1..n |-> [net |-> "wifi", to |-> RealTo(f, call.msgs[i])]]
      PROVE  Known'
  <2>1. pc' = "idle" /\ call'.ret = n /\ call'.op = call.op /\ call'.fd = call.fd
        /\ call'.msgs = call.msgs
    BY <1>1, <1>3, ReturnsEffect
  <2>2. Len(sent') = n /\ DOMAIN sent' = 1..n
        /\ \A i \in 1..n : sent'[i] = [net |-> "wifi", to |-> RealTo(f, call.msgs[i])]
    BY <1>1, <1>3
  <2>3. \A i \in 1..n : sent'[i].net = "wifi" /\ WellAddressed(call.msgs[i], sent'[i])
    BY <2>2 DEF RealTo, NoDest, WellAddressed, Hosts, LanHosts, WifiHosts
  <2>4. (\A i \in DOMAIN sent : WellAddressed(call.msgs[i], sent[i]))'
    BY <1>1, <2>1, <2>2, <2>3, AddressedAlike
  <2>5. AccountedSends'
    BY <2>1, <2>2, <2>3, <2>4 DEF AccountedSends
  <2> QED
    BY <1>1, <1>2, <2>1, <2>5, SendEnds
<1>4. ASSUME NEW e, Returns(-1, e), UNCHANGED sent
      PROVE  Known'
  <2>1. pc' = "idle" /\ call'.ret = -1 /\ call'.op = call.op /\ call'.fd = call.fd
        /\ call'.msgs = call.msgs
    BY <1>1, <1>4, ReturnsEffect
  <2>2. AccountedSends'
    BY <1>1, <1>4, <2>1 DEF AccountedSends
  <2> QED
    BY <1>1, <1>2, <2>1, <2>2, SendEnds
<1> QED
  BY <1>3, <1>4 DEF ForwardSend

(* A forwarded Connect returns, and so does a receive, without a physical  *)
(* route error if the socket is mirrored.                                  *)
LEMMA ForwardConnectKeeps ==
    ASSUME Inv, ForwardConnect
    PROVE  Known'
<1>1. call \in Calling
  BY DEF Inv, TypeOK
<1>2. pc' = "idle" /\ call'.op = "Connect"
  BY <1>1, ReturnsEffect DEF ForwardConnect
<1> QED
  BY <1>2, OtherCall

LEMMA ForwardReceiveKeeps ==
    ASSUME Inv, ForwardReceive
    PROVE  Known'
<1> DEFINE error == real[call.fd].error
<1>1. /\ call \in Calling /\ call.op \in Reads /\ call.fd \in Fds
      /\ pc = "forward" /\ UNCHANGED <<table, healthy>>
  BY DEF Inv, TypeOK, CallShape, ForwardReceive, Reads, Waits
<1>2. PICK e \in {SuppressPhysicalUdpError(call.fd, error), "ok", "again"}, r \in {-1, 1} :
         Returns(r, e)
  BY DEF ForwardReceive
<1>3. pc' = "idle" /\ call'.err = e /\ call'.op = call.op /\ call'.fd = call.fd
  BY <1>1, <1>2, ReturnsEffect
<1>4. call'.op \notin Sends
  BY <1>1, <1>3 DEF Sends, Reads
<1>5. healthy /\ call.op # "RecvMMsg" => e # "route"
  <2>1. healthy => Usable(call.fd)
    BY <1>1 DEF Inv, HealthyCall
  <2>2. Usable(call.fd) => Mirrored(call.fd)
    BY DataAssumption DEF Inv, TypeOK, Usable, Mirrored, VFds
  <2> QED
    BY <1>2, <2>1, <2>2 DEF SuppressPhysicalUdpError
<1>6. OverlayServes'
  BY <1>1, <1>3, <1>4, <1>5 DEF OverlayServes
<1>7. CallShape' /\ EmittedToLan' /\ HealthyCall' /\ MergedSoFar' /\ AccountedSends'
  BY <1>3, <1>4 DEF CallShape, EmittedToLan, HealthyCall, MergedSoFar, AccountedSends, Sends
<1> QED
  BY <1>6, <1>7 DEF Known

(* The first look at the watched sockets. *)
LEMMA LookKeeps ==
    ASSUME Inv, Look
    PROVE  Known'
<1>1. call \in Calling /\ call.op \in Waits /\ call.todo \subseteq Watched(call.watch)
      /\ pc = "look"
  BY DEF Inv, TypeOK, CallShape, Look
<1>2. call'.op = call.op /\ call'.fd = call.fd /\ call'.watch = call.watch
      /\ call'.todo \subseteq call.todo
  <2>1. CASE call' = [call EXCEPT !.wait = PhysicalWait]
    BY <1>1, <2>1 DEF Calling
  <2>2. CASE call' = [call EXCEPT !.todo = @ \ {First}]
    BY <1>1, <2>2 DEF Calling
  <2>3. CASE call' = [call EXCEPT !.wait = "now",
                        !.todo = IF call.op = "Select" THEN {} ELSE @ \ {First}]
    BY <1>1, <2>3 DEF Calling
  <2> QED
    BY <2>1, <2>2, <2>3 DEF Look
<1>3. pc' \in {"look", "forward"} /\ UNCHANGED <<configured, open, table, healthy>>
  BY <1>1 DEF Look, vnetVars
<1>4. MergedSoFar'
  BY <1>3 DEF MergedSoFar
<1> QED
  BY <1>1, <1>2, <1>3, <1>4, WaitGoesOn

(* What the real service answers is counted as it is, asked for and so. *)
LEMMA RealAnswer ==
    ASSUME Inv, ForwardWait
    PROVE  /\ call'.op = call.op /\ call'.fd = call.fd /\ call'.watch = call.watch
           /\ call'.todo \subseteq Watched(call.watch)
           /\ call'.ret = RealCount(call.op, call'.ready)
           /\ \A f \in Fds : call'.ready[f] \subseteq call.watch[f]
           /\ \A f \in Fds : "in" \in call'.ready[f] => Readable(f)
           /\ pc' \in {"merge", "idle"}
<1>1. call \in Calling
  BY DEF Inv, TypeOK
<1>2. PICK w \in SUBSET {f \in Fds : "out" \in call.watch[f]} :
        LET readable == {f \in Watched(call.watch) : real[f].rx > 0 \/ real[f].error # "ok"}
            ready == [f \in Fds |-> (IF f \in readable THEN {"in"} ELSE {})
                                   \cup (IF f \in w THEN {"out"} ELSE {})]
        IN call' = [call EXCEPT !.ready = ready, !.ret = RealCount(call.op, ready),
                                !.todo = IF WatchesVNet THEN Watched(call.watch) ELSE {}]
  BY DEF ForwardWait
<1> DEFINE readable == {f \in Watched(call.watch) : real[f].rx > 0 \/ real[f].error # "ok"}
           ready == [f \in Fds |-> (IF f \in readable THEN {"in"} ELSE {})
                                  \cup (IF f \in w THEN {"out"} ELSE {})]
<1>3. \A f \in Fds : /\ "in" \in ready[f] => f \in Watched(call.watch) /\ Readable(f)
                     /\ "out" \in ready[f] => "out" \in call.watch[f]
                     /\ ready[f] \subseteq {"in", "out"}
  BY <1>2 DEF Readable
<1>4. \A f \in Fds : ready[f] \subseteq call.watch[f]
  BY <1>3 DEF Watched
<1>5. call' = [call EXCEPT !.ready = ready, !.ret = RealCount(call.op, ready),
                           !.todo = IF WatchesVNet THEN Watched(call.watch) ELSE {}]
  BY <1>2
<1> HIDE DEF ready
<1>6. /\ call'.op = call.op /\ call'.fd = call.fd /\ call'.watch = call.watch
      /\ call'.todo \subseteq Watched(call.watch)
      /\ call'.ready = ready /\ call'.ret = RealCount(call.op, ready)
  BY <1>1, <1>5 DEF Calling
<1>7. pc' \in {"merge", "idle"}
  BY DEF ForwardWait
<1> QED
  BY <1>3, <1>4, <1>6, <1>7

LEMMA ForwardWaitKeeps ==
    ASSUME Inv, ForwardWait
    PROVE  Known'
<1>1. call.op \in Waits /\ pc = "forward"
      /\ UNCHANGED <<configured, open, table, healthy>>
  BY DEF ForwardWait, vnetVars
<1>2. \A f : Readable(f)' <=> Readable(f)
  BY DEF ForwardWait, vnetVars, Readable, LanSocketReadable, GetLanVfd
<1>3. MergedSoFar'
  BY <1>2, RealAnswer DEF MergedSoFar, RealCount
<1> QED
  BY <1>1, <1>3, RealAnswer, WaitGoesOn

(* A turn of the second loop keeps the count, the sets and what they say. *)
LEMMA MergeKeeps ==
    ASSUME Inv, Merge
    PROVE  Known'
<1>1. /\ call \in Calling /\ call.op \in Waits /\ call.todo \subseteq Watched(call.watch)
      /\ pc = "merge" /\ MergedSoFar
  BY DEF Inv, TypeOK, CallShape, Merge
<1>2. pc' \in {"merge", "idle"} /\ UNCHANGED <<configured, open, table, healthy>>
  BY DEF Merge, vnetVars
<1>3. \A f : Readable(f)' <=> Readable(f)
  BY DEF Merge, vnetVars, Readable, LanSocketReadable, GetLanVfd
<1>4. CASE call.todo = {}
  <2>1. UNCHANGED call /\ pc' = "idle"
    BY <1>4 DEF Merge
  <2>2. MergedSoFar'
    BY <2>1 DEF MergedSoFar
  <2> QED
    BY <1>1, <1>2, <2>1, <2>2, WaitGoesOn
<1>5. CASE call.todo # {} /\ ~LanSocketReadable(First)
  <2>1. call' = [call EXCEPT !.todo = @ \ {First}]
    BY <1>5 DEF Merge
  <2>2. /\ call'.op = call.op /\ call'.fd = call.fd /\ call'.watch = call.watch
        /\ call'.todo \subseteq call.todo /\ call'.ready = call.ready /\ call'.ret = call.ret
    BY <1>1, <2>1 DEF Calling
  <2>3. MergedSoFar'
    BY <1>1, <1>2, <1>3, <2>2 DEF MergedSoFar, RealCount
  <2> QED
    BY <1>1, <1>2, <2>2, <2>3, WaitGoesOn
<1>6. CASE call.todo # {} /\ LanSocketReadable(First)
  <2> DEFINE ready == [call.ready EXCEPT ![First] = @ \cup {"in"}]
  <2>1. call' = MergedCall
    BY <1>6 DEF Merge, MergedCall
  <2>2. First \in Fds /\ First \in Watched(call.watch)
    BY <1>1, <1>6, MergedType, FirstIsLeft, CallFields
  <2>3. call' = [call EXCEPT !.ready = ready,
                    !.ret = IF CountsAsNew(First) THEN call.ret + 1 ELSE call.ret,
                    !.todo = call.todo \ {First}]
    BY <1>1, <1>6, <2>1, MergedType
  <2> HIDE DEF ready
  <2>4. /\ call'.op = call.op /\ call'.fd = call.fd /\ call'.watch = call.watch
        /\ call'.todo \subseteq call.todo /\ call'.ready = ready
        /\ call'.ret = IF CountsAsNew(First) THEN call.ret + 1 ELSE call.ret
    BY <1>1, <2>3 DEF Calling
  <2>5. call.ready \in Sets
    BY <1>1, CallFields
  <2>6. call'.ret = RealCount(call.op, ready)
    <3>1. RealCount(call.op, ready) = IF CountsAsNew(First) THEN RealCount(call.op, call.ready) + 1
                                      ELSE RealCount(call.op, call.ready)
      BY <2>2, <2>5, OneMore DEF CountsAsNew, ready
    <3>2. call.ret = RealCount(call.op, call.ready)
      BY <1>1 DEF MergedSoFar
    <3> QED
      BY <2>4, <3>1, <3>2
  <2>7. \A f \in Fds : ready[f] = IF f = First THEN call.ready[f] \cup {"in"} ELSE call.ready[f]
    BY <2>5 DEF Sets, ready
  <2>8. "in" \in call.watch[First] /\ Readable(First)
    BY <1>6, <2>2 DEF Watched, Readable
  <2>9. /\ \A f \in Fds : ready[f] \subseteq call.watch[f]
        /\ healthy => \A f \in Fds : "in" \in ready[f] => Readable(f)
    BY <1>1, <2>7, <2>8 DEF MergedSoFar
  <2>10. MergedSoFar'
    BY <1>2, <1>3, <2>4, <2>6, <2>9 DEF MergedSoFar, RealCount
  <2> QED
    BY <1>1, <1>2, <2>4, <2>10, WaitGoesOn
<1> QED
  BY <1>4, <1>5, <1>6

LEMMA RefuseWaitKeeps ==
    ASSUME Inv, RefuseWait
    PROVE  Known'
<1>1. call.op \in Waits /\ pc = "forward" /\ call.todo \subseteq Watched(call.watch)
      /\ UNCHANGED <<configured, open, table, healthy>>
  BY DEF Inv, CallShape, RefuseWait, vnetVars
<1>2. pc' = "idle" /\ call'.op = call.op /\ call'.fd = call.fd /\ call'.watch = call.watch
      /\ call'.todo = call.todo
  BY DEF Inv, TypeOK, Calling, RefuseWait, Returns
<1>3. MergedSoFar'
  BY <1>2 DEF MergedSoFar
<1> QED
  BY <1>1, <1>2, <1>3, WaitGoesOn

-----------------------------------------------------------------------------
(* The invariant, and what follows from it.                                *)

LEMMA Invariance == Spec => []Inv
<1>1. Init => Inv
  <2> SUFFICES ASSUME Init
               PROVE  Inv
    OBVIOUS
  <2>1. call \in Calling
    BY NoCallType DEF Init
  <2>2. configured \in BOOLEAN /\ healthy \in BOOLEAN
    BY Zenon DEF Init
  <2>3. table \in [Fds -> [port : BOOLEAN, vfd : VFds \cup {NoFd}, peer : Dests \cup {NoDest}]]
    <3>1. FALSE \in BOOLEAN
      OBVIOUS
    <3> QED
      BY <3>1 DEF Init
  <2>4. real \in [Fds -> [bound : BOOLEAN, peer : Dests \cup {NoDest},
                          rx : 0..MaxQueue, error : {"ok", "route"}]]
    <3>1. FALSE \in BOOLEAN /\ 0 \in 0..MaxQueue
      BY DataAssumption
    <3> QED
      BY <3>1 DEF Init
  <2>5. TypeOK
    BY <2>1, <2>2, <2>3, <2>4, DataAssumption DEF Init, TypeOK
  <2>6. pc = "idle" /\ call.op = "none" /\ ~healthy
    BY DEF Init, NoCall
  <2>7. CallShape /\ EmittedToLan /\ HealthyCall /\ MergedSoFar /\ AccountedSends /\ OverlayServes
    BY <2>6 DEF CallShape, EmittedToLan, HealthyCall, MergedSoFar, AccountedSends,
       OverlayServes, Sends
  <2> QED
    BY <2>5, <2>7 DEF Inv
<1>2. Inv /\ [Next]_vars => Inv'
  <2> SUFFICES ASSUME Inv, [Next]_vars
               PROVE  Inv'
    OBVIOUS
  <2>1. CASE Next
    <3>1. Server \/ RefuseWait => Known'
      BY EmitKeeps, ForwardSendKeeps, ForwardConnectKeeps, ForwardReceiveKeeps, LookKeeps,
         ForwardWaitKeeps, MergeKeeps, RefuseWaitKeeps DEF Server
    <3>2. Known'
      BY <2>1, <3>1, CallsKeep, EnvironmentKeeps DEF Next
    <3> QED
      BY <2>1, <3>2, TypeStep DEF Known, Inv
  <2>2. CASE UNCHANGED vars
    <3>1. UNCHANGED <<game, configured, open, queued, resets, table, real, pc, call, sent, healthy>>
      BY <2>2 DEF vars, vnetVars
    <3>2. TypeOK'
      BY <3>1 DEF Inv, TypeOK
    <3>3. CallShape' /\ EmittedToLan' /\ AccountedSends'
      <4>1. \A x, y : WellAddressed(x, y)' <=> WellAddressed(x, y)
        BY <3>1, AddressedAlike
      <4> QED
        BY <3>1, <4>1 DEF Inv, CallShape, EmittedToLan, AccountedSends, Watched
    <3>4. \A m : ForOverlay(m)' <=> ForOverlay(m)
      BY <3>1 DEF ForOverlay, To
    <3>5. HealthyCall' /\ OverlayServes'
      BY <3>1, <3>4 DEF Inv, HealthyCall, OverlayServes, Usable, GetLanVfd
    <3>6. MergedSoFar'
      BY <3>1 DEF Inv, MergedSoFar, RealCount, Readable, LanSocketReadable, GetLanVfd
    <3> QED
      BY <3>2, <3>3, <3>5, <3>6 DEF Inv
  <2> QED
    BY <2>1, <2>2
<1> QED
  BY <1>1, <1>2, PTL DEF Spec

(* The types: a mirror names a socket of the VNet, a call in progress has  *)
(* the fields its step needs (table, the m_vnet sockets and the arguments  *)
(* of the shim's handlers).                                                *)
THEOREM TypeCorrectness == Spec => []TypeOK
<1>1. Inv => TypeOK
  BY DEF Inv
<1> QED
  BY <1>1, Invariance, PTL

(* What SendTo, Send, Write and SendMMsg answer is what they have sent, on *)
(* one network only, however long the batch is and whenever the VNet is    *)
(* reset between two of its messages (MirrorMMsgBuffer).                   *)
THEOREM SendsAreAccounted == Spec => []AccountedSends
<1>1. Inv => AccountedSends
  BY DEF Inv
<1> QED
  BY <1>1, Invariance, PTL

(* While the VNet keeps its address and the mirror's socket, what is for   *)
(* the overlay goes out there whatever the physical route does, and a      *)
(* physical route error is not reported (SuppressPhysicalUdpError).        *)
THEOREM OverlayAlwaysServes == Spec => []OverlayServes
<1>1. Inv => OverlayServes
  BY DEF Inv
<1> QED
  BY <1>1, Invariance, PTL

(* A successful Select or Poll counts what its sets hold and reports a     *)
(* socket readable only if it is when the call returns, in whatever order  *)
(* datagrams come in between the looks at the sockets.                     *)
THEOREM ReadyIsAlwaysTrue == Spec => ReadyIsTrue
<1>1. ASSUME Inv, Next, WaitEnds
      PROVE  /\ CountAgrees
             /\ healthy => \A f \in Fds : "in" \in call'.ready[f] => Readable(f)
  <2>1. pc # "idle" /\ pc' = "idle" /\ call.op \in Waits /\ call'.ret >= 0
    BY <1>1 DEF WaitEnds
  <2>2. ~Calls /\ ~Environment
    <3>1. Calls => pc = "idle"
      BY DEF Calls, Bind, GetSockName, GetPeerName, SendTo, Send, SendMMsg, ConnectLan,
         ConnectReal, Receive, StartWait, Begins
    <3>2. Environment => UNCHANGED pc
      BY DEF Environment, Deliver, Configure, Reset, WifiArrives, RouteError
    <3> QED
      BY <2>1, <3>1, <3>2
  <2>3. ~Emit /\ ~ForwardSend /\ ~ForwardConnect /\ ~ForwardReceive /\ ~Look
    <3>1. call.op \notin Sends \cup Reads \cup {"Connect"}
      BY <2>1 DEF Waits, Sends, Reads
    <3>2. ~Emit
      BY <1>1, <3>1 DEF Emit, Inv, CallShape
    <3>3. ~Look
      BY <2>1 DEF Look
    <3> QED
      BY <3>1, <3>2, <3>3 DEF ForwardSend, ForwardConnect, ForwardReceive
  <2>4. ~RefuseWait
    <3>1. RefuseWait => call'.ret = -1
      BY <1>1 DEF RefuseWait, Returns, Inv, TypeOK, Calling
    <3> QED
      BY <2>1, <3>1
  <2>5. CASE ForwardWait
    BY <1>1, <2>5, RealAnswer DEF CountAgrees
  <2>6. CASE Merge
    <3>1. UNCHANGED call /\ pc = "merge"
      BY <2>1, <2>6 DEF Merge
    <3> QED
      BY <1>1, <3>1 DEF CountAgrees, Inv, MergedSoFar
  <2> QED
    BY <1>1, <2>2, <2>3, <2>4, <2>5, <2>6 DEF Next, Server
<1>2. ASSUME Inv, [Next]_vars
      PROVE  [WaitEnds => /\ CountAgrees
                          /\ healthy => \A f \in Fds : "in" \in call'.ready[f] => Readable(f)]_vars
  BY <1>1, <1>2
<1> QED
  BY <1>2, Invariance, PTL DEF Spec, ReadyIsTrue
=============================================================================
