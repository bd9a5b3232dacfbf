------------------------- MODULE VNetSocketsProofs -------------------------
(***************************************************************************)
(* Proofs about VNetSockets for every number of sockets and packets: the   *)
(* types, that the packets stay exactly shared out between the free list   *)
(* and the queues of the open sockets, and that these lists are the        *)
(* queues of DatagramQueues.  Neither of the first two is inductive        *)
(* without the other (a count stays within PoolPackets because a queue has *)
(* no more packets than the pool), so their conjunction is proved.         *)
(***************************************************************************)
EXTENDS VNetSockets, FiniteSetTheorems, SequenceTheorems, WellFoundedInduction, TLAPS

IInv == TypeOK /\ PoolPartitioned

(* A nonempty set of naturals has a least element: the first candidate at
   which an induction over an index would fail. *)
LEMMA LeastElement ==
    ASSUME NEW T, T \subseteq Nat, T # {}
    PROVE  \E x \in T : \A y \in T : x <= y
<1>1. PICK t \in T : TRUE  OBVIOUS
<1> DEFINE S == 0..t
           F == {0..x : x \in T \cap S}
<1>2. t \in Nat  OBVIOUS
<1>3. IsFiniteSet(S)  BY <1>2, FS_Interval
<1>4. IsWellFoundedOn(StrictSubsetOrdering(S), SUBSET S)
  <2> HIDE DEF S
  <2>1. FiniteSubsetsOf(S) = SUBSET S  BY <1>3, FS_FiniteSubsetsOfFinite
  <2> QED  BY <2>1, FS_StrictSubsetOrderingWellFounded
<1>5. F \subseteq SUBSET S /\ F # {}  BY <1>1, <1>2
<1>6. PICK m \in F : \A f \in F : <<f, m>> \notin StrictSubsetOrdering(S)
  <2> HIDE DEF F, S
  <2> QED  BY <1>4, <1>5, WFMin
<1>7. PICK x \in T \cap S : m = 0..x  BY <1>6
<1>8. \A y \in T : x <= y
  <2> SUFFICES ASSUME NEW y \in T, y < x PROVE FALSE  BY <1>7
  <2>1. 0..y \in F /\ 0..y \subseteq 0..x /\ 0..y # 0..x /\ 0..x \subseteq S
    BY <1>7, <1>2
  <2> QED  BY <2>1, <1>6, <1>7 DEF StrictSubsetOrdering
<1> QED  BY <1>7, <1>8

(* Packets at different places without gaps are never further from the head
   of their list than the pool has packets (pigeonhole). *)
LEMMA PositionsBounded ==
    ASSUME NEW home \in [Pkts -> Lists], NEW pos \in [Pkts -> Nat],
           \A p, q \in Pkts : home[p] = home[q] /\ pos[p] = pos[q] => p = q,
           \A p \in Pkts : \A i \in 0..pos[p] :
               \E q \in Pkts : home[q] = home[p] /\ pos[q] = i
    PROVE  pos \in [Pkts -> 0..PoolPackets - 1]
<1> SUFFICES ASSUME NEW p \in Pkts PROVE pos[p] < PoolPackets
  BY SizesAssumption DEF Pkts
<1> DEFINE I == 0..pos[p]
           f == [i \in I |-> CHOOSE q \in Pkts : home[q] = home[p] /\ pos[q] = i]
<1>1. \A i \in I : f[i] \in Pkts /\ pos[f[i]] = i  OBVIOUS
<1>2. f \in Injection(I, Pkts)
  <2> HIDE DEF I
  <2> QED  BY <1>1 DEF Injection, IsInjective
<1>3. IsFiniteSet(Pkts) /\ Cardinality(Pkts) = PoolPackets
  BY FS_Interval, SizesAssumption DEF Pkts
<1>4. Cardinality(I) = pos[p] + 1  BY FS_Interval
<1>5. Cardinality(I) <= Cardinality(Pkts)
  <2> HIDE DEF I, f
  <2> QED  BY <1>2, <1>3, FS_Injection
<1> HIDE DEF I, f
<1> QED  BY <1>3, <1>4, <1>5, SizesAssumption

(* To re-establish the partition after a step it is enough to name the new
   place of every packet; bounds on positions and StaysHome follow. *)
LEMMA PlaceNext ==
    ASSUME NEW h \in [Pkts -> Lists], NEW o \in [Pkts -> Nat],
           freeList' \in Pkts \cup {Nil},
           qHead' \in [Socks -> Pkts \cup {Nil}],
           next' \in [Pkts -> Pkts \cup {Nil}],
           Placement(h, o)', QueueFields(h, o)'
    PROVE  PoolPartitioned' /\ o \in [Pkts -> 0..PoolPackets - 1]
<1>1. o \in [Pkts -> 0..PoolPackets - 1]
  BY PositionsBounded DEF Placement
<1>2. StaysHome(h)'
  <2>1. ASSUME NEW l \in Lists, First(l)' # Nil PROVE h[First(l)'] = l
    <3>1. First(l)' \in Pkts  BY <2>1 DEF First, Lists
    <3> QED  BY <3>1 DEF Placement
  <2>2. ASSUME NEW p \in Pkts, next'[p] # Nil PROVE h[next'[p]] = h[p]
    BY <2>2 DEF Placement
  <2> QED  BY <2>1, <2>2 DEF StaysHome
<1> QED  BY <1>1, <1>2 DEF PoolPartitioned

(* The initial free list holds every packet in order. *)
LEMMA InitPartitioned == Init => IInv
<1> SUFFICES ASSUME Init PROVE IInv  OBVIOUS
<1> USE SizesAssumption, PortsAssumption
<1>1. TypeOK
  <2>1. next \in [Pkts -> Pkts \cup {Nil}]  BY DEF Init, ResetFreeList, Pkts
  <2>2. /\ qCount \in [Socks -> 0..PoolPackets]
        /\ localPort \in [Socks -> Ports]
        /\ freeList \in Pkts \cup {Nil}
        /\ nextEphemeral \in EphemeralFirst..PortMax
    BY DEF Init, Pkts, Ports
  <2>3. /\ qHead \in [Socks -> Pkts \cup {Nil}]
        /\ qTail \in [Socks -> Pkts \cup {Nil}]
        /\ localIp \in [Socks -> {AnyIp, OtherIp}]
        /\ pkt \in [Pkts -> Datagrams \cup {NoDatagram}]
    BY DEF Init
  <2>4. 0 \in Socks /\ -1 \in Nat \cup {-1}  BY DEF Socks
  <2>5. rx \in Deliveries  BY <2>4 DEF Init, Deliveries, Idle, DestIps
  <2>6. report \in Reports  BY <2>4 DEF Init, Reports, Empty, Report
  <2>7. configured \in BOOLEAN /\ used \in [Socks -> BOOLEAN]  BY DEF Init
  <2> QED  BY <2>1, <2>2, <2>3, <2>5, <2>6, <2>7 DEF TypeOK
<1> DEFINE h == [p \in Pkts |-> Free]
           o == [p \in Pkts |-> p]
<1>2. h \in [Pkts -> Lists] /\ o \in [Pkts -> 0..PoolPackets - 1]
  BY DEF Lists, Pkts
<1>3. StaysHome(h)
  BY DEF Init, StaysHome, First, ResetFreeList, Pkts, Socks, Lists, Free, Nil
<1>4. Placement(h, o)
  BY DEF Init, Placement, First, ResetFreeList, Pkts, Socks, Lists, Free, Nil
<1>5. QueueFields(h, o)
  BY DEF Init, QueueFields, Pkts, Socks, Free, Nil
<1> HIDE DEF h, o
<1> QED  BY <1>1, <1>2, <1>3, <1>4, <1>5 DEF IInv, PoolPartitioned

(* reset rebuilds the free list of Init; what the packets held is kept. *)
LEMMA ResetStep == IInv /\ reset => IInv'
<1> SUFFICES ASSUME IInv, reset PROVE IInv'  OBVIOUS
<1> USE SizesAssumption, PortsAssumption DEF IInv
<1>1. TypeOK'
  <2>1. next' \in [Pkts -> Pkts \cup {Nil}]  BY DEF reset, ResetFreeList, Pkts
  <2>2. /\ qCount' \in [Socks -> 0..PoolPackets]
        /\ localPort' \in [Socks -> Ports]
        /\ freeList' \in Pkts \cup {Nil}
        /\ nextEphemeral' \in EphemeralFirst..PortMax
    BY DEF reset, Pkts, Ports
  <2>3. /\ qHead' \in [Socks -> Pkts \cup {Nil}]
        /\ qTail' \in [Socks -> Pkts \cup {Nil}]
        /\ localIp' \in [Socks -> {AnyIp, OtherIp}]
        /\ configured' \in BOOLEAN
        /\ used' \in [Socks -> BOOLEAN]
    BY DEF reset
  <2> QED  BY <2>1, <2>2, <2>3 DEF TypeOK, reset
<1> DEFINE h == [p \in Pkts |-> Free]
           o == [p \in Pkts |-> p]
<1>2. h \in [Pkts -> Lists] /\ o \in [Pkts -> Nat]
  BY DEF Lists, Pkts
<1>3. Placement(h, o)'
  BY DEF reset, Placement, First, ResetFreeList, Pkts, Socks, Lists, Free, Nil
<1>4. QueueFields(h, o)'
  BY DEF reset, QueueFields, Pkts, Socks, Free, Nil
<1> HIDE DEF h, o
<1> QED  BY <1>1, <1>2, <1>3, <1>4, PlaceNext DEF TypeOK

(* Steps that leave pool, queues and `used' alone keep the partition. *)
LEMMA PoolUnchanged ==
    ASSUME PoolPartitioned, UNCHANGED <<used, queueVars, poolVars>>
    PROVE  PoolPartitioned'
BY DEF PoolPartitioned, StaysHome, Placement, QueueFields, First, queueVars, poolVars

(* Delivery, receipt and the calls report what Reports allows, and the loop
   of onUdp stays within the table. *)
LEMMA NextEntryType ==
    ASSUME rx \in Deliveries, NextEntry
    PROVE  rx' \in Deliveries
<1> USE SizesAssumption
<1>1. rx.sock \in Socks  BY DEF Deliveries
<1>2. CASE rx.sock + 1 < MaxSockets
  <2>1. rx.sock + 1 \in Socks  BY <1>1, <1>2 DEF Socks
  <2> QED  BY <1>2, <2>1 DEF NextEntry, Deliveries
<1>3. CASE ~(rx.sock + 1 < MaxSockets)
  <2>1. 0 \in Socks  BY DEF Socks
  <2> QED  BY <1>3, <2>1 DEF NextEntry, Deliveries, Idle, DestIps
<1> QED  BY <1>2, <1>3

(* A packet moves from the head of the free list to the tail of a queue. *)
LEMMA PushStep ==
    ASSUME IInv, NEW s \in Socks, NEW d \in Datagrams \cup {NoDatagram},
           used[s], freeList # Nil, pushToSocket(s, d), used' = used
    PROVE  /\ PoolPartitioned'
           /\ freeList' \in Pkts \cup {Nil}
           /\ qHead' \in [Socks -> Pkts \cup {Nil}]
           /\ qTail' \in [Socks -> Pkts \cup {Nil}]
           /\ qCount' \in [Socks -> 0..PoolPackets]
           /\ next' \in [Pkts -> Pkts \cup {Nil}]
           /\ pkt' \in [Pkts -> Datagrams \cup {NoDatagram}]
<1> USE SizesAssumption
<1>1. PICK idx \in Pkts : idx = freeList  BY DEF IInv, TypeOK
<1>2. PICK home \in [Pkts -> Lists], pos \in [Pkts -> 0..PoolPackets - 1] :
         Placement(home, pos) /\ QueueFields(home, pos)
  BY DEF IInv, PoolPartitioned
<1>3. PICK c \in Nat : c = qCount[s]  BY DEF IInv, TypeOK
<1>4. s # Free /\ s \in Lists /\ Free \in Lists /\ \A p \in Pkts : p # Nil
  BY DEF Socks, Free, Lists, Pkts, Nil
<1>5. home[idx] = Free /\ pos[idx] = 0
  BY <1>1, <1>2, <1>4 DEF Placement, First
<1>6. \A p \in Pkts : home[p] = Free => pos[p] = 0 <=> p = idx
  BY <1>2, <1>5 DEF Placement
<1>7. \A p \in Pkts : home[p] = s => pos[p] < c
  BY <1>2, <1>3 DEF QueueFields
<1>8. PICK h \in [Pkts -> Lists] :
         \A p \in Pkts : h[p] = IF p = idx THEN s ELSE home[p]
  <2> DEFINE hh == [p \in Pkts |-> IF p = idx THEN s ELSE home[p]]
  <2>1. hh \in [Pkts -> Lists]  BY <1>2, <1>4
  <2> QED  BY <2>1
<1>9. PICK o \in [Pkts -> Nat] :
         \A p \in Pkts : o[p] = IF p = idx THEN c
                                ELSE IF home[p] = Free THEN pos[p] - 1 ELSE pos[p]
  <2> DEFINE oo == [p \in Pkts |-> IF p = idx THEN c
                                   ELSE IF home[p] = Free THEN pos[p] - 1 ELSE pos[p]]
  <2>1. oo \in [Pkts -> Nat]  BY <1>2, <1>3, <1>6
  <2> QED  BY <2>1
<1>10. /\ freeList' = next[idx]
       /\ pkt' = [pkt EXCEPT ![idx] = d]
       /\ qTail' = [qTail EXCEPT ![s] = idx]
       /\ qCount' = [qCount EXCEPT ![s] = c + 1]
  BY <1>1, <1>3 DEF pushToSocket
<1>11. \/ /\ qTail[s] = Nil
          /\ next' = [next EXCEPT ![idx] = Nil]
          /\ qHead' = [qHead EXCEPT ![s] = idx]
       \/ /\ qTail[s] # Nil
          /\ next' = [next EXCEPT ![idx] = Nil, ![qTail[s]] = idx]
          /\ qHead' = qHead
  BY <1>1 DEF pushToSocket
<1>12. /\ freeList' \in Pkts \cup {Nil}
       /\ qHead' \in [Socks -> Pkts \cup {Nil}]
       /\ qTail' \in [Socks -> Pkts \cup {Nil}]
       /\ next' \in [Pkts -> Pkts \cup {Nil}]
       /\ pkt' \in [Pkts -> Datagrams \cup {NoDatagram}]
  BY <1>10, <1>11 DEF IInv, TypeOK
<1>13. c = 0 <=> qTail[s] = Nil
  BY <1>2, <1>3, <1>4, <1>7 DEF QueueFields, IInv, TypeOK
<1>14. c > 0 => /\ qTail[s] \in Pkts
                /\ home[qTail[s]] = s
                /\ pos[qTail[s]] = c - 1
  BY <1>2, <1>3, <1>13 DEF QueueFields, IInv, TypeOK
<1>15. Placement(h, o)'
  <2>1. \A p, q \in Pkts : h[p] = h[q] /\ o[p] = o[q] => p = q
    BY <1>2, <1>4, <1>5, <1>6, <1>7, <1>8, <1>9 DEF Placement
  <2>2. ASSUME NEW p \in Pkts, NEW i \in 0..o[p]
        PROVE  \E q \in Pkts : h[q] = h[p] /\ o[q] = i
    <3>0. \A a \in Pkts : \A j \in 0..pos[a] :
             \E q \in Pkts : home[q] = home[a] /\ pos[q] = j
      BY <1>2 DEF Placement
    <3>1. CASE p = idx
      <4>1. CASE i = c  BY <3>1, <4>1, <1>8, <1>9
      <4>2. CASE i # c
        <5>1. i \in 0..pos[qTail[s]] /\ qTail[s] \in Pkts /\ home[qTail[s]] = s
          BY <3>1, <4>2, <1>9, <1>14
        <5>2. PICK q \in Pkts : home[q] = s /\ pos[q] = i  BY <5>1, <3>0
        <5> QED  BY <3>1, <5>2, <1>4, <1>5, <1>8, <1>9
      <4> QED  BY <4>1, <4>2
    <3>2. CASE p # idx /\ home[p] = Free
      <4>1. i + 1 \in 0..pos[p] /\ i + 1 # 0  BY <3>2, <1>2, <1>9
      <4>2. PICK q \in Pkts : home[q] = Free /\ pos[q] = i + 1  BY <3>0, <3>2, <4>1
      <4> QED  BY <3>2, <4>2, <4>1, <1>5, <1>8, <1>9
    <3>3. CASE p # idx /\ home[p] # Free
      <4>1. PICK q \in Pkts : home[q] = home[p] /\ pos[q] = i  BY <3>0, <3>3, <1>9
      <4> QED  BY <3>3, <4>1, <1>5, <1>8, <1>9
    <3> QED  BY <3>1, <3>2, <3>3
  <2>3. ASSUME NEW p \in Pkts, NEW q \in Pkts
        PROVE  next'[p] = q <=> h[q] = h[p] /\ o[q] = o[p] + 1
    <3>0. next[p] = q <=> home[q] = home[p] /\ pos[q] = pos[p] + 1
      BY <1>2 DEF Placement
    <3>1. next \in [Pkts -> Pkts \cup {Nil}]  BY DEF IInv, TypeOK
    <3>2. CASE p = idx
      <4>1. next'[p] = Nil  BY <3>1, <3>2, <1>11, <1>14, <1>13, <1>4, <1>5
      <4>2. ~(h[q] = s /\ o[q] = c + 1)  BY <1>4, <1>7, <1>8, <1>9, <1>2
      <4> QED  BY <3>2, <4>1, <4>2, <1>4, <1>8, <1>9
    <3>3. CASE p # idx /\ p = qTail[s]
      <4>1. next'[p] = idx /\ home[p] = s /\ pos[p] = c - 1
        BY <3>1, <3>3, <1>3, <1>4, <1>11, <1>13, <1>14
      <4> QED  BY <3>3, <4>1, <1>2, <1>4, <1>5, <1>7, <1>8, <1>9
    <3>4. CASE p # idx /\ p # qTail[s]
      <4>1. next'[p] = next[p]  BY <3>1, <3>4, <1>11
      <4>2. home[p] = s => pos[p] # c - 1
        BY <3>4, <1>2, <1>3 DEF QueueFields
      <4>3. CASE q = idx
        BY <4>1, <4>2, <4>3, <3>0, <3>4, <1>2, <1>4, <1>5, <1>8, <1>9
      <4>4. CASE q # idx
        BY <4>1, <4>4, <3>0, <3>4, <1>2, <1>4, <1>5, <1>6, <1>8, <1>9
      <4> QED  BY <4>3, <4>4
    <3> QED  BY <3>2, <3>3, <3>4
  <2>4. ASSUME NEW l \in Lists, NEW p \in Pkts
        PROVE  First(l)' = p <=> h[p] = l /\ o[p] = 0
    <3>0. First(l) = p <=> home[p] = l /\ pos[p] = 0  BY <1>2 DEF Placement
    <3>1. CASE l = Free
      <4>1. First(l)' = next[idx]  BY <3>1, <1>10 DEF First
      <4>2. next[idx] = p <=> home[p] = Free /\ pos[p] = 1
        BY <1>2, <1>5 DEF Placement
      <4> QED  BY <3>1, <4>1, <4>2, <1>2, <1>4, <1>5, <1>6, <1>8, <1>9
    <3>2. CASE l = s /\ c = 0
      <4>1. First(l)' = idx
        BY <3>2, <1>4, <1>11, <1>13 DEF First, IInv, TypeOK
      <4> QED  BY <3>2, <4>1, <1>2, <1>4, <1>5, <1>7, <1>8, <1>9
    <3>3. CASE l # Free /\ ~(l = s /\ c = 0)
      <4>1. l \in Socks  BY <3>3 DEF Lists
      <4>2. First(l)' = qHead[l] /\ First(l) = qHead[l]
        BY <3>3, <4>1, <1>11, <1>13 DEF First, IInv, TypeOK
      <4> QED  BY <3>0, <3>3, <4>2, <1>2, <1>3, <1>4, <1>5, <1>8, <1>9
    <3> QED  BY <3>1, <3>2, <3>3
  <2> QED  BY <2>1, <2>2, <2>3, <2>4 DEF Placement
<1>16. QueueFields(h, o)'
  <2> SUFFICES ASSUME NEW t \in Socks
               PROVE  /\ \A p \in Pkts : qTail'[t] = p <=> h[p] = t /\ o[p] = qCount'[t] - 1
                      /\ \A p \in Pkts : h[p] = t => o[p] < qCount'[t]
                      /\ qCount'[t] > 0 => qTail'[t] # Nil
                      /\ ~used'[t] => qCount'[t] = 0
    BY DEF QueueFields
  <2>1. /\ \A p \in Pkts : qTail[t] = p <=> home[p] = t /\ pos[p] = qCount[t] - 1
        /\ \A p \in Pkts : home[p] = t => pos[p] < qCount[t]
        /\ qCount[t] > 0 => qTail[t] # Nil
        /\ ~used[t] => qCount[t] = 0
    BY <1>2 DEF QueueFields
  <2>2. t # Free  BY DEF Socks, Free
  <2>3. CASE t = s
    <3>1. qTail'[t] = idx /\ qCount'[t] = c + 1
      BY <2>3, <1>10 DEF IInv, TypeOK
    <3> QED  BY <2>3, <3>1, <1>2, <1>4, <1>5, <1>7, <1>8, <1>9
  <2>4. CASE t # s
    <3>1. qTail'[t] = qTail[t] /\ qCount'[t] = qCount[t]
      BY <2>4, <1>10 DEF IInv, TypeOK
    <3> QED  BY <2>1, <2>2, <2>4, <3>1, <1>2, <1>5, <1>8, <1>9
  <2> QED  BY <2>3, <2>4
<1>17. PoolPartitioned' /\ o \in [Pkts -> 0..PoolPackets - 1]
  BY <1>12, <1>15, <1>16, PlaceNext
<1>18. qCount' \in [Socks -> 0..PoolPackets]
  <2>1. c + 1 \in 0..PoolPackets  BY <1>3, <1>9, <1>17
  <2> QED  BY <2>1, <1>10 DEF IInv, TypeOK
<1> QED  BY <1>12, <1>17, <1>18

(* A packet moves from the head of a queue to the head of the free list. *)
LEMMA RecvStep ==
    ASSUME IInv, NEW s \in Socks, NEW max, udpRecvFrom(s, max)
    PROVE  /\ PoolPartitioned'
           /\ freeList' \in Pkts \cup {Nil}
           /\ qHead' \in [Socks -> Pkts \cup {Nil}]
           /\ qTail' \in [Socks -> Pkts \cup {Nil}]
           /\ qCount' \in [Socks -> 0..PoolPackets]
           /\ next' \in [Pkts -> Pkts \cup {Nil}]
<1> USE SizesAssumption
<1>1. PICK idx \in Pkts : idx = qHead[s]  BY DEF IInv, TypeOK, udpRecvFrom
<1>2. PICK home \in [Pkts -> Lists], pos \in [Pkts -> 0..PoolPackets - 1] :
         Placement(home, pos) /\ QueueFields(home, pos)
  BY DEF IInv, PoolPartitioned
<1>3. PICK c \in Nat : c = qCount[s]  BY DEF IInv, TypeOK
<1>4. s # Free /\ s \in Lists /\ Free \in Lists /\ \A p \in Pkts : p # Nil
  BY DEF Socks, Free, Lists, Pkts, Nil
<1>5. home[idx] = s /\ pos[idx] = 0
  BY <1>1, <1>2, <1>4 DEF Placement, First
<1>6. \A p \in Pkts : home[p] = s => (pos[p] = 0 <=> p = idx)
  BY <1>2, <1>5 DEF Placement
<1>7. c > 0 /\ \A p \in Pkts : home[p] = s => pos[p] < c
  BY <1>2, <1>3, <1>5 DEF QueueFields
<1>8. PICK h \in [Pkts -> Lists] :
         \A p \in Pkts : h[p] = IF p = idx THEN Free ELSE home[p]
  <2> DEFINE hh == [p \in Pkts |-> IF p = idx THEN Free ELSE home[p]]
  <2>1. hh \in [Pkts -> Lists]  BY <1>2, <1>4
  <2> QED  BY <2>1
<1>9. PICK o \in [Pkts -> Nat] :
         \A p \in Pkts : o[p] = IF p = idx THEN 0
                                ELSE IF home[p] = Free THEN pos[p] + 1
                                ELSE IF home[p] = s THEN pos[p] - 1 ELSE pos[p]
  <2> DEFINE oo == [p \in Pkts |-> IF p = idx THEN 0
                                   ELSE IF home[p] = Free THEN pos[p] + 1
                                   ELSE IF home[p] = s THEN pos[p] - 1 ELSE pos[p]]
  <2>1. oo \in [Pkts -> Nat]  BY <1>2, <1>6
  <2> QED  BY <2>1
<1>10. /\ freeList' = idx
       /\ next' = [next EXCEPT ![idx] = freeList]
       /\ qHead' = [qHead EXCEPT ![s] = next[idx]]
       /\ qTail' = IF next[idx] = Nil THEN [qTail EXCEPT ![s] = Nil] ELSE qTail
       /\ qCount' = [qCount EXCEPT ![s] = c - 1]
       /\ used' = used
  BY <1>1, <1>3 DEF udpRecvFrom, socketVars
<1>11. /\ freeList' \in Pkts \cup {Nil}
       /\ qHead' \in [Socks -> Pkts \cup {Nil}]
       /\ qTail' \in [Socks -> Pkts \cup {Nil}]
       /\ next' \in [Pkts -> Pkts \cup {Nil}]
  BY <1>10 DEF IInv, TypeOK
<1>12. qCount' \in [Socks -> 0..PoolPackets]
  <2>1. c - 1 \in 0..PoolPackets  BY <1>3, <1>7 DEF IInv, TypeOK
  <2> QED  BY <2>1, <1>10 DEF IInv, TypeOK
<1>13. next[idx] = Nil <=> c = 1
  <2>1. qTail[s] \in Pkts /\ home[qTail[s]] = s /\ pos[qTail[s]] = c - 1
    BY <1>2, <1>3, <1>7 DEF QueueFields, IInv, TypeOK
  <2>2. CASE c = 1
    <3>1. \A q \in Pkts : next[idx] # q  BY <2>2, <1>2, <1>5, <1>7 DEF Placement
    <3> QED  BY <2>2, <3>1 DEF IInv, TypeOK
  <2>3. CASE c > 1
    <3>1. 1 \in 0..pos[qTail[s]]  BY <2>1, <2>3
    <3>2. PICK q \in Pkts : home[q] = s /\ pos[q] = 1  BY <1>2, <2>1, <3>1 DEF Placement
    <3>3. next[idx] = q  BY <1>2, <1>5, <3>2 DEF Placement
    <3> QED  BY <2>3, <3>3, <1>4
  <2> QED  BY <2>2, <2>3, <1>7
<1>14. Placement(h, o)'
  <2>1. \A p, q \in Pkts : h[p] = h[q] /\ o[p] = o[q] => p = q
    BY <1>2, <1>4, <1>5, <1>6, <1>8, <1>9 DEF Placement
  <2>2. ASSUME NEW p \in Pkts, NEW i \in 0..o[p]
        PROVE  \E q \in Pkts : h[q] = h[p] /\ o[q] = i
    <3>0. \A a \in Pkts : \A j \in 0..pos[a] :
             \E q \in Pkts : home[q] = home[a] /\ pos[q] = j
      BY <1>2 DEF Placement
    <3>1. CASE p = idx  BY <3>1, <1>9
    <3>2. CASE p # idx /\ home[p] = Free
      <4>1. CASE i = 0  BY <3>2, <4>1, <1>8, <1>9
      <4>2. CASE i # 0
        <5>1. i - 1 \in 0..pos[p]  BY <3>2, <4>2, <1>9
        <5>2. PICK q \in Pkts : home[q] = Free /\ pos[q] = i - 1  BY <3>0, <3>2, <5>1
        <5> QED  BY <3>2, <5>2, <1>2, <1>4, <1>5, <1>8, <1>9
      <4> QED  BY <4>1, <4>2
    <3>3. CASE p # idx /\ home[p] = s
      <4>1. i + 1 \in 0..pos[p] /\ i + 1 # 0  BY <3>3, <1>2, <1>4, <1>6, <1>9
      <4>2. PICK q \in Pkts : home[q] = s /\ pos[q] = i + 1  BY <3>0, <3>3, <4>1
      <4> QED  BY <3>3, <4>1, <4>2, <1>4, <1>5, <1>8, <1>9
    <3>4. CASE p # idx /\ home[p] # s /\ home[p] # Free
      <4>1. PICK q \in Pkts : home[q] = home[p] /\ pos[q] = i  BY <3>0, <3>4, <1>9
      <4> QED  BY <3>4, <4>1, <1>5, <1>8, <1>9
    <3> QED  BY <3>1, <3>2, <3>3, <3>4
  <2>3. ASSUME NEW p \in Pkts, NEW q \in Pkts
        PROVE  next'[p] = q <=> h[q] = h[p] /\ o[q] = o[p] + 1
    <3>0. next[p] = q <=> home[q] = home[p] /\ pos[q] = pos[p] + 1
      BY <1>2 DEF Placement
    <3>1. next \in [Pkts -> Pkts \cup {Nil}]  BY DEF IInv, TypeOK
    <3>2. CASE p = idx
      <4>1. next'[p] = freeList  BY <3>1, <3>2, <1>10
      <4>2. freeList = q <=> home[q] = Free /\ pos[q] = 0
        BY <1>2, <1>4 DEF Placement, First
      <4> QED  BY <3>2, <4>1, <4>2, <1>2, <1>4, <1>5, <1>6, <1>8, <1>9
    <3>3. CASE p # idx
      <4>1. next'[p] = next[p]  BY <3>1, <3>3, <1>10
      <4>2. CASE q = idx
        BY <4>1, <4>2, <3>0, <3>3, <1>2, <1>4, <1>5, <1>8, <1>9
      <4>3. CASE q # idx
        BY <4>1, <4>3, <3>0, <3>3, <1>2, <1>4, <1>5, <1>6, <1>8, <1>9
      <4> QED  BY <4>2, <4>3
    <3> QED  BY <3>2, <3>3
  <2>4. ASSUME NEW l \in Lists, NEW p \in Pkts
        PROVE  First(l)' = p <=> h[p] = l /\ o[p] = 0
    <3>0. First(l) = p <=> home[p] = l /\ pos[p] = 0  BY <1>2 DEF Placement
    <3>1. CASE l = Free
      <4>1. First(l)' = idx  BY <3>1, <1>10 DEF First
      <4> QED  BY <3>1, <4>1, <1>2, <1>4, <1>5, <1>6, <1>8, <1>9
    <3>2. CASE l = s
      <4>1. First(l)' = next[idx]
        BY <3>2, <1>4, <1>10 DEF First, IInv, TypeOK
      <4>2. next[idx] = p <=> home[p] = s /\ pos[p] = 1
        BY <1>2, <1>5 DEF Placement
      <4> QED  BY <3>2, <4>1, <4>2, <1>2, <1>4, <1>5, <1>6, <1>8, <1>9
    <3>3. CASE l # Free /\ l # s
      <4>1. l \in Socks  BY <3>3 DEF Lists
      <4>2. First(l)' = qHead[l] /\ First(l) = qHead[l]
        BY <3>3, <4>1, <1>10 DEF First, IInv, TypeOK
      <4> QED  BY <3>0, <3>3, <4>2, <1>2, <1>4, <1>5, <1>8, <1>9
    <3> QED  BY <3>1, <3>2, <3>3
  <2> QED  BY <2>1, <2>2, <2>3, <2>4 DEF Placement
<1>15. QueueFields(h, o)'
  <2> SUFFICES ASSUME NEW t \in Socks
               PROVE  /\ \A p \in Pkts : qTail'[t] = p <=> h[p] = t /\ o[p] = qCount'[t] - 1
                      /\ \A p \in Pkts : h[p] = t => o[p] < qCount'[t]
                      /\ qCount'[t] > 0 => qTail'[t] # Nil
                      /\ ~used'[t] => qCount'[t] = 0
    BY DEF QueueFields
  <2>1. /\ \A p \in Pkts : qTail[t] = p <=> home[p] = t /\ pos[p] = qCount[t] - 1
        /\ \A p \in Pkts : home[p] = t => pos[p] < qCount[t]
        /\ qCount[t] > 0 => qTail[t] # Nil
        /\ ~used[t] => qCount[t] = 0
    BY <1>2 DEF QueueFields
  <2>2. t # Free  BY DEF Socks, Free
  <2>3. CASE t = s
    <3>1. qCount'[t] = c - 1 /\ used'[t]
      BY <2>3, <1>10 DEF IInv, TypeOK, udpRecvFrom
    <3>2. qTail'[t] = IF c = 1 THEN Nil ELSE qTail[s]
      BY <2>3, <1>10, <1>13 DEF IInv, TypeOK
    <3>3. \A p \in Pkts : h[p] = t <=> home[p] = s /\ p # idx
      BY <2>3, <1>4, <1>8
    <3>4. \A p \in Pkts : h[p] = t => o[p] = pos[p] - 1 /\ pos[p] < c
      BY <2>3, <3>3, <1>4, <1>7, <1>9
    <3>5. CASE c = 1
      BY <2>3, <3>1, <3>2, <3>3, <3>4, <3>5, <1>2, <1>4, <1>6, <1>7
    <3>6. CASE c # 1
      BY <2>1, <2>3, <3>1, <3>2, <3>3, <3>4, <3>6, <1>2, <1>3, <1>5, <1>7
    <3> QED  BY <3>5, <3>6
  <2>4. CASE t # s
    <3>1. qTail'[t] = qTail[t] /\ qCount'[t] = qCount[t]
      BY <2>4, <1>10 DEF IInv, TypeOK
    <3> QED  BY <2>1, <2>2, <2>4, <3>1, <1>2, <1>5, <1>8, <1>9, <1>10
  <2> QED  BY <2>3, <2>4
<1>16. PoolPartitioned'
  BY <1>11, <1>14, <1>15, PlaceNext
<1> QED  BY <1>11, <1>12, <1>16

(* The loop of udpClose meets exactly the packets of the queue, in order. *)
LEMMA WalkMeetsQueue ==
    ASSUME IInv, NEW s \in Socks, NEW home \in [Pkts -> Lists],
           NEW pos \in [Pkts -> 0..PoolPackets - 1],
           Placement(home, pos), QueueFields(home, pos),
           NEW n \in Nat, NEW at \in [0..n - 1 -> Pkts], Walk(s, at, n)
    PROVE  /\ n = qCount[s]
           /\ \A i \in 0..n - 1 : home[at[i]] = s /\ pos[at[i]] = i
<1> USE SizesAssumption
<1>1. s # Free /\ s \in Lists /\ \A p \in Pkts : p # Nil
  BY DEF Socks, Free, Lists, Pkts, Nil
<1>2. \A p \in Pkts : qHead[s] = p <=> home[p] = s /\ pos[p] = 0
  BY <1>1 DEF Placement, First
<1>3. \A i \in 0..n - 1 : home[at[i]] = s /\ pos[at[i]] = i
  <2> DEFINE T == {i \in 0..n - 1 : ~(home[at[i]] = s /\ pos[at[i]] = i)}
  <2> SUFFICES ASSUME T # {} PROVE FALSE  OBVIOUS
  <2>1. PICK x \in T : \A y \in T : x <= y
    <3>1. T \subseteq Nat  OBVIOUS
    <3> HIDE DEF T
    <3> QED  BY <3>1, LeastElement
  <2>2. CASE x = 0  BY <2>1, <2>2, <1>2 DEF Walk
  <2>3. CASE x # 0
    <3>1. x \in 0..n - 1 /\ x - 1 \in 0..n - 1 /\ x - 1 \notin T  BY <2>1, <2>3
    <3>2. home[at[x - 1]] = s /\ pos[at[x - 1]] = x - 1  BY <3>1
    <3>3. next[at[x - 1]] = at[x]  BY <3>1 DEF Walk
    <3>4. at[x] \in Pkts /\ at[x - 1] \in Pkts  BY <3>1
    <3>5. \A p, q \in Pkts : next[p] = q => home[q] = home[p] /\ pos[q] = pos[p] + 1
      BY DEF Placement
    <3>6. home[at[x]] = s /\ pos[at[x]] = x - 1 + 1
      BY <3>2, <3>3, <3>4, <3>5
    <3>7. x - 1 + 1 = x  BY <3>1
    <3> QED  BY <2>1, <3>6, <3>7
  <2> QED  BY <2>2, <2>3
<1>4. PICK c \in Nat : c = qCount[s]  BY DEF IInv, TypeOK
<1>5. c > 0 => qTail[s] \in Pkts /\ home[qTail[s]] = s /\ pos[qTail[s]] = c - 1
  BY <1>4 DEF QueueFields, IInv, TypeOK
<1>6. \A i \in 0..c - 1 : \E q \in Pkts : home[q] = s /\ pos[q] = i
  BY <1>5 DEF Placement
<1>7. CASE n = 0
  <2>1. qHead[s] = Nil  BY <1>7 DEF Walk
  <2>2. \A q \in Pkts : ~(home[q] = s /\ pos[q] = 0)  BY <2>1, <1>1, <1>2
  <2> QED  BY <1>4, <1>6, <1>7, <2>2
<1>8. CASE n > 0
  <2>1. n - 1 \in 0..n - 1 /\ at[n - 1] \in Pkts  BY <1>8
  <2>2. next[at[n - 1]] = Nil  BY <2>1 DEF Walk
  <2>3. home[at[n - 1]] = s /\ pos[at[n - 1]] = n - 1  BY <1>3, <2>1
  <2>4. n - 1 < c  BY <2>1, <2>3, <1>4 DEF QueueFields
  <2>5. \A q \in Pkts : ~(home[q] = s /\ pos[q] = n)
    BY <2>1, <2>2, <2>3, <1>1 DEF Placement
  <2>6. n \notin 0..c - 1  BY <1>6, <2>5
  <2> QED  BY <1>3, <1>4, <2>4, <2>6
<1> QED  BY <1>3, <1>7, <1>8

(* Every packet of a queue moves to the free list, the last one to its head. *)
LEMMA CloseStep ==
    ASSUME IInv, NEW s \in Socks, udpClose(s)
    PROVE  /\ PoolPartitioned'
           /\ freeList' \in Pkts \cup {Nil}
           /\ qHead' \in [Socks -> Pkts \cup {Nil}]
           /\ qTail' \in [Socks -> Pkts \cup {Nil}]
           /\ qCount' \in [Socks -> 0..PoolPackets]
           /\ next' \in [Pkts -> Pkts \cup {Nil}]
<1> USE SizesAssumption
<1>1. PICK home \in [Pkts -> Lists], pos \in [Pkts -> 0..PoolPackets - 1] :
         Placement(home, pos) /\ QueueFields(home, pos)
  BY DEF IInv, PoolPartitioned
<1>0. PICK n \in 0..PoolPackets : \E at \in [0..n - 1 -> Pkts] :
         Walk(s, at, n) /\ FreeWalked(at, n)
  BY DEF udpClose
<1>2. PICK at \in [0..n - 1 -> Pkts] : Walk(s, at, n) /\ FreeWalked(at, n)
  BY <1>0
<1>3. PICK c \in 0..PoolPackets : c = qCount[s]  BY DEF IInv, TypeOK
<1>4. s # Free /\ s \in Lists /\ Free \in Lists /\ \A p \in Pkts : p # Nil
  BY DEF Socks, Free, Lists, Pkts, Nil
<1>5. n = c /\ at \in [0..c - 1 -> Pkts]
      /\ \A i \in 0..c - 1 : home[at[i]] = s /\ pos[at[i]] = i
  <2>1. n \in Nat  OBVIOUS
  <2>2. n = qCount[s] /\ \A i \in 0..n - 1 : home[at[i]] = s /\ pos[at[i]] = i
    BY <1>1, <1>2, <2>1, WalkMeetsQueue
  <2> QED  BY <2>2, <1>2, <1>3
<1>6. \A p \in Pkts : home[p] = s => pos[p] \in 0..c - 1 /\ at[pos[p]] = p
  <2> SUFFICES ASSUME NEW p \in Pkts, home[p] = s
               PROVE  pos[p] \in 0..c - 1 /\ at[pos[p]] = p
    OBVIOUS
  <2>1. pos[p] \in 0..c - 1  BY <1>1, <1>3 DEF QueueFields
  <2>2. at[pos[p]] \in Pkts  BY <2>1, <1>5
  <2> QED  BY <2>1, <2>2, <1>1, <1>5 DEF Placement
<1>7. PICK h \in [Pkts -> Lists] :
         \A p \in Pkts : h[p] = IF home[p] = s THEN Free ELSE home[p]
  <2> DEFINE hh == [p \in Pkts |-> IF home[p] = s THEN Free ELSE home[p]]
  <2>1. hh \in [Pkts -> Lists]  BY <1>1, <1>4
  <2> QED  BY <2>1
<1>8. PICK o \in [Pkts -> Nat] :
         \A p \in Pkts : o[p] = IF home[p] = s THEN c - 1 - pos[p]
                                ELSE IF home[p] = Free THEN pos[p] + c ELSE pos[p]
  <2> DEFINE oo == [p \in Pkts |-> IF home[p] = s THEN c - 1 - pos[p]
                                ELSE IF home[p] = Free THEN pos[p] + c ELSE pos[p]]
  <2>1. oo \in [Pkts -> Nat]  BY <1>1, <1>3, <1>6
  <2> QED  BY <2>1
<1>16. c \in Nat  OBVIOUS
<1>17. ASSUME NEW p \in Pkts
       PROVE  /\ pos[p] \in Nat /\ o[p] \in Nat
              /\ home[p] = s => h[p] = Free /\ o[p] < c /\ o[p] = c - 1 - pos[p]
              /\ home[p] = Free => h[p] = Free /\ o[p] = pos[p] + c
              /\ home[p] # s /\ home[p] # Free => h[p] = home[p] /\ o[p] = pos[p]
  <2>1. pos[p] \in Nat /\ o[p] \in Nat  BY <1>1, <1>8
  <2>2. o[p] = IF home[p] = s THEN c - 1 - pos[p]
                              ELSE IF home[p] = Free THEN pos[p] + c ELSE pos[p]
    BY <1>8
  <2>3. h[p] = IF home[p] = s THEN Free ELSE home[p]  BY <1>7
  <2>4. home[p] = s => o[p] < c  BY <1>16, <2>1, <2>2
  <2> QED  BY <2>1, <2>2, <2>3, <2>4, <1>4
<1>18. ASSUME NEW p \in Pkts
       PROVE  /\ home[p] = s <=> h[p] = Free /\ o[p] < c
              /\ home[p] = Free <=> h[p] = Free /\ ~(o[p] < c)
  <2>1. home[p] = Free => ~(o[p] < c)  BY <1>16, <1>17
  <2> QED  BY <2>1, <1>4, <1>17
<1>9. freeList' = IF c = 0 THEN freeList ELSE at[c - 1]
  BY <1>2, <1>5 DEF FreeWalked
<1>10. \A p \in Pkts : next'[p] = IF home[p] = s
                                 THEN IF pos[p] = 0 THEN freeList ELSE at[pos[p] - 1]
                                 ELSE next[p]
  <2> SUFFICES ASSUME NEW p \in Pkts
               PROVE  next'[p] = IF home[p] = s
                                 THEN IF pos[p] = 0 THEN freeList ELSE at[pos[p] - 1]
                                 ELSE next[p]
    OBVIOUS
  <2> DEFINE W == \E i \in 0..c - 1 : at[i] = p
             j == CHOOSE j \in 0..c - 1 : at[j] = p
  <2>1. next'[p] = IF W THEN IF j = 0 THEN freeList ELSE at[j - 1] ELSE next[p]
    BY <1>2, <1>5 DEF FreeWalked
  <2>2. W <=> home[p] = s  BY <1>5, <1>6
  <2>3. W => j \in 0..c - 1 /\ at[j] = p  OBVIOUS
  <2>4. W => j = pos[p]  BY <2>3, <1>5
  <2> HIDE DEF W, j
  <2> QED  BY <2>1, <2>2, <2>4
<1>11. /\ qHead' = [qHead EXCEPT ![s] = Nil]
       /\ qTail' = [qTail EXCEPT ![s] = Nil]
       /\ qCount' = [qCount EXCEPT ![s] = 0]
       /\ used' = [used EXCEPT ![s] = FALSE]
  BY DEF udpClose
<1>12. /\ freeList' \in Pkts \cup {Nil}
       /\ qHead' \in [Socks -> Pkts \cup {Nil}]
       /\ qTail' \in [Socks -> Pkts \cup {Nil}]
       /\ next' \in [Pkts -> Pkts \cup {Nil}]
       /\ qCount' \in [Socks -> 0..PoolPackets]
  <2>1. freeList' \in Pkts \cup {Nil}
    <3>1. CASE c = 0  BY <3>1, <1>9 DEF IInv, TypeOK
    <3>2. CASE c > 0
      <4>1. c - 1 \in 0..c - 1  BY <3>2, <1>3
      <4> QED  BY <3>2, <4>1, <1>5, <1>9
    <3> QED  BY <3>1, <3>2, <1>3
  <2>2. \A p \in Pkts : next'[p] \in Pkts \cup {Nil}
    <3> TAKE p \in Pkts
    <3>1. CASE home[p] = s /\ pos[p] # 0
      <4>1. pos[p] - 1 \in 0..c - 1  BY <3>1, <1>1, <1>3, <1>6
      <4> QED  BY <3>1, <4>1, <1>5, <1>10
    <3>2. CASE ~(home[p] = s /\ pos[p] # 0)
      BY <3>2, <1>10 DEF IInv, TypeOK
    <3> QED  BY <3>1, <3>2
  <2>3. next' = [p \in Pkts |-> next'[p]]
    BY <1>2 DEF FreeWalked
  <2> QED  BY <2>1, <2>2, <2>3, <1>11 DEF IInv, TypeOK
<1>13. Placement(h, o)'
  <2>0. \A a \in Pkts : \A j \in 0..pos[a] :
           \E q \in Pkts : home[q] = home[a] /\ pos[q] = j
    BY <1>1 DEF Placement
  <2>1. ASSUME NEW p \in Pkts, NEW q \in Pkts, h[p] = h[q], o[p] = o[q] PROVE p = q
    <3>1. home[p] = home[q]  BY <2>1, <1>17, <1>18
    <3>2. pos[p] = pos[q]  BY <2>1, <3>1, <1>16, <1>17
    <3> QED  BY <3>1, <3>2, <1>1 DEF Placement
  <2>2. ASSUME NEW p \in Pkts, NEW i \in 0..o[p]
        PROVE  \E q \in Pkts : h[q] = h[p] /\ o[q] = i
    <3>1. CASE h[p] = Free /\ i < c
      <4>1. c - 1 - i \in 0..c - 1  BY <3>1, <1>3
      <4>2. PICK q \in Pkts : q = at[c - 1 - i]  BY <4>1, <1>5
      <4>3. home[q] = s /\ pos[q] = c - 1 - i  BY <4>1, <4>2, <1>5
      <4> QED  BY <3>1, <4>3, <1>3, <1>7, <1>8
    <3>2. CASE h[p] = Free /\ i >= c
      <4>1. home[p] = Free  BY <3>2, <1>1, <1>3, <1>6, <1>7, <1>8
      <4>2. i - c \in 0..pos[p]  BY <3>2, <4>1, <1>1, <1>3, <1>4, <1>8
      <4>3. PICK q \in Pkts : home[q] = Free /\ pos[q] = i - c  BY <2>0, <4>1, <4>2
      <4> QED  BY <3>2, <4>3, <1>3, <1>4, <1>7, <1>8
    <3>3. CASE h[p] # Free
      <4>1. home[p] = h[p] /\ home[p] # s /\ o[p] = pos[p]  BY <3>3, <1>7, <1>8
      <4>2. PICK q \in Pkts : home[q] = home[p] /\ pos[q] = i  BY <2>0, <4>1
      <4> QED  BY <3>3, <4>1, <4>2, <1>7, <1>8
    <3> QED  BY <3>1, <3>2, <3>3, <1>3
  <2>3. ASSUME NEW p \in Pkts, NEW q \in Pkts
        PROVE  next'[p] = q <=> h[q] = h[p] /\ o[q] = o[p] + 1
    <3>1. CASE home[p] = s /\ pos[p] = 0
      <4>1. next'[p] = freeList  BY <3>1, <1>10
      <4>2. freeList = q <=> home[q] = Free /\ pos[q] = 0
        BY <1>1, <1>4 DEF Placement, First
      <4>3. h[p] = Free /\ o[p] = c - 1  BY <3>1, <1>16, <1>17
      <4>4. home[q] = Free /\ pos[q] = 0 <=> h[q] = Free /\ o[q] = c
        BY <1>4, <1>16, <1>17
      <4> QED  BY <4>1, <4>2, <4>3, <4>4, <1>3
    <3>2. CASE home[p] = s /\ pos[p] # 0
      <4>1. next'[p] = at[pos[p] - 1]  BY <3>2, <1>10
      <4>2. pos[p] - 1 \in 0..c - 1  BY <3>2, <1>1, <1>3, <1>6
      <4>3. at[pos[p] - 1] = q <=> home[q] = s /\ pos[q] = pos[p] - 1
        BY <4>2, <1>5, <1>6
      <4>4. h[p] = Free /\ o[p] = c - 1 - pos[p] /\ o[p] + 1 < c
        BY <3>2, <1>16, <1>17
      <4>5. home[q] = s /\ pos[q] = pos[p] - 1 <=> h[q] = Free /\ o[q] = c - pos[p]
        <5>1. c - pos[p] < c  BY <3>2, <1>16, <1>17
        <5>2. CASE home[q] = s  BY <5>1, <5>2, <3>2, <1>16, <1>17
        <5>3. CASE home[q] # s  BY <5>1, <5>3, <1>18
        <5> QED  BY <5>2, <5>3
      <4> QED  BY <4>1, <4>3, <4>4, <4>5, <1>16, <1>17
    <3>3. CASE home[p] # s
      <4>1. next'[p] = next[p]  BY <3>3, <1>10
      <4>2. next[p] = q <=> home[q] = home[p] /\ pos[q] = pos[p] + 1
        BY <1>1 DEF Placement
      <4>3. CASE home[p] = Free
        <5>1. h[p] = Free /\ o[p] = pos[p] + c /\ ~(o[p] + 1 < c)  BY <4>3, <1>16, <1>17
        <5>2. CASE home[q] = Free
          <6>1. h[q] = Free /\ o[q] = pos[q] + c /\ pos[p] \in Nat /\ pos[q] \in Nat
            BY <5>2, <1>17
          <6>2. o[q] = o[p] + 1 <=> pos[q] = pos[p] + 1  BY <5>1, <6>1, <1>16
          <6> QED  BY <5>1, <5>2, <6>1, <6>2, <4>1, <4>2, <4>3
        <5>3. CASE home[q] # Free
          <6>1. next'[p] # q  BY <5>3, <4>1, <4>2, <4>3
          <6>2. ~(h[q] = Free /\ o[q] = o[p] + 1)  BY <5>1, <5>3, <1>18
          <6> QED  BY <5>1, <6>1, <6>2
        <5> QED  BY <5>2, <5>3
      <4>4. CASE home[p] # Free
        <5>1. h[p] = home[p] /\ o[p] = pos[p]  BY <3>3, <4>4, <1>17
        <5>2. CASE home[q] = home[p]  BY <5>1, <5>2, <3>3, <4>1, <4>2, <4>4, <1>17
        <5>3. CASE home[q] # home[p]  BY <5>1, <5>3, <3>3, <4>1, <4>2, <4>4, <1>17
        <5> QED  BY <5>2, <5>3
      <4> QED  BY <4>3, <4>4
    <3> QED  BY <3>1, <3>2, <3>3
  <2>4. ASSUME NEW l \in Lists, NEW p \in Pkts
        PROVE  First(l)' = p <=> h[p] = l /\ o[p] = 0
    <3>0. First(l) = p <=> home[p] = l /\ pos[p] = 0  BY <1>1 DEF Placement
    <3>1. CASE l = Free /\ c = 0
      <4>1. First(l)' = First(l)  BY <3>1, <1>9 DEF First
      <4>2. home[p] # s  BY <3>1, <1>6
      <4> QED  BY <3>0, <3>1, <4>1, <4>2, <1>1, <1>7, <1>8
    <3>2. CASE l = Free /\ c > 0
      <4>1. First(l)' = at[c - 1]  BY <3>2, <1>9 DEF First
      <4>2. c - 1 \in 0..c - 1  BY <3>2, <1>3
      <4>3. at[c - 1] = p <=> home[p] = s /\ pos[p] = c - 1  BY <4>2, <1>5, <1>6
      <4>4. home[p] = s /\ pos[p] = c - 1 <=> h[p] = Free /\ o[p] = 0
        BY <3>2, <1>4, <1>16, <1>17
      <4> QED  BY <3>2, <4>1, <4>3, <4>4
    <3>3. CASE l = s
      <4>1. First(l)' = Nil  BY <3>3, <1>4, <1>11 DEF First, IInv, TypeOK
      <4> QED  BY <3>3, <4>1, <1>4, <1>7
    <3>4. CASE l # Free /\ l # s
      <4>1. l \in Socks  BY <3>4 DEF Lists
      <4>2. First(l)' = qHead[l] /\ First(l) = qHead[l]
        BY <3>4, <4>1, <1>11 DEF First, IInv, TypeOK
      <4> QED  BY <3>0, <3>4, <4>2, <1>1, <1>7, <1>8
    <3> QED  BY <3>1, <3>2, <3>3, <3>4, <1>3
  <2> QED  BY <2>1, <2>2, <2>3, <2>4 DEF Placement
<1>14. QueueFields(h, o)'
  <2> SUFFICES ASSUME NEW t \in Socks
               PROVE  /\ \A p \in Pkts : qTail'[t] = p <=> h[p] = t /\ o[p] = qCount'[t] - 1
                      /\ \A p \in Pkts : h[p] = t => o[p] < qCount'[t]
                      /\ qCount'[t] > 0 => qTail'[t] # Nil
                      /\ ~used'[t] => qCount'[t] = 0
    BY DEF QueueFields
  <2>1. /\ \A p \in Pkts : qTail[t] = p <=> home[p] = t /\ pos[p] = qCount[t] - 1
        /\ \A p \in Pkts : home[p] = t => pos[p] < qCount[t]
        /\ qCount[t] > 0 => qTail[t] # Nil
        /\ ~used[t] => qCount[t] = 0
    BY <1>1 DEF QueueFields
  <2>2. t # Free  BY DEF Socks, Free
  <2>3. CASE t = s
    <3>1. qTail'[t] = Nil /\ qCount'[t] = 0
      BY <2>3, <1>11 DEF IInv, TypeOK
    <3> QED  BY <2>2, <2>3, <3>1, <1>4, <1>7
  <2>4. CASE t # s
    <3>1. qTail'[t] = qTail[t] /\ qCount'[t] = qCount[t] /\ used'[t] = used[t]
      BY <2>4, <1>11 DEF IInv, TypeOK
    <3> QED  BY <2>1, <2>2, <2>4, <3>1, <1>1, <1>7, <1>8
  <2> QED  BY <2>3, <2>4
<1>15. PoolPartitioned'
  BY <1>12, <1>13, <1>14, PlaceNext
<1> QED  BY <1>12, <1>15

(* Opening an entry that is not in use finds its queue empty already. *)
LEMMA OpenStep ==
    ASSUME IInv, NEW s \in Socks, udpOpen(s)
    PROVE  IInv'
<1> USE SizesAssumption
<1>1. PICK home \in [Pkts -> Lists], pos \in [Pkts -> 0..PoolPackets - 1] :
         StaysHome(home) /\ Placement(home, pos) /\ QueueFields(home, pos)
  BY DEF IInv, PoolPartitioned
<1>2. s # Free /\ s \in Lists /\ \A p \in Pkts : p # Nil
  BY DEF Socks, Free, Lists, Pkts, Nil
<1>3. qCount[s] = 0  BY <1>1 DEF QueueFields, udpOpen
<1>4. \A p \in Pkts : home[p] # s  BY <1>1, <1>3 DEF QueueFields
<1>5. qHead[s] = Nil /\ qTail[s] = Nil
  BY <1>1, <1>2, <1>4 DEF Placement, First, QueueFields, IInv, TypeOK
<1>6. UNCHANGED <<qHead, qTail, qCount>>
  BY <1>3, <1>5 DEF udpOpen, IInv, TypeOK
<1>7. used' \in [Socks -> BOOLEAN] /\ \A t \in Socks : ~used'[t] => ~used[t]
  BY DEF udpOpen, IInv, TypeOK
<1>8. StaysHome(home)' /\ Placement(home, pos)'
  BY <1>1, <1>6 DEF StaysHome, Placement, First, udpOpen, poolVars
<1>9. QueueFields(home, pos)'
  BY <1>1, <1>6, <1>7 DEF QueueFields
<1>10. PoolPartitioned'  BY <1>8, <1>9 DEF PoolPartitioned
<1>11. 0 \in Ports  BY PortsAssumption DEF Ports
<1>12. TypeOK'
  BY <1>6, <1>7, <1>11 DEF IInv, TypeOK, udpOpen, poolVars
<1> QED  BY <1>10, <1>12 DEF IInv

(* The ports the tries look at, and the counter after them, are automatic
   ports, also when the counter wraps. *)
LEMMA EphemeralRange ==
    ASSUME nextEphemeral \in EphemeralFirst..PortMax, NEW k \in 0..EphemeralTries
    PROVE  EphemeralAt(k) \in EphemeralFirst..PortMax
BY PortsAssumption DEF EphemeralAt

LEMMA BindEphemeralStep ==
    ASSUME IInv, NEW s \in Socks, NEW ip \in {AnyIp, MyIp, OtherIp},
           udpBindEphemeral(s, ip)
    PROVE  IInv'
<1>1. PICK k \in 0..EphemeralTries - 1 :
         /\ bindPort(s, ip, EphemeralAt(k))
         /\ nextEphemeral' = EphemeralAt(k + 1)
  BY DEF udpBindEphemeral
<1>2. k \in 0..EphemeralTries /\ k + 1 \in 0..EphemeralTries  BY PortsAssumption
<1>3. nextEphemeral' \in EphemeralFirst..PortMax /\ EphemeralAt(k) \in EphemeralFirst..PortMax
  BY <1>1, <1>2, EphemeralRange DEF IInv, TypeOK
<1>4. EphemeralAt(k) \in Ports  BY <1>3, PortsAssumption DEF Ports
<1>5. BoundIp(ip) \in {AnyIp, OtherIp}  BY DEF BoundIp
<1>6. localIp' \in [Socks -> {AnyIp, OtherIp}] /\ localPort' \in [Socks -> Ports]
  BY <1>1, <1>4, <1>5 DEF bindPort, IInv, TypeOK
<1>7. TypeOK'
  BY <1>3, <1>6 DEF IInv, TypeOK, udpBindEphemeral, queueVars, poolVars
<1>8. PoolPartitioned'
  BY PoolUnchanged DEF IInv, udpBindEphemeral
<1> QED  BY <1>7, <1>8 DEF IInv

(* What udpRecvFrom reports of a packet is a Report. *)
LEMMA TruncatedType ==
    ASSUME NEW d \in Datagrams \cup {NoDatagram}, NEW max \in BufSizes
    PROVE  Truncated(d, max) \in Reports
<1>1. d.len \in Nat  BY DatagramsAssumption DEF NoDatagram
<1>2. max \in Nat  BY DatagramsAssumption
<1>3. (IF d.len < max THEN d.len ELSE max) \in Nat \cup {-1}  BY <1>1, <1>2
<1> QED  BY <1>3 DEF Truncated, Report, Reports

(* Every step of the node thread keeps the invariant. *)
LEMMA NodeStepPreserves == IInv /\ NodeStep => IInv'
<1> SUFFICES ASSUME IInv, NodeStep PROVE IInv'  OBVIOUS
<1>1. CASE reset  BY <1>1, ResetStep
<1>2. CASE configure
  <2>1. TypeOK'  BY <1>2 DEF IInv, TypeOK, configure, socketVars, queueVars, poolVars
  <2> QED  BY <1>2, <2>1, PoolUnchanged DEF IInv, configure, socketVars
<1>3. ASSUME NEW d \in Datagrams, NEW dst \in DestIps, NEW port \in BindPorts,
             onUdp(d, dst, port)
      PROVE  IInv'
  <2>1. 0 \in Socks  BY SizesAssumption DEF Socks
  <2>2. rx' \in Deliveries  BY <1>3, <2>1 DEF onUdp, Deliveries
  <2>3. TypeOK'  BY <1>3, <2>2 DEF IInv, TypeOK, onUdp, socketVars, queueVars, poolVars
  <2> QED  BY <1>3, <2>3, PoolUnchanged DEF IInv, onUdp, socketVars
<1>4. CASE DeliverToEntry
  <2>1. rx \in Deliveries /\ freeList \in Pkts \cup {Nil}  BY DEF IInv, TypeOK
  <2>2. rx.sock \in Socks /\ rx.dgram \in Datagrams \cup {NoDatagram}
    BY <2>1 DEF Deliveries
  <2>3. used[rx.sock] /\ pushToSocket(rx.sock, rx.dgram) /\ used' = used
    BY <1>4 DEF DeliverToEntry, Listens, socketVars
  <2>4. rx.dgram.len \in Nat  BY <2>2, DatagramsAssumption DEF NoDatagram
  <2>5. freeList # Nil
    BY <1>4, <2>4, SizesAssumption DEF DeliverToEntry, PushOutcome
  <2>6. rx' \in Deliveries  BY <1>4, <2>1, NextEntryType DEF DeliverToEntry
  <2>7. report' \in Reports
    BY <1>4 DEF DeliverToEntry, Report, Reports
  <2>8. PoolPartitioned' /\ TypeOK'
    BY <1>4, <2>2, <2>3, <2>5, <2>6, <2>7, PushStep
       DEF IInv, TypeOK, DeliverToEntry, socketVars
  <2> QED  BY <2>8 DEF IInv
<1>5. CASE DropAtEntry
  <2>1. rx \in Deliveries  BY DEF IInv, TypeOK
  <2>2. rx.dgram \in Datagrams \cup {NoDatagram}  BY <2>1 DEF Deliveries
  <2>3. rx' \in Deliveries  BY <1>5, <2>1, NextEntryType DEF DropAtEntry
  <2>4. PushOutcome(rx.dgram) \in {"tooBig", "noBuffer", "queued"}  BY DEF PushOutcome
  <2>5. report' \in Reports
    BY <1>5, <2>2, <2>4 DEF DropAtEntry, Report, Reports
  <2>6. TypeOK'
    BY <1>5, <2>3, <2>5 DEF IInv, TypeOK, DropAtEntry, socketVars, queueVars, poolVars
  <2> QED  BY <1>5, <2>6, PoolUnchanged DEF IInv, DropAtEntry, socketVars
<1>6. CASE SkipEntry
  <2>1. rx' \in Deliveries  BY <1>6, NextEntryType DEF SkipEntry, IInv, TypeOK
  <2>2. TypeOK'
    BY <1>6, <2>1 DEF IInv, TypeOK, SkipEntry, socketVars, queueVars, poolVars
  <2> QED  BY <1>6, <2>2, PoolUnchanged DEF IInv, SkipEntry, socketVars
<1> QED  BY <1>1, <1>2, <1>3, <1>4, <1>5, <1>6 DEF NodeStep

(* Every socket call keeps the invariant. *)
LEMMA CallStepPreserves == IInv /\ CallStep => IInv'
<1> SUFFICES ASSUME IInv, CallStep PROVE IInv'  OBVIOUS
<1>0. PICK s \in Socks :
        \/ udpOpen(s)
        \/ \E ip \in BindIps, port \in BindPorts : udpBind(s, ip, port)
        \/ \E ip \in BindIps : udpBindEphemeral(s, ip)
        \/ udpSendToUnbound(s)
        \/ udpRecvFromEmpty(s)
        \/ \E max \in BufSizes : udpRecvFromPeek(s, max)
        \/ \E max \in BufSizes : udpRecvFrom(s, max)
        \/ udpClose(s)
  BY DEF CallStep
<1>1. CASE udpOpen(s)  BY <1>1, OpenStep
<1>2. ASSUME NEW ip \in BindIps, NEW port \in BindPorts, udpBind(s, ip, port)
      PROVE  IInv'
  <2>1. BoundIp(ip) \in {AnyIp, OtherIp}  BY DatagramsAssumption DEF BoundIp
  <2>2. port \in Ports  BY PortsAssumption DEF Ports
  <2>3. localIp' \in [Socks -> {AnyIp, OtherIp}] /\ localPort' \in [Socks -> Ports]
    BY <1>2, <2>1, <2>2 DEF udpBind, bindPort, IInv, TypeOK
  <2>4. TypeOK'  BY <1>2, <2>3 DEF IInv, TypeOK, udpBind, queueVars, poolVars
  <2> QED  BY <1>2, <2>4, PoolUnchanged DEF IInv, udpBind
<1>3. ASSUME NEW ip \in BindIps, udpBindEphemeral(s, ip) PROVE IInv'
  BY <1>3, BindEphemeralStep, DatagramsAssumption
<1>4. CASE udpSendToUnbound(s)
  BY <1>4, BindEphemeralStep DEF udpSendToUnbound
<1>5. CASE udpRecvFromEmpty(s)
  <2>1. report' \in Reports  BY <1>5 DEF udpRecvFromEmpty, Empty, Report, Reports
  <2>2. TypeOK'
    BY <1>5, <2>1 DEF IInv, TypeOK, udpRecvFromEmpty, socketVars, queueVars, poolVars
  <2> QED  BY <1>5, <2>2, PoolUnchanged DEF IInv, udpRecvFromEmpty, socketVars
<1>6. ASSUME NEW max \in BufSizes, udpRecvFromPeek(s, max) PROVE IInv'
  <2>1. pkt[qHead[s]] \in Datagrams \cup {NoDatagram}
    BY <1>6 DEF IInv, TypeOK, udpRecvFromPeek
  <2>2. report' \in Reports  BY <1>6, <2>1, TruncatedType DEF udpRecvFromPeek
  <2>3. TypeOK'
    BY <1>6, <2>2 DEF IInv, TypeOK, udpRecvFromPeek, socketVars, queueVars, poolVars
  <2> QED  BY <1>6, <2>3, PoolUnchanged DEF IInv, udpRecvFromPeek, socketVars
<1>7. ASSUME NEW max \in BufSizes, udpRecvFrom(s, max) PROVE IInv'
  <2>1. pkt[qHead[s]] \in Datagrams \cup {NoDatagram}
    BY <1>7 DEF IInv, TypeOK, udpRecvFrom
  <2>2. report' \in Reports  BY <1>7, <2>1, TruncatedType DEF udpRecvFrom
  <2>3. TypeOK' /\ PoolPartitioned'
    BY <1>7, <2>2, RecvStep DEF IInv, TypeOK, udpRecvFrom, socketVars
  <2> QED  BY <2>3 DEF IInv
<1>8. CASE udpClose(s)
  <2>1. 0 \in Ports  BY PortsAssumption DEF Ports
  <2>2. /\ used' \in [Socks -> BOOLEAN]
        /\ localIp' \in [Socks -> {AnyIp, OtherIp}]
        /\ localPort' \in [Socks -> Ports]
    BY <1>8, <2>1 DEF IInv, TypeOK, udpClose
  <2>3. TypeOK' /\ PoolPartitioned'
    BY <1>8, <2>2, CloseStep DEF IInv, TypeOK, udpClose
  <2> QED  BY <2>3 DEF IInv
<1> QED  BY <1>0, <1>1, <1>2, <1>3, <1>4, <1>5, <1>6, <1>7, <1>8

LEMMA Invariance == IInv /\ [Next]_vars => IInv'
<1> SUFFICES ASSUME IInv, [Next]_vars PROVE IInv'  OBVIOUS
<1>1. CASE NodeStep  BY <1>1, NodeStepPreserves
<1>2. CASE CallStep  BY <1>2, CallStepPreserves
<1>3. CASE UNCHANGED vars
  <2>1. TypeOK'  BY <1>3 DEF IInv, TypeOK, vars, socketVars, queueVars, poolVars
  <2> QED  BY <1>3, <2>1, PoolUnchanged DEF IInv, vars, socketVars
<1> QED  BY <1>1, <1>2, <1>3 DEF Next

(* For every number of sockets, packets and ports, VNet's tables keep their
   types: no index ever leaves m_socks or m_pool, no port leaves u16, and a
   queue never counts more packets than the pool has. *)
THEOREM TypeCorrectness == Spec => []TypeOK
<1>1. Spec => []IInv  BY InitPartitioned, Invariance, PTL DEF Spec
<1>2. IInv => TypeOK  BY DEF IInv
<1> QED  BY <1>1, <1>2, PTL

(* For every number of sockets and packets, the packets are always exactly
   shared out between the free list and the queues of the open sockets:
   whatever is delivered, received, closed or reset, none is lost and none
   is on two lists. *)
THEOREM PoolStaysPartitioned == Spec => []PoolPartitioned
<1>1. Spec => []IInv  BY InitPartitioned, Invariance, PTL DEF Spec
<1>2. IInv => PoolPartitioned  BY DEF IInv
<1> QED  BY <1>1, <1>2, PTL

(* For every range of automatic ports with more tries than sockets, udpBind
   never hands out a port outside the range or one another open socket has. *)
THEOREM AutomaticPortsAreFresh == Spec => AutomaticPortIsFresh
<1> DEFINE A == \A s \in Socks :
          used'[s] /\ localPort'[s] # localPort[s] /\ nextEphemeral' # nextEphemeral
          => /\ localPort'[s] \in EphemeralFirst..PortMax
             /\ \A t \in Socks \ {s} : used[t] => localPort[t] # localPort'[s]
<1>1. TypeOK /\ [Next]_vars => [A]_vars
  <2> SUFFICES ASSUME TypeOK, Next, NEW s \in Socks, used'[s],
                      localPort'[s] # localPort[s], nextEphemeral' # nextEphemeral
               PROVE  /\ localPort'[s] \in EphemeralFirst..PortMax
                      /\ \A t \in Socks \ {s} : used[t] => localPort[t] # localPort'[s]
    OBVIOUS
  <2>1. ~reset  BY DEF reset
  <2>2. ~NodeStep
    BY <2>1 DEF NodeStep, configure, onUdp, DeliverToEntry, DropAtEntry, SkipEntry
  <2>3. PICK t \in Socks, ip \in BindIps \cup {AnyIp} : udpBindEphemeral(t, ip)
    BY <2>2 DEF Next, CallStep, udpOpen, udpBind, udpSendToUnbound, udpRecvFromEmpty,
       udpRecvFromPeek, udpRecvFrom, udpClose
  <2>4. PICK k \in 0..EphemeralTries - 1 :
           BindsAtTry(k) /\ bindPort(t, ip, EphemeralAt(k))
    BY <2>3 DEF udpBindEphemeral
  <2>5. t = s /\ localPort'[s] = EphemeralAt(k)  BY <2>4 DEF bindPort, TypeOK
  <2>6. EphemeralAt(k) \in EphemeralFirst..PortMax
    <3>1. k \in 0..EphemeralTries  BY PortsAssumption
    <3> QED  BY <3>1, EphemeralRange DEF TypeOK
  <2> QED  BY <2>4, <2>5, <2>6 DEF BindsAtTry, Taken
<1> QED  BY <1>1, TypeCorrectness, PTL DEF Spec, AutomaticPortIsFresh

(***************************************************************************)
(* The lists are the queues of DatagramQueues.                             *)
(***************************************************************************)

(* Following the next fields from the head gives the one sequence of packets *)
(* in which each is next to the one before it.                             *)
LEMMA WalkUnique ==
    ASSUME NEW head, NEW follow, NEW n \in Nat, NEW w,
           \A i \in 1..n : w[i] = IF i = 1 THEN head ELSE follow[w[i - 1]]
    PROVE  \A i \in 1..n : PacketAt(head, follow, i) = w[i]
<1> TAKE i \in 1..n
<1> DEFINE W(f) == [j \in 1..i |-> IF j = 1 THEN head ELSE follow[f[j - 1]]]
           walk == CHOOSE f : f = W(f)
           v == [j \in 1..i |-> w[j]]
<1>1. v = W(v)
  <2>1. \A j \in 1..i : v[j] = IF j = 1 THEN head ELSE follow[v[j - 1]]
    <3> TAKE j \in 1..i
    <3>1. j \in 1..n /\ (j # 1 => j - 1 \in 1..i)
      OBVIOUS
    <3> QED
      BY <3>1
  <2>2. W(v) = [j \in 1..i |-> v[j]]
    BY <2>1
  <2> QED
    BY <2>2
<1>2. walk = W(walk)
  BY <1>1
<1>3. \A j \in 1..i : walk[j] = IF j = 1 THEN head ELSE follow[walk[j - 1]]
  <2> HIDE DEF walk
  <2>1. \A j \in 1..i : W(walk)[j] = IF j = 1 THEN head ELSE follow[walk[j - 1]]
    OBVIOUS
  <2> QED
    BY <1>2, <2>1
<1>4. PacketAt(head, follow, i) = walk[i]
  BY DEF PacketAt
<1> HIDE DEF walk
<1>5. walk[i] = w[i]
  <2> DEFINE T == {j \in 1..i : walk[j] # w[j]}
  <2> SUFFICES ASSUME T # {}
               PROVE  FALSE
    OBVIOUS
  <2>1. PICK x \in T : \A y \in T : x <= y
    <3>1. T \subseteq Nat
      OBVIOUS
    <3> HIDE DEF T
    <3> QED
      BY <3>1, LeastElement
  <2>2. x \in 1..i /\ x \in 1..n /\ walk[x] # w[x]
    BY <2>1
  <2>3. CASE x = 1
    BY <1>3, <2>2, <2>3
  <2>4. CASE x # 1
    <3>1. x - 1 \in 1..i /\ x - 1 \notin T
      BY <2>1, <2>2, <2>4
    <3>2. walk[x - 1] = w[x - 1]
      BY <3>1
    <3> QED
      BY <1>3, <2>2, <2>4, <3>2
  <2> QED
    BY <2>3, <2>4
<1> QED
  BY <1>4, <1>5

(* A socket's queue, as the packets in it. *)
IsQueue(s, w) ==
    /\ w \in [1..qCount[s] -> Pkts]
    /\ \A i \in 1..qCount[s] : w[i] = IF i = 1 THEN qHead[s] ELSE next[w[i - 1]]

LEMMA QueueIsPackets ==
    ASSUME TypeOK, NEW s \in Socks, NEW w, IsQueue(s, w)
    PROVE  QueueOf(s) = [i \in 1..qCount[s] |-> pkt[w[i]]]
<1>1. qCount[s] \in Nat
  BY SizesAssumption DEF TypeOK
<1>2. \A i \in 1..qCount[s] : PacketAt(qHead[s], next, i) = w[i]
  BY <1>1, WalkUnique DEF IsQueue
<1> QED
  BY <1>2 DEF QueueOf

LEMMA QueueWalk ==
    ASSUME TypeOK, NEW s \in Socks,
           NEW home \in [Pkts -> Lists], NEW pos \in [Pkts -> 0..PoolPackets - 1],
           Placement(home, pos), QueueFields(home, pos)
    PROVE  \E w : /\ IsQueue(s, w)
                  /\ \A i \in 1..qCount[s] : home[w[i]] = s /\ pos[w[i]] = i - 1
                  /\ qCount[s] > 0 => qTail[s] = w[qCount[s]]
                  /\ qCount[s] = 0 <=> qHead[s] = Nil
                  /\ qCount[s] = 0 <=> qTail[s] = Nil
<1> USE SizesAssumption
<1>1. s # Free /\ s \in Lists /\ \A p \in Pkts : p # Nil
  BY DEF Socks, Free, Lists, Pkts, Nil
<1>2. PICK c \in Nat : c = qCount[s]
  BY DEF TypeOK
<1>3. \A p \in Pkts : qHead[s] = p <=> home[p] = s /\ pos[p] = 0
  BY <1>1 DEF Placement, First
<1>4. c > 0 => qTail[s] \in Pkts /\ home[qTail[s]] = s /\ pos[qTail[s]] = c - 1
  BY <1>2 DEF QueueFields, TypeOK
<1>5. \A i \in 0..c - 1 : \E q \in Pkts : home[q] = s /\ pos[q] = i
  BY <1>4 DEF Placement
<1>a. c = 0 => \A p \in Pkts : home[p] # s
  <2> SUFFICES ASSUME c = 0, NEW p \in Pkts, home[p] = s
               PROVE  FALSE
    OBVIOUS
  <2>1. pos[p] < 0
    BY <1>2 DEF QueueFields
  <2>2. pos[p] \in 0..PoolPackets - 1
    OBVIOUS
  <2> QED
    BY <2>1, <2>2
<1> DEFINE w == [i \in 1..c |-> CHOOSE q \in Pkts : home[q] = s /\ pos[q] = i - 1]
<1>6. \A i \in 1..c : w[i] \in Pkts /\ home[w[i]] = s /\ pos[w[i]] = i - 1
  <2> TAKE i \in 1..c
  <2>1. i - 1 \in 0..c - 1
    OBVIOUS
  <2>2. \E q \in Pkts : home[q] = s /\ pos[q] = i - 1
    BY <1>5, <2>1
  <2> QED
    BY <2>2
<1>7. w \in [1..c -> Pkts]
  BY <1>6
<1> HIDE DEF w
<1>8. \A i \in 1..c : w[i] = IF i = 1 THEN qHead[s] ELSE next[w[i - 1]]
  <2> TAKE i \in 1..c
  <2>1. CASE i = 1
    BY <1>3, <1>6, <2>1
  <2>2. CASE i # 1
    <3>1. i - 1 \in 1..c /\ i - 1 \in Int /\ (i - 1) - 1 + 1 = i - 1
      BY <2>2
    <3>2. w[i - 1] \in Pkts /\ home[w[i - 1]] = s /\ pos[w[i - 1]] = (i - 1) - 1
      BY <1>6, <3>1
    <3>3. home[w[i]] = home[w[i - 1]] /\ pos[w[i]] = pos[w[i - 1]] + 1
      BY <1>6, <3>1, <3>2
    <3> QED
      BY <1>6, <2>2, <3>2, <3>3 DEF Placement
  <2> QED
    BY <2>1, <2>2
<1>9. c > 0 => qTail[s] = w[c]
  <2> SUFFICES ASSUME c > 0
               PROVE  qTail[s] = w[c]
    OBVIOUS
  <2>1. w[c] \in Pkts /\ home[w[c]] = s /\ pos[w[c]] = c - 1
    BY <1>6
  <2> QED
    BY <1>4, <2>1 DEF Placement
<1>10. c = 0 <=> qHead[s] = Nil
  <2>1. CASE c = 0
    <3>1. \A p \in Pkts : home[p] # s
      BY <1>a, <2>1
    <3> QED
      BY <1>3, <2>1, <3>1 DEF TypeOK
  <2>2. CASE c # 0
    <3>1. 1 \in 1..c
      BY <2>2
    <3> QED
      BY <1>1, <1>6, <1>8, <2>2, <3>1
  <2> QED
    BY <2>1, <2>2
<1>11. c = 0 <=> qTail[s] = Nil
  <2>1. CASE c = 0
    <3>1. \A p \in Pkts : home[p] # s
      BY <1>a, <2>1
    <3> QED
      BY <2>1, <3>1 DEF TypeOK, QueueFields
  <2>2. CASE c # 0
    BY <1>1, <1>4, <2>2
  <2> QED
    BY <2>1, <2>2
<1> QED
  BY <1>2, <1>6, <1>7, <1>8, <1>9, <1>10, <1>11 DEF IsQueue


(* Append and Tail, element by element. *)
LEMMA AppendPoints ==
    ASSUME NEW D, NEW q \in Seq(D), NEW d \in D, NEW c, c = Len(q),
           NEW a \in [1..c + 1 -> D], \A i \in 1..c : a[i] = q[i], a[c + 1] = d
    PROVE  a = Append(q, d)
<1>1. c \in Nat /\ q \in [1..c -> D]
  BY LenProperties
<1>2. q = [i \in 1..c |-> q[i]]
  BY <1>1
<1>3. Append(q, d) = [i \in 1..c + 1 |-> IF i = c + 1 THEN d ELSE q[i]]
  BY <1>1, <1>2
<1> QED
  BY <1>1, <1>3

LEMMA TailPoints ==
    ASSUME NEW D, NEW q \in Seq(D), NEW c, c = Len(q), c # 0,
           NEW a \in [1..c - 1 -> D], \A i \in 1..c - 1 : a[i] = q[i + 1]
    PROVE  a = Tail(q)
<1>1. q # <<>>
  OBVIOUS
<1>2. PICK t \in Seq(D) : /\ t = Tail(q) /\ Len(t) = c - 1
                           /\ \A i \in 1..c - 1 : t[i] = q[i + 1]
  <2>1. /\ Tail(q) \in Seq(D) /\ Len(Tail(q)) = Len(q) - 1
        /\ \A i \in 1..Len(Tail(q)) : Tail(q)[i] = q[i + 1]
    BY <1>1, HeadTailProperties, Zenon
  <2> QED
    BY <2>1, Zenon
<1>3. t \in [1..c - 1 -> D]
  BY <1>2, LenProperties
<1> QED
  BY <1>2, <1>3

(* What a step makes of a queue, from its packets after it. *)
LEMMA NextQueue ==
    ASSUME NEW s \in Socks, NEW c \in Nat, c = qCount'[s], NEW v,
           \A i \in 1..c : v[i] = IF i = 1 THEN qHead'[s] ELSE next'[v[i - 1]]
    PROVE  QueueOf(s)' = [i \in 1..c |-> pkt'[v[i]]]
<1>1. PICK hd, fo : hd = qHead'[s] /\ fo = next'
  OBVIOUS
<1>2. \A i \in 1..c : v[i] = IF i = 1 THEN hd ELSE fo[v[i - 1]]
  BY <1>1
<1>3. \A i \in 1..c : PacketAt(hd, fo, i) = v[i]
  BY <1>2, WalkUnique
<1>4. QueueOf(s)' = [i \in 1..c |-> pkt'[PacketAt(hd, fo, i)]]
  BY <1>1 DEF QueueOf
<1> QED
  BY <1>3, <1>4

(* A queue whose fields and packets a step leaves alone. *)
LEMMA SameQueue ==
    ASSUME TypeOK, NEW s \in Socks, NEW w, IsQueue(s, w),
           qHead'[s] = qHead[s], qCount'[s] = qCount[s],
           \A i \in 1..qCount[s] : next'[w[i]] = next[w[i]] /\ pkt'[w[i]] = pkt[w[i]]
    PROVE  QueueOf(s)' = QueueOf(s)
<1>1. PICK c \in Nat : c = qCount[s]
  BY DEF TypeOK
<1>2. \A i \in 1..c : w[i] = IF i = 1 THEN qHead'[s] ELSE next'[w[i - 1]]
  <2> TAKE i \in 1..c
  <2>1. i # 1 => i - 1 \in 1..c
    OBVIOUS
  <2> QED
    BY <1>1, <2>1 DEF IsQueue
<1>4. QueueOf(s)' = [i \in 1..c |-> pkt'[w[i]]]
  BY <1>1, <1>2, NextQueue
<1>5. QueueOf(s) = [i \in 1..c |-> pkt[w[i]]]
  BY <1>1, QueueIsPackets
<1> QED
  BY <1>1, <1>4, <1>5

LEMMA NoQueue ==
    /\ \A s \in Socks : qCount[s] = 0 => QueueOf(s) = <<>>
    /\ \A s \in Socks : qCount'[s] = 0 => QueueOf(s)' = <<>>
  BY DEF QueueOf

(* The queue of an open socket gets the datagram at its end. *)
LEMMA PushIsAppend ==
    ASSUME IInv, NEW s \in Socks, NEW d, freeList # Nil, pushToSocket(s, d)
    PROVE  /\ QueueOf(s)' = Append(QueueOf(s), d)
           /\ \A t \in Socks \ {s} : QueueOf(t)' = QueueOf(t)
<1> USE DEF IInv
<1>1. PICK idx \in Pkts : idx = freeList
  BY DEF TypeOK
<1>2. PICK home \in [Pkts -> Lists], pos \in [Pkts -> 0..PoolPackets - 1] :
         Placement(home, pos) /\ QueueFields(home, pos)
  BY DEF PoolPartitioned
<1>3. home[idx] = Free /\ \A t \in Socks : t # Free
  <2>1. \A t \in Socks : t # Free
    BY DEF Socks, Free
  <2>2. Free \in Lists /\ First(Free) = idx
    BY <1>1 DEF Lists, First
  <2> QED
    BY <1>2, <2>1, <2>2 DEF Placement
<1>4. /\ pkt' = [pkt EXCEPT ![idx] = d]
      /\ next' = IF qTail[s] = Nil THEN [next EXCEPT ![idx] = Nil]
                 ELSE [next EXCEPT ![idx] = Nil, ![qTail[s]] = idx]
      /\ qHead' = IF qTail[s] = Nil THEN [qHead EXCEPT ![s] = idx] ELSE qHead
      /\ qCount' = [qCount EXCEPT ![s] = @ + 1]
  BY <1>1 DEF pushToSocket
<1>5. /\ next \in [Pkts -> Pkts \cup {Nil}] /\ pkt \in [Pkts -> Datagrams \cup {NoDatagram}]
      /\ qHead \in [Socks -> Pkts \cup {Nil}] /\ qTail \in [Socks -> Pkts \cup {Nil}]
      /\ qCount \in [Socks -> 0..PoolPackets]
  BY DEF TypeOK
<1>6. ASSUME NEW t \in Socks, t # s
      PROVE  QueueOf(t)' = QueueOf(t)
  <2>1. PICK w : IsQueue(t, w) /\ \A i \in 1..qCount[t] : home[w[i]] = t
    BY <1>2, QueueWalk
  <2>2. qHead'[t] = qHead[t] /\ qCount'[t] = qCount[t]
    BY <1>4, <1>5, <1>6
  <2>3. ASSUME NEW i \in 1..qCount[t]
        PROVE  next'[w[i]] = next[w[i]] /\ pkt'[w[i]] = pkt[w[i]]
    <3>1. w[i] \in Pkts /\ w[i] # idx
      BY <1>3, <2>1 DEF IsQueue
    <3>2. qTail[s] # Nil => home[qTail[s]] = s /\ qTail[s] # w[i]
      <4>1. qTail[s] # Nil => qTail[s] \in Pkts
        BY <1>5
      <4> QED
        BY <1>2, <1>6, <2>1, <4>1 DEF QueueFields
    <3> QED
      BY <1>4, <1>5, <3>1, <3>2
  <2> QED
    BY <2>1, <2>2, <2>3, SameQueue
<1>7. QueueOf(s)' = Append(QueueOf(s), d)
  <2>1. PICK w : /\ IsQueue(s, w) /\ \A i \in 1..qCount[s] : home[w[i]] = s
                 /\ qCount[s] > 0 => qTail[s] = w[qCount[s]]
                 /\ qCount[s] = 0 <=> qHead[s] = Nil
                 /\ qCount[s] = 0 <=> qTail[s] = Nil
                 /\ \A i \in 1..qCount[s] : pos[w[i]] = i - 1
    BY <1>2, QueueWalk
  <2>2. PICK c \in Nat : c = qCount[s]
    BY <1>5
  <2>3. qCount'[s] = c + 1
    BY <1>4, <1>5, <2>2
  <2> DEFINE v == [i \in 1..c + 1 |-> IF i = c + 1 THEN idx ELSE w[i]]
  <2>4. \A i \in 1..c : w[i] \in Pkts /\ w[i] # idx /\ v[i] = w[i]
    <3> TAKE i \in 1..c
    <3>1. w[i] \in Pkts /\ home[w[i]] = s
      BY <2>1, <2>2 DEF IsQueue
    <3>2. v[i] = w[i]
      OBVIOUS
    <3> HIDE DEF v
    <3> QED
      BY <1>3, <3>1, <3>2
  <2>5. v[c + 1] = idx /\ v \in [1..c + 1 -> Pkts]
    BY <2>4
  <2> HIDE DEF v
  <2>6. \A i \in 1..c + 1 : v[i] = IF i = 1 THEN qHead'[s] ELSE next'[v[i - 1]]
    <3> TAKE i \in 1..c + 1
    <3>1. CASE c = 0
      BY <1>4, <1>5, <2>1, <2>2, <2>5, <3>1
    <3>2. CASE c # 0
      <4>1. qTail[s] = w[c] /\ qTail[s] # Nil /\ w[c] \in Pkts /\ w[c] # idx
        BY <2>1, <2>2, <2>4, <3>2
      <4>2. /\ qHead'[s] = qHead[s] /\ next'[w[c]] = idx
            /\ \A p \in Pkts \ {idx, w[c]} : next'[p] = next[p]
        BY <1>4, <1>5, <4>1
      <4>3. CASE i = 1
        BY <2>1, <2>2, <2>4, <3>2, <4>2, <4>3 DEF IsQueue
      <4>4. CASE i = c + 1
        <5>1. c \in 1..c /\ i - 1 = c /\ i # 1
          BY <3>2, <4>4
        <5> QED
          BY <2>4, <2>5, <4>2, <4>4, <5>1
      <4>5. CASE i # 1 /\ i # c + 1
        <5>1. i \in 1..c /\ i - 1 \in 1..c /\ i - 1 # c /\ c \in 1..c
          BY <4>5
        <5>2. w[i] = next[w[i - 1]]
          BY <2>1, <2>2, <4>5, <5>1 DEF IsQueue
        <5>3. pos[w[i - 1]] = (i - 1) - 1 /\ pos[w[c]] = c - 1
          BY <2>1, <2>2, <5>1
        <5>4. w[i - 1] # w[c]
          BY <5>1, <5>3
        <5>5. next'[w[i - 1]] = next[w[i - 1]]
          BY <2>4, <4>2, <5>1, <5>4
        <5> QED
          BY <2>4, <4>5, <5>1, <5>2, <5>5
      <4> QED
        BY <4>3, <4>4, <4>5
    <3> QED
      BY <3>1, <3>2
  <2>8. QueueOf(s)' = [i \in 1..c + 1 |-> pkt'[v[i]]]
    <3>1. c + 1 \in Nat
      OBVIOUS
    <3> QED
      BY <2>3, <2>6, <3>1, NextQueue
  <2>9. QueueOf(s) = [i \in 1..c |-> pkt[w[i]]]
    BY <2>1, <2>2, QueueIsPackets
  <2>10. pkt'[v[c + 1]] = d /\ \A i \in 1..c : pkt'[v[i]] = pkt[w[i]]
    BY <1>4, <1>5, <2>4, <2>5
  <2>a. PICK D : D = Datagrams \cup {NoDatagram, d}
    OBVIOUS
  <2>11. PICK q, a : /\ q = [i \in 1..c |-> pkt[w[i]]]
                     /\ a = [i \in 1..c + 1 |-> pkt'[v[i]]]
    OBVIOUS
  <2>b. \A i \in 1..c : pkt[w[i]] \in D /\ q[i] = pkt[w[i]]
    BY <1>5, <2>4, <2>11, <2>a
  <2>12. q \in Seq(D) /\ Len(q) = c /\ d \in D
    BY <2>11, <2>a, <2>b
  <2>13. a \in [1..c + 1 -> D] /\ a[c + 1] = d /\ \A i \in 1..c : a[i] = q[i]
    <3>1. \A i \in 1..c + 1 : i = c + 1 \/ i \in 1..c
      OBVIOUS
    <3>2. \A i \in 1..c + 1 : a[i] = pkt'[v[i]]
      BY <2>11
    <3>3. c + 1 \in 1..c + 1 /\ \A i \in 1..c : i \in 1..c + 1
      OBVIOUS
    <3>4. a[c + 1] = d /\ \A i \in 1..c : a[i] = q[i]
      BY <2>10, <2>b, <3>2, <3>3
    <3>5. \A i \in 1..c + 1 : pkt'[v[i]] \in D
      BY <2>10, <2>12, <2>b, <3>1
    <3> QED
      BY <2>11, <3>4, <3>5
  <2>14. a = Append(q, d)
    BY <2>12, <2>13, AppendPoints
  <2> QED
    BY <2>8, <2>9, <2>11, <2>14
<1> QED
  BY <1>6, <1>7

(* udpRecvFrom takes the packet that was queued first. *)
LEMMA RecvIsTail ==
    ASSUME IInv, NEW s \in Socks, NEW max, udpRecvFrom(s, max)
    PROVE  /\ QueueOf(s)' = Tail(QueueOf(s))
           /\ \A t \in Socks \ {s} : QueueOf(t)' = QueueOf(t)
<1> USE DEF IInv
<1>1. PICK home \in [Pkts -> Lists], pos \in [Pkts -> 0..PoolPackets - 1] :
         Placement(home, pos) /\ QueueFields(home, pos)
  BY DEF PoolPartitioned
<1>2. PICK idx \in Pkts : idx = qHead[s]
  BY DEF TypeOK, udpRecvFrom
<1>3. /\ qHead' = [qHead EXCEPT ![s] = next[idx]] /\ qCount' = [qCount EXCEPT ![s] = @ - 1]
      /\ next' = [next EXCEPT ![idx] = freeList] /\ pkt' = pkt /\ qHead[s] # Nil
  BY <1>2 DEF udpRecvFrom
<1>4. /\ next \in [Pkts -> Pkts \cup {Nil}] /\ pkt \in [Pkts -> Datagrams \cup {NoDatagram}]
      /\ qHead \in [Socks -> Pkts \cup {Nil}] /\ qCount \in [Socks -> 0..PoolPackets]
  BY DEF TypeOK
<1>5. PICK w : /\ IsQueue(s, w) /\ \A i \in 1..qCount[s] : home[w[i]] = s /\ pos[w[i]] = i - 1
               /\ qCount[s] = 0 <=> qHead[s] = Nil
  BY <1>1, QueueWalk
<1>6. PICK c \in Nat : c = qCount[s] /\ c # 0
  BY <1>3, <1>4, <1>5
<1>7. w[1] = idx /\ home[idx] = s
  <2>1. 1 \in 1..c
    BY <1>6
  <2> QED
    BY <1>2, <1>5, <1>6, <2>1 DEF IsQueue
<1>8. ASSUME NEW t \in Socks, t # s
      PROVE  QueueOf(t)' = QueueOf(t)
  <2>1. PICK u : IsQueue(t, u) /\ \A i \in 1..qCount[t] : home[u[i]] = t
    BY <1>1, QueueWalk
  <2>2. qHead'[t] = qHead[t] /\ qCount'[t] = qCount[t]
    BY <1>3, <1>4, <1>8
  <2>3. ASSUME NEW i \in 1..qCount[t]
        PROVE  next'[u[i]] = next[u[i]] /\ pkt'[u[i]] = pkt[u[i]]
    <3>1. u[i] \in Pkts /\ u[i] # idx
      BY <1>7, <1>8, <2>1 DEF IsQueue
    <3> QED
      BY <1>3, <1>4, <3>1
  <2> QED
    BY <2>1, <2>2, <2>3, SameQueue
<1>9. QueueOf(s)' = Tail(QueueOf(s))
  <2> DEFINE v == [i \in 1..c - 1 |-> w[i + 1]]
  <2>1. qCount'[s] = c - 1 /\ c - 1 \in Nat /\ qHead'[s] = next[idx]
    BY <1>3, <1>4, <1>6
  <2>2. \A i \in 1..c - 1 : v[i] = w[i + 1] /\ i + 1 \in 1..c /\ w[i + 1] \in Pkts
    <3> TAKE i \in 1..c - 1
    <3>1. v[i] = w[i + 1] /\ i + 1 \in 1..c
      BY <1>6
    <3> HIDE DEF v
    <3> QED
      BY <1>5, <1>6, <3>1 DEF IsQueue
  <2> HIDE DEF v
  <2>3. \A i \in 1..c - 1 : v[i] = IF i = 1 THEN qHead'[s] ELSE next'[v[i - 1]]
    <3> TAKE i \in 1..c - 1
    <3>1. i + 1 \in 1..c /\ i + 1 # 1 /\ (i + 1) - 1 = i /\ i \in 1..c /\ 1 \in 1..c
      BY <1>6
    <3>2. w[i + 1] = next[w[i]]
      BY <1>5, <1>6, <3>1 DEF IsQueue
    <3>3. CASE i = 1
      BY <1>7, <2>1, <2>2, <3>2, <3>3
    <3>4. CASE i # 1
      <4>1. i - 1 \in 1..c - 1 /\ (i - 1) + 1 = i
        BY <3>4
      <4>2. v[i - 1] = w[i]
        BY <2>2, <4>1
      <4>3. w[i] \in Pkts /\ pos[w[i]] = i - 1 /\ pos[w[1]] = 1 - 1
        BY <1>5, <1>6, <3>1 DEF IsQueue
      <4>4. w[i] # idx
        BY <1>7, <3>4, <4>3
      <4>5. next'[w[i]] = next[w[i]]
        BY <1>3, <1>4, <4>3, <4>4
      <4> QED
        BY <2>2, <3>2, <3>4, <4>2, <4>5
    <3> QED
      BY <3>3, <3>4
  <2>4. QueueOf(s)' = [i \in 1..c - 1 |-> pkt'[v[i]]]
    BY <2>1, <2>3, NextQueue
  <2>5. QueueOf(s)' = [i \in 1..c - 1 |-> pkt[w[i + 1]]]
    BY <1>3, <2>2, <2>4
  <2>6. QueueOf(s) = [i \in 1..c |-> pkt[w[i]]]
    BY <1>5, <1>6, QueueIsPackets
  <2>a. PICK D : D = Datagrams \cup {NoDatagram}
    OBVIOUS
  <2>7. PICK q, a : /\ q = [i \in 1..c |-> pkt[w[i]]]
                    /\ a = [i \in 1..c - 1 |-> pkt[w[i + 1]]]
    OBVIOUS
  <2>b. \A i \in 1..c : pkt[w[i]] \in D
    BY <1>4, <1>5, <1>6, <2>a DEF IsQueue
  <2>8. q \in Seq(D) /\ Len(q) = c
    BY <2>7, <2>b
  <2>9. a \in [1..c - 1 -> D] /\ \A i \in 1..c - 1 : a[i] = q[i + 1]
    BY <2>2, <2>7, <2>b
  <2>10. a = Tail(q)
    BY <1>6, <2>8, <2>9, TailPoints
  <2> QED
    BY <2>5, <2>6, <2>7, <2>10
<1> QED
  BY <1>8, <1>9


(* udpClose empties the socket's queue and touches no other. *)
LEMMA CloseIsEmpty ==
    ASSUME IInv, NEW s \in Socks, udpClose(s)
    PROVE  /\ QueueOf(s)' = <<>>
           /\ \A t \in Socks \ {s} : QueueOf(t)' = QueueOf(t)
<1> USE SizesAssumption
<1>1. PICK home \in [Pkts -> Lists], pos \in [Pkts -> 0..PoolPackets - 1] :
         Placement(home, pos) /\ QueueFields(home, pos)
  BY DEF IInv, PoolPartitioned
<1>2. PICK n \in 0..PoolPackets : \E at \in [0..n - 1 -> Pkts] :
         Walk(s, at, n) /\ FreeWalked(at, n)
  BY DEF udpClose
<1>3. PICK at \in [0..n - 1 -> Pkts] : Walk(s, at, n) /\ FreeWalked(at, n)
  BY <1>2
<1>4. \A i \in 0..n - 1 : home[at[i]] = s
  <2>1. n \in Nat
    OBVIOUS
  <2>2. n = qCount[s] /\ \A i \in 0..n - 1 : home[at[i]] = s /\ pos[at[i]] = i
    BY <1>1, <1>3, <2>1, WalkMeetsQueue
  <2> QED
    BY <2>2
<1>5. \A p \in Pkts : home[p] # s => next'[p] = next[p]
  BY <1>3, <1>4 DEF FreeWalked
<1>6. /\ pkt' = pkt /\ qHead' = [qHead EXCEPT ![s] = Nil]
      /\ qCount' = [qCount EXCEPT ![s] = 0]
  BY DEF udpClose
<1>7. qHead \in [Socks -> Pkts \cup {Nil}] /\ qCount \in [Socks -> 0..PoolPackets]
  BY DEF IInv, TypeOK
<1>8. QueueOf(s)' = <<>>
  BY <1>6, <1>7, NoQueue
<1>9. ASSUME NEW t \in Socks, t # s
      PROVE  QueueOf(t)' = QueueOf(t)
  <2>1. PICK w : IsQueue(t, w) /\ \A i \in 1..qCount[t] : home[w[i]] = t
    BY <1>1, QueueWalk DEF IInv
  <2>2. qHead'[t] = qHead[t] /\ qCount'[t] = qCount[t]
    BY <1>6, <1>7, <1>9
  <2>3. \A i \in 1..qCount[t] : next'[w[i]] = next[w[i]] /\ pkt'[w[i]] = pkt[w[i]]
    BY <1>5, <1>6, <1>9, <2>1 DEF IsQueue
  <2> QED
    BY <2>1, <2>2, <2>3, SameQueue DEF IInv
<1> QED
  BY <1>8, <1>9

(* The free list is empty exactly when all places of the abstract queues are *)
(* taken: a place is a packet, and no two are the same.                      *)
LEMMA PlacesTaken ==
    ASSUME IInv
    PROVE  IF freeList = Nil THEN Abstract!Queued = PoolPackets
                             ELSE Abstract!Queued < PoolPackets
<1> USE SizesAssumption DEF IInv
<1>1. PICK home \in [Pkts -> Lists], pos \in [Pkts -> 0..PoolPackets - 1] :
         Placement(home, pos) /\ QueueFields(home, pos)
  BY DEF PoolPartitioned
<1>2. PICK places : places = Abstract!Places
  OBVIOUS
<1>a. Abstract!Queued = Cardinality(places)
  <2>1. \A S : Abstract!Cardinality(S) = Cardinality(S)
    BY DEF Abstract!Cardinality, Cardinality
  <2> QED
    BY <1>2, <2>1 DEF Abstract!Queued
<1>3. \A z : z \in places <=> \E s \in Socks : \E i \in 1..qCount[s] : z = <<s, i>>
  BY <1>2 DEF Abstract!Places, QueueOf
<1>4. \A s \in Socks : \A i \in 1..qCount[s] : \E p \in Pkts : home[p] = s /\ pos[p] = i - 1
  <2> TAKE s \in Socks
  <2>1. PICK w : IsQueue(s, w) /\ \A i \in 1..qCount[s] : home[w[i]] = s /\ pos[w[i]] = i - 1
    BY <1>1, QueueWalk
  <2> QED
    BY <2>1 DEF IsQueue
<1> DEFINE f == [z \in places |-> CHOOSE p \in Pkts : home[p] = z[1] /\ pos[p] = z[2] - 1]
<1>5. \A z \in places : f[z] \in Pkts /\ home[f[z]] = z[1] /\ pos[f[z]] = z[2] - 1
  <2> TAKE z \in places
  <2>1. PICK s \in Socks : \E i \in 1..qCount[s] : z = <<s, i>>
    BY <1>3
  <2>2. PICK i \in 1..qCount[s] : z = <<s, i>>
    BY <2>1
  <2>3. \E p \in Pkts : home[p] = z[1] /\ pos[p] = z[2] - 1
    BY <1>4, <2>2
  <2> QED
    BY <2>3
<1>6. f \in [places -> Pkts]
  BY <1>5
<1> HIDE DEF f
<1>7. \A y, z \in places : f[y] = f[z] => y = z
  <2> SUFFICES ASSUME NEW y \in places, NEW z \in places, f[y] = f[z]
               PROVE  y = z
    OBVIOUS
  <2>1. PICK s \in Socks, t \in Socks : \E i \in 1..qCount[s], j \in 1..qCount[t] :
           y = <<s, i>> /\ z = <<t, j>>
    BY <1>3
  <2>2. PICK i \in 1..qCount[s], j \in 1..qCount[t] : y = <<s, i>> /\ z = <<t, j>>
    BY <2>1
  <2>3. s = t /\ i - 1 = j - 1
    BY <1>5, <2>2
  <2> QED
    BY <2>2, <2>3
<1>8. f \in Injection(places, Pkts)
  BY <1>6, <1>7 DEF Injection, IsInjective
<1>9. IsFiniteSet(Pkts) /\ Cardinality(Pkts) = PoolPackets
  BY FS_Interval DEF Pkts
<1>10. Cardinality(places) <= PoolPackets
       /\ (Cardinality(places) = PoolPackets <=> f \in Surjection(places, Pkts))
  BY <1>8, <1>9, FS_Injection, Zenon
<1>11. Cardinality(places) \in Nat
  <2>1. IsFiniteSet(places)
    BY <1>8, <1>9, FS_Injection, Zenon
  <2> QED
    BY <2>1, FS_CardinalityType
<1>12. Free \in Lists /\ Free \notin Socks /\ Lists = Socks \cup {Free}
  BY DEF Free, Lists, Socks
<1>13. CASE freeList = Nil
  <2>1. ASSUME NEW p \in Pkts
        PROVE  \E z \in places : f[z] = p
    <3>1. home[p] # Free
      <4> SUFFICES ASSUME home[p] = Free
                   PROVE  FALSE
        OBVIOUS
      <4>1. 0 \in 0..pos[p]
        OBVIOUS
      <4>2. PICK q \in Pkts : home[q] = Free /\ pos[q] = 0
        BY <1>1, <4>1 DEF Placement
      <4>3. First(Free) = q
        BY <1>1, <1>12, <4>2 DEF Placement
      <4> QED
        BY <1>13, <4>3 DEF First, Pkts, Nil
    <3>2. PICK s \in Socks : s = home[p]
      BY <1>12, <3>1
    <3>3. pos[p] \in Nat /\ pos[p] < qCount[s] /\ qCount[s] \in Nat
      BY <1>1, <3>2 DEF QueueFields, TypeOK
    <3>4. PICK i \in 1..qCount[s] : i - 1 = pos[p]
      <4>1. pos[p] + 1 \in 1..qCount[s] /\ pos[p] + 1 - 1 = pos[p]
        BY <3>3
      <4> QED
        BY <4>1
    <3>5. <<s, i>> \in places
      BY <1>3
    <3>6. home[f[<<s, i>>]] = home[p] /\ pos[f[<<s, i>>]] = pos[p] /\ f[<<s, i>>] \in Pkts
      BY <1>5, <3>2, <3>4, <3>5
    <3>7. f[<<s, i>>] = p
      BY <1>1, <3>6 DEF Placement
    <3> QED
      BY <3>5, <3>7
  <2>2. f \in Surjection(places, Pkts)
    BY <1>6, <2>1 DEF Surjection
  <2> QED
    BY <1>a, <1>10, <1>13, <2>2
<1>14. CASE freeList # Nil
  <2>1. freeList \in Pkts /\ home[freeList] = Free
    BY <1>1, <1>12, <1>14 DEF Placement, First, TypeOK
  <2>2. \A z \in places : f[z] # freeList
    <3> SUFFICES ASSUME NEW z \in places, f[z] = freeList
                 PROVE  FALSE
      OBVIOUS
    <3>1. z[1] \in Socks
      BY <1>3
    <3> QED
      BY <1>5, <1>12, <2>1, <3>1
  <2>3. f \notin Surjection(places, Pkts)
    BY <2>1, <2>2 DEF Surjection
  <2>4. Cardinality(places) < PoolPackets
    BY <1>10, <1>11, <2>3
  <2> QED
    BY <1>a, <1>14, <2>4
<1> QED
  BY <1>13, <1>14

(* What onUdp carries from entry to entry is the datagram it was called with. *)
RxCarries == rx.busy => rx.dgram \in Datagrams

LEMMA RxCarriesOn ==
    ASSUME TypeOK, RxCarries, [Next]_vars
    PROVE  RxCarries'
<1>1. rx \in Deliveries
  BY DEF TypeOK
<1>2. CASE NextEntry /\ rx.busy
  BY <1>1, <1>2 DEF NextEntry, Deliveries, Idle, RxCarries
<1>3. CASE rx' = rx
  BY <1>3 DEF RxCarries
<1>4. ASSUME NEW d \in Datagrams, NEW dst \in DestIps, NEW port \in BindPorts, onUdp(d, dst, port)
      PROVE  RxCarries'
  BY <1>4 DEF onUdp, RxCarries
<1>5. CASE reset \/ configure
  BY <1>3, <1>5 DEF reset, configure
<1>6. CASE DeliverToEntry \/ DropAtEntry \/ SkipEntry
  BY <1>2, <1>6 DEF DeliverToEntry, DropAtEntry, SkipEntry
<1>7. CASE CallStep
  BY <1>3, <1>7 DEF CallStep, udpOpen, udpBind, udpBindEphemeral, udpSendToUnbound,
     udpRecvFromEmpty, udpRecvFromPeek, udpRecvFrom, udpClose
<1>8. CASE UNCHANGED vars
  BY <1>3, <1>8 DEF vars
<1> QED
  BY <1>4, <1>5, <1>6, <1>7, <1>8 DEF Next, NodeStep

(* The abstract queues: one per socket, and the head is the head packet's.  *)
Queues == [s \in Socks |-> QueueOf(s)]

LEMMA HeadOfQueue ==
    ASSUME IInv, NEW s \in Socks
    PROVE  /\ qHead[s] = Nil <=> QueueOf(s) = <<>>
           /\ qHead[s] # Nil => Head(QueueOf(s)) = pkt[qHead[s]]
<1>1. PICK home \in [Pkts -> Lists], pos \in [Pkts -> 0..PoolPackets - 1] :
         Placement(home, pos) /\ QueueFields(home, pos)
  BY DEF IInv, PoolPartitioned
<1>2. PICK w : IsQueue(s, w) /\ (qCount[s] = 0 <=> qHead[s] = Nil)
  BY <1>1, QueueWalk DEF IInv
<1>3. PICK c \in Nat : c = qCount[s]
  BY SizesAssumption DEF IInv, TypeOK
<1>4. QueueOf(s) = [i \in 1..c |-> pkt[w[i]]]
  BY <1>2, <1>3, QueueIsPackets DEF IInv
<1>5. CASE c = 0
  BY <1>2, <1>3, <1>4, <1>5
<1>6. CASE c # 0
  <2>1. 1 \in 1..c
    BY <1>6
  <2>2. w[1] = qHead[s]
    BY <1>2, <1>3, <2>1 DEF IsQueue
  <2>3. QueueOf(s) # <<>> /\ QueueOf(s)[1] = pkt[w[1]]
    BY <1>4, <2>1
  <2>4. Head(QueueOf(s)) = QueueOf(s)[1]
    BY <1>4
  <2> QED
    BY <1>2, <1>3, <1>6, <2>2, <2>3, <2>4
<1> QED
  BY <1>5, <1>6

(* A step that touches neither queues, packets, reports nor who is open is no *)
(* step of DatagramQueues.                                                  *)
LEMMA Stutter ==
    ASSUME UNCHANGED <<used, qHead, qCount, next, pkt>>
    PROVE  UNCHANGED Queues
  BY DEF Queues, QueueOf

(* Every step of the node thread is one of DatagramQueues. *)
LEMMA NodeStepAbstract ==
    ASSUME IInv, RxCarries, NodeStep
    PROVE  Abstract!Next \/ UNCHANGED <<used, Queues, report>>
<1> USE DEF IInv
<1>1. used \in [Socks -> BOOLEAN] /\ rx \in Deliveries /\ freeList \in Pkts \cup {Nil}
  BY DEF TypeOK
<1>2. CASE reset
  <2>1. \A s \in Socks : QueueOf(s)' = <<>>
    BY <1>2, NoQueue DEF reset
  <2>2. Queues' = [s \in Socks |-> <<>>]
    BY <2>1 DEF Queues
  <2>3. Abstract!CloseAll
    BY <1>2, <2>2 DEF Abstract!CloseAll, reset, Queues
  <2> QED
    BY <2>3 DEF Abstract!Next
<1>3. CASE DeliverToEntry
  <2>1. PICK s \in Socks, d \in Datagrams : s = rx.sock /\ d = rx.dgram
    BY <1>1, <1>3 DEF DeliverToEntry, RxCarries, Deliveries
  <2>2. used[s] /\ pushToSocket(s, d) /\ used' = used /\ PushOutcome(d) = "queued"
    BY <1>3, <2>1 DEF DeliverToEntry, Listens, socketVars
  <2>3. d.len <= MaxDatagram /\ freeList # Nil
    BY <2>2, DatagramsAssumption, SizesAssumption DEF PushOutcome
  <2>4. QueueOf(s)' = Append(QueueOf(s), d) /\ \A t \in Socks \ {s} : QueueOf(t)' = QueueOf(t)
    BY <2>2, <2>3, PushIsAppend
  <2>5. Queues' = [Queues EXCEPT ![s] = Append(@, d)]
    BY <2>4 DEF Queues
  <2>6. Abstract!Queued < PoolPackets
    BY <2>3, PlacesTaken
  <2>7. report' = Abstract!Report("queued", 0, Abstract!NoDatagram)
    BY <1>3 DEF DeliverToEntry, Report, NoDatagram, Abstract!Report, Abstract!NoDatagram
  <2>8. Abstract!Deliver(s, d)
    BY <2>2, <2>3, <2>5, <2>6, <2>7 DEF Abstract!Deliver, Queues
  <2> QED
    BY <2>1, <2>8 DEF Abstract!Next
<1>4. CASE DropAtEntry
  <2>1. PICK s \in Socks, d \in Datagrams : s = rx.sock /\ d = rx.dgram
    BY <1>1, <1>4 DEF DropAtEntry, RxCarries, Deliveries
  <2>2. /\ used[s] /\ used' = used /\ PushOutcome(d) # "queued"
        /\ report' = Report(PushOutcome(d), 0, d)
        /\ UNCHANGED <<qHead, qCount, next, pkt>>
    BY <1>4, <2>1 DEF DropAtEntry, Listens, socketVars, queueVars, poolVars
  <2>3. UNCHANGED Queues
    BY <2>2, Stutter
  <2>4. d.len \in Nat /\ MaxDatagram \in Nat
    BY DatagramsAssumption, SizesAssumption
  <2>5. CASE d.len > MaxDatagram
    <3>1. report' = Abstract!Report("tooBig", 0, d)
      BY <2>2, <2>4, <2>5 DEF PushOutcome, Report, Abstract!Report
    <3>2. Abstract!LoseTooBig(s, d)
      BY <2>2, <2>3, <2>5, <3>1 DEF Abstract!LoseTooBig, Queues
    <3> QED
      BY <2>1, <3>2 DEF Abstract!Next
  <2>6. CASE ~(d.len > MaxDatagram)
    <3>1. d.len <= MaxDatagram /\ freeList = Nil
      BY <2>2, <2>4, <2>6 DEF PushOutcome
    <3>2. report' = Abstract!Report("noBuffer", 0, d)
      BY <2>2, <2>4, <3>1 DEF PushOutcome, Report, Abstract!Report
    <3>3. Abstract!Queued = PoolPackets
      BY <3>1, PlacesTaken
    <3>4. Abstract!LoseNoBuffer(s, d)
      BY <2>2, <2>3, <3>1, <3>2, <3>3 DEF Abstract!LoseNoBuffer, Queues
    <3> QED
      BY <2>1, <3>4 DEF Abstract!Next
  <2> QED
    BY <2>5, <2>6
<1>5. CASE \/ configure \/ SkipEntry
           \/ \E d \in Datagrams, dst \in DestIps, port \in BindPorts : onUdp(d, dst, port)
  <2>1. UNCHANGED <<used, report, qHead, qCount, next, pkt>>
    BY <1>5 DEF configure, SkipEntry, onUdp, socketVars, queueVars, poolVars
  <2> QED
    BY <2>1, Stutter
<1> QED
  BY <1>2, <1>3, <1>4, <1>5 DEF NodeStep

(* Every socket call is one of DatagramQueues, or binds. *)
LEMMA CallStepAbstract ==
    ASSUME IInv, CallStep
    PROVE  Abstract!Next \/ UNCHANGED <<used, Queues, report>>
<1>0. PICK s \in Socks :
        \/ udpOpen(s)
        \/ \E ip \in BindIps, port \in BindPorts : udpBind(s, ip, port)
        \/ \E ip \in BindIps : udpBindEphemeral(s, ip)
        \/ udpSendToUnbound(s)
        \/ udpRecvFromEmpty(s)
        \/ \E max \in BufSizes : udpRecvFromPeek(s, max)
        \/ \E max \in BufSizes : udpRecvFrom(s, max)
        \/ udpClose(s)
  BY DEF CallStep
<1>1. CASE udpOpen(s)
  <2>1. qCount[s] = 0
    <3>1. ~used[s]
      BY <1>1 DEF udpOpen
    <3> QED
      BY <3>1 DEF IInv, PoolPartitioned, QueueFields
  <2>2. /\ qCount' = qCount /\ UNCHANGED <<next, pkt, report>>
        /\ \A t \in Socks \ {s} : qHead'[t] = qHead[t]
    BY <1>1, <2>1 DEF udpOpen, poolVars, IInv, TypeOK
  <2>3. ASSUME NEW t \in Socks
        PROVE  QueueOf(t)' = QueueOf(t)
    <3>1. CASE t = s
      BY <2>1, <2>2, <3>1, NoQueue
    <3>2. CASE t # s
      BY <2>2, <3>2 DEF QueueOf
    <3> QED
      BY <3>1, <3>2
  <2>4. UNCHANGED Queues
    BY <2>3 DEF Queues
  <2>5. Abstract!Open(s)
    BY <1>1, <2>2, <2>4 DEF Abstract!Open, udpOpen, Queues
  <2> QED
    BY <2>5 DEF Abstract!Next
<1>2. ASSUME \/ \E ip \in BindIps, port \in BindPorts : udpBind(s, ip, port)
             \/ \E ip \in BindIps : udpBindEphemeral(s, ip)
             \/ udpSendToUnbound(s)
      PROVE  UNCHANGED <<used, Queues, report>>
  <2>1. UNCHANGED <<used, report, qHead, qCount, next, pkt>>
    BY <1>2 DEF udpBind, udpBindEphemeral, udpSendToUnbound, queueVars, poolVars
  <2> QED
    BY <2>1, Stutter
<1>3. CASE udpRecvFromEmpty(s)
  <2>1. used[s] /\ qHead[s] = Nil /\ UNCHANGED <<used, qHead, qCount, next, pkt>> /\ report' = Empty
    BY <1>3 DEF udpRecvFromEmpty, socketVars, queueVars, poolVars
  <2>2. QueueOf(s) = <<>> /\ UNCHANGED Queues
    BY <2>1, HeadOfQueue, Stutter
  <2>3. report' = Abstract!Nothing
    BY <2>1 DEF Empty, Report, NoDatagram, Abstract!Nothing, Abstract!Report, Abstract!NoDatagram
  <2>4. Abstract!ReceiveNothing(s)
    BY <2>1, <2>2, <2>3 DEF Abstract!ReceiveNothing, Queues
  <2> QED
    BY <2>4 DEF Abstract!Next
<1>4. ASSUME NEW d, NEW max
      PROVE  Truncated(d, max) = Abstract!View(d, max)
  BY DEF Truncated, Report, Abstract!View, Abstract!Report
<1>5. ASSUME NEW max \in BufSizes, udpRecvFromPeek(s, max)
      PROVE  Abstract!Next
  <2>1. /\ used[s] /\ qHead[s] # Nil /\ UNCHANGED <<used, qHead, qCount, next, pkt>>
        /\ report' = Truncated(pkt[qHead[s]], max)
    BY <1>5 DEF udpRecvFromPeek, socketVars, queueVars, poolVars
  <2>2. QueueOf(s) # <<>> /\ Head(QueueOf(s)) = pkt[qHead[s]] /\ UNCHANGED Queues
    BY <2>1, HeadOfQueue, Stutter
  <2>3. report' = Abstract!View(Head(QueueOf(s)), max)
    BY <1>4, <2>1, <2>2
  <2>4. Abstract!Peek(s, max)
    BY <2>1, <2>2, <2>3 DEF Abstract!Peek, Queues
  <2> QED
    BY <2>4 DEF Abstract!Next
<1>6. ASSUME NEW max \in BufSizes, udpRecvFrom(s, max)
      PROVE  Abstract!Next
  <2>1. used[s] /\ qHead[s] # Nil /\ used' = used /\ report' = Truncated(pkt[qHead[s]], max)
    BY <1>6 DEF udpRecvFrom, socketVars
  <2>2. QueueOf(s) # <<>> /\ Head(QueueOf(s)) = pkt[qHead[s]]
    BY <2>1, HeadOfQueue
  <2>3. QueueOf(s)' = Tail(QueueOf(s)) /\ \A t \in Socks \ {s} : QueueOf(t)' = QueueOf(t)
    BY <1>6, RecvIsTail
  <2>4. Queues' = [Queues EXCEPT ![s] = Tail(@)]
    BY <2>3 DEF Queues
  <2>5. report' = Abstract!View(Head(QueueOf(s)), max)
    BY <1>4, <2>1, <2>2
  <2>6. Abstract!Receive(s, max)
    BY <2>1, <2>2, <2>4, <2>5 DEF Abstract!Receive, Queues
  <2> QED
    BY <2>6 DEF Abstract!Next
<1>7. CASE udpClose(s)
  <2>1. QueueOf(s)' = <<>> /\ \A t \in Socks \ {s} : QueueOf(t)' = QueueOf(t)
    BY <1>7, CloseIsEmpty
  <2>2. Queues' = [Queues EXCEPT ![s] = <<>>]
    BY <2>1 DEF Queues
  <2>3. Abstract!Close(s)
    BY <1>7, <2>2 DEF Abstract!Close, udpClose, Queues
  <2> QED
    BY <2>3 DEF Abstract!Next
<1> QED
  BY <1>0, <1>1, <1>2, <1>3, <1>5, <1>6, <1>7

(* For every number of sockets and packets the linked lists behave like FIFO *)
(* queues with a common capacity: whatever onUdp, udpRecvFrom, udpClose and  *)
(* reset do to the next fields, each socket's datagrams come out once and in *)
(* order, and one is lost only if it is too long or all packets are queued.  *)
THEOREM SocketsAlwaysQueues == Spec => SocketsAreQueues
<1>1. Init => Abstract!Init /\ RxCarries
  <2> SUFFICES ASSUME Init
               PROVE  Abstract!Init /\ RxCarries
    OBVIOUS
  <2>1. \A s \in Socks : QueueOf(s) = <<>>
    BY NoQueue DEF Init
  <2>2. report = Abstract!Nothing
    BY DEF Init, Empty, Report, NoDatagram, Abstract!Nothing, Abstract!Report, Abstract!NoDatagram
  <2>3. Abstract!Init
    BY <2>1, <2>2 DEF Init, Abstract!Init
  <2>4. RxCarries
    BY DEF Init, RxCarries, Idle
  <2> QED
    BY <2>3, <2>4
<1>2. IInv /\ RxCarries /\ [Next]_vars => RxCarries'
  BY RxCarriesOn DEF IInv
<1>3. IInv /\ RxCarries /\ [Next]_vars => [Abstract!Next]_(Abstract!vars)
  <2> SUFFICES ASSUME IInv, RxCarries, [Next]_vars
               PROVE  Abstract!Next \/ UNCHANGED Abstract!vars
    OBVIOUS
  <2>1. CASE UNCHANGED vars
    <3>1. UNCHANGED <<used, report, qHead, qCount, next, pkt>>
      BY <2>1 DEF vars, socketVars, queueVars, poolVars
    <3> QED
      BY <3>1, Stutter DEF Abstract!vars, Queues
  <2>2. CASE NodeStep
    BY <2>2, NodeStepAbstract DEF Abstract!vars, Queues
  <2>3. CASE CallStep
    BY <2>3, CallStepAbstract DEF Abstract!vars, Queues
  <2> QED
    BY <2>1, <2>2, <2>3 DEF Next
<1> QED
  BY <1>1, <1>2, <1>3, InitPartitioned, Invariance, PTL DEF Spec, SocketsAreQueues, Abstract!Spec
=============================================================================
