-------------------------- MODULE LanSwitchProofs --------------------------
(***************************************************************************)
(* Proofs about LanSwitch for every set of networks and addresses and      *)
(* every depth of the frame ring: its types, OneLan, OnlyLateFramesCross,  *)
(* BroadcastHeard, and that the ring implements BoundedChannel.            *)
(*                                                                         *)
(* OneLan needs to know what membership is in the middle of switchNetwork; *)
(* OnlyLateFramesCross needs to know it of every frame that waits, and     *)
(* that nothing but late frames wait while m_nwid is about to change.      *)
(* BroadcastHeard needs that an address goes when its network does.        *)
(***************************************************************************)
EXTENDS LanSwitch, TLAPS

(* The slots of the ring that hold a frame. *)
Waiting(i) == IF tail <= head THEN tail <= i /\ i < head ELSE tail <= i \/ i < head

(* Between leaving and joining the node is a member of nothing. *)
Membership ==
    /\ OneLan
    /\ pc \in {"join", "restore"} => joined = {} /\ lan = None
    /\ pc = "restore" => nwid = other

(* A frame that waits is for the current network or late. *)
RingSafe ==
    /\ \A i \in Slots : Waiting(i) => frames[i].late \/ frames[i].lan = nwid
    /\ pc \in {"leave", "join"} => \A i \in Slots : Waiting(i) => frames[i].late

(* An address belongs to a network, and has its groups or soon will.       *)
Heard ==
    /\ lan = None => ip = 0
    /\ BroadcastHeard

Inv == TypeOK /\ Membership /\ RingSafe /\ OnlyLateFramesCross /\ Heard

(***************************************************************************)
(* The ring's arithmetic.                                                  *)
(***************************************************************************)

(* The slot after one is the next, and after the last the first. *)
LEMMA FollowingSlot ==
    ASSUME NEW i \in Slots
    PROVE  /\ Following(i) \in Slots
           /\ Following(i) = IF i = Depth - 1 THEN 0 ELSE i + 1
<1>1. Depth \in Nat /\ Depth > 1 /\ i \in Nat /\ i < Depth
  BY SwitchAssumption DEF Slots
<1>2. CASE i = Depth - 1
  <2>1. (i + 1) % Depth = 0
    BY <1>1, <1>2, SMT
  <2> QED BY <1>1, <1>2, <2>1 DEF Following, Slots
<1>3. CASE i # Depth - 1
  <2>1. (i + 1) % Depth = i + 1
    BY <1>1, <1>3, SMT
  <2> QED BY <1>1, <1>3, <2>1 DEF Following, Slots
<1> QED BY <1>2, <1>3

(***************************************************************************)
(* The initial state and the steps.                                        *)
(***************************************************************************)
LEMMA InitInv == Init => Inv
<1> SUFFICES ASSUME Init PROVE Inv
  OBVIOUS
<1> USE SwitchAssumption
<1>1. TypeOK
  <2>1. head \in Slots /\ tail \in Slots
    BY DEF Init, Slots
  <2>2. frames \in [Slots -> Frames \cup {NoFrame}]
    BY DEF Init
  <2>3. taken \in [frame : Frames \cup {NoFrame}, on : Networks \cup {None}]
    BY DEF Init
  <2>4. groups \subseteq Networks \X (Ips \cup {0})
    BY DEF Init
  <2>5. /\ selections \in 0..MaxSelections
        /\ sends \in 0..world.sends
    BY DEF Init
  <2>6. /\ requested \in Networks
        /\ nwid \in Networks
        /\ joined \subseteq Networks
        /\ lan \in Networks \cup {None}
        /\ ip \in Ips \cup {0}
        /\ needSubscribe \in BOOLEAN
        /\ paused \in BOOLEAN
        /\ pc = "poll"
        /\ other \in Networks
        /\ world \in Worlds
    BY DEF Init
  <2> QED BY <2>1, <2>2, <2>3, <2>4, <2>5, <2>6 DEF TypeOK
<1>2. Membership
  BY DEF Init, Membership, OneLan
<1>3. RingSafe
  BY DEF Init, RingSafe, Waiting, Slots
<1>4. OnlyLateFramesCross
  BY DEF Init, OnlyLateFramesCross
<1>5. Heard
  BY DEF Init, Heard, BroadcastHeard
<1> QED BY <1>1, <1>2, <1>3, <1>4, <1>5 DEF Inv

(* Every step keeps the types. *)
LEMMA TypeStep == TypeOK /\ [Next]_vars => TypeOK'
<1> SUFFICES ASSUME TypeOK, [Next]_vars PROVE TypeOK'
  OBVIOUS
<1> USE SwitchAssumption DEF TypeOK, envVars, netVars, ringVars
<1>1. ASSUME NEW n \in Networks, Select(n) PROVE TypeOK'
  BY <1>1 DEF Select
<1>2. CASE cbEmit
  <2>1. Following(head) \in Slots
    BY FollowingSlot
  <2>2. lan \in Networks
    BY <1>2 DEF cbEmit
  <2>3. [lan |-> lan, late |-> pc = "leave"] \in Frames
    BY <2>2 DEF Frames
  <2>4. frames' \in [Slots -> Frames \cup {NoFrame}] /\ head' \in Slots
    BY <1>2, <2>1, <2>3 DEF cbEmit
  <2> QED BY <1>2, <2>4 DEF cbEmit
<1>3. CASE PollSkip
  BY <1>3 DEF PollSkip
<1>4. CASE PollSwitch
  BY <1>4 DEF PollSwitch, ClearRing
<1>5. CASE LeaveFails
  BY <1>5 DEF LeaveFails
<1>6. CASE Leave
  BY <1>6 DEF Leave
<1>7. CASE Join
  BY <1>7 DEF Join
<1>8. CASE JoinFails
  BY <1>8 DEF JoinFails
<1>9. CASE Restore
  BY <1>9 DEF Restore
<1>10. ASSUME NEW n \in Networks, NEW a \in Ips \cup {0}, cbNetworkConfigUp(n, a) PROVE TypeOK'
  BY <1>10 DEF cbNetworkConfigUp, RequestSubscription
<1>11. CASE cbNetworkConfigDown
  BY <1>11 DEF cbNetworkConfigDown
<1>12. CASE WireDone
  BY <1>12 DEF WireDone
<1>13. CASE subscribeBroadcast
  <2>1. GroupsWanted \subseteq Networks \X (Ips \cup {0})
    BY DEF GroupsWanted
  <2>2. groups' \subseteq Networks \X (Ips \cup {0})
    BY <1>13, <2>1 DEF subscribeBroadcast
  <2> QED BY <1>13, <2>2 DEF subscribeBroadcast
<1>14. CASE drainOutbound
  <2>1. Following(tail) \in Slots
    BY FollowingSlot
  <2>2. taken' \in [frame : Frames \cup {NoFrame}, on : Networks \cup {None}]
    BY <1>14 DEF drainOutbound
  <2> QED BY <1>14, <2>1, <2>2 DEF drainOutbound
<1>15. CASE DrainDone
  BY <1>15 DEF DrainDone
<1>16. CASE TimersDone
  BY <1>16 DEF TimersDone
<1>17. CASE UNCHANGED vars
  BY <1>17 DEF vars
<1> QED
  BY <1>1, <1>2, <1>3, <1>4, <1>5, <1>6, <1>7, <1>8, <1>9, <1>10, <1>11, <1>12, <1>13, <1>14,
     <1>15, <1>16, <1>17 DEF Next, SwitchStep, LoopStep, Callback, Others

(* Every step keeps the membership and the address in agreement. *)
LEMMA MembershipStep == TypeOK /\ Membership /\ [Next]_vars => Membership'
<1> SUFFICES ASSUME TypeOK, Membership, [Next]_vars PROVE Membership'
  OBVIOUS
<1> USE SwitchAssumption DEF Membership, OneLan, envVars, netVars, ringVars
<1>1. ASSUME NEW n \in Networks, Select(n) PROVE Membership'
  BY <1>1 DEF Select
<1>2. CASE cbEmit
  BY <1>2 DEF cbEmit
<1>3. CASE PollSkip
  BY <1>3 DEF PollSkip
<1>4. CASE PollSwitch
  BY <1>4 DEF PollSwitch
<1>5. CASE LeaveFails
  BY <1>5 DEF LeaveFails
<1>6. CASE Leave
  BY <1>6 DEF Leave
<1>7. CASE Join
  BY <1>7 DEF Join
<1>8. CASE JoinFails
  BY <1>8 DEF JoinFails
<1>9. CASE Restore
  BY <1>9 DEF Restore
<1>10. ASSUME NEW n \in Networks, NEW a \in Ips \cup {0}, cbNetworkConfigUp(n, a) PROVE Membership'
  BY <1>10 DEF cbNetworkConfigUp, InZeroTier
<1>11. CASE cbNetworkConfigDown
  BY <1>11 DEF cbNetworkConfigDown, InZeroTier
<1>12. CASE WireDone
  BY <1>12 DEF WireDone
<1>13. CASE subscribeBroadcast
  BY <1>13 DEF subscribeBroadcast
<1>14. CASE drainOutbound
  BY <1>14 DEF drainOutbound
<1>15. CASE DrainDone
  BY <1>15 DEF DrainDone
<1>16. CASE TimersDone
  BY <1>16 DEF TimersDone
<1>17. CASE UNCHANGED vars
  BY <1>17 DEF vars
<1> QED
  BY <1>1, <1>2, <1>3, <1>4, <1>5, <1>6, <1>7, <1>8, <1>9, <1>10, <1>11, <1>12, <1>13, <1>14,
     <1>15, <1>16, <1>17 DEF Next, SwitchStep, LoopStep, Callback, Others

(* A step that leaves the ring and m_nwid alone, and does not begin a switch,
   keeps what is known of the waiting frames. *)
LEMMA RingUntouched ==
    ASSUME RingSafe, UNCHANGED <<ringVars, tail, nwid>>,
           pc' \in {"leave", "join"} => pc \in {"leave", "join"}
    PROVE  RingSafe'
BY DEF RingSafe, Waiting, ringVars

(* Every step keeps it. *)
LEMMA RingStep == TypeOK /\ Membership /\ RingSafe /\ [Next]_vars => RingSafe'
<1> SUFFICES ASSUME TypeOK, Membership, RingSafe, [Next]_vars PROVE RingSafe'
  OBVIOUS
<1> USE SwitchAssumption DEF envVars, netVars
<1>1. ASSUME NEW n \in Networks, Select(n) PROVE RingSafe'
  BY <1>1, RingUntouched DEF Select
<1>2. CASE cbEmit
  <2>1. CASE RingFull
    BY <1>2, <2>1, RingUntouched DEF cbEmit
  <2>2. CASE ~RingFull
    <3>1. lan = nwid
      BY <1>2 DEF cbEmit, Membership, OneLan
    <3>2. /\ frames' = [frames EXCEPT ![head] = [lan |-> nwid, late |-> pc = "leave"]]
          /\ head' = Following(head)
          /\ UNCHANGED <<tail, nwid, pc>>
      BY <1>2, <2>2, <3>1 DEF cbEmit
    <3>3. head \in Slots /\ tail \in Slots /\ head' # tail
          /\ head' = IF head = Depth - 1 THEN 0 ELSE head + 1
      BY <2>2, <3>2, FollowingSlot DEF TypeOK, RingFull
    <3>4. ASSUME NEW i \in Slots, Waiting(i)' PROVE i = head \/ Waiting(i)
      BY <3>2, <3>3, <3>4 DEF Waiting, Slots
    <3>5. frames \in [Slots -> Frames \cup {NoFrame}]
      BY DEF TypeOK
    <3>6. /\ frames'[head].lan = nwid
          /\ frames'[head].late = (pc = "leave")
          /\ \A i \in Slots \ {head} : frames'[i] = frames[i]
      BY <3>2, <3>3, <3>5
    <3>7. ASSUME NEW i \in Slots, Waiting(i)'
          PROVE  frames'[i].late \/ frames'[i].lan = nwid'
      BY <3>2, <3>4, <3>6, <3>7 DEF RingSafe
    <3>8. ASSUME pc \in {"leave", "join"}, NEW i \in Slots, Waiting(i)' PROVE frames'[i].late
      <4>1. pc = "leave"
        BY <1>2, <3>8 DEF cbEmit, Membership
      <4> QED BY <3>4, <3>6, <3>8, <4>1 DEF RingSafe
    <3> QED BY <3>2, <3>7, <3>8 DEF RingSafe
  <2> QED BY <2>1, <2>2
<1>3. CASE PollSkip
  BY <1>3, RingUntouched DEF PollSkip
<1>4. CASE PollSwitch
  <2>1. tail' = head /\ head' = head
    BY <1>4 DEF PollSwitch, ClearRing, ringVars
  <2>2. \A i \in Slots : ~Waiting(i)'
    BY <2>1 DEF TypeOK, Waiting, Slots
  <2> QED BY <2>2 DEF RingSafe
<1>5. CASE LeaveFails
  BY <1>5, RingUntouched DEF LeaveFails
<1>6. CASE Leave
  BY <1>6 DEF Leave, RingSafe, Waiting, ringVars
<1>7. CASE Join
  BY <1>7, RingUntouched DEF Join
<1>8. CASE JoinFails
  BY <1>8 DEF JoinFails, RingSafe, Waiting, ringVars
<1>9. CASE Restore
  BY <1>9, RingUntouched DEF Restore
<1>10. ASSUME NEW n \in Networks, NEW a \in Ips \cup {0}, cbNetworkConfigUp(n, a) PROVE RingSafe'
  <2>1. n = nwid
    BY <1>10 DEF cbNetworkConfigUp, Membership, OneLan
  <2> QED BY <1>10, <2>1, RingUntouched DEF cbNetworkConfigUp
<1>11. CASE cbNetworkConfigDown
  BY <1>11, RingUntouched DEF cbNetworkConfigDown
<1>12. CASE WireDone
  BY <1>12, RingUntouched DEF WireDone
<1>13. CASE subscribeBroadcast
  BY <1>13, RingUntouched DEF subscribeBroadcast
<1>14. CASE drainOutbound
  <2>1. /\ tail' = Following(tail)
        /\ UNCHANGED <<ringVars, nwid, pc>>
        /\ tail # head
    BY <1>14 DEF drainOutbound
  <2>2. head \in Slots /\ tail \in Slots /\ tail' = IF tail = Depth - 1 THEN 0 ELSE tail + 1
    BY <2>1, FollowingSlot DEF TypeOK
  <2>3. ASSUME NEW i \in Slots, Waiting(i)' PROVE Waiting(i)
    BY <2>1, <2>2, <2>3 DEF Waiting, Slots, ringVars
  <2> QED BY <2>1, <2>3 DEF RingSafe, ringVars
<1>15. CASE DrainDone
  BY <1>15, RingUntouched DEF DrainDone
<1>16. CASE TimersDone
  BY <1>16, RingUntouched DEF TimersDone
<1>17. CASE UNCHANGED vars
  BY <1>17, RingUntouched DEF vars
<1> QED
  BY <1>1, <1>2, <1>3, <1>4, <1>5, <1>6, <1>7, <1>8, <1>9, <1>10, <1>11, <1>12, <1>13, <1>14,
     <1>15, <1>16, <1>17 DEF Next, SwitchStep, LoopStep, Callback, Others

(* Only drainOutbound takes a frame, and it takes one that waits. *)
LEMMA TakenStep ==
    TypeOK /\ RingSafe /\ OnlyLateFramesCross /\ [Next]_vars => OnlyLateFramesCross'
<1> SUFFICES ASSUME TypeOK, RingSafe, OnlyLateFramesCross, [Next]_vars
             PROVE  OnlyLateFramesCross'
  OBVIOUS
<1>1. CASE drainOutbound
  <2>1. tail \in Slots /\ Waiting(tail)
    BY <1>1 DEF drainOutbound, TypeOK, Waiting, Slots
  <2>2. frames[tail].late \/ frames[tail].lan = nwid
    BY <2>1 DEF RingSafe
  <2>3. taken'.frame = frames[tail] /\ taken'.on \in {None, nwid}
    BY <1>1 DEF drainOutbound
  <2> QED BY <2>2, <2>3 DEF OnlyLateFramesCross
<1>2. CASE UNCHANGED taken
  BY <1>2 DEF OnlyLateFramesCross
<1>3. drainOutbound \/ UNCHANGED taken
  BY DEF Next, SwitchStep, LoopStep, Callback, Others, vars, Select, cbEmit, PollSkip, PollSwitch,
         LeaveFails, Leave, Join, JoinFails, Restore, cbNetworkConfigUp, cbNetworkConfigDown,
         WireDone, subscribeBroadcast, DrainDone, TimersDone
<1> QED BY <1>1, <1>2, <1>3

(* While the VNet has an address it has groups, unless it is about to get    *)
(* them: a switch forgets the request only together with the address.      *)
LEMMA HeardStep == TypeOK /\ Membership /\ Heard /\ [Next]_vars => Heard'
<1> SUFFICES ASSUME TypeOK, Membership, Heard, [Next]_vars PROVE Heard'
  OBVIOUS
<1> USE DEF Heard, BroadcastHeard, envVars, netVars, ringVars
<1>1. ASSUME NEW n \in Networks, Select(n) PROVE Heard'
  BY <1>1 DEF Select
<1>2. CASE cbEmit
  BY <1>2 DEF cbEmit
<1>3. CASE PollSkip
  BY <1>3 DEF PollSkip
<1>4. CASE PollSwitch
  BY <1>4 DEF PollSwitch
<1>5. CASE LeaveFails
  BY <1>5 DEF LeaveFails
<1>6. CASE Leave
  BY <1>6 DEF Leave
<1>7. CASE Join
  BY <1>7 DEF Join
<1>8. CASE JoinFails
  BY <1>8 DEF JoinFails, Membership
<1>9. CASE Restore
  BY <1>9 DEF Restore
<1>10. ASSUME NEW n \in Networks, NEW a \in Ips \cup {0}, cbNetworkConfigUp(n, a) PROVE Heard'
  BY <1>10, SwitchAssumption DEF cbNetworkConfigUp, RequestSubscription
<1>11. CASE cbNetworkConfigDown
  BY <1>11 DEF cbNetworkConfigDown
<1>12. CASE WireDone
  BY <1>12 DEF WireDone
<1>13. CASE subscribeBroadcast
  <2>1. ip # 0 => nwid \in joined
    BY DEF Membership, OneLan
  <2> QED BY <1>13, <2>1 DEF subscribeBroadcast, GroupsWanted
<1>14. CASE drainOutbound
  BY <1>14 DEF drainOutbound
<1>15. CASE DrainDone
  BY <1>15 DEF DrainDone
<1>16. CASE TimersDone
  BY <1>16 DEF TimersDone
<1>17. CASE UNCHANGED vars
  BY <1>17 DEF vars
<1> QED
  BY <1>1, <1>2, <1>3, <1>4, <1>5, <1>6, <1>7, <1>8, <1>9, <1>10, <1>11, <1>12, <1>13, <1>14,
     <1>15, <1>16, <1>17 DEF Next, SwitchStep, LoopStep, Callback, Others

(* The inductive invariant holds in every state. *)
LEMMA Invariance == Spec => []Inv
<1>1. Init => Inv
  BY InitInv
<1>2. Inv /\ [Next]_vars => Inv'
  BY TypeStep, MembershipStep, RingStep, TakenStep, HeardStep DEF Inv
<1> QED BY <1>1, <1>2, PTL DEF Spec

(***************************************************************************)
(* The theorems.                                                           *)
(***************************************************************************)

(* Indices stay inside the ring and every other variable in its type, for
   every depth, through every step of RunLoop and every callback. *)
THEOREM TypeCorrectness == Spec => []TypeOK
<1>1. Inv => TypeOK
  BY DEF Inv
<1> QED BY <1>1, Invariance, PTL

(* The node is never a member of two networks, and never has an address on
   one it has left, whichever step of switchNetwork fails. *)
THEOREM OneLanAlways == Spec => []OneLan
<1>1. Inv => OneLan
  BY DEF Inv, Membership
<1> QED BY <1>1, Invariance, PTL

(* A frame leaves on another network than its own only if it was queued
   between the emptying of the ring and the reset of the VNet. *)
THEOREM OnlyLateFramesEverCross == Spec => []OnlyLateFramesCross
<1>1. Inv => OnlyLateFramesCross
  BY DEF Inv
<1> QED BY <1>1, Invariance, PTL

(* The console is heard by broadcast and found by address resolution as    *)
(* soon as no subscription is pending, unless leaving a network may fail.  *)
THEOREM BroadcastAlwaysHeard == Spec => []BroadcastHeard
<1>1. Inv => BroadcastHeard
  BY DEF Inv, Heard
<1> QED BY <1>1, Invariance, PTL

(***************************************************************************)
(* The ring implements the channel.                                        *)
(***************************************************************************)

(* Going round the ring at most once. *)
LEMMA Wrap ==
    ASSUME NEW x \in Nat, x < 2 * Depth
    PROVE  x % Depth = IF x < Depth THEN x ELSE x - Depth
<1>1. Depth \in Nat /\ Depth > 1
  BY SwitchAssumption
<1>2. CASE x < Depth
  BY <1>1, <1>2, SMT
<1>3. CASE x >= Depth
  BY <1>1, <1>3, SMT
<1> QED BY <1>1, <1>2, <1>3

Count(h, t) == IF t <= h THEN h - t ELSE h + Depth - t
Place(t, i) == IF t + i - 1 < Depth THEN t + i - 1 ELSE t + i - 1 - Depth

LEMMA CountWraps ==
    ASSUME NEW h \in Slots, NEW t \in Slots
    PROVE  (h + Depth - t) % Depth = Count(h, t)
<1> DEFINE x == h + Depth - t
<1>1. Depth \in Nat /\ h \in 0..Depth - 1 /\ t \in 0..Depth - 1
  BY SwitchAssumption DEF Slots
<1>2. x \in Nat /\ x < 2 * Depth
  BY <1>1
<1>3. x % Depth = IF x < Depth THEN x ELSE x - Depth
  <2> HIDE DEF x
  <2> QED BY <1>2, Wrap
<1>4. (IF x < Depth THEN x ELSE x - Depth) = Count(h, t)
  BY <1>1 DEF Count
<1> QED BY <1>3, <1>4

LEMMA PlaceWraps ==
    ASSUME NEW t \in Slots, NEW i \in 1..Depth - 1
    PROVE  (t + i - 1) % Depth = Place(t, i)
<1> DEFINE x == t + i - 1
<1>1. Depth \in Nat /\ t \in 0..Depth - 1
  BY SwitchAssumption DEF Slots
<1>2. x \in Nat /\ x < 2 * Depth
  BY <1>1
<1>3. x % Depth = IF x < Depth THEN x ELSE x - Depth
  <2> HIDE DEF x
  <2> QED BY <1>2, Wrap
<1>4. (IF x < Depth THEN x ELSE x - Depth) = Place(t, i)
  BY <1>1 DEF Place
<1> QED BY <1>3, <1>4

(* How many frames wait, and where. *)
LEMMA QueueShape ==
    ASSUME head \in Slots, tail \in Slots
    PROVE  /\ Count(head, tail) \in 0..Depth - 1
           /\ \A i \in 1..Count(head, tail) : Place(tail, i) \in Slots
           /\ Queue = [i \in 1..Count(head, tail) |-> frames[Place(tail, i)]]
<1>1. Depth \in Nat /\ Depth > 1 /\ head \in 0..Depth - 1 /\ tail \in 0..Depth - 1
  BY SwitchAssumption DEF Slots
<1>2. Count(head, tail) \in 0..Depth - 1
  BY <1>1 DEF Count
<1>3. (head + Depth - tail) % Depth = Count(head, tail)
  BY <1>1, CountWraps DEF Slots
<1>4. ASSUME NEW i \in 1..Count(head, tail)
      PROVE  (tail + i - 1) % Depth = Place(tail, i) /\ Place(tail, i) \in 0..Depth - 1
  <2>1. i \in Nat /\ i >= 1 /\ i <= Depth - 1
    BY <1>1, <1>2
  <2>3. (tail + i - 1) % Depth = Place(tail, i)
    BY <1>1, <2>1, PlaceWraps DEF Slots
  <2>4. Place(tail, i) \in 0..Depth - 1
    BY <1>1, <2>1 DEF Place
  <2> QED BY <2>3, <2>4
<1> QED BY <1>2, <1>3, <1>4 DEF Queue, Slots

(* A frame that enters a ring with room goes to the end of the queue... *)
LEMMA SendIsAppend ==
    ASSUME TypeOK, NEW m \in Frames, ~RingFull, head' = Following(head), tail' = tail,
           frames' = [frames EXCEPT ![head] = m]
    PROVE  Queue \in Seq(Frames \cup {NoFrame}) /\ Len(Queue) < Depth - 1 /\ Queue' = Append(Queue, m)
<1> DEFINE n == Count(head, tail)
<1>1. Depth \in Nat /\ Depth > 1 /\ head \in 0..Depth - 1 /\ tail \in 0..Depth - 1
      /\ frames \in [Slots -> Frames \cup {NoFrame}]
  BY SwitchAssumption DEF TypeOK, Slots
<1>2. head' \in Slots /\ head' = (IF head = Depth - 1 THEN 0 ELSE head + 1) /\ head' # tail
  BY <1>1, FollowingSlot DEF RingFull, Slots
<1>3. Count(head', tail) = n + 1 /\ n < Depth - 1 /\ n \in Nat
  BY <1>1, <1>2 DEF Count
<1>4. Place(tail, n + 1) = head
  BY <1>1 DEF Count, Place
<1>5. \A i \in 1..n : Place(tail, i) \in Slots /\ Place(tail, i) # head
  BY <1>1, <1>3 DEF Count, Place, Slots
<1>6. Queue = [i \in 1..n |-> frames[Place(tail, i)]]
  BY <1>1, QueueShape DEF Slots
<1>7. Queue' = [i \in 1..n + 1 |-> frames'[Place(tail, i)]]
  <2>1. (head + Depth - tail)' % Depth = n + 1
    <3>1. (head' + Depth - tail) % Depth = Count(head', tail)
      BY <1>1, <1>2, CountWraps DEF Slots
    <3> QED BY <1>3, <3>1
  <2>2. \A i \in 1..n + 1 : (tail + i - 1) % Depth = Place(tail, i)
    <3>1. \A i \in 1..n + 1 : i \in 1..Depth - 1
      BY <1>1, <1>3
    <3> QED BY <1>1, <3>1, PlaceWraps DEF Slots
  <2> QED BY <2>1, <2>2 DEF Queue
<1> HIDE DEF n
<1>8. \A i \in 1..n + 1 : frames'[Place(tail, i)] = IF i = n + 1 THEN m ELSE frames[Place(tail, i)]
  BY <1>1, <1>3, <1>4, <1>5 DEF Slots
<1>9. Queue \in Seq(Frames \cup {NoFrame}) /\ Len(Queue) = n
  BY <1>1, <1>3, <1>5, <1>6
<1>10. Queue' = Append(Queue, m)
  BY <1>3, <1>6, <1>7, <1>8, <1>9
<1> QED BY <1>3, <1>9, <1>10

(* ...and the one that is taken was at its beginning. *)
LEMMA TakeIsTail ==
    ASSUME TypeOK, tail # head, head' = head, tail' = Following(tail), frames' = frames
    PROVE  Queue # <<>> /\ frames[tail] = Head(Queue) /\ Queue' = Tail(Queue)
<1> DEFINE n == Count(head, tail)
<1>1. Depth \in Nat /\ Depth > 1 /\ head \in 0..Depth - 1 /\ tail \in 0..Depth - 1
      /\ frames \in [Slots -> Frames \cup {NoFrame}]
  BY SwitchAssumption DEF TypeOK, Slots
<1>2. tail' \in Slots /\ tail' = (IF tail = Depth - 1 THEN 0 ELSE tail + 1)
  BY <1>1, FollowingSlot DEF Slots
<1>3. Count(head, tail') = n - 1 /\ n > 0 /\ n \in Nat
  BY <1>1, <1>2 DEF Count
<1>4. Place(tail, 1) = tail
  BY <1>1 DEF Place
<1>5. \A i \in 1..n - 1 : Place(tail', i) = Place(tail, i + 1)
  BY <1>1, <1>2, <1>3 DEF Count, Place
<1>6. Queue = [i \in 1..n |-> frames[Place(tail, i)]]
      /\ \A i \in 1..n : Place(tail, i) \in Slots
  BY <1>1, QueueShape DEF Slots
<1>7. Queue' = [i \in 1..n - 1 |-> frames[Place(tail', i)]]
  <2>1. (head + Depth - tail') % Depth = n - 1
    <3>1. (head + Depth - tail') % Depth = Count(head, tail')
      BY <1>1, <1>2, CountWraps DEF Slots
    <3> QED BY <1>3, <3>1
  <2>2. \A i \in 1..n - 1 : (tail' + i - 1) % Depth = Place(tail', i)
    <3>1. \A i \in 1..n - 1 : i \in 1..Depth - 1
      BY <1>1, <1>3 DEF Count
    <3> QED BY <1>2, <3>1, PlaceWraps
  <2> QED BY <2>1, <2>2 DEF Queue
<1> HIDE DEF n
<1>8. Queue \in Seq(Frames \cup {NoFrame}) /\ Len(Queue) = n
  BY <1>1, <1>3, <1>6
<1>9. Head(Queue) = frames[tail]
  BY <1>3, <1>4, <1>6, <1>8
<1>10. Queue' = Tail(Queue)
  BY <1>3, <1>5, <1>6, <1>7, <1>8
<1> QED BY <1>3, <1>8, <1>9, <1>10

(* Every step is one of the channel, or does not touch it. *)
LEMMA ChannelStep ==
    ASSUME Inv, [Next]_vars
    PROVE  [Channel!Next]_<<Queue, taken.frame, pc = "leave">>
<1> USE DEF Inv
<1>1. CASE cbEmit
  <2>1. CASE RingFull
    BY <1>1, <2>1 DEF cbEmit, Queue, ringVars
  <2>2. CASE ~RingFull
    <3> DEFINE m == [lan |-> lan, late |-> pc = "leave"]
    <3>1. m \in Frames
      BY <1>1 DEF cbEmit, TypeOK, Frames
    <3>2. frames' = [frames EXCEPT ![head] = m] /\ head' = Following(head)
          /\ UNCHANGED <<tail, taken, pc>>
      BY <1>1, <2>2 DEF cbEmit
    <3> HIDE DEF m
    <3>3. Len(Queue) < Depth - 1 /\ Queue' = Append(Queue, m)
      BY <2>2, <3>1, <3>2, SendIsAppend
    <3>4. Channel!Send(m)
      BY <3>2, <3>3 DEF Channel!Send
    <3> QED BY <3>1, <3>4 DEF Channel!Next
  <2> QED BY <2>1, <2>2
<1>2. CASE drainOutbound
  <2>1. tail # head /\ tail' = Following(tail) /\ frames' = frames /\ head' = head /\ pc' = pc
        /\ taken'.frame = frames[tail]
    BY <1>2 DEF drainOutbound, ringVars
  <2>2. Queue # <<>> /\ frames[tail] = Head(Queue) /\ Queue' = Tail(Queue)
    BY <2>1, TakeIsTail
  <2>3. Channel!Take
    BY <2>1, <2>2 DEF Channel!Take
  <2> QED BY <2>3 DEF Channel!Next
<1>3. CASE PollSwitch
  <2>1. tail' = head /\ head' = head /\ taken' = taken /\ pc = "poll" /\ pc' = "leave"
        /\ frames' = frames
    BY <1>3 DEF PollSwitch, ClearRing, ringVars
  <2>2. Queue' = <<>>
    <3>1. Depth \in Nat /\ Depth > 1 /\ head \in Nat
      BY SwitchAssumption DEF TypeOK, Slots
    <3>2. (head + Depth - head) % Depth = 0
      BY <3>1, SMT
    <3>3. (head + Depth - tail)' % Depth = 0
      BY <2>1, <3>2
    <3> QED BY <3>3 DEF Queue
  <2>3. Channel!Begin
    BY <2>1, <2>2 DEF Channel!Begin
  <2> QED BY <2>3 DEF Channel!Next
<1>4. CASE LeaveFails \/ Leave
  <2>1. UNCHANGED <<frames, head, tail, taken>> /\ pc = "leave" /\ pc' # "leave"
    BY <1>4 DEF LeaveFails, Leave, ringVars
  <2>2. Channel!End
    BY <2>1 DEF Channel!End, Queue
  <2> QED BY <2>2 DEF Channel!Next
<1>5. ASSUME UNCHANGED <<frames, head, tail, taken>>, pc # "leave" \/ pc' = pc, pc' # "leave" \/ pc' = pc
      PROVE  UNCHANGED <<Queue, taken.frame, pc = "leave">>
  BY <1>5 DEF Queue
<1>6. ASSUME NEW n \in Networks, Select(n)
      PROVE  UNCHANGED <<Queue, taken.frame, pc = "leave">>
  BY <1>6, <1>5 DEF Select, ringVars
<1>7. CASE Callback
  BY <1>7, <1>5 DEF Callback, cbNetworkConfigUp, cbNetworkConfigDown, ringVars
<1>8. CASE Join \/ JoinFails \/ Restore \/ PollSkip \/ WireDone
  BY <1>8, <1>5 DEF Join, JoinFails, Restore, PollSkip, WireDone, ringVars
<1>9. CASE subscribeBroadcast \/ DrainDone \/ TimersDone
  BY <1>9, <1>5 DEF subscribeBroadcast, DrainDone, TimersDone, ringVars
<1>10. CASE UNCHANGED vars
  BY <1>10, <1>5 DEF vars, ringVars
<1> QED
  BY <1>1, <1>2, <1>3, <1>4, <1>6, <1>7, <1>8, <1>9, <1>10
     DEF Next, SwitchStep, LoopStep, Others

(* The ring of any depth, with its two indices and their wrapping, is a    *)
(* FIFO that loses a frame only when it is full or emptied by a switch.    *)
THEOREM RingAlwaysIsChannel == Spec => RingIsChannel
<1>1. Init => Channel!Init
  <2> SUFFICES ASSUME Init PROVE Channel!Init
    OBVIOUS
  <2>1. Depth \in Nat /\ Depth > 1
    BY SwitchAssumption
  <2>2. (0 + Depth - 0) % Depth = 0
    BY <2>1, SMT
  <2>3. Queue = <<>>
    BY <2>2 DEF Init, Queue
  <2>4. taken.frame = NoFrame /\ pc # "leave"
    BY DEF Init
  <2> QED BY <2>3, <2>4 DEF Channel!Init
<1>2. Inv /\ [Next]_vars => [Channel!Next]_<<Queue, taken.frame, pc = "leave">>
  BY ChannelStep
<1> QED BY <1>1, <1>2, Invariance, PTL DEF Spec, RingIsChannel, Channel!Spec
=============================================================================
