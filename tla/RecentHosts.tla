---------------------------- MODULE RecentHosts ----------------------------
(***************************************************************************)
(* What the neighbour cache of the virtual network promises: it knows the  *)
(* Capacity hosts heard from most recently, each by the hardware address   *)
(* it was last heard with, and answers from that and nothing else.         *)
(***************************************************************************)
EXTENDS Naturals, FiniteSets

CONSTANTS Capacity, Hosts, Macs, Unknown, Everyone, Group

VARIABLES known, answer   \* who is known, how and since when; the last look-up

Answer(h, m) == [ip |-> h, mac |-> m]

Init == known = {} /\ answer = Answer(Everyone, Group)

(* What remains when h is heard: with the table full of others, all but the
   one heard longest ago. *)
Kept(h) ==
    LET others == {e \in known : e.ip # h} IN
    IF Cardinality(others) < Capacity THEN others
    ELSE {e \in others : \E o \in others : o.lastUsed < e.lastUsed}

Hear(h, m) ==
    /\ \E e \in known' :
           /\ e.ip = h /\ e.mac = m
           /\ \A o \in known : o.lastUsed < e.lastUsed
           /\ known' = Kept(h) \cup {e}
    /\ UNCHANGED answer

LookUp(h) ==
    /\ \/ h = Everyone /\ answer' = Answer(h, Group)
       \/ \E e \in known : e.ip = h /\ answer' = Answer(h, e.mac)
       \/ /\ h # Everyone
          /\ \A e \in known : e.ip # h
          /\ answer' = Answer(h, Unknown)
    /\ UNCHANGED known

Forget == known' = {} /\ UNCHANGED answer

Next ==
    \/ Forget
    \/ \E h \in Hosts : LookUp(h) \/ \E m \in Macs : Hear(h, m)
    \/ LookUp(Everyone)

Spec == Init /\ [][Next]_<<known, answer>>
=============================================================================
