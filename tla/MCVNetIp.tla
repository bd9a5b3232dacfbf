------------------------------ MODULE MCVNetIp ------------------------------
(***************************************************************************)
(* VNetIp on small tables.                                                 *)
(***************************************************************************)
EXTENDS VNetIp

CONSTANTS h1, m1

(* Fragments: one peer sends up to three datagrams, one of them longer than
   the buffer, in up to seven frames; nothing else happens. *)
FragmentTraffic ==
    [hosts |-> {h1}, macs |-> {m1}, lengths |-> {12, 20, 26}, sends |-> 3, frames |-> 7,
     targets |-> {}, ticks |-> 0]

(* Neighbours: three hosts with two hardware addresses are heard, one of them
   also by a datagram, and the console sends to each of them. *)
NeighbourTraffic ==
    [hosts |-> Hosts, macs |-> Macs, lengths |-> {6}, sends |-> 1, frames |-> 1,
     targets |-> Hosts \cup {Everyone}, ticks |-> 4]

MCTraffics == {FragmentTraffic, NeighbourTraffic}
=============================================================================
