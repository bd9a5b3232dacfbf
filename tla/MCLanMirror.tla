---------------------------- MODULE MCLanMirror ----------------------------
(***************************************************************************)
(* LanMirror for TLC: two processes with three sockets between them, for   *)
(* a table of two entries and a VNet of two sockets: either can be found   *)
(* full.  The first socket of p does whatever a game can do with one; the  *)
(* second of p and the only one of q, which are there to fill the tables,  *)
(* bind Pia's port and do not broadcast.                                   *)
(***************************************************************************)
EXTENDS LanMirror

CONSTANTS p, q

Plain == {<<p, 2>>, <<q, 1>>}

PlainStaysPlain ==
    /\ real'[q][2] = Closed
    /\ \A s \in Plain : real'[s[1]][s[2]] \in {Closed, 0} \cup PiaPorts
    /\ call'.at \in {"broadcastOn", "broadcastOff"} => <<call'.pid, call'.fd>> \notin Plain

MCSpec == Init /\ [][Next /\ PlainStaysPlain]_vars /\ Fairness
=============================================================================
