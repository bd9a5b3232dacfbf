---------------------------- MODULE MCLanSwitch ----------------------------
(***************************************************************************)
(* LanSwitch on two networks and a ring of three slots.                    *)
(***************************************************************************)
EXTENDS LanSwitch

(* Everything may fail, and the game sends more than the ring holds; or joins
   of a new network alone may fail, which is where the node must get through. *)
Troubled   == [fails |-> {"leave", "join", "restore"}, sends |-> 3]
Struggling == [fails |-> {"join"}, sends |-> 1]
MCWorlds   == {Troubled, Struggling}
=============================================================================
