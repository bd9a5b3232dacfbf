--------------------------- MODULE BoundedChannel ---------------------------
(***************************************************************************)
(* What the frame queue between the game's calls and the node thread       *)
(* promises: frames leave in the order they entered, each once, and a      *)
(* frame is lost only when Capacity of them are waiting, or when all are   *)
(* thrown away because a change of network begins.                         *)
(***************************************************************************)
EXTENDS Naturals, Sequences

CONSTANTS Capacity, Messages, NoMessage

VARIABLES chan, out, changing

Init == chan = <<>> /\ out = NoMessage /\ changing = FALSE

Send(m) ==
    /\ Len(chan) < Capacity
    /\ chan' = Append(chan, m)
    /\ UNCHANGED <<out, changing>>

Take ==
    /\ chan # <<>>
    /\ out' = Head(chan)
    /\ chan' = Tail(chan)
    /\ UNCHANGED changing

Begin == ~changing /\ changing' = TRUE /\ chan' = <<>> /\ UNCHANGED out

End == changing /\ changing' = FALSE /\ UNCHANGED <<chan, out>>

Next == Take \/ Begin \/ End \/ \E m \in Messages : Send(m)

Spec == Init /\ [][Next]_<<chan, out, changing>>
=============================================================================
