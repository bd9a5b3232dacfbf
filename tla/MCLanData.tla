----------------------------- MODULE MCLanData -----------------------------
(* Instances of LanData: games that send and connect on a socket with a failing
   physical route, where the networks are wide and where the overlay's is
   narrower than /24, and one that reads and waits on two sockets. *)
EXTENDS LanData

Message(to, big, reply) == [to |-> to, big |-> big, reply |-> reply]
Plain(to)               == Message(to, FALSE, FALSE)

Talker ==
    [senders |-> {1},
     readers |-> {},
     batches |-> {<<Plain("peer"), Plain("everyone")>>,
                  <<Plain(NoDest), Message("peer", TRUE, FALSE)>>,
                  <<Plain("peer255"), Plain("wifiHost")>>},
     singles |-> {Plain(d) : d \in Dests \cup {NoDest}}
                   \cup {Message("everyone", FALSE, TRUE), Message("peer", TRUE, FALSE)},
     peers   |-> {"peer", "everyone", "wifiHost"},
     watches |-> {},
     faulty  |-> {1},
     ends255 |-> {"lanBroadcast", "wifiBroadcast"}]

(* No host of the overlay ends in 255, nor does its broadcast address. *)
NarrowTalker ==
    [Talker EXCEPT !.batches = {<<Plain("lanBroadcast"), Plain("everyone")>>},
                   !.singles = {m \in @ : m.to # "peer255"},
                   !.ends255 = {"wifiBroadcast"}]

Listener ==
    [senders |-> {},
     readers |-> {1, 2},
     batches |-> {},
     singles |-> {},
     peers   |-> {},
     watches |-> {[f \in Fds |-> {"in"}], [f \in Fds |-> IF f = 1 THEN {"in", "out"} ELSE {"in"}]},
     faulty  |-> {1},
     ends255 |-> {"lanBroadcast", "wifiBroadcast"}]

MCGames == {Talker, NarrowTalker, Listener}
=============================================================================
