--------------------------- MODULE MCVNetSockets ---------------------------
(***************************************************************************)
(* VNetSockets on small tables.  Three automatic ports, so the counter     *)
(* wraps; one datagram of each kind: short, long, too big.                 *)
(***************************************************************************)
EXTENDS VNetSockets

MCDatagrams == {[src |-> "peer1", len |-> 1], [src |-> "peer2", len |-> 2],
                [src |-> "peer2", len |-> 3]}
=============================================================================
