--------------------------- MODULE MCBsdLifetime ---------------------------
(* BsdLifetime for TLC: two games that need the proxy memory. *)
EXTENDS BsdLifetime
=============================================================================
