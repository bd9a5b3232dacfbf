------------------------------ MODULE MCUplink ------------------------------
(* Uplink for TLC: two failures in a row recycle the socket. *)
EXTENDS Uplink
=============================================================================
