---------------------------- MODULE MCKeepalive -----------------------------
(* Keepalive for TLC: intervals of a few seconds.                          *)
EXTENDS Keepalive
=============================================================================
