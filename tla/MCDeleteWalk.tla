---------------------------- MODULE MCDeleteWalk ----------------------------
(* DeleteWalk for TLC: every map of up to NumChannels channels on which    *)
(* the client is alone, with another, or not.                              *)
EXTENDS DeleteWalk
=============================================================================
