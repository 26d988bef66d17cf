------------------------------ MODULE MCRelay -------------------------------
(* Relay for TLC: the pages a Theora and a Speex stream begin with.        *)
EXTENDS Relay

MCLayout == [video |-> <<"header", "headers">>, audio |-> <<"header">>]
Symmetry == Permutations(Conn) \cup Permutations(Chan)
=============================================================================
