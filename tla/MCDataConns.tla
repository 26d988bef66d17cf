---------------------------- MODULE MCDataConns -----------------------------
(* DataConns for TLC: all clients are behind one address, which has a      *)
(* name, and a connection has two pages at a time to be read.              *)
EXTENDS DataConns, TLC

MCIP       == [q \in Client |-> "nat"]
MCResolved == {IP[q] : q \in Client}
MCMaxPages == [d \in Conn |-> 2]
=============================================================================
