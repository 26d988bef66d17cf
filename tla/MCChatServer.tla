---------------------------- MODULE MCChatServer ----------------------------
(* ChatServer for TLC.  Nicks are two names, of which one has two          *)
(* interchangeable spellings, and one SetNick refuses.  No action reads    *)
(* `out', so states that differ in the messages last sent are one state    *)
(* (WithoutOut); action properties are checked on every step all the same. *)
EXTENDS ChatServer, TLC

CONSTANTS ann, Ann, bob, bad

MCUpper == [n \in Nick |-> IF n = Ann THEN ann ELSE n]

SameNicks == Permutations({ann, Ann})

WithoutOut ==
  <<live, connVars, closed, gone, chanVars, stale, serving, view, fault>>
=============================================================================
