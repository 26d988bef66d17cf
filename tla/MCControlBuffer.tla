-------------------------- MODULE MCControlBuffer ---------------------------
(* ControlBuffer for TLC: a buffer of a few bytes, lines that fit into it  *)
(* and lines that do not.  What a message is cut into does not depend on   *)
(* the state: TLC compares Tokenize with what it is for when it starts.    *)
EXTENDS ControlBuffer, Tokenizer

Chars == {"a", "b", Space, CR, LF, Colon}

ASSUME TokensAssumption == TokensAreWords(Chars, 2, 2) /\ TokensAreCut(Chars, 5)
=============================================================================
