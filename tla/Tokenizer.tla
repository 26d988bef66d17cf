----------------------------- MODULE Tokenizer ------------------------------
(***************************************************************************)
(* CMyString::Tokenize (MyString.cpp:20-72), as ProcessClientMessage uses  *)
(* it: what of a message is the command, what its parameters and text.     *)
(*                                                                         *)
(* A message that fills the buffer may have no end of line: its last       *)
(* character is then dropped.  A colon inside of a word ends the words, but*)
(* the rest begins with that word and not with the colon: the word comes   *)
(* twice.                                                                  *)
(***************************************************************************)
EXTENDS Integers, Sequences, SequencesExt

Space == "_"
CR    == "r"
LF    == "n"
Colon == ":"

\* The characters that end a word.
Ends == {Space, CR, LF, Colon}

Pushed(tokens, t) == IF t = <<>> THEN tokens ELSE Append(tokens, t)

\* One turn of the loop with the character at i: szToken is what lies behind
\* nLastSpacePos, and a colon breaks the loop.
Turn(line, acc, i) ==
  IF acc.broken \/ line[i] \notin Ends THEN acc
  ELSE [tokens |-> Pushed(acc.tokens, SubSeq(line, acc.last, i - 1)),
        last   |-> IF line[i] = Colon THEN acc.last ELSE i + 1,
        broken |-> line[i] = Colon]

\* The loop, after n of the characters.
Scanned(line) ==
  LET scan[n \in 0..Len(line)] ==
        IF n = 0 THEN [tokens |-> <<>>, last |-> 1, broken |-> FALSE]
        ELSE Turn(line, scan[n - 1], n)
  IN scan

\* The characters left out at the end: the end of line, or one of the line.
EndOfLine(line) ==
  LET n == Len(line) IN
  IF n > 1 /\ line[n] = LF /\ line[n - 1] = CR THEN 2 ELSE 1

Tokenize(line) ==
  LET s == Scanned(line)[Len(line)] IN
  Pushed(s.tokens, SubSeq(line, s.last, Len(line) - EndOfLine(line)))

-----------------------------------------------------------------------------
(* What a peer writes, and what of it must come back.                      *)

\* The first n words, with spaces in front of each.
Words(spaces, words) ==
  LET line[n \in 0..Len(words)] ==
        IF n = 0 THEN <<>> ELSE line[n - 1] \o spaces \o words[n]
  IN line

\* ... and then the text behind a colon.
Written(spaces, words, text, end) ==
  Words(spaces, words)[Len(words)]
    \o (IF text = <<>> THEN <<>> ELSE spaces \o <<Colon>> \o text) \o end

\* A command, its parameters and its text are found again whatever spaces
\* separate them, whichever line end follows, and whatever is in the text.
FoundAgain(spaces, words, text, end) ==
  (text # <<>> => Last(text) # CR) =>
    Tokenize(Written(spaces, words, text, end)) =
      words \o (IF text = <<>> THEN <<>> ELSE <<<<Colon>> \o text>>)

TokensAreWords(Chars, MaxWord, MaxWords) ==
  LET AWord == UNION {[1..n -> Chars \ Ends] : n \in 1..MaxWord} IN
  \A words  \in UNION {[1..n -> AWord] : n \in 1..MaxWords},
     text   \in UNION {[1..n -> Chars \ {LF}] : n \in 0..MaxWord},
     spaces \in {<<Space>>, <<Space, Space>>},
     end    \in {<<LF>>, <<CR, LF>>} :
    FoundAgain(spaces, words, text, end)

\* token is a piece of line with nothing but ends of words in front of it.
Begins(token, line) ==
  \E i \in 1..Len(line), j \in 0..Len(line) :
    /\ token = SubSeq(line, i, j)
    /\ \A k \in 1..(i - 1) : line[k] \in Ends

\* Whatever a message holds, no token is empty, only the last one holds
\* characters that end a word, and the first one begins the message.
CutWell(line) ==
  LET t == Tokenize(line) IN
  /\ \A i \in 1..Len(t) :
       /\ t[i] # <<>>
       /\ i < Len(t) => \A j \in 1..Len(t[i]) : t[i][j] \notin Ends
  /\ t # <<>> => Begins(t[1], line)

TokensAreCut(Chars, MaxMessage) ==
  \A line \in UNION {[1..n -> Chars] : n \in 1..MaxMessage} : CutWell(line)
=============================================================================
