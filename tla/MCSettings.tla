----------------------------- MODULE MCSettings -----------------------------
(* Settings for TLC: every line of up to four characters, alone in its     *)
(* section or before a pair, and a few files that replace each other.      *)
EXTENDS Settings

MCChar == {Space, "#", "[", "]", "=", "a", "b", "1"}
Lines == UNION {[1..n -> MCChar \ {"b", "1"}] : n \in 0..4}

A  == <<"[", "a", "]">>
B  == <<"[", "b">>
P1 == <<"a", "=", "1">>
PA == <<"a", "=", "a">>
Long == <<"a", "=", "a", "=", "a">>

MCProbes == {<<A, l>> : l \in Lines} \cup {<<l, P1>> : l \in Lines}
              \cup {<<A, P1, <<>>, A, PA>>, <<B, P1, A, P1, PA>>, <<P1, A>>}
MCEdits  == {<<A, P1>>, <<A, PA, B, P1>>, <<B, PA>>,
             <<A, Long, P1>>}
MCWanted == {<<<<"a">>, <<"a">>>>, <<<<"b">>, <<"a">>>>}
=============================================================================
