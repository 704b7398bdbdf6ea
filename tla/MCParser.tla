------------------------------ MODULE MCParser ------------------------------
(***************************************************************************)
(* Every text of up to four lexemes the parser reads, longer ones over the *)
(* lexemes of arrays and of objects, containers at and beyond the largest  *)
(* length, and every lexeme, the refused ones among them, at the end of    *)
(* every short text and before more text, if its text need not end there.  *)
(***************************************************************************)
EXTENDS ParserCorrect, SequencesExt

Texts(lexemes, n) == UNION {[1..k -> lexemes] : k \in 0..n}

ArrayOf(n) == <<"[">> \o FlattenSeq([i \in 1..n |-> <<"v", IF i = n THEN "]" ELSE ",">>])
ObjectOf(n) ==
  <<"{">> \o FlattenSeq([i \in 1..n |-> <<"s", ":", "v", IF i = n THEN "}" ELSE ",">>])

\* A lexeme in place of the last value of a container, or in place of a key.
Ending(text, l) == SubSeq(text, 1, Len(text) - 2) \o <<l>>

Endings ==
  {Ending(text, l) : text \in {ArrayOf(n) : n \in 2..4} \cup {ObjectOf(n) : n \in 1..4},
                     l \in Lexeme}
    \cup {Append(text, l) : text \in Texts({"[", "{", ":", ",", "s", "v"}, 3), l \in Lexeme}
    \cup {<<"[", "{", "s", ":", "v", ",", l>> : l \in Lexeme}

MCInputs == Texts(Accepted \cup {"x"}, 4)
              \cup Texts({"[", "]", ",", "v"}, 6)
              \cup Texts({"{", "}", ":", "s"}, 7)
              \cup {ArrayOf(n) : n \in 2..4} \cup {ObjectOf(n) : n \in 2..4}
              \cup {<<"[", "{", "s", ":", "[", "]", "}", ",", "{", "}", "]">>}
              \cup Texts(Lexeme \ Cut, 2)
              \cup Endings
              \cup {Append(text, "]") : text \in {e \in Endings : Last(e) \notin Cut}}
=============================================================================
