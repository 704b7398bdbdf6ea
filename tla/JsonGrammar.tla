---------------------------- MODULE JsonGrammar ----------------------------
(***************************************************************************)
(* The JSON grammar (RFC 8259) over a sequence of lexemes, as the set of   *)
(* the trees an interval of it can be read as.  It is written as the       *)
(* grammar is, with no stack and no left-to-right reading, and is the      *)
(* reference Parser is checked against.                                    *)
(***************************************************************************)
EXTENDS Integers, Sequences

\* The lexemes of JSON strings and scalars, whatever the limits of a program,
\* and the one that a lexeme cut by the end of the text may have begun.
StringLexeme == {"s", "tooLong"}
ScalarLexeme == StringLexeme \cup {"v", "big", "infinite"}

Begun(l) == IF l \in {"open", "cutEscape", "cutChar"} THEN "s"
            ELSE IF l \in {"minus", "cutNumber", "cutLiteral"} THEN "v" ELSE l

\* A tree is a record [at, items] as in nodes, with trees for its children.
Leaf(at) == [type |-> "scalar", at |-> at, items |-> << >>]

RECURSIVE Trees(_, _, _)

\* The lists of comma-separated entries that lexemes i..j can be read as,
\* where an entry is a value, or in an object a string, a colon and a value.
RECURSIVE EntryLists(_, _, _, _)
EntryLists(in, i, j, type) ==
  LET entries(l, r) ==
        IF type = "array"
          THEN {[key |-> 0, val |-> t] : t \in Trees(in, l, r)}
          ELSE IF l + 2 <= r /\ in[l] \in StringLexeme /\ in[l + 1] = ":"
            THEN {[key |-> l, val |-> t] : t \in Trees(in, l + 2, r)}
            ELSE {}
  IN  {<<e>> : e \in entries(i, j)}
        \cup UNION {{<<e>> \o rest : e \in entries(i, k - 1),
                                     rest \in EntryLists(in, k + 1, j, type)} :
                    k \in {c \in (i + 1)..(j - 1) : in[c] = ","}}

\* The values that lexemes i..j can be read as.
Trees(in, i, j) ==
  LET container(open, close, type) ==
        IF i < j /\ in[i] = open /\ in[j] = close
          THEN {[type |-> type, at |-> i, items |-> l] :
                  l \in IF i + 1 = j THEN {<< >>}
                        ELSE EntryLists(in, i + 1, j - 1, type)}
          ELSE {}
  IN  (IF i = j /\ in[i] \in ScalarLexeme THEN {Leaf(i)} ELSE {})
        \cup container("[", "]", "array")
        \cup container("{", "}", "object")

Documents(in) == Trees(in, 1, Len(in))
IsDocument(in) == Documents(in) # {}

\* The brackets open at the end of a text, innermost first.
RECURSIVE OpenAfter(_, _)
OpenAfter(in, n) ==
  IF n = 0 THEN << >>
  ELSE LET before == OpenAfter(in, n - 1)
       IN  CASE in[n] \in {"[", "{"} -> <<in[n]>> \o before
             [] in[n] \in {"]", "}"} -> IF before = << >> THEN << >> ELSE Tail(before)
             [] OTHER -> before

Closing(in) == LET open == OpenAfter(in, Len(in))
               IN  [i \in 1..Len(open) |-> IF open[i] = "[" THEN "]" ELSE "}"]

\* A text that is a document or that some continuation makes one: the rest of
\* its last lexeme, whatever is missing from the innermost value, then the
\* brackets that are open.
CanGoOn(in) ==
  LET whole == [i \in 1..Len(in) |-> Begun(in[i])]
  IN  \E missing \in {<< >>, <<"v">>, <<"s", ":", "v">>, <<":", "v">>} :
        IsDocument(whole \o missing \o Closing(in))

IsTruncated(in) == CanGoOn(in) /\ ~IsDocument(in)

\* How deep the containers of a tree nest.
RECURSIVE Nesting(_)
Nesting(t) ==
  IF t.type = "scalar" THEN 0
  ELSE LET inner == {Nesting(t.items[i].val) : i \in 1..Len(t.items)}
       IN  1 + (CHOOSE m \in inner \cup {0} : \A x \in inner : x <= m)
=============================================================================
