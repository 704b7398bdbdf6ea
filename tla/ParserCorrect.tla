--------------------------- MODULE ParserCorrect ---------------------------
(***************************************************************************)
(* What json_parse returns, against the grammar.                           *)
(***************************************************************************)
EXTENDS Parser, JsonGrammar

\* The tree at node id.
RECURSIVE TreeAt(_)
TreeAt(id) ==
  LET node == nodes[id]
  IN  [type  |-> node.type, at |-> node.at,
       items |-> [i \in 1..Len(node.items) |->
                    [key |-> node.items[i].key, val |-> TreeAt(node.items[i].val)]]]

\* json_parse succeeds only on a document, and returns its tree: every value
\* in its place, in order, every key with its own value.
ReturnsTheDocument ==
  status = "OK" => Documents(input) = {TreeAt(root)}

\* json_parse rejects a text as malformed only when it is, and where it is: the
\* text before the lexeme it stops at could go on to be a document, and no
\* longer with that lexeme.  The exceptions are the code's: an escape, a
\* character, a number or a literal that only the end of the text cuts short,
\* and a float too large, are reported as malformed under the code of their
\* kind.  UNEXPECTED_EOF is for a text that some continuation makes a document.
RejectsOnlyMalformed ==
  /\ status \in Malformed =>
       /\ CanGoOn(SubSeq(input, 1, pos - 1))
       /\ CanGoOn(SubSeq(input, 1, pos)) =>
            /\ input[pos] \in {"cutEscape", "cutChar", "cutNumber", "cutLiteral",
                              "infinite"}
            /\ status = RefusalOf(input[pos])
  /\ status = "UNEXPECTED_EOF" => IsTruncated(input)

\* "Nesting deeper than JSON_MAX_DEPTH" (JSON_ERR_DEPTH_EXCEEDED in sJson.c):
\* a document that nests no deeper is not rejected for its depth.
DepthErrorAsDocumented ==
  status = "DEPTH_EXCEEDED" /\ IsDocument(input) =>
    \A t \in Documents(input) : Nesting(t) > MaxDepth
=============================================================================
