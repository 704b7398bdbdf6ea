--------------------------- MODULE WriterCorrect ---------------------------
(***************************************************************************)
(* What json_write leaves in the buffer, against the grammar.              *)
(***************************************************************************)
EXTENDS Writer, JsonGrammar, FiniteSetsExt

\* The lexemes of the buffer: Parser's input, were it parsed.
Spelled == SelectSeq(text, LAMBDA piece : piece.lex # Blank)
Written == [i \in 1..Len(Spelled) |-> Spelled[i].lex]

\* The orders an object's pairs may be written in: their own, or by key.
PairOrders(v) ==
  LET items == Values[v].items
      n == Len(items)
  IN  IF opts.sort_keys /\ Values[v].type = "object"
        THEN {p \in [1..n -> 1..n] :
                /\ {p[i] : i \in 1..n} = 1..n
                /\ \A i, j \in 1..n : i < j => items[p[i]].key <= items[p[j]].key}
        ELSE {[i \in 1..n |-> i]}

\* The tree t of the buffer's lexemes is value v.
RECURSIVE Denotes(_, _)
Denotes(t, v) ==
  LET value == Values[v]
  IN  IF t.type = "scalar"
        THEN /\ value.type \notin {"array", "object"}
             /\ Spelled[t.at].of = v
        ELSE /\ value.type = t.type
             /\ Len(t.items) = Len(value.items)
             /\ \E p \in PairOrders(v) : \A i \in 1..Len(t.items) :
                  /\ t.type = "object" =>
                       Spelled[t.items[i].key].of = value.items[p[i]].key
                  /\ Denotes(t.items[i].val, value.items[p[i]].val)

\* A write that returns JSON_OK has written the value: every item in its
\* order, every key with its own value, nothing cut or dropped, although no
\* result is looked at inside a key.  Pretty output that does not fit may lose
\* white space (see SmallBufferRefused) but nothing else.
SuccessIsWhole ==
  phase = "done" /\ result = "OK" =>
    \E t \in Documents(Written) : Documents(Written) = {t} /\ Denotes(t, root)

\* docs/api.md: "json_measure counts output bytes ... A real write therefore
\* needs measured + 1 bytes."  A smaller buffer is refused.
SmallBufferRefused ==
  phase = "done" /\ measured.result = "OK" /\ cap <= measured.size =>
    result # "OK"
=============================================================================
