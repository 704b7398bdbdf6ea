------------------------------- MODULE Writer -------------------------------
(***************************************************************************)
(* The writer of sJson.c: json_measure, json_write and json_write_arena    *)
(* over one value.  A caller measures the value and then writes it, to     *)
(* buffers of any size, as often as it likes.                              *)
(*                                                                         *)
(* json__write_value is recursive; todo is what is left of its activations *)
(* when they are laid end to end: values still to be written and jw_ calls *)
(* still to be made, first to last.  Each jw_ call is one step.  The calls *)
(* whose result the code looks at are marked must, and a failure of any    *)
(* other is ignored, as in the code.                                       *)
(*                                                                         *)
(* A jw_ call appends a piece of n bytes; text is the pieces, each with    *)
(* the lexeme it spells (see Parser) and whose it is.  Blank is a piece    *)
(* that spells none of its own: white space, and the quotes of a string.   *)
(***************************************************************************)
EXTENDS Integers, Sequences, SequencesExt

CONSTANTS
  Values,         \* the values: records [type, size, items], by number
  KeyLength,      \* the bytes of each key; keys are numbered in lexical order
  Roots,          \* the values that are written
  Options,        \* JsonWriteOpts: [pretty, indent, sort_keys, trailing_nl]
  Capacities,     \* buf_size arguments of json_write
  MaxDepth,       \* JSON_MAX_DEPTH
  SizeMax         \* (size_t)-1

Id       == 1..Len(Values)
Key      == 1..Len(KeyLength)
Size     == 0..SizeMax
Literal  == "literal"                \* null, true, false and floats: jw_puts
Blank    == "blank"

ASSUME ValuesAssumption ==
  /\ Values \in Seq([type : {Literal, "int", "zero", "string", "array", "object"},
                     size : Nat,
                     items : Seq([key : Nat, val : Nat])])
  /\ KeyLength \in Seq(Nat)
  /\ \A v \in Id : Values[v].type = "zero" => Values[v].size = 1
  /\ \A v \in Id : \A i \in 1..Len(Values[v].items) :
       /\ Values[v].items[i].val \in Id
       /\ Values[v].type = "object" => Values[v].items[i].key \in Key
  /\ Roots \subseteq Id
ASSUME LimitsAssumption ==
  /\ MaxDepth \in Nat
  /\ SizeMax \in Nat
  /\ Capacities \subseteq Size
  /\ Options \subseteq [pretty : BOOLEAN, indent : Nat, sort_keys : BOOLEAN,
                        trailing_nl : BOOLEAN]

VARIABLES
  root, opts,     \* the arguments of every call
  phase,          \* "measure", "measured", "write" or "done"
  cap,            \* w.cap
  used,           \* w.used
  err,            \* w.err
  todo,           \* what json__write_value has left to do
  text,           \* what the buffer holds, piece by piece
  result,         \* what the last call returned
  measured        \* what json_measure reported, and its w.err: [size, result,
                  \* err]

vars == <<root, opts, phase, cap, used, err, todo, text, result, measured>>

measure_only == phase = "measure"
Running == phase \in {"measure", "write"}

(***************************************************************************)
(* The pieces.                                                             *)
(***************************************************************************)

Call(op, n, must, lex, of) ==
  [op |-> op, n |-> n, must |-> must, lex |-> lex, of |-> of, depth |-> 0]
Checked(lex)   == <<Call("put", 1, TRUE, lex, 0)>>
Unchecked(lex) == <<Call("put", 1, FALSE, lex, 0)>>
Write(v, d) ==
  <<[op |-> "value", n |-> 0, must |-> TRUE, lex |-> Blank, of |-> v, depth |-> d]>>

\* The new line and indent of pretty output: neither jw_ result is looked at.
Line(d) ==
  IF opts.pretty
    THEN Unchecked(Blank) \o <<Call("indent", d * opts.indent, FALSE, Blank, 0)>>
    ELSE << >>

\* A string value: jw_string_content returns w.err, whoever set it.
StringCalls(v) ==
  Checked(Blank) \o <<Call("content", Values[v].size, TRUE, "s", v)>> \o Checked(Blank)

\* jw_int64 writes 0 with one jw_put, and passes its error on.
ScalarOp(v) == CASE Values[v].type = "int"  -> "int"
                 [] Values[v].type = "zero" -> "put"
                 [] OTHER                   -> "puts"

ScalarCalls(v) ==
  IF Values[v].type = "string"
    THEN StringCalls(v)
    ELSE <<Call(ScalarOp(v), Values[v].size, TRUE, "v", v)>>

\* A key, colon included: no result is looked at.
KeyCalls(k) ==
  Unchecked(Blank) \o <<Call("content", KeyLength[k], FALSE, "s", k)>>
    \o Unchecked(Blank) \o Unchecked(":")
    \o IF opts.pretty THEN Unchecked(Blank) ELSE << >>

\* A container at depth d whose items are written in the given order.
ContainerCalls(v, d, order) ==
  LET items == Values[v].items
      isObject == Values[v].type = "object"
      item(i) == Line(d + 1)
                   \o (IF isObject THEN KeyCalls(items[order[i]].key) ELSE << >>)
                   \o Write(items[order[i]].val, d + 1)
                   \o (IF i < Len(items) THEN Unchecked(",") ELSE << >>)
  IN  Checked(IF isObject THEN "{" ELSE "[")
        \o FlattenSeq([i \in 1..Len(items) |-> item(i)])
        \o (IF Len(items) > 0 THEN Line(d) ELSE << >>)
        \o Checked(IF isObject THEN "}" ELSE "]")

\* The object is written through a sorted index of its pairs.
Sorts(v) == /\ Values[v].type = "object"
            /\ opts.sort_keys /\ ~measure_only
            /\ Len(Values[v].items) > 1

IsPermutation(p) == \A i, j \in DOMAIN p : i # j => p[i] # p[j]

\* Mutant of Orders: sort_keys sorts nothing.
OrdersUnsorted(v) == {[i \in 1..Len(Values[v].items) |-> i]}

\* The orders json__introsort can leave the index in: lexical, and any order
\* of equal keys.  (Without sort_keys, the order of the pairs.)
Orders(v) ==
  LET n == Len(Values[v].items)
      key(i) == Values[v].items[i].key
  IN  IF Sorts(v)
        THEN {p \in [1..n -> 1..n] :
                /\ IsPermutation(p)
                /\ \A i \in 1..(n - 1) : key(p[i]) <= key(p[i + 1])}
        ELSE {[i \in 1..n |-> i]}

(***************************************************************************)
(* The jw_ calls.                                                          *)
(***************************************************************************)

head == Head(todo)

\* Mutant of Room: the NUL gets no byte.
RoomWithoutNul == IF measure_only THEN SizeMax - used ELSE cap - used

\* How many bytes jw_put can still append, one by one.
Room == IF measure_only THEN SizeMax - used
        ELSE IF cap = 0 THEN 0 ELSE (cap - 1) - used

\* jw_puts and jw_indent look at the whole piece first.
Overflows(call) == call.op \in {"puts", "indent"} /\ call.n > SizeMax - used

\* The bytes a call appends that does not fit: jw_indent, and a jw_puts that
\* would overflow, append none; the others fill the buffer.
Partial(call) == IF call.op = "indent" \/ Overflows(call) THEN 0 ELSE Room

\* The error a call that does not fit leaves in w.err ...
ErrorOf(call) ==
  IF measure_only \/ Overflows(call) THEN "OVERFLOW" ELSE "BUFFER_TOO_SMALL"

\* ... and the one it returns: jw_int64 turns every error into this one.
ReturnOf(call) == IF call.op = "int" THEN "BUFFER_TOO_SMALL" ELSE ErrorOf(call)

Piece(call) == [lex |-> call.lex, of |-> call.of]
Cut == [lex |-> "x", of |-> 0]

Appended(piece) == text' = IF measure_only THEN text ELSE Append(text, piece)

Proceed == todo' = Tail(todo) /\ UNCHANGED <<phase, result, measured>>

\* json_write returns code: json_measure's caller gets w.used in any case.
Return(code) ==
  /\ todo' = << >>
  /\ result' = code
  /\ phase' = IF measure_only THEN "measured" ELSE "done"
  /\ measured' = IF measure_only
                   THEN [size |-> used', result |-> code, err |-> err']
                   ELSE measured

(***************************************************************************)
(* The steps.                                                              *)
(***************************************************************************)

At(ops) == Running /\ todo # << >> /\ head.op \in ops

CallFits ==
  /\ At({"put", "puts", "int", "content", "indent"})
  /\ head.n <= Room
  /\ used' = used + head.n
  /\ Appended(Piece(head))
  /\ UNCHANGED <<root, opts, cap, err>>
  /\ IF head.op = "content" /\ head.must /\ err # "OK" THEN Return(err) ELSE Proceed

CallFails ==
  /\ At({"put", "puts", "int", "content", "indent"})
  /\ head.n > Room
  /\ used' = used + Partial(head)
  /\ IF Partial(head) > 0 THEN Appended(Cut) ELSE UNCHANGED text
  /\ err' = ErrorOf(head)
  /\ IF head.must THEN Return(ReturnOf(head)) ELSE Proceed
  /\ UNCHANGED <<root, opts, cap>>

\* Mutant of TooDeep: one level early.
TooDeepEarly ==
  /\ At({"value"})
  /\ head.depth + 1 >= MaxDepth
  /\ UNCHANGED <<root, opts, cap, used, err, text>>
  /\ Return("DEPTH_EXCEEDED")

\* json__write_value past JSON_MAX_DEPTH.
TooDeep ==
  /\ At({"value"})
  /\ head.depth >= MaxDepth
  /\ UNCHANGED <<root, opts, cap, used, err, text>>
  /\ Return("DEPTH_EXCEEDED")

\* The temporary arena of a sorted object, or the index in it, is refused.
SortRefused ==
  /\ At({"value"})
  /\ head.depth < MaxDepth
  /\ Sorts(head.of)
  /\ UNCHANGED <<root, opts, cap, used, err, text>>
  /\ Return("OOM")

WriteScalar ==
  /\ At({"value"})
  /\ head.depth < MaxDepth
  /\ Values[head.of].type \notin {"array", "object"}
  /\ todo' = ScalarCalls(head.of) \o Tail(todo)
  /\ UNCHANGED <<root, opts, phase, cap, used, err, text, result, measured>>

WriteContainer ==
  /\ At({"value"})
  /\ head.depth < MaxDepth
  /\ Values[head.of].type \in {"array", "object"}
  /\ \E order \in Orders(head.of) :
       todo' = ContainerCalls(head.of, head.depth, order) \o Tail(todo)
  /\ UNCHANGED <<root, opts, phase, cap, used, err, text, result, measured>>

\* json__write_value has returned OK, and so has the trailing new line: a
\* buffer gets its NUL if there is room for it.
Finish ==
  /\ Running /\ todo = << >>
  /\ UNCHANGED <<root, opts, cap, used, err, text>>
  /\ Return(IF measure_only \/ used < cap THEN "OK" ELSE "BUFFER_TOO_SMALL")

\* Mutant of WholeText: the trailing new line is not measured.
WholeTextUnmeasured(v, options) ==
  Write(v, 0)
    \o IF options.trailing_nl /\ ~measure_only THEN Checked(Blank) ELSE << >>

\* What json_write does for value v: trailing_nl comes last.
WholeText(v, options) ==
  Write(v, 0) \o IF options.trailing_nl THEN Checked(Blank) ELSE << >>

\* A call of json__write_value with a fresh JsonWriter over a buffer.
StartWrite(buf_size) ==
  /\ phase' = "write"
  /\ cap' = buf_size
  /\ used' = 0
  /\ err' = "OK"
  /\ text' = << >>
  /\ todo' = WholeText(root, opts)
  /\ UNCHANGED <<root, opts, result, measured>>

JsonWrite == ~Running /\ \E buf_size \in Capacities : StartWrite(buf_size)

\* json_write_arena measures again, with the same outcome; the arena may
\* have no room for the text and its NUL.
JsonWriteArena ==
  /\ ~Running
  /\ measured.result = "OK" /\ measured.size # SizeMax
  /\ StartWrite(measured.size + 1)

JsonWriteArenaFails ==
  /\ ~Running
  /\ phase' = "done"
  /\ cap' = 0 /\ used' = 0 /\ err' = "OK" /\ text' = << >>
  /\ result' = IF measured.result # "OK" THEN measured.result
               ELSE IF measured.size = SizeMax THEN "OVERFLOW" ELSE "OOM"
  /\ UNCHANGED <<root, opts, todo, measured>>

Init ==
  /\ root \in Roots /\ opts \in Options
  /\ phase = "measure"
  /\ cap = 0 /\ used = 0 /\ err = "OK"
  /\ todo = WholeText(root, opts)
  /\ text = << >>
  /\ result = "OK"
  /\ measured = [size |-> 0, result |-> "OK", err |-> "OK"]

Work == \/ CallFits \/ CallFails
        \/ TooDeep \/ SortRefused
        \/ WriteScalar \/ WriteContainer
        \/ Finish

Next == Work \/ JsonWrite \/ JsonWriteArena \/ JsonWriteArenaFails

Spec == Init /\ [][Next]_vars

(***************************************************************************)
(* Properties.                                                             *)
(***************************************************************************)

\* json_write touches no byte past buf_size - 1 and always leaves the last
\* one for the NUL, whichever jw_ calls failed on the way; with buf_size 0
\* it touches none (docs/api.md: "Zero-capacity writes never touch the
\* output pointer").
WithinBuffer ==
  phase \in {"write", "done"} => used < cap \/ (cap = 0 /\ used = 0)

\* docs/api.md: json_measure counts the output bytes, so a buffer of one
\* byte more is enough: the write does not fail for want of room and writes
\* exactly what was measured, whatever order sort_keys writes it in.  That takes
\* a measurement in which every jw_ call succeeded, those included whose result
\* the code ignores.
MeasuredSuffices ==
  phase = "done" /\ measured.result = "OK" /\ measured.err = "OK"
    /\ cap > measured.size =>
      \/ result = "OK" /\ used = measured.size
      \/ result = "OOM" /\ \E v \in Id : Sorts(v)

\* Some value lies k levels below v: Deep[k][v].
Deep[k \in 0..MaxDepth] ==
  [v \in Id |-> \/ k = 0
               \/ /\ Values[v].type \in {"array", "object"}
                  /\ \E i \in 1..Len(Values[v].items) :
                       Deep[k - 1][Values[v].items[i].val]]
TooDeepValue == Deep[MaxDepth][root]

\* A value is refused for its depth exactly when some value lies at depth
\* JSON_MAX_DEPTH, by json_measure (which fails for nothing else, but a
\* count that overflows) and by json_write; one that contains itself too.
DepthTruthful ==
  /\ phase # "measure" =>
       /\ measured.result = "DEPTH_EXCEEDED" => TooDeepValue
       /\ TooDeepValue => measured.result # "OK"
  /\ result = "DEPTH_EXCEEDED" => TooDeepValue
  /\ phase = "done" /\ TooDeepValue => result # "OK"
=============================================================================
