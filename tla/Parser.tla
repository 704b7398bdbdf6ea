------------------------------- MODULE Parser -------------------------------
(***************************************************************************)
(* json_parse of sJson.c: the iterative parser, a machine over a stack of  *)
(* at most JSON_MAX_DEPTH frames.  One call is one behaviour; each turn of *)
(* its loop is one step.                                                   *)
(*                                                                         *)
(* The input is a sequence of lexemes: the six structural characters, "s"  *)
(* for a string, "v" for any other scalar, and one lexeme for each way     *)
(* json__parse_string, json__parse_number and the literals have of         *)
(* refusing a text.  What an accepted scalar says is abstracted to its     *)
(* position, so no two scalars are alike.                                  *)
(*                                                                         *)
(* Nodes are numbered in the order json__new_node creates them and live in *)
(* nodes, the arena: a failed call leaves there what it had built.  Every  *)
(* allocation of a node, a string or a larger array may fail.              *)
(***************************************************************************)
EXTENDS Integers, Sequences, FiniteSets

CONSTANTS
  Inputs,         \* the sequences of lexemes the machine is run on
  BaseCounts,     \* arena->node_count when the call begins
  MaxDepth,       \* JSON_MAX_DEPTH
  MaxNodes,       \* JSON_MAX_NODES
  MaxArrayLen,    \* JSON_MAX_ARRAY_LEN
  FirstCap        \* capacity of a container that grows from 0 (8 in the code)

Structural == {"[", "]", "{", "}", ":", ","}
Accepted   == Structural \cup {"s", "v"}

\* Texts that begin with a quote and are refused: no closing quote, the text
\* ends inside a \u escape or a UTF-8 character, a character or an escape that
\* no string may have, bytes that are not UTF-8, more bytes than
\* JSON_MAX_STRING_LEN.
RefusedString ==
  {"open", "cutEscape", "cutChar", "badEscape", "badUtf8", "tooLong"}

\* Refused numbers: the text ends after "-", or after a "." or an exponent's
\* sign; malformed; a float beyond the largest, an integer beyond int64.
RefusedNumber == {"minus", "cutNumber", "badNumber", "infinite", "big"}

\* A literal that the text's end cuts short, and any other text.
RefusedOther == {"cutLiteral", "x"}

Lexeme == Accepted \cup RefusedString \cup RefusedNumber \cup RefusedOther

\* Lexemes cut short by the end of the text, and those of JSON that exceed a
\* limit of this program.
Cut      == {"open", "cutEscape", "cutChar", "minus", "cutNumber", "cutLiteral"}
TooLarge == {"tooLong", "big"}

ASSUME InputsAssumption ==
  \A in \in Inputs : /\ in \in Seq(Lexeme)
                     /\ \A i \in 1..(Len(in) - 1) : in[i] \notin Cut
ASSUME LimitsAssumption ==
  /\ MaxDepth \in Nat \ {0}
  /\ MaxNodes \in Nat
  /\ MaxArrayLen \in Nat \ {0}
  /\ FirstCap \in Nat \ {0}
  /\ BaseCounts \subseteq 0..MaxNodes

VARIABLES
  input,          \* src
  pos,            \* lex.pos: the next lexeme
  stack,          \* stack[0..depth-1]: records [state, container, pending_key]
  nodes,          \* the nodes this call has created
  base,           \* arena->node_count when the call began
  root,           \* the root node, 0 until it is known
  status          \* "RUNNING", then what the call returns through err_out

vars == <<input, pos, stack, nodes, base, root, status>>

Waiting    == {"ARR_ITEM", "OBJ_VAL"}      \* frames with a VALUE frame above
FrameState == Waiting \cup {"VALUE", "ARR_CONT", "OBJ_KEY", "OBJ_COLON", "OBJ_CONT"}
Failure    == {"OOM", "INVALID_JSON", "INVALID_STRING", "INVALID_UTF8",
               "INVALID_NUMBER", "UNEXPECTED_EOF", "DEPTH_EXCEEDED", "OVERFLOW",
               "NODE_LIMIT"}
Malformed  == {"INVALID_JSON", "INVALID_STRING", "INVALID_UTF8", "INVALID_NUMBER"}

Frame == [state : FrameState, container : Nat, pending_key : Nat]
Entry == [key : Nat, val : Nat]            \* a pair; in an array the key is 0
Node  == [type : {"scalar", "array", "object"}, at : Nat, items : Seq(Entry),
          cap : Nat]

depth == Len(stack)
top   == stack[depth]

\* frame->state = s in the loop's switch, with a lexeme to look at.
In(s) == /\ status = "RUNNING"
         /\ pos <= Len(input)
         /\ top.state = s

See(l)  == input[pos] = l

Peek(l) == pos < Len(input) /\ input[pos + 1] = l

\* Mutants of Eat: a lexeme too many, or too few.
EatMore(n) == pos' = pos + n + 1
EatLess(n) == pos' = pos + n - 1

Eat(n)  == pos' = pos + n

\* goto parse_error
Fail(code) == status' = code /\ UNCHANGED <<pos, stack, root>>

ValueFrame == [state |-> "VALUE", container |-> 0, pending_key |-> 0]

\* Mutant of RefusalOf: one code for each kind of lexeme.
RefusalOfKind(l) ==
  IF l \in RefusedString THEN "INVALID_STRING"
  ELSE IF l \in RefusedNumber THEN "INVALID_NUMBER" ELSE "INVALID_JSON"

\* The code a refused lexeme is refused with.
RefusalOf(l) ==
  CASE l \in {"open", "minus"}                       -> "UNEXPECTED_EOF"
    [] l \in {"cutEscape", "badEscape"}              -> "INVALID_STRING"
    [] l \in {"cutChar", "badUtf8"}                  -> "INVALID_UTF8"
    [] l \in {"cutNumber", "badNumber", "infinite"}  -> "INVALID_NUMBER"
    [] l \in TooLarge                                -> "OVERFLOW"
    [] OTHER                                         -> "INVALID_JSON"

(***************************************************************************)
(* The nodes.                                                              *)
(***************************************************************************)

\* Mutant of NodeAllowed: one node past the limit.
NodeAllowedOneMore == base + Len(nodes) <= MaxNodes

NodeAllowed == base + Len(nodes) < MaxNodes
NewNode(type) == [type |-> type, at |-> pos, items |-> << >>, cap |-> 0]
With(type) == Append(nodes, NewNode(type))
NewId == Len(nodes) + 1

\* json__arr_grow, json__obj_grow
GrownCap(cap) ==
  LET twice == IF cap = 0 THEN FirstCap ELSE 2 * cap
  IN  IF twice > MaxArrayLen THEN MaxArrayLen ELSE twice

IsFull(node) == Len(node.items) >= node.cap

\* node with one more entry, in the capacity it needs for it.
Added(node, entry) ==
  [node EXCEPT !.items = Append(@, entry),
               !.cap   = IF IsFull(node) THEN GrownCap(@) ELSE @]

(***************************************************************************)
(* deliver_to_parent: hand the value v, complete in nd, to the frame below *)
(* and pop the top frame; at depth 1 it is the root, and nothing but white *)
(* space may follow.  eaten lexemes have been consumed in this step.       *)
(***************************************************************************)

DeliverRoot(v, nd, eaten) ==
  /\ depth = 1
  /\ root' = v
  /\ nodes' = nd
  /\ Eat(eaten)
  /\ status' = IF pos + eaten > Len(input) THEN "OK" ELSE "INVALID_JSON"
  /\ UNCHANGED stack

\* The frame that waits for the value, and the state it is in afterwards.
Parent == stack[depth - 1]

\* Mutant of Resumed: an object goes on waiting.
ResumedInArray(frame) ==
  [frame EXCEPT !.state = IF @ = "OBJ_VAL" THEN @ ELSE "ARR_CONT"]

Resumed(frame) ==
  [frame EXCEPT !.state = IF @ = "OBJ_VAL" THEN "OBJ_CONT" ELSE "ARR_CONT"]

\* Mutants of EntryFor: the container itself is entered, or the key is lost.
EntryForItself(frame, v) ==
  [key |-> IF frame.state = "OBJ_VAL" THEN frame.pending_key ELSE 0,
   val |-> frame.container]
EntryWithoutKey(frame, v) == [key |-> 0, val |-> v]

EntryFor(frame, v) ==
  [key |-> IF frame.state = "OBJ_VAL" THEN frame.pending_key ELSE 0, val |-> v]

DeliverChild(v, nd, eaten) ==
  /\ depth > 1
  /\ LET c == nd[Parent.container]
     IN  \/ /\ IsFull(c) /\ c.cap >= MaxArrayLen
            /\ nodes' = nd
            /\ Fail("OVERFLOW")
         \/ /\ IsFull(c) /\ c.cap < MaxArrayLen
            /\ nodes' = nd
            /\ Fail("OOM")
         \/ /\ IsFull(c) => c.cap < MaxArrayLen
            /\ nodes' = [nd EXCEPT ![Parent.container] =
                                     Added(c, EntryFor(Parent, v))]
            /\ stack' = Append(SubSeq(stack, 1, depth - 2), Resumed(Parent))
            /\ Eat(eaten)
            /\ UNCHANGED <<root, status>>

Deliver(v, nd, eaten) == DeliverRoot(v, nd, eaten) \/ DeliverChild(v, nd, eaten)

\* Change the top frame.
Rewrite(frame) == stack' = [stack EXCEPT ![depth] = frame]

\* Wait for a value in the top frame and push a VALUE frame for it.
Push(waiting) ==
  stack' = Append([stack EXCEPT ![depth] = waiting], ValueFrame)

(***************************************************************************)
(* The loop.                                                               *)
(***************************************************************************)

\* Mutant of EndOfInput: the loop goes round at the end of the input.
EndOfInputUnseen == status = "RUNNING" /\ pos > Len(input) /\ UNCHANGED vars

\* lex.pos >= lex.len before the switch.
EndOfInput ==
  /\ status = "RUNNING"
  /\ pos > Len(input)
  /\ Fail("UNEXPECTED_EOF")
  /\ UNCHANGED nodes

\* PS_VALUE: json__new_node returns NULL.
NodeRefused ==
  /\ In("VALUE")
  /\ Fail(IF NodeAllowed THEN "OOM" ELSE "NODE_LIMIT")
  /\ UNCHANGED nodes

ValueScalar ==
  /\ In("VALUE") /\ NodeAllowed
  /\ See("v") \/ See("s")
  /\ Deliver(NewId, With("scalar"), 1)

\* No memory for a string, or for the copy of a long number that strtod is to
\* read, before it can be seen to be infinite.
ValueNoMemory ==
  /\ In("VALUE") /\ NodeAllowed
  /\ input[pos] \in {"s", "v", "infinite"}
  /\ nodes' = With("scalar")
  /\ Fail("OOM")

\* The lexeme is refused once the node for it has been created.
ValueRefused ==
  /\ In("VALUE") /\ NodeAllowed
  /\ input[pos] \notin {"s", "v", "[", "{"}
  /\ nodes' = With("scalar")
  /\ Fail(RefusalOf(input[pos]))

\* Mutant of Open: the depth check is off by one.
OpenOneDeeper(l, type, inside) ==
  /\ In("VALUE") /\ NodeAllowed
  /\ See(l)
  /\ depth <= MaxDepth
  /\ inside

\* The node is created before the depth is checked, and the check is made for
\* an empty container too.
Open(l, type, inside) ==
  /\ In("VALUE") /\ NodeAllowed
  /\ See(l)
  /\ \/ /\ depth >= MaxDepth
        /\ nodes' = With(type)
        /\ Fail("DEPTH_EXCEEDED")
     \/ /\ depth < MaxDepth
        /\ inside

ValueArray ==
  LET frame == [top EXCEPT !.container = NewId, !.state = "ARR_ITEM"]
  IN  Open("[", "array",
           \/ Peek("]") /\ Deliver(NewId, With("array"), 2)
           \/ /\ ~Peek("]")
              /\ Push(frame)
              /\ nodes' = With("array")
              /\ Eat(1)
              /\ UNCHANGED <<root, status>>)

ValueObject ==
  LET frame == [top EXCEPT !.container = NewId, !.state = "OBJ_KEY"]
  IN  Open("{", "object",
           \/ Peek("}") /\ Deliver(NewId, With("object"), 2)
           \/ /\ ~Peek("}")
              /\ Rewrite(frame)
              /\ nodes' = With("object")
              /\ Eat(1)
              /\ UNCHANGED <<root, status>>)

\* PS_ARR_CONT
ArrayClose == In("ARR_CONT") /\ See("]") /\ Deliver(top.container, nodes, 1)

ArrayComma ==
  /\ In("ARR_CONT") /\ See(",")
  /\ UNCHANGED <<nodes, root, status>>
  /\ Push([top EXCEPT !.state = "ARR_ITEM"])
  /\ Eat(1)

ArrayMalformed ==
  /\ In("ARR_CONT") /\ ~See("]") /\ ~See(",")
  /\ Fail("INVALID_JSON")
  /\ UNCHANGED nodes

\* PS_OBJ_KEY
ObjectKey ==
  /\ In("OBJ_KEY") /\ See("s")
  /\ \/ /\ Rewrite([top EXCEPT !.pending_key = pos, !.state = "OBJ_COLON"])
        /\ Eat(1)
        /\ UNCHANGED <<root, status>>
     \/ Fail("OOM")
  /\ UNCHANGED nodes

ObjectKeyRefused ==
  /\ In("OBJ_KEY") /\ ~See("s")
  /\ Fail(IF input[pos] \in RefusedString THEN RefusalOf(input[pos])
                                          ELSE "INVALID_JSON")
  /\ UNCHANGED nodes

\* PS_OBJ_COLON
ObjectColon ==
  /\ In("OBJ_COLON") /\ See(":")
  /\ UNCHANGED <<nodes, root, status>>
  /\ Push([top EXCEPT !.state = "OBJ_VAL"])
  /\ Eat(1)

ObjectColonMalformed ==
  /\ In("OBJ_COLON") /\ ~See(":")
  /\ Fail("INVALID_JSON")
  /\ UNCHANGED nodes

\* PS_OBJ_CONT
ObjectClose == In("OBJ_CONT") /\ See("}") /\ Deliver(top.container, nodes, 1)

ObjectComma ==
  /\ In("OBJ_CONT") /\ See(",")
  /\ Rewrite([top EXCEPT !.state = "OBJ_KEY"])
  /\ Eat(1)
  /\ UNCHANGED <<nodes, root, status>>

ObjectMalformed ==
  /\ In("OBJ_CONT") /\ ~See("}") /\ ~See(",")
  /\ Fail("INVALID_JSON")
  /\ UNCHANGED nodes

Init ==
  /\ input \in Inputs
  /\ base \in BaseCounts
  /\ pos = 1
  /\ stack = <<ValueFrame>>
  /\ nodes = << >>
  /\ root = 0
  /\ status = "RUNNING"

Next ==
  /\ \/ EndOfInput
     \/ NodeRefused \/ ValueScalar \/ ValueNoMemory \/ ValueRefused
     \/ ValueArray \/ ValueObject
     \/ ArrayClose \/ ArrayComma \/ ArrayMalformed
     \/ ObjectKey \/ ObjectKeyRefused
     \/ ObjectColon \/ ObjectColonMalformed
     \/ ObjectClose \/ ObjectComma \/ ObjectMalformed
  /\ UNCHANGED <<input, base>>

Spec == Init /\ [][Next]_vars /\ WF_vars(Next)

(***************************************************************************)
(* Properties.                                                             *)
(***************************************************************************)

TypeOK ==
  /\ pos \in 1..(Len(input) + 1)
  /\ stack \in Seq(Frame)
  /\ nodes \in Seq(Node)
  /\ root \in 0..Len(nodes)
  /\ status \in Failure \cup {"RUNNING", "OK"}

\* ParseFrame stack[JSON_MAX_DEPTH] is never written past its end, and a
\* frame that holds a container always leaves room for the VALUE frame above
\* it: the depth checks json_parse repeats at "," and ":" cannot fire.
StackBounded ==
  /\ depth \in 1..MaxDepth
  /\ \A i \in 1..depth : stack[i].state # "VALUE" => i < MaxDepth

\* Only the top frame is active.  A frame below it waits for a value, so the
\* parent a value is delivered to is never in another state, and the branches
\* of json_parse for other parents and for a waiting top frame are dead.
FramesNested ==
  status = "RUNNING" =>
    /\ top.state \notin Waiting
    /\ \A i \in 1..(depth - 1) : stack[i].state \in Waiting

\* The entries of containers that hold node id.
Entries(id) ==
  {at \in (1..Len(nodes)) \X (1..Len(input)) :
     /\ at[2] <= Len(nodes[at[1]].items)
     /\ nodes[at[1]].items[at[2]].val = id}

\* The type of the container of a frame, if it has one.
TypeIn(state) ==
  IF state \in {"ARR_ITEM", "ARR_CONT"} THEN {"array"}
  ELSE IF state = "VALUE" THEN {} ELSE {"object"}

\* The nodes under construction, and the root when it is known.
Held == ({stack[i].container : i \in 1..depth} \cup {root}) \ {0}

\* The nodes created so far form a forest, at every turn and however the call
\* ends: a frame fills a container of its own, of the type its state says; a
\* container being filled, or the root, is in no container; every other node is
\* in exactly one, which is older.  None is lost, shared or delivered twice.  A
\* call that fails leaves at most one node to nobody, the last it created (its
\* text was refused, or it was to be an entry its parent had no room for), and
\* the root, once known, is the root of all the nodes.
NodesFormForest ==
  /\ \A i, j \in 1..depth : stack[i].container = stack[j].container
                              => i = j \/ stack[i].container = 0
  /\ \A i \in 1..depth : \A type \in TypeIn(stack[i].state) :
       nodes[stack[i].container].type = type
  /\ \A id \in 1..Len(nodes) :
       \/ /\ id \in Held
          /\ Entries(id) = {}
       \/ /\ id \notin Held
          /\ \E at \in Entries(id) : Entries(id) = {at} /\ at[1] < id
       \/ /\ id = Len(nodes) /\ id \notin Held
          /\ Entries(id) = {}
          /\ status \in Failure
  /\ root # 0 => Held = {root}
  /\ status = "OK" => root # 0

\* arena->node_count never passes JSON_MAX_NODES, and the error code says
\* which limit stopped the call: NODE_LIMIT only with every node in use,
\* DEPTH_EXCEEDED only on a container with MaxDepth - 1 containers open
\* around it, OVERFLOW only on a string or an integer beyond its limit or for
\* a container with no room for the value that is complete.  Nothing that is
\* refused was ever read past.  The capacity that json__arr_grow and
\* json__obj_grow leave covers every entry and never exceeds
\* JSON_MAX_ARRAY_LEN.
LimitsTruthful ==
  /\ base + Len(nodes) <= MaxNodes
  /\ \A n \in 1..Len(nodes) : /\ Len(nodes[n].items) <= nodes[n].cap
                              /\ nodes[n].cap <= MaxArrayLen
  /\ status = "NODE_LIMIT" => base + Len(nodes) = MaxNodes
  /\ status = "DEPTH_EXCEEDED" =>
       /\ input[pos] \in {"[", "{"}
       /\ Cardinality({i \in 1..(pos - 1) : input[i] \in {"[", "{"}})
            - Cardinality({i \in 1..(pos - 1) : input[i] \in {"]", "}"}})
          = MaxDepth - 1
  /\ status = "OVERFLOW" =>
       \/ input[pos] \in TooLarge
       \/ depth > 1 /\ Len(nodes[Parent.container].items) = MaxArrayLen
  /\ \A i \in 1..(pos - 1) : input[i] \in Accepted

\* Every turn of the loop consumes a lexeme or ends the call.
Progress == [][pos' > pos \/ status' # "RUNNING"]_vars

\* json_parse returns, on every input.
Terminates == <>(status # "RUNNING")
=============================================================================
