------------------------------- MODULE Values -------------------------------
(***************************************************************************)
(* Values of sJson.c as graphs of nodes: what the builders (json_make_*,   *)
(* json_arr_push, json_obj_set) make of a parsed document, json_equal and  *)
(* json_clone.  Nothing stops a caller from pushing a value into several   *)
(* containers, or into itself: only depth ends the two recursions.         *)
(*                                                                         *)
(* The clone is a machine of its own, one step for every call and every    *)
(* return of json__clone, because any of its allocations may be refused    *)
(* half way.  The builders and json_equal are one step and one operator.   *)
(* Texts and numbers are small numbers, 0 the empty text; capacities are   *)
(* left to module Object.  Both arenas of a clone are one heap here.       *)
(***************************************************************************)
EXTENDS Integers, Sequences, FiniteSets

CONSTANTS
  Documents,      \* heaps json_parse has delivered, node 1 the root
  Scalar,         \* what the caller may make: records [type, val]
  Key,            \* keys the caller may set
  AsDouble,       \* (double) of every integer: not injective beyond 2^53
  MaxDepth,       \* JSON_MAX_DEPTH
  MaxArrayLen,    \* JSON_MAX_ARRAY_LEN
  MaxNodes,       \* JSON_MAX_NODES, or what fits in the arena
  MaxBuilt        \* bound: the caller changes no heap larger than this

Numeric   == {"int", "float"}
Container == {"array", "object"}
Leaf      == Numeric \cup {"string", "other"}     \* other: null and booleans

Null  == 0                                        \* NULL, and no node
Entry == [key : Nat, val : Nat]                   \* in an array the key is 0
Node  == [type : Container \cup Leaf, val : Nat, items : Seq(Entry)]

\* What json_parse delivers has a root, and every entry leads to a node.
ASSUME DocumentsAssumption ==
  \A doc \in Documents :
    /\ doc \in Seq(Node) \ {<< >>}
    /\ \A n \in DOMAIN doc : \A i \in DOMAIN doc[n].items :
         doc[n].items[i].val \in DOMAIN doc
ASSUME ScalarAssumption ==
  /\ Scalar \subseteq [type : Leaf, val : Nat]
  /\ Key \subseteq Nat
  /\ \A x \in Scalar : x.type = "int" => AsDouble[x.val] \in Nat
ASSUME BoundsAssumption ==
  /\ MaxDepth \in Nat \ {0}
  /\ MaxArrayLen \in Nat \ {0}
  /\ MaxNodes \in Nat
  /\ MaxBuilt \in Nat

VARIABLES
  heap,           \* every node of the arena, in the order of its creation
  held,           \* the values the caller was given
  calls,          \* the active calls of json__clone: records [src, out]
  cloned          \* the json_clone that has just returned, or NoClone

vars == <<heap, held, calls, cloned>>

NoClone == [src |-> Null, out |-> Null, refused |-> FALSE]
Idle    == calls = << >>

Children(n) == {heap[n].items[i].val : i \in DOMAIN heap[n].items} \ {Null}

\* What can be reached from the nodes of S.
Reach(S) ==
  LET within[k \in 0..Len(heap)] ==
        IF k = 0 THEN S
        ELSE LET near == within[k - 1]
             IN  near \cup UNION {Children(n) : n \in near}
  IN  within[Len(heap)]

(***************************************************************************)
(* json_equal                                                              *)
(***************************************************************************)

Double(node) == IF node.type = "int" THEN AsDouble[node.val] ELSE node.val

\* Mutant of Lookup: pairs are compared in the order they are stored.
LookupFirst(obj, k) == IF obj.items = << >> THEN Null ELSE obj.items[1].val

\* json_obj_get_n: the first pair with the key, or Null.
Lookup(obj, k) ==
  LET having == {i \in DOMAIN obj.items : obj.items[i].key = k}
  IN  IF having = {} THEN Null
      ELSE obj.items[CHOOSE i \in having : \A j \in having : i <= j].val

\* json__equal, with its depth.
Equal(a, b) ==
  LET eq[d \in 0..MaxDepth, x \in 0..Len(heap), y \in 0..Len(heap)] ==
        \/ x = y
        \/ /\ d < MaxDepth
           /\ x # Null /\ y # Null
           /\ LET p == heap[x]
                  q == heap[y]
              IN  \/ /\ p.type # q.type
                     /\ {p.type, q.type} \subseteq Numeric
                     /\ Double(p) = Double(q)
                  \/ /\ p.type = q.type
                     /\ p.type \in Leaf
                     /\ p.val = q.val
                  \/ /\ p.type = q.type
                     /\ p.type = "array"
                     /\ Len(p.items) = Len(q.items)
                     /\ \A i \in DOMAIN p.items :
                          eq[d + 1, p.items[i].val, q.items[i].val]
                  \/ /\ p.type = q.type
                     /\ p.type = "object"
                     /\ Len(p.items) = Len(q.items)
                     /\ \A i \in DOMAIN p.items :
                          LET other == Lookup(q, p.items[i].key)
                          IN  /\ other # Null
                              /\ eq[d + 1, p.items[i].val, other]
  IN  eq[0, a, b]

(***************************************************************************)
(* The builders.                                                           *)
(***************************************************************************)

Fresh == Len(heap) + 1

MayMake   == Idle /\ Len(heap) < MaxBuilt
MayChange == Idle /\ Len(heap) <= MaxBuilt

\* json_make_null, _bool, _int, _float and _string
MakeScalar(x) ==
  /\ MayMake
  /\ heap' = Append(heap, [type |-> x.type, val |-> x.val, items |-> << >>])
  /\ held' = held \cup {Fresh}
  /\ cloned' = NoClone
  /\ UNCHANGED calls

\* json_make_array, json_make_object
MakeContainer(type) ==
  /\ MayMake
  /\ heap' = Append(heap, [type |-> type, val |-> 0, items |-> << >>])
  /\ held' = held \cup {Fresh}
  /\ cloned' = NoClone
  /\ UNCHANGED calls

\* json_make_string: the node is there, its text is refused.  The node stays
\* in the arena, zeroed, and nobody has it.
MakeStringFails ==
  /\ MayMake
  /\ heap' = Append(heap, [type |-> "other", val |-> 0, items |-> << >>])
  /\ cloned' = NoClone
  /\ UNCHANGED <<held, calls>>

\* json_arr_push.  A refused growth changes nothing.
Push(arr, item) ==
  /\ MayChange
  /\ heap[arr].type = "array"
  /\ Len(heap[arr].items) < MaxArrayLen
  /\ heap' = [heap EXCEPT ![arr].items = Append(@, [key |-> 0, val |-> item])]
  /\ cloned' = NoClone
  /\ UNCHANGED <<held, calls>>

\* json_obj_set: the first pair with the key gets the value, or a new pair is
\* appended.
Set(obj, k, item) ==
  /\ MayChange
  /\ heap[obj].type = "object"
  /\ LET having == {i \in DOMAIN heap[obj].items : heap[obj].items[i].key = k}
     IN  \/ /\ having = {}
            /\ Len(heap[obj].items) < MaxArrayLen
            /\ heap' = [heap EXCEPT ![obj].items =
                          Append(@, [key |-> k, val |-> item])]
         \/ \E i \in having :
              /\ \A j \in having : i <= j
              /\ heap' = [heap EXCEPT ![obj].items[i].val = item]
  /\ cloned' = NoClone
  /\ UNCHANGED <<held, calls>>

(***************************************************************************)
(* json_clone                                                              *)
(***************************************************************************)

Top == calls[Len(calls)]

\* Mutant of Copied: the array of children is copied as it is.
CopiedShallow(node) == node

\* The node json__clone makes: as many entries as the source, none set yet.
Copied(node) ==
  [node EXCEPT !.items = [i \in DOMAIN node.items |-> [key |-> 0, val |-> Null]]]

\* Whether anything besides the node must be allocated: text, or entries.
NeedsMemory(node) == \/ node.type = "string" /\ node.val # 0
                     \/ node.items # << >>

Original(n) == IF Idle THEN n ELSE calls[1].src

\* Mutant of ReturnNull: what has been built so far is handed out.
ReturnPartial(n, refused) ==
  LET out == IF Idle THEN Null ELSE calls[1].out
  IN  /\ calls' = << >>
      /\ held' = held \cup ({out} \ {Null})
      /\ cloned' = [src |-> Original(n), out |-> out, refused |-> refused]

\* A call returns NULL, and so do all the calls below it.
ReturnNull(n, refused) ==
  /\ calls' = << >>
  /\ cloned' = [src |-> Original(n), out |-> Null, refused |-> refused]
  /\ UNCHANGED held

\* Whether the call about to begin has gone too deep.
TooDeep == Len(calls) >= MaxDepth

\* json__clone is called for n: by the caller, or for a child.
EnterTooDeep(n) ==
  /\ TooDeep
  /\ ReturnNull(n, FALSE)
  /\ UNCHANGED heap

EnterWithoutNode(n) ==
  /\ ~TooDeep
  /\ ReturnNull(n, TRUE)
  /\ UNCHANGED heap

EnterWithoutMemory(n) ==
  /\ ~TooDeep
  /\ Len(heap) < MaxNodes
  /\ NeedsMemory(heap[n])
  /\ heap' = Append(heap, Copied(heap[n]))
  /\ ReturnNull(n, TRUE)

EnterCopies(n) ==
  /\ ~TooDeep
  /\ Len(heap) < MaxNodes
  /\ heap' = Append(heap, Copied(heap[n]))
  /\ calls' = Append(calls, [src |-> n, out |-> Fresh])
  /\ cloned' = NoClone
  /\ UNCHANGED held

Enter(n) == \/ EnterTooDeep(n)
            \/ EnterWithoutNode(n)
            \/ EnterWithoutMemory(n)
            \/ EnterCopies(n)

\* The entries of the top call that still have no child.
Missing == {i \in DOMAIN heap[Top.out].items : heap[Top.out].items[i].val = Null}
NextItem   == CHOOSE i \in Missing : \A j \in Missing : i <= j

Clone(n) == Idle /\ Enter(n)

CloneChild ==
  /\ ~Idle
  /\ Missing # {}
  /\ Enter(heap[Top.src].items[NextItem].val)

\* The key of the next pair finds no memory.
CloneKeyFails ==
  /\ ~Idle
  /\ Missing # {}
  /\ heap[Top.src].items[NextItem].key # 0
  /\ ReturnNull(Top.src, TRUE)
  /\ UNCHANGED heap

\* The top call returns its node to the call below, or to the caller.
CloneReturn ==
  /\ ~Idle
  /\ Missing = {}
  /\ calls' = SubSeq(calls, 1, Len(calls) - 1)
  /\ \/ /\ Len(calls) = 1
        /\ held' = held \cup {Top.out}
        /\ cloned' = [src |-> Top.src, out |-> Top.out, refused |-> FALSE]
        /\ UNCHANGED heap
     \/ /\ Len(calls) > 1
        /\ LET below == calls[Len(calls) - 1]
               todo  == {i \in DOMAIN heap[below.out].items :
                           heap[below.out].items[i].val = Null}
               i     == CHOOSE j \in todo : \A k \in todo : j <= k
           IN  heap' = [heap EXCEPT ![below.out].items[i] =
                          [key |-> heap[below.src].items[i].key,
                           val |-> Top.out]]
        /\ UNCHANGED <<held, cloned>>

\* json_arena_reset and json_parse: every value is gone, another document is
\* there.
Reset ==
  /\ Idle
  /\ heap' \in Documents
  /\ held' = {1}
  /\ cloned' = NoClone
  /\ UNCHANGED calls

Init ==
  /\ heap \in Documents
  /\ held = {1}
  /\ calls = << >>
  /\ cloned = NoClone

Next ==
  \/ \E x \in Scalar : MakeScalar(x)
  \/ \E type \in Container : MakeContainer(type)
  \/ MakeStringFails
  \/ \E arr, item \in Reach(held) : Push(arr, item)
  \/ \E obj, item \in Reach(held), k \in Key : Set(obj, k, item)
  \/ \E n \in Reach(held) : Clone(n)
  \/ CloneChild
  \/ CloneKeyFails
  \/ CloneReturn
  \/ Reset

Spec == Init /\ [][Next]_vars

(***************************************************************************)
(* What a value is, whatever nodes it is made of.                          *)
(***************************************************************************)

\* A value json__equal and json__clone can follow to its end.
Shallow(n) ==
  LET fits[d \in 0..MaxDepth, m \in 1..Len(heap)] ==
        d < MaxDepth /\ \A c \in Children(m) : fits[d + 1, c]
  IN  fits[0, n]

UniqueKeys(n) ==
  \A m \in Reach({n}) :
    heap[m].type = "object" =>
      \A i, j \in DOMAIN heap[m].items :
        heap[m].items[i].key = heap[m].items[j].key => i = j

Exact(n) == \A m \in Reach({n}) :
              heap[m].type = "int" => AsDouble[heap[m].val] = heap[m].val

\* The value itself: numbers by what they count, objects by their keys.
Meaning(n) ==
  LET means[d \in 0..MaxDepth, m \in 1..Len(heap)] ==
        LET node == heap[m]
            item(i) == means[d + 1, node.items[i].val]
        IN  IF node.type \in Numeric THEN <<"number", node.val>>
            ELSE IF node.type \in Leaf THEN <<node.type, node.val>>
            ELSE IF node.type = "array"
              THEN <<"array", [i \in DOMAIN node.items |-> item(i)]>>
            ELSE <<"object",
                   [k \in {node.items[i].key : i \in DOMAIN node.items} |->
                      means[d + 1, Lookup(node, k)]]>>
  IN  means[0, n]

\* The value as it is stored: types, the order of pairs, repeated keys.
Stored(n) ==
  LET at[d \in 0..MaxDepth, m \in 1..Len(heap)] ==
        LET node == heap[m]
        IN  <<node.type, node.val,
              [i \in DOMAIN node.items |->
                 <<node.items[i].key, at[d + 1, node.items[i].val]>>]>>
  IN  at[0, n]

(***************************************************************************)
(* Properties.                                                             *)
(***************************************************************************)

\* json_equal is equality of values: whether two values are built of the same
\* nodes, share parts or list their keys in another order makes no difference,
\* and it answers the same both ways round.  With integers a double cannot
\* hold it only errs towards equal.  (Without unique keys it is not symmetric:
\* {"a":1,"a":1} finds both its pairs in {"a":1,"b":2}.)
EqualIsSameValue ==
  Idle => LET fit == {n \in Reach(held) : Shallow(n) /\ UniqueKeys(n)}
          IN  \A a, b \in fit :
                /\ Equal(a, b) = Equal(b, a)
                /\ Meaning(a) = Meaning(b) => Equal(a, b)
                /\ (Equal(a, b) /\ Exact(a) /\ Exact(b)) =>
                     Meaning(a) = Meaning(b)

\* What a clone returns and its source have no node in common.
CloneSharesNothing ==
  cloned.out # Null =>
    Reach({cloned.out}) \cap Reach({cloned.src}) = {}

\* json_clone copies deeply: what it returns is stored the same way, repeated
\* keys and all, and has no node in common with its source, shared or cyclic
\* as that may be.  It fails only when memory is refused or the value is too
\* deep.
CloneIsDeepCopy ==
  /\ CloneSharesNothing
  /\ cloned # NoClone =>
       IF cloned.out = Null
         THEN cloned.refused \/ ~Shallow(cloned.src)
         ELSE /\ Shallow(cloned.src) /\ Shallow(cloned.out)
              /\ Stored(cloned.out) = Stored(cloned.src)

\* A clone that fails half way, and a string whose text is refused, leave
\* nodes behind whose entries were never written.  No value the caller has
\* leads to one of them, whatever is built or cloned afterwards.
GarbageUnreachable ==
  \A n \in Reach(held) :
    \A i \in DOMAIN heap[n].items : heap[n].items[i].val # Null
=============================================================================
