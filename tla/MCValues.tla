------------------------------ MODULE MCValues ------------------------------
(***************************************************************************)
(* Three parsed documents: an object with a repeated key, an object and an *)
(* array.  The caller adds nodes up to three and pushes or sets any value  *)
(* into any container, itself included, so that values are shared and      *)
(* cyclic; a clone may fill the heap to six nodes, and then finds none.    *)
(* Three levels fit into the depth limit.  The integers 4 and 5 are the    *)
(* same double: two that are adjacent beyond 2^53.                         *)
(***************************************************************************)
EXTENDS Values

Num(t, v) == [type |-> t, val |-> v, items |-> << >>]
Obj(pairs) == [type |-> "object", val |-> 0, items |-> pairs]
Arr(vs) == [type |-> "array", val |-> 0,
            items |-> [i \in DOMAIN vs |-> [key |-> 0, val |-> vs[i]]]]
Pair(k, v) == [key |-> k, val |-> v]

MCDocuments == {
  <<Obj(<<Pair(1, 2), Pair(1, 3)>>), Num("int", 4), Num("int", 5)>>,
  <<Obj(<<Pair(1, 2)>>), Num("float", 4)>>,
  <<Arr(<<2>>), Arr(<< >>)>>}
MCScalar == {[type |-> "int", val |-> 5], [type |-> "string", val |-> 1]}
MCAsDouble == [i \in 0..5 |-> IF i = 5 THEN 4 ELSE i]
=============================================================================
