------------------------------ MODULE MCWriter ------------------------------
(***************************************************************************)
(* Values of every type: an object with keys out of order and a key twice, *)
(* nested containers up to and past the depth limit, and an array that     *)
(* contains itself.  Buffers of every size around what the texts need.     *)
(***************************************************************************)
EXTENDS WriterCorrect

Scalar(type, size) == [type |-> type, size |-> size, items |-> << >>]
Array(ids) == [type |-> "array", size |-> 0,
               items |-> [i \in 1..Len(ids) |-> [key |-> 0, val |-> ids[i]]]]
Object(pairs) == [type |-> "object", size |-> 0,
                  items |-> [i \in 1..Len(pairs) |->
                               [key |-> pairs[i][1], val |-> pairs[i][2]]]]

MCValues == <<
  Scalar(Literal, 4),                               \* 1  true
  Scalar("int", 2),                                 \* 2  42
  Scalar("string", 3),                              \* 3  "abc"
  Array(<< >>),                                     \* 4  []
  Array(<<2, 3, 4>>),                               \* 5
  Object(<< <<2, 1>>, <<1, 2>>, <<2, 3>> >>),       \* 6  keys out of order, twice
  Object(<< <<1, 5>> >>),                           \* 7  nests to the limit
  Array(<<7>>),                                     \* 8  past it
  Array(<<9, 1>>),                                  \* 9  contains itself
  Object(<< >>),                                    \* 10 {}
  Array(<<2, 1>>),                                  \* 11 no string in it
  Scalar(Literal, 20),                              \* 12 a float
  Object(<< <<2, 12>>, <<1, 1>> >>),                \* 13 no string, out of order
  Scalar("zero", 1),                                \* 14 0
  Array(<<14, 1, 14>>)>>                            \* 15
MCKeyLength == <<0, 2>>
MCRoots == {2, 3, 5, 6, 7, 8, 9, 10, 11, 13, 14, 15}
MCOptions == [pretty : BOOLEAN, indent : {2, 20, 70}, sort_keys : BOOLEAN,
              trailing_nl : {TRUE}]
                \cup [pretty : {FALSE}, indent : {2}, sort_keys : {TRUE},
                      trailing_nl : {FALSE}]
MCCapacities == 0..30 \cup {60, 63}
=============================================================================
