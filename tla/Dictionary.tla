----------------------------- MODULE Dictionary -----------------------------
(***************************************************************************)
(* What an object of sJson.c without duplicate keys promises: a map from   *)
(* keys to values, in which a call sets one key or nothing at all.         *)
(***************************************************************************)
CONSTANTS
  Key, Value,
  NoValue         \* not a value: the key is not set

VARIABLE dict

Init == dict = [k \in Key |-> NoValue]

Set(k, v) == dict' = [dict EXCEPT ![k] = v]

Next == \E k \in Key, v \in Value : Set(k, v)

Spec == Init /\ [][Next]_dict
=============================================================================
