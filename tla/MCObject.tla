------------------------------ MODULE MCObject ------------------------------
(***************************************************************************)
(* Four keys under two hashes, of which keys 1 and 4 and keys 2 and 3      *)
(* collide; the object grows from 0 to 1, 2 and 4 pairs.                   *)
(***************************************************************************)
EXTENDS Object

MCKey  == 1..4
MCHash == [k \in MCKey |-> IF k \in {1, 4} THEN 2 ELSE 1]
=============================================================================
