----------------------------- MODULE MCIntrosort -----------------------------
(***************************************************************************)
(* Every order of up to three different keys in up to seven pairs, and     *)
(* nine pairs in orders that make the pivots bad.  The threshold is small, *)
(* so that the short ranges still split and all three algorithms meet.     *)
(***************************************************************************)
EXTENDS Introsort

Longer == {[i \in 1..9 |-> (m * i) % 10] : m \in 1..9} \cup {[i \in 1..9 |-> 0]}
MCInputs == UNION {[1..n -> 1..3] : n \in 2..7} \cup Longer
=============================================================================
