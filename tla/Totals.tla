------------------------------- MODULE Totals -------------------------------
(***************************************************************************)
(* Sums, as recursive functions so that they can be proved about.          *)
(***************************************************************************)
EXTENDS Integers, Sequences

\* The sum of a sequence of numbers.
Total(s) ==
  LET sum[k \in 0..Len(s)] == IF k = 0 THEN 0 ELSE sum[k - 1] + s[k]
  IN  sum[Len(s)]
=============================================================================
