------------------------------ MODULE Introsort ------------------------------
(***************************************************************************)
(* json__introsort of sJson.c, which sorts the index of an object by key:  *)
(* quicksort that recurses into the smaller part, insertion sort for short *)
(* ranges and heapsort when it has recursed too often.                     *)
(*                                                                         *)
(* stack holds the activations of json__introsort, each with the range and *)
(* the depth its loop has come to; a step is one turn of that loop.        *)
(***************************************************************************)
EXTENDS Totals

CONSTANTS
  Inputs,         \* sequences of at least two keys
  Threshold       \* JSON_INTROSORT_THRESH

ASSUME InputsAssumption == \A s \in Inputs : s \in Seq(Int) /\ Len(s) > 1
ASSUME ThresholdAssumption == Threshold \in Nat \ {0, 1}

VARIABLES
  key,            \* the key of pair 0, 1, ..
  arr,            \* the index that is sorted
  stack           \* records [lo, hi, depth]

vars == <<key, arr, stack>>

Count == Len(key)
Pairs == 0..(Count - 1)

\* json__ilog2
ILog2[n \in Nat] == IF n <= 1 THEN 0 ELSE 1 + ILog2[n \div 2]

Swap(a, i, j) == [a EXCEPT ![i] = a[j], ![j] = a[i]]

\* json__key_cmp of two pairs is negative.
Less(a, b) == key[a + 1] < key[b + 1]

(***************************************************************************)
(* json__isort                                                             *)
(***************************************************************************)

\* Where the while loop stops that shifts what is greater than a[i].
Slot(a, lo, i) ==
  CHOOSE p \in lo..i : /\ \A m \in p..(i - 1) : Less(a[i], a[m])
                       /\ p = lo \/ ~Less(a[i], a[p - 1])

\* a[i] in its place above lo.
Inserted(a, lo, i) ==
  LET p == Slot(a, lo, i)
  IN  [m \in Pairs |-> IF m = p THEN a[i]
                       ELSE IF m \in (p + 1)..i THEN a[m - 1] ELSE a[m]]

ISort(a, lo, hi) ==
  LET after[k \in 0..(hi - lo)] ==
        IF k = 0 THEN a ELSE Inserted(after[k - 1], lo, lo + k)
  IN  after[hi - lo]

(***************************************************************************)
(* json__heapsort; positions in the heap count from lo.                    *)
(***************************************************************************)

\* One turn of json__sift_down, of the entry that has come to h.at.
Sift(h, lo, end) ==
  LET a     == h.arr
      left  == 2 * h.at + 1
      child == IF left + 1 <= end /\ Less(a[lo + left], a[lo + left + 1])
                 THEN left + 1 ELSE left
  IN  IF left > end \/ ~Less(a[lo + h.at], a[lo + child]) THEN h
      ELSE [arr |-> Swap(a, lo + h.at, lo + child), at |-> child]

\* As many turns as the heap has levels below its root: then nothing moves.
SiftDown(a, lo, root, end) ==
  LET after[k \in 0..ILog2[end + 1]] ==
        IF k = 0 THEN [arr |-> a, at |-> root] ELSE Sift(after[k - 1], lo, end)
  IN  after[ILog2[end + 1]].arr

Heapify(a, lo, n) ==
  LET after[k \in 0..(n \div 2)] ==
        IF k = 0 THEN a
                 ELSE SiftDown(after[k - 1], lo, (n \div 2) - k, n - 1)
  IN  after[n \div 2]

\* The greatest goes to the end, n - 1 times.
Extract(a, lo, n) ==
  LET after[k \in 0..(n - 1)] ==
        IF k = 0 THEN a
                 ELSE SiftDown(Swap(after[k - 1], lo, lo + n - k), lo, 0,
                               n - k - 1)
  IN  after[n - 1]

\* Mutant of HeapSort: the heap is not built.
HeapSortUnbuilt(a, lo, hi) == Extract(a, lo, hi - lo + 1)

HeapSort(a, lo, hi) ==
  LET n == hi - lo + 1
  IN  Extract(Heapify(a, lo, n), lo, n)

(***************************************************************************)
(* The partition of json__introsort.                                       *)
(***************************************************************************)

SwapIfLess(a, i, j) == IF Less(a[j], a[i]) THEN Swap(a, i, j) ELSE a

\* The median of three in the middle, then at hi - 1.
WithPivot(a, lo, hi) ==
  LET mid == lo + (hi - lo + 1) \div 2
      m1  == SwapIfLess(a, lo, mid)
      m2  == SwapIfLess(m1, lo, hi)
      m3  == SwapIfLess(m2, mid, hi)
  IN  Swap(m3, mid, hi - 1)

\* Where the scans stop: at a key on the wrong side, or at the end of the range.
ScanUp(a, i, hi, pivot) ==
  CHOOSE k \in (i + 1)..hi :
    /\ ~Less(a[k], pivot) \/ k = hi
    /\ \A m \in (i + 1)..(k - 1) : Less(a[m], pivot)
ScanDown(a, j, lo, pivot) ==
  CHOOSE k \in lo..(j - 1) :
    /\ ~Less(pivot, a[k]) \/ k = lo
    /\ \A m \in (k + 1)..(j - 1) : Less(pivot, a[m])

\* One turn of the for loop, unless the scans have met.
Exchange(s, lo, hi) ==
  LET pivot == s.arr[hi - 1]
      up    == ScanUp(s.arr, s.i, hi, pivot)
      down  == ScanDown(s.arr, s.j, lo, pivot)
  IN  IF s.i >= s.j THEN s
      ELSE [arr |-> IF up < down THEN Swap(s.arr, up, down) ELSE s.arr,
            i |-> up, j |-> down]

\* The array and the pivot's place once the scans have met.
Partition(a, lo, hi) ==
  LET after[k \in 0..(hi - lo)] ==
        IF k = 0 THEN [arr |-> a, i |-> lo, j |-> hi - 1]
                 ELSE Exchange(after[k - 1], lo, hi)
      met == after[hi - lo]
  IN  [arr |-> Swap(met.arr, met.i, hi - 1), at |-> met.i]

(***************************************************************************)
(* The loop of json__introsort.                                            *)
(***************************************************************************)

Depth == Len(stack)
top   == stack[Depth]
Span  == top.hi - top.lo + 1
Pop   == SubSeq(stack, 1, Depth - 1)

Activation(lo, hi, depth) == [lo |-> lo, hi |-> hi, depth |-> depth]

Exit ==
  /\ stack # << >>
  /\ top.lo >= top.hi
  /\ stack' = Pop
  /\ UNCHANGED <<key, arr>>

Leaf ==
  /\ stack # << >>
  /\ top.lo < top.hi
  /\ Span <= Threshold
  /\ arr' = ISort(arr, top.lo, top.hi)
  /\ stack' = Pop
  /\ UNCHANGED key

DepthExceeded ==
  /\ stack # << >>
  /\ Span > Threshold
  /\ top.depth = 0
  /\ arr' = HeapSort(arr, top.lo, top.hi)
  /\ stack' = Pop
  /\ UNCHANGED key

\* Mutants of Split: it recurses into the left part, or keeps the pivot.
SplitLeft ==
  /\ stack # << >>
  /\ Span > Threshold
  /\ top.depth > 0
  /\ LET p == Partition(WithPivot(arr, top.lo, top.hi), top.lo, top.hi)
     IN  /\ arr' = p.arr
         /\ stack' = Pop \o <<Activation(p.at + 1, top.hi, top.depth - 1),
                              Activation(top.lo, p.at - 1, top.depth - 1)>>
  /\ UNCHANGED key
SplitAtPivot ==
  /\ stack # << >>
  /\ Span > Threshold
  /\ top.depth > 0
  /\ LET p == Partition(WithPivot(arr, top.lo, top.hi), top.lo, top.hi)
     IN  /\ arr' = p.arr
         /\ stack' = Pop \o <<Activation(top.lo, p.at - 1, top.depth - 1),
                              Activation(p.at, top.hi, top.depth - 1)>>
  /\ UNCHANGED key

\* Recurses into the smaller part; this activation goes on with the larger.
Split ==
  /\ stack # << >>
  /\ Span > Threshold
  /\ top.depth > 0
  /\ LET p     == Partition(WithPivot(arr, top.lo, top.hi), top.lo, top.hi)
         left  == Activation(top.lo, p.at - 1, top.depth - 1)
         right == Activation(p.at + 1, top.hi, top.depth - 1)
     IN  /\ arr' = p.arr
         /\ stack' = Pop \o (IF p.at - top.lo < top.hi - p.at
                               THEN <<right, left>> ELSE <<left, right>>)
  /\ UNCHANGED key

\* json__obj_sort begins with twice the logarithm as its depth; a range inside
\* an object begins with whatever is left of that.
Init ==
  /\ key \in Inputs
  /\ arr = [i \in Pairs |-> i]
  /\ \E depth \in 0..(2 * ILog2[Count]) : stack = <<Activation(0, Count - 1, depth)>>

Next == Exit \/ Leaf \/ DepthExceeded \/ Split

Spec == Init /\ [][Next]_vars

(***************************************************************************)
(* Properties.                                                             *)
(***************************************************************************)

\* When json__introsort has returned the index lists every pair once, in the
\* order of their keys, equal ones too, whichever algorithms sorted which ranges.
SortsByKey ==
  stack = << >> =>
    /\ {arr[i] : i \in Pairs} = Pairs
    /\ \A i \in 0..(Count - 2) : ~Less(arr[i + 1], arr[i])

\* The C stack stays logarithmic in the number of pairs, because the
\* activation that recurses goes on with the larger part.
RecursionLogarithmic == Depth <= 1 + ILog2[Count]

\* json__introsort returns: every turn of its loop, in whatever activation,
\* leaves less to do.  A split is paid for by the pivot, which it has placed.
ToDo == Total([i \in 1..Depth |-> 2 * (stack[i].hi - stack[i].lo + 1) + 1])
EveryTurnShrinks == [][ToDo' < ToDo]_vars
=============================================================================
