---------------------------- MODULE ObjectProofs ----------------------------
(***************************************************************************)
(* Proofs about Object, for every set of keys, every hash and every limit. *)
(*                                                                         *)
(* The invariant keeps the index a sorted permutation of the pairs while   *)
(* is_sorted stands.  From it alone the binary search of json_obj_get is   *)
(* shown to end at a pair with the key asked for, or to end nowhere when   *)
(* there is none: first that its recursion is well defined, then what it   *)
(* answers, both by induction over the width of the range.                 *)
(***************************************************************************)
EXTENDS Object, Induction, FiniteSetTheorems

USE DEF len

KeyAt(i) == pairs[i].key

ObjectTypes ==
  /\ pairs \in Seq(Pair)
  /\ cap \in Nat /\ idx_cap \in Nat

\* The inductive invariant.
ObjectInv ==
  /\ ObjectTypes
  /\ len <= cap /\ cap <= MaxArrayLen
  /\ idx_cap \in {0, cap}
  /\ parsing => ~is_sorted
  /\ is_sorted => /\ idx_cap > 0
                  /\ sorted_idx \in SortedIndexes
  /\ ~repeats => \A i, j \in 1..len : KeyAt(i) = KeyAt(j) => i = j

LEMMA PairFields ==
  ASSUME NEW s \in Seq(Pair), NEW i \in 1..Len(s)
  PROVE  s[i] \in Pair /\ s[i].key \in Key /\ s[i].val \in Value
<1>1. s[i] \in Pair
  OBVIOUS
<1> QED BY <1>1 DEF Pair

\* json__key_cmp orders keys totally.
LEMMA BeforeTotal ==
  ASSUME NEW a \in Key, NEW b \in Key, NEW c \in Key
  PROVE  /\ ~Before(a, a)
         /\ a # b => Before(a, b) \/ Before(b, a)
         /\ ~Before(b, a) /\ ~Before(c, b) => ~Before(c, a)
<1>1. /\ Hash[a] \in Nat /\ Hash[b] \in Nat /\ Hash[c] \in Nat
      /\ a \in Nat /\ b \in Nat /\ c \in Nat
  BY KeyAssumption
<1> QED BY <1>1 DEF Before

(***************************************************************************)
(* json__obj_grow.                                                         *)
(***************************************************************************)

LEMMA GrowRoom ==
  ASSUME cap \in Nat, cap < MaxArrayLen
  PROVE  GrownCap \in Nat /\ cap < GrownCap /\ GrownCap <= MaxArrayLen
BY LimitsAssumption DEF GrownCap

\* Whatever happens to the pairs, a growth leaves a valid object without an
\* index: room for one more pair than the old capacity had.
LEMMA GrowInv ==
  ASSUME ObjectTypes, Grow
  PROVE  /\ cap' \in Nat /\ idx_cap' \in Nat
         /\ cap + 1 <= cap' /\ cap' <= MaxArrayLen
         /\ idx_cap' = 0 /\ ~is_sorted'
<1>1. /\ cap \in Nat /\ cap < MaxArrayLen /\ cap' = GrownCap
      /\ idx_cap' = 0 /\ ~is_sorted'
  BY DEF Grow, ObjectTypes
<1>2. GrownCap \in Nat /\ cap < GrownCap /\ GrownCap <= MaxArrayLen
  BY <1>1, GrowRoom
<1> QED BY <1>1, <1>2

LEMMA MatchingEmpty ==
  ASSUME NEW k, Matching(k) = {}
  PROVE  \A i \in 1..len : KeyAt(i) # k
BY DEF Matching, KeyAt

\* A pair with a key is appended, by json_parse or by json_obj_set.
LEMMA AppendInv ==
  ASSUME ObjectInv, NEW k \in Key, NEW v \in Value,
         NEW sorted, MakeRoom(sorted), ~sorted,
         repeats \/ Matching(k) = {},
         pairs' = Append(pairs, [key |-> k, val |-> v]),
         repeats' = repeats, parsing' = parsing
  PROVE  ObjectInv'
<1> DEFINE new == [key |-> k, val |-> v]
<1>1. new \in Pair /\ new.key = k
  BY DEF Pair
<1> HIDE DEF new
<1>2. pairs \in Seq(Pair) /\ len \in Nat /\ cap \in Nat /\ len <= cap
  BY DEF ObjectInv, ObjectTypes
<1>3. /\ pairs' \in Seq(Pair)
      /\ Len(pairs') = len + 1
      /\ pairs'[len + 1] = new
      /\ \A i \in 1..len : pairs'[i] = pairs[i]
  BY <1>1, <1>2 DEF new
<1>4. ~repeats' => \A i, j \in 1..Len(pairs') :
                     pairs'[i].key = pairs'[j].key => i = j
  <2> SUFFICES ASSUME ~repeats, NEW i \in 1..(len + 1), NEW j \in 1..(len + 1),
                      pairs'[i].key = pairs'[j].key
               PROVE  i = j
    BY <1>3
  <2>1. \A m \in 1..len : pairs[m].key # k
    BY MatchingEmpty DEF KeyAt
  <2>2. \A m, n \in 1..len : pairs[m].key = pairs[n].key => m = n
    BY DEF ObjectInv, KeyAt
  <2>3. \A m \in 1..(len + 1) : m \in 1..len \/ m = len + 1
    BY <1>2
  <2>4. pairs'[len + 1].key = k
    BY <1>1, <1>3
  <2>5. \A m \in 1..len : pairs'[m].key = pairs[m].key
    BY <1>3
  <2> QED BY <2>1, <2>2, <2>3, <2>4, <2>5
<1>5. /\ cap' \in Nat /\ idx_cap' \in Nat
      /\ len + 1 <= cap' /\ cap' <= MaxArrayLen
      /\ idx_cap' \in {0, cap'}
      /\ ~is_sorted'
  <2>1. CASE IsFull /\ Grow
    BY <1>2, <2>1, GrowInv DEF ObjectInv
  <2>2. CASE /\ ~IsFull /\ ~is_sorted'
             /\ cap' = cap /\ idx_cap' = idx_cap
    BY <1>2, <2>2 DEF IsFull, ObjectInv, ObjectTypes
  <2> QED BY <2>1, <2>2 DEF MakeRoom
<1> QED BY <1>3, <1>4, <1>5 DEF ObjectInv, ObjectTypes, KeyAt

(***************************************************************************)
(* The invariant.                                                          *)
(***************************************************************************)

\* The scan finds the first pair with the key when there is one.
LEMMA LinearSearchFinds ==
  ASSUME NEW k, Matching(k) # {}
  PROVE  LinearSearch(k) \in Matching(k)
<1>1. Matching(k) \subseteq Nat
  BY DEF Matching
<1>2. \E i \in Matching(k) : \A j \in Matching(k) : i <= j
  BY <1>1, Least
<1> QED BY <1>2 DEF LinearSearch

\* What json_obj_set does to the pairs when the object has the key.
LEMMA SetExistingFields ==
  ASSUME ObjectInv, NEW k \in Key, NEW v \in Value, SetExisting(k, v)
  PROVE  /\ LinearSearch(k) \in 1..len /\ KeyAt(LinearSearch(k)) = k
         /\ pairs' \in Seq(Pair)
         /\ Len(pairs') = len
         /\ \A i \in 1..len : /\ pairs'[i].key = pairs[i].key
                              /\ i # LinearSearch(k) => pairs'[i] = pairs[i]
         /\ pairs'[LinearSearch(k)].val = v
<1>1. LinearSearch(k) \in Matching(k)
  BY LinearSearchFinds DEF SetExisting
<1>2. PICK p \in 1..len : p = LinearSearch(k) /\ pairs[p].key = k
  BY <1>1 DEF Matching
<1>3. pairs \in Seq(Pair) /\ pairs[p] \in Pair
  BY <1>2, PairFields DEF ObjectInv, ObjectTypes
<1>4. pairs' = [pairs EXCEPT ![p] = [pairs[p] EXCEPT !.val = v]]
  BY <1>2 DEF SetExisting
<1>5. /\ [pairs[p] EXCEPT !.val = v] \in Pair
      /\ [pairs[p] EXCEPT !.val = v].key = pairs[p].key
      /\ [pairs[p] EXCEPT !.val = v].val = v
  BY <1>3 DEF Pair
<1>6. /\ pairs' \in Seq(Pair)
      /\ Len(pairs') = len
      /\ \A i \in 1..len :
           pairs'[i] = IF i = p THEN [pairs[p] EXCEPT !.val = v] ELSE pairs[i]
  BY <1>2, <1>3, <1>4, <1>5
<1> QED BY <1>2, <1>5, <1>6 DEF KeyAt

LEMMA ObjectInvInit == Init => ObjectInv
<1> SUFFICES ASSUME Init PROVE ObjectInv
  OBVIOUS
<1>1. /\ pairs = << >> /\ cap = 0 /\ idx_cap = 0 /\ ~is_sorted
  BY DEF Init
<1>2. pairs \in Seq(Pair) /\ len = 0
  BY <1>1
<1> QED BY <1>1, <1>2, LimitsAssumption DEF ObjectInv, ObjectTypes

LEMMA ObjectInvNext == ObjectInv /\ [Next]_vars => ObjectInv'
<1> SUFFICES ASSUME ObjectInv, [Next]_vars PROVE ObjectInv'
  OBVIOUS
<1>0. /\ pairs \in Seq(Pair) /\ len \in Nat
      /\ cap \in Nat /\ idx_cap \in Nat
  BY DEF ObjectInv, ObjectTypes
<1>1. ASSUME NEW k \in Key, NEW v \in Value, Deliver(k, v) PROVE ObjectInv'
  <2>1. parsing /\ ~is_sorted
    BY <1>1 DEF Deliver, ObjectInv
  <2> QED BY <1>1, <2>1, AppendInv DEF Deliver
<1>2. CASE Parsed
  BY <1>2 DEF Parsed, ObjectInv, ObjectTypes, KeyAt, SortedIndexes
<1>3. ASSUME NEW k \in Key, NEW v \in Value, SetExisting(k, v) PROVE ObjectInv'
  <2>1. /\ pairs' \in Seq(Pair)
        /\ Len(pairs') = len
        /\ \A i \in 1..len : pairs'[i].key = pairs[i].key
    BY <1>3, SetExistingFields
  <2>2. /\ repeats' = repeats /\ parsing' = parsing /\ cap' = cap
        /\ idx_cap' = idx_cap /\ sorted_idx' = sorted_idx /\ is_sorted' = is_sorted
    BY <1>3 DEF SetExisting
  <2>3. ASSUME sorted_idx \in SortedIndexes PROVE sorted_idx' \in SortedIndexes'
    <3>1. /\ sorted_idx \in [1..len -> 1..len]
          /\ \A i, j \in 1..len : i # j => sorted_idx[i] # sorted_idx[j]
          /\ \A i \in 1..(len - 1) :
               ~Before(pairs[sorted_idx[i + 1]].key, pairs[sorted_idx[i]].key)
      BY <2>3 DEF SortedIndexes
    <3>2. ASSUME NEW i \in 1..(len - 1)
          PROVE  sorted_idx[i] \in 1..len /\ sorted_idx[i + 1] \in 1..len
      <4>1. i \in 1..len /\ i + 1 \in 1..len
        BY <1>0
      <4> QED BY <3>1, <4>1
    <3>3. \A i \in 1..(len - 1) :
            ~Before(pairs'[sorted_idx[i + 1]].key, pairs'[sorted_idx[i]].key)
      BY <2>1, <3>1, <3>2
    <3> QED BY <2>1, <2>2, <3>1, <3>3 DEF SortedIndexes
  <2>4. ~repeats => \A i, j \in 1..len : pairs'[i].key = pairs'[j].key => i = j
    BY <2>1 DEF ObjectInv, KeyAt
  <2> QED BY <1>0, <2>1, <2>2, <2>3, <2>4 DEF ObjectInv, ObjectTypes, KeyAt
<1>4. ASSUME NEW k \in Key, NEW v \in Value, SetNew(k, v) PROVE ObjectInv'
  BY <1>4, AppendInv DEF SetNew
<1>5. ASSUME NEW k \in Key, SetNewFails(k) PROVE ObjectInv'
  <2>1. Grow /\ repeats' = repeats /\ parsing' = parsing /\ pairs' = pairs
    BY <1>5 DEF SetNewFails
  <2>2. /\ cap' \in Nat /\ idx_cap' \in Nat
        /\ len <= cap' /\ cap' <= MaxArrayLen
        /\ idx_cap' = 0 /\ ~is_sorted'
    BY <1>0, <2>1, GrowInv DEF ObjectInv
  <2> QED BY <1>0, <2>1, <2>2 DEF ObjectInv, ObjectTypes, KeyAt
<1>6. CASE Finalize
  <2>1. /\ pairs' = pairs /\ cap' = cap /\ repeats' = repeats /\ parsing' = parsing
        /\ is_sorted' /\ sorted_idx' \in SortedIndexes
        /\ idx_cap' = IF idx_cap = 0 THEN cap ELSE idx_cap
        /\ len > 0 /\ ~parsing
    BY <1>6 DEF Finalize
  <2>2. idx_cap' = cap /\ cap > 0
    BY <1>0, <2>1 DEF ObjectInv
  <2>3. SortedIndexes' = SortedIndexes
    BY <2>1 DEF SortedIndexes
  <2> QED BY <1>0, <2>1, <2>2, <2>3 DEF ObjectInv, ObjectTypes, KeyAt
<1>7. CASE Clone
  <2>1. /\ pairs' = pairs /\ cap' = len /\ idx_cap' = 0 /\ ~is_sorted'
        /\ repeats' = repeats /\ parsing' = parsing
    BY <1>7 DEF Clone
  <2>2. len <= MaxArrayLen
    BY <1>0, LimitsAssumption DEF ObjectInv
  <2> QED BY <1>0, <2>1, <2>2 DEF ObjectInv, ObjectTypes, KeyAt
<1>8. CASE UNCHANGED vars
  BY <1>8 DEF vars, ObjectInv, ObjectTypes, KeyAt, SortedIndexes
<1> QED BY <1>1, <1>2, <1>3, <1>4, <1>5, <1>6, <1>7, <1>8 DEF Next

\* An object's capacity, its index and its keys agree in every reachable
\* state: the strengthening the theorems below rest on.
THEOREM ObjectInvariant == Spec => []ObjectInv
<1> QED BY ObjectInvInit, ObjectInvNext, PTL DEF Spec

(***************************************************************************)
(* The index.                                                              *)
(***************************************************************************)

\* A permutation whose neighbours are in order has all its pairs in order.
LEMMA SortedPairs ==
  ASSUME NEW p \in SortedIndexes, pairs \in Seq(Pair)
  PROVE  \A i, j \in 1..len : i < j => ~Before(KeyAt(p[j]), KeyAt(p[i]))
<1> DEFINE Ordered(d) == \A i \in 1..len :
                           i + d \in 1..len => ~Before(KeyAt(p[i + d]), KeyAt(p[i]))
           T == {d \in Nat : Ordered(d)}
<1>1. /\ p \in [1..len -> 1..len]
      /\ \A i \in 1..(len - 1) : ~Before(KeyAt(p[i + 1]), KeyAt(p[i]))
      /\ len \in Nat
  BY DEF SortedIndexes, KeyAt
<1>2. \A i \in 1..len : KeyAt(p[i]) \in Key
  BY <1>1, PairFields DEF KeyAt
<1>3. 0 \in T
  BY <1>1, <1>2, BeforeTotal
<1>4. ASSUME NEW d \in Nat, d \in T PROVE d + 1 \in T
  <2> SUFFICES ASSUME NEW i \in 1..len, i + (d + 1) \in 1..len
               PROVE  ~Before(KeyAt(p[i + (d + 1)]), KeyAt(p[i]))
    BY <1>4
  <2>1. i + d \in 1..len /\ i + d \in 1..(len - 1) /\ (i + d) + 1 = i + (d + 1)
    BY <1>1
  <2>2. ~Before(KeyAt(p[i + d]), KeyAt(p[i]))
    BY <1>4, <2>1
  <2>3. ~Before(KeyAt(p[i + (d + 1)]), KeyAt(p[i + d]))
    BY <1>1, <2>1
  <2> QED BY <1>2, <2>1, <2>2, <2>3, BeforeTotal
<1>5. Nat \subseteq T
  <2> HIDE DEF T
  <2> QED BY <1>3, <1>4, NatSetInduction
<1>6. ASSUME NEW i \in 1..len, NEW j \in 1..len, i < j
      PROVE  ~Before(KeyAt(p[j]), KeyAt(p[i]))
  <2>1. j - i \in Nat /\ i + (j - i) = j
    BY <1>1, <1>6
  <2> QED BY <1>5, <2>1
<1> QED BY <1>6

\* A permutation of 1..len leaves no pair out.
LEMMA IndexCovers ==
  ASSUME NEW p \in SortedIndexes, len \in Nat
  PROVE  {p[i] : i \in 1..len} = 1..len
<1>1. /\ p \in [1..len -> 1..len]
      /\ \A i, j \in 1..len : i # j => p[i] # p[j]
  BY DEF SortedIndexes
<1>2. p \in Injection(1..len, 1..len)
  BY <1>1 DEF Injection, IsInjective
<1>3. IsFiniteSet(1..len)
  BY FS_Interval
<1>4. p \in Surjection(1..len, 1..len)
  BY <1>2, <1>3, FS_Injection
<1>5. \A j \in 1..len : \E i \in 1..len : p[i] = j
  BY <1>4 DEF Surjection
<1>6. \A i \in 1..len : p[i] \in 1..len
  BY <1>1
<1> HIDE DEF len
<1> QED BY <1>5, <1>6

\* Whenever json_obj_get_n trusts the index, it lists every pair once and in
\* order, and the memory finalize keeps for it is never too small.
THEOREM IndexIsValid == Spec => []IndexValid
<1>1. ASSUME ObjectInv PROVE IndexValid
  <2>1. /\ pairs \in Seq(Pair) /\ len \in Nat
        /\ idx_cap > 0 => len <= idx_cap
    BY <1>1 DEF ObjectInv, ObjectTypes
  <2>2. ASSUME UsesIndex
        PROVE  /\ DOMAIN sorted_idx = 1..len
               /\ {sorted_idx[i] : i \in 1..len} = 1..len
               /\ \A i, j \in 1..len : i < j =>
                    ~Before(pairs[sorted_idx[j]].key, pairs[sorted_idx[i]].key)
    <3>1. sorted_idx \in SortedIndexes
      BY <1>1, <2>2 DEF UsesIndex, ObjectInv
    <3>2. DOMAIN sorted_idx = 1..len
      BY <3>1 DEF SortedIndexes
    <3>3. {sorted_idx[i] : i \in 1..len} = 1..len
      BY <2>1, <3>1, IndexCovers
    <3>4. \A i, j \in 1..len : i < j =>
            ~Before(KeyAt(sorted_idx[j]), KeyAt(sorted_idx[i]))
      BY <2>1, <3>1, SortedPairs
    <3> QED BY <3>2, <3>3, <3>4 DEF KeyAt
  <2> QED BY <2>1, <2>2 DEF IndexValid
<1> QED BY <1>1, ObjectInvariant, PTL

\* No operation moves, renames or drops a pair: json_obj_iter shows the keys
\* in the order they were first set.
THEOREM IterationOrderKept == Spec => KeysOnlyAppended
<1> DEFINE Kept == /\ Len(pairs') >= len
                   /\ \A i \in 1..len : pairs'[i].key = pairs[i].key
<1>1. ASSUME ObjectInv, Next PROVE Kept
  <2>1. pairs \in Seq(Pair) /\ len \in Nat
    BY <1>1 DEF ObjectInv, ObjectTypes
  <2>2. ASSUME NEW k \in Key, NEW v \in Value,
               pairs' = Append(pairs, [key |-> k, val |-> v])
        PROVE  Kept
    <3>1. [key |-> k, val |-> v] \in Pair
      BY DEF Pair
    <3> QED BY <2>1, <2>2, <3>1
  <2>3. ASSUME NEW k \in Key, NEW v \in Value, SetExisting(k, v) PROVE Kept
    BY <1>1, <2>1, <2>3, SetExistingFields
  <2>4. ASSUME pairs' = pairs PROVE Kept
    BY <2>1, <2>4
  <2> QED
    BY <1>1, <2>2, <2>3, <2>4
       DEF Next, Deliver, SetNew, Parsed, SetNewFails, Finalize, Clone
<1>2. ObjectInv /\ [Next]_vars => [Kept]_vars
  BY <1>1
<1> QED BY <1>2, ObjectInvariant, PTL DEF Spec, KeysOnlyAppended

(***************************************************************************)
(* json_obj_get_n.                                                         *)
(***************************************************************************)

Ranges == (1..(len + 1)) \X (0..len)

Width(range)  == range[2] - range[1]
Middle(range) == range[1] + (range[2] - range[1]) \div 2
Upper(range)  == <<Middle(range) + 1, range[2]>>
Lower(range)  == <<range[1], Middle(range) - 1>>
Here(range)   == KeyAt(sorted_idx[Middle(range)])

\* One activation of the search, f being the search of smaller ranges.
Probe(f, range, k) ==
  IF range[1] > range[2] THEN 0
  ELSE IF Here(range) = k THEN sorted_idx[Middle(range)]
  ELSE IF Before(Here(range), k) THEN f[Upper(range)]
  ELSE f[Lower(range)]

LEMMA BinarySearchProbes ==
  ASSUME NEW k
  PROVE  BinarySearch(k)
           = (CHOOSE f : f = [range \in Ranges |-> Probe(f, range, k)])[<<1, len>>]
BY DEF BinarySearch, Probe, Ranges, Upper, Lower, Middle, Here, KeyAt

LEMMA RangeFields ==
  ASSUME len \in Nat, NEW range \in Ranges
  PROVE  /\ range[1] \in 1..(len + 1) /\ range[2] \in 0..len
         /\ Width(range) \in Int /\ Width(range) < len
<1>1. range[1] \in 1..(len + 1) /\ range[2] \in 0..len
  BY DEF Ranges
<1> QED BY <1>1 DEF Width

\* A range that is not empty splits around its middle into smaller ones.
LEMMA RangeSplits ==
  ASSUME len \in Nat, NEW range \in Ranges, range[1] <= range[2]
  PROVE  /\ Middle(range) \in range[1]..range[2] /\ Middle(range) \in 1..len
         /\ Upper(range) \in Ranges /\ Width(Upper(range)) < Width(range)
         /\ Upper(range)[1] = Middle(range) + 1 /\ Upper(range)[2] = range[2]
         /\ Lower(range) \in Ranges /\ Width(Lower(range)) < Width(range)
         /\ Lower(range)[1] = range[1] /\ Lower(range)[2] = Middle(range) - 1
<1>1. PICK lo \in 1..(len + 1) : lo = range[1]
  BY RangeFields
<1>2. PICK hi \in 0..len : hi = range[2]
  BY RangeFields
<1>3. (hi - lo) \div 2 \in 0..(hi - lo)
  BY <1>1, <1>2
<1>4. PICK mid \in lo..hi : mid = Middle(range)
  BY <1>1, <1>2, <1>3, SMTT(30) DEF Middle
<1>5. mid \in 1..len /\ mid + 1 \in 1..(len + 1) /\ mid - 1 \in 0..len
  BY <1>4
<1>6. Upper(range) = <<mid + 1, hi>> /\ Lower(range) = <<lo, mid - 1>>
  BY <1>1, <1>2, <1>4 DEF Upper, Lower
<1>7. Upper(range) \in Ranges /\ Lower(range) \in Ranges
  BY <1>5, <1>6 DEF Ranges
<1>8. /\ Upper(range)[1] = mid + 1 /\ Upper(range)[2] = hi
      /\ Lower(range)[1] = lo /\ Lower(range)[2] = mid - 1
  BY <1>6
<1>9. hi - (mid + 1) < hi - lo /\ (mid - 1) - lo < hi - lo
  BY <1>4
<1> QED BY <1>1, <1>2, <1>4, <1>5, <1>7, <1>8, <1>9 DEF Width

\* Two functions that agree on smaller ranges give the same activation.
LEMMA ProbeLocal ==
  ASSUME len \in Nat, NEW k, NEW f, NEW g, NEW range \in Ranges,
         \A r \in Ranges : Width(r) < Width(range) => g[r] = f[r]
  PROVE  Probe(g, range, k) = Probe(f, range, k)
<1>1. CASE range[1] > range[2]
  BY <1>1 DEF Probe
<1>2. CASE range[1] <= range[2]
  <2>1. g[Upper(range)] = f[Upper(range)] /\ g[Lower(range)] = f[Lower(range)]
    BY <1>2, RangeSplits
  <2> QED BY <2>1 DEF Probe
<1> QED BY <1>1, <1>2, RangeFields

\* The recursion is well defined: there is a function with this equation.  A
\* function that solves it for ranges of up to m pairs gives one that solves
\* it for ranges of m + 1.
LEMMA SearchDefined ==
  ASSUME len \in Nat, NEW k
  PROVE  \E f : f = [range \in Ranges |-> Probe(f, range, k)]
<1> DEFINE Solves(f, m) == \A range \in Ranges :
                             Width(range) < m => f[range] = Probe(f, range, k)
           T == {m \in Nat : \E f : Solves(f, m)}
<1>1. 0 \in T
  <2> DEFINE f == [range \in Ranges |-> 0]
  <2>1. ASSUME NEW range \in Ranges, Width(range) < 0
        PROVE  f[range] = Probe(f, range, k)
    <3>1. range[1] > range[2]
      BY <2>1, RangeFields DEF Width
    <3> QED BY <3>1 DEF Probe
  <2> HIDE DEF f
  <2>2. Solves(f, 0)
    BY <2>1
  <2> QED BY <2>2
<1>2. ASSUME NEW m \in Nat, m \in T PROVE m + 1 \in T
  <2>1. PICK f : Solves(f, m)
    BY <1>2
  <2> DEFINE g == [range \in Ranges |-> Probe(f, range, k)]
  <2>2. \A range \in Ranges : g[range] = Probe(f, range, k)
    OBVIOUS
  <2> HIDE DEF g
  <2>3. ASSUME NEW range \in Ranges, Width(range) < m + 1
        PROVE  g[range] = Probe(g, range, k)
    <3>1. ASSUME NEW r \in Ranges, Width(r) < Width(range) PROVE g[r] = f[r]
      <4>1. Width(r) < m
        BY <2>3, <3>1, RangeFields
      <4> QED BY <2>1, <2>2, <4>1
    <3>2. Probe(g, range, k) = Probe(f, range, k)
      BY <3>1, ProbeLocal
    <3> QED BY <2>2, <3>2
  <2>4. Solves(g, m + 1)
    BY <2>3
  <2> QED BY <2>4
<1>3. len \in T
  <2> HIDE DEF T
  <2> QED BY <1>1, <1>2, NatSetInduction
<1>4. PICK f : Solves(f, len)
  BY <1>3
<1> DEFINE g == [range \in Ranges |-> Probe(f, range, k)]
<1>5. \A range \in Ranges : g[range] = f[range]
  BY <1>4, RangeFields
<1> HIDE DEF g
<1>6. \A range \in Ranges : Probe(g, range, k) = Probe(f, range, k)
  BY <1>5, ProbeLocal
<1>7. g = [range \in Ranges |-> Probe(g, range, k)]
  BY <1>6 DEF g
<1> QED BY <1>7

\* What a search of a range may answer.
Answers(at, range, k) ==
  /\ at \in 0..len
  /\ at # 0 => KeyAt(at) = k
  /\ at = 0 => \A i \in range[1]..range[2] : KeyAt(sorted_idx[i]) # k

LEMMA SearchAnswers ==
  ASSUME pairs \in Seq(Pair), sorted_idx \in SortedIndexes, NEW k \in Key,
         NEW f, f = [range \in Ranges |-> Probe(f, range, k)]
  PROVE  \A range \in Ranges : Answers(f[range], range, k)
<1> DEFINE T == {m \in Nat : \A range \in Ranges :
                    Width(range) < m => Answers(f[range], range, k)}
<1>0. len \in Nat /\ sorted_idx \in [1..len -> 1..len]
  BY DEF SortedIndexes
<1>1. \A range \in Ranges : f[range] = Probe(f, range, k)
  OBVIOUS
<1>2. ASSUME NEW range \in Ranges, range[1] > range[2]
      PROVE  Answers(f[range], range, k)
  <2>1. f[range] = 0
    BY <1>1, <1>2 DEF Probe
  <2>2. range[1]..range[2] = {}
    BY <1>0, <1>2, RangeFields
  <2> QED BY <1>0, <2>1, <2>2 DEF Answers
<1>3. 0 \in T
  <2> SUFFICES ASSUME NEW range \in Ranges, Width(range) < 0
               PROVE  Answers(f[range], range, k)
    OBVIOUS
  <2>1. range[1] > range[2]
    BY <1>0, RangeFields DEF Width
  <2> QED BY <1>2, <2>1
<1>4. ASSUME NEW m \in Nat, m \in T PROVE m + 1 \in T
  <2> SUFFICES ASSUME NEW range \in Ranges, Width(range) < m + 1
               PROVE  Answers(f[range], range, k)
    BY <1>4
  <2>0. CASE range[1] > range[2]
    BY <1>2, <2>0
  <2> SUFFICES ASSUME range[1] <= range[2] PROVE Answers(f[range], range, k)
    BY <1>0, <2>0, RangeFields
  <2>1. PICK lo \in 1..(len + 1) : lo = range[1]
    BY <1>0, RangeFields
  <2>2. PICK hi \in 0..len : hi = range[2]
    BY <1>0, RangeFields
  <2>3. PICK mid \in lo..hi : mid = Middle(range) /\ mid \in 1..len
    BY <1>0, <2>1, <2>2, RangeSplits
  <2>4. PICK here \in Key : here = KeyAt(sorted_idx[mid]) /\ here = Here(range)
    BY <1>0, <2>3, PairFields DEF KeyAt, Here
  <2>5. /\ \A r \in {Upper(range), Lower(range)} : Answers(f[r], r, k)
        /\ Upper(range)[1] = mid + 1 /\ Upper(range)[2] = hi
        /\ Lower(range)[1] = lo /\ Lower(range)[2] = mid - 1
    <3>1. /\ Upper(range) \in Ranges /\ Width(Upper(range)) < Width(range)
          /\ Lower(range) \in Ranges /\ Width(Lower(range)) < Width(range)
      BY <1>0, RangeSplits
    <3>2. Width(Upper(range)) < m /\ Width(Lower(range)) < m
      BY <1>0, <3>1, RangeFields
    <3>3. \A r \in {Upper(range), Lower(range)} : Answers(f[r], r, k)
      BY <1>4, <3>1, <3>2
    <3> QED BY <1>0, <2>1, <2>2, <2>3, <3>3, RangeSplits
  <2>6. f[range] = IF here = k THEN sorted_idx[mid]
                   ELSE IF Before(here, k) THEN f[Upper(range)]
                   ELSE f[Lower(range)]
    BY <1>0, <1>1, <2>1, <2>2, <2>3, <2>4 DEF Probe
  <2>7. \A i \in lo..hi : i \in 1..len
    BY <1>0
  <2>8. \A i, j \in 1..len : i < j =>
          ~Before(KeyAt(sorted_idx[j]), KeyAt(sorted_idx[i]))
    BY SortedPairs
  <2>9. CASE here = k
    <3>1. f[range] = sorted_idx[mid] /\ sorted_idx[mid] \in 1..len
      BY <1>0, <2>3, <2>6, <2>9
    <3>2. KeyAt(f[range]) = k
      BY <2>4, <2>9, <3>1
    <3>3. PICK at \in 1..len : at = f[range]
      BY <3>1
    <3>4. at \in 0..len /\ at # 0
      OBVIOUS
    <3> QED BY <3>2, <3>3, <3>4 DEF Answers
  <2>10. CASE here # k /\ Before(here, k)
    <3>1. f[range] = f[Upper(range)]
      BY <2>6, <2>10
    <3>2. ASSUME NEW i \in lo..hi, i <= mid PROVE KeyAt(sorted_idx[i]) # k
      <4>1. i = mid \/ i < mid
        BY <3>2
      <4> QED BY <2>3, <2>4, <2>7, <2>8, <2>10, <4>1
    <3>3. \A i \in lo..hi : i <= mid \/ i \in (mid + 1)..hi
      OBVIOUS
    <3> QED BY <2>1, <2>2, <2>5, <3>1, <3>2, <3>3 DEF Answers
  <2>11. CASE here # k /\ ~Before(here, k)
    <3>1. f[range] = f[Lower(range)] /\ Before(k, here)
      BY <2>6, <2>11, BeforeTotal
    <3>2. ASSUME NEW i \in lo..hi, i >= mid PROVE KeyAt(sorted_idx[i]) # k
      <4>1. i = mid \/ mid < i
        BY <3>2
      <4> QED BY <2>3, <2>4, <2>7, <2>8, <2>11, <3>1, <4>1
    <3>3. \A i \in lo..hi : i >= mid \/ i \in lo..(mid - 1)
      OBVIOUS
    <3> QED BY <2>1, <2>2, <2>5, <3>1, <3>2, <3>3 DEF Answers
  <2> QED BY <2>9, <2>10, <2>11
<1>5. len \in T
  <2> HIDE DEF T
  <2> QED BY <1>0, <1>3, <1>4, NatSetInduction
<1> QED BY <1>0, <1>5, RangeFields

LEMMA BinarySearchSound ==
  ASSUME ObjectInv, UsesIndex, NEW k \in Key
  PROVE  /\ Matching(k) = {} => BinarySearch(k) = 0
         /\ Matching(k) # {} => BinarySearch(k) \in Matching(k)
<1>1. /\ pairs \in Seq(Pair) /\ len \in Nat
      /\ sorted_idx \in SortedIndexes
  BY DEF ObjectInv, ObjectTypes, UsesIndex
<1> DEFINE f == CHOOSE f : f = [range \in Ranges |-> Probe(f, range, k)]
<1>2. f = [range \in Ranges |-> Probe(f, range, k)]
  BY <1>1, SearchDefined
<1>3. BinarySearch(k) = f[<<1, len>>]
  BY BinarySearchProbes
<1> HIDE DEF f
<1>4. PICK whole \in Ranges : /\ whole = <<1, len>>
                              /\ whole[1] = 1 /\ whole[2] = len
  <2>1. 1 \in 1..(len + 1) /\ len \in 0..len
    BY <1>1
  <2>2. <<1, len>> \in Ranges
    BY <2>1 DEF Ranges
  <2>3. <<1, len>>[1] = 1 /\ <<1, len>>[2] = len
    OBVIOUS
  <2> QED BY Zenon, <2>2, <2>3
<1>5. PICK at : at = BinarySearch(k)
  OBVIOUS
<1>6. Answers(at, whole, k)
  <2>1. at = f[whole]
    BY <1>3, <1>4, <1>5
  <2> QED BY <1>1, <1>2, <2>1, SearchAnswers
<1>7. {sorted_idx[i] : i \in 1..len} = 1..len
  BY <1>1, IndexCovers
<1>8. /\ at \in 0..len
      /\ at # 0 => KeyAt(at) = k
      /\ at = 0 => \A i \in 1..len : KeyAt(sorted_idx[i]) # k
  BY <1>4, <1>6 DEF Answers
<1>9. CASE at = 0
  <2>1. ASSUME NEW i \in 1..len PROVE KeyAt(i) # k
    <3>1. PICK j \in 1..len : i = sorted_idx[j]
      BY <1>7
    <3> QED BY <1>8, <1>9, <3>1
  <2>2. Matching(k) = {}
    BY <2>1 DEF Matching, KeyAt
  <2> QED BY <1>5, <1>9, <2>2
<1>10. CASE at # 0
  <2>1. at \in Matching(k)
    BY <1>1, <1>8, <1>10 DEF Matching, KeyAt
  <2> QED BY <1>5, <2>1
<1> QED BY <1>9, <1>10

\* Whichever search runs, it finds a pair with the key if there is one.
LEMMA FoundSound ==
  ASSUME ObjectInv, NEW k \in Key
  PROVE  /\ Matching(k) = {} => Found(k) = 0
         /\ Matching(k) # {} => Found(k) \in Matching(k)
<1>1. CASE UsesIndex
  BY <1>1, BinarySearchSound DEF Found
<1>2. CASE ~UsesIndex
  BY <1>2, LinearSearchFinds DEF Found, LinearSearch
<1> QED BY <1>1, <1>2

LEMMA GetSoundInv == ObjectInv => GetSound
<1> SUFFICES ASSUME ObjectInv, NEW k \in Key
             PROVE  IF Matching(k) = {}
                      THEN Get(k) = NoValue
                      ELSE Get(k) \in {pairs[i].val : i \in Matching(k)}
  BY DEF GetSound
<1>1. CASE Matching(k) = {}
  BY <1>1, FoundSound DEF Get
<1>2. CASE Matching(k) # {}
  <2>1. PICK i \in Matching(k) : i = Found(k)
    BY <1>2, FoundSound
  <2>2. i # 0
    BY DEF Matching
  <2> QED BY <1>2, <2>1, <2>2 DEF Get
<1> QED BY <1>1, <1>2

\* json_obj_get_n answers for the key asked for, whatever the hashes, the
\* duplicates and the order json__introsort left equal keys in.
THEOREM LookupsSound == Spec => []GetSound
<1> QED BY GetSoundInv, ObjectInvariant, PTL

(***************************************************************************)
(* An object without duplicate keys is a dictionary.                       *)
(***************************************************************************)

\* What a lookup yields when no key repeats.
ContentsInv ==
  /\ repeats => Contents = [k \in Key |-> NoValue]
  /\ ~repeats =>
       \A k \in Key :
         /\ (\A i \in 1..len : pairs[i].key # k) => Contents[k] = NoValue
         /\ \A i \in 1..len : pairs[i].key = k => Contents[k] = pairs[i].val

LEMMA ContentsSound == ObjectInv => ContentsInv
<1> SUFFICES ASSUME ObjectInv PROVE ContentsInv
  OBVIOUS
<1>1. repeats => Contents = [k \in Key |-> NoValue]
  BY DEF Contents
<1>2. ASSUME ~repeats, NEW k \in Key
      PROVE  /\ (\A i \in 1..len : pairs[i].key # k) => Contents[k] = NoValue
             /\ \A i \in 1..len : pairs[i].key = k => Contents[k] = pairs[i].val
  <2>1. Contents[k] = Get(k)
    BY <1>2 DEF Contents
  <2>2. IF Matching(k) = {} THEN Get(k) = NoValue
                            ELSE Get(k) \in {pairs[i].val : i \in Matching(k)}
    BY GetSoundInv DEF GetSound
  <2>3. (\A i \in 1..len : pairs[i].key # k) => Matching(k) = {}
    BY DEF Matching
  <2>4. ASSUME NEW i \in 1..len, pairs[i].key = k PROVE Get(k) = pairs[i].val
    <3>1. \A j \in Matching(k) : j = i
      BY <1>2, <2>4 DEF Matching, ObjectInv, KeyAt
    <3>2. i \in Matching(k)
      BY <2>4 DEF Matching
    <3> QED BY <2>2, <3>1, <3>2
  <2> QED BY <2>1, <2>2, <2>3, <2>4
<1> QED BY <1>1, <1>2 DEF ContentsInv

LEMMA ContentsSoundNext == ObjectInv' => ContentsInv'
BY ContentsSound, PTL

\* Pairs with the same keys and values have the same contents.
LEMMA SamePairs ==
  ASSUME ObjectInv, ObjectInv', pairs' = pairs, repeats' = repeats
  PROVE  Contents' = Contents
<1>1. ContentsInv /\ ContentsInv'
  BY ContentsSound, ContentsSoundNext
<1>2. CASE repeats
  BY <1>1, <1>2 DEF ContentsInv
<1>3. CASE ~repeats
  <2>1. ASSUME NEW k \in Key PROVE Contents'[k] = Contents[k]
    BY <1>1, <1>3 DEF ContentsInv
  <2>2. /\ Contents = [k \in Key |-> Contents[k]]
        /\ Contents' = [k \in Key |-> Contents'[k]]
    BY DEF Contents
  <2> QED BY <2>1, <2>2
<1> QED BY <1>2, <1>3

\* A key that was not there is appended.
LEMMA AppendSets ==
  ASSUME ObjectInv, ObjectInv', NEW k \in Key, NEW v \in Value,
         repeats \/ Matching(k) = {}, repeats' = repeats,
         pairs' = Append(pairs, [key |-> k, val |-> v])
  PROVE  Dict!Set(k, v) \/ Contents' = Contents
<1>1. ContentsInv /\ ContentsInv'
  BY ContentsSound, ContentsSoundNext
<1>2. CASE repeats
  BY <1>1, <1>2 DEF ContentsInv
<1>3. CASE ~repeats
  <2> DEFINE new == [key |-> k, val |-> v]
  <2>1. new \in Pair /\ new.key = k /\ new.val = v
    BY DEF Pair
  <2> HIDE DEF new
  <2>2. pairs \in Seq(Pair) /\ len \in Nat
    BY DEF ObjectInv, ObjectTypes
  <2>3. /\ Len(pairs') = len + 1
        /\ pairs'[len + 1] = new
        /\ \A i \in 1..len : pairs'[i] = pairs[i]
    BY <2>1, <2>2 DEF new
  <2>4. Contents'[k] = v
    <3>1. len + 1 \in 1..Len(pairs')
      BY <2>2, <2>3
    <3> QED BY <1>1, <1>3, <2>1, <2>3, <3>1 DEF ContentsInv
  <2>5. ASSUME NEW m \in Key, m # k PROVE Contents'[m] = Contents[m]
    <3>1. CASE \A i \in 1..len : pairs[i].key # m
      <4>1. \A i \in 1..Len(pairs') : pairs'[i].key # m
        BY <2>1, <2>2, <2>3, <2>5, <3>1
      <4> QED BY <1>1, <1>3, <3>1, <4>1 DEF ContentsInv
    <3>2. ASSUME NEW i \in 1..len, pairs[i].key = m
          PROVE  Contents'[m] = Contents[m]
      <4>1. i \in 1..Len(pairs') /\ pairs'[i] = pairs[i]
        BY <2>2, <2>3
      <4> QED BY <1>1, <1>3, <3>2, <4>1 DEF ContentsInv
    <3> QED BY <3>1, <3>2
  <2>6. /\ Contents = [m \in Key |-> Contents[m]]
        /\ Contents' = [m \in Key |-> Contents'[m]]
    BY DEF Contents
  <2>7. Contents' = [Contents EXCEPT ![k] = v]
    BY <2>4, <2>5, <2>6
  <2> QED BY <2>7 DEF Dict!Set
<1> QED BY <1>2, <1>3

\* The value of a key that was there is replaced.
LEMMA SetExistingSets ==
  ASSUME ObjectInv, ObjectInv', NEW k \in Key, NEW v \in Value, SetExisting(k, v)
  PROVE  Dict!Set(k, v) \/ Contents' = Contents
<1>1. ContentsInv /\ ContentsInv' /\ repeats' = repeats
  BY ContentsSound, ContentsSoundNext DEF SetExisting
<1>2. CASE repeats
  BY <1>1, <1>2 DEF ContentsInv
<1>3. CASE ~repeats
  <2>1. PICK p \in 1..len : p = LinearSearch(k) /\ pairs[p].key = k
    BY SetExistingFields DEF KeyAt
  <2>2. /\ Len(pairs') = len
        /\ \A i \in 1..len : /\ pairs'[i].key = pairs[i].key
                             /\ i # p => pairs'[i] = pairs[i]
        /\ pairs'[p].val = v
    BY <2>1, SetExistingFields
  <2>3. Contents'[k] = v
    BY <1>1, <1>3, <2>1, <2>2 DEF ContentsInv
  <2>4. ASSUME NEW m \in Key, m # k PROVE Contents'[m] = Contents[m]
    <3>1. CASE \A i \in 1..len : pairs[i].key # m
      <4>1. \A i \in 1..Len(pairs') : pairs'[i].key # m
        BY <2>2, <3>1
      <4> QED BY <1>1, <1>3, <3>1, <4>1 DEF ContentsInv
    <3>2. ASSUME NEW i \in 1..len, pairs[i].key = m
          PROVE  Contents'[m] = Contents[m]
      <4>1. i \in 1..Len(pairs') /\ pairs'[i] = pairs[i]
        BY <2>1, <2>2, <2>4, <3>2
      <4> QED BY <1>1, <1>3, <3>2, <4>1 DEF ContentsInv
    <3> QED BY <3>1, <3>2
  <2>5. /\ Contents = [m \in Key |-> Contents[m]]
        /\ Contents' = [m \in Key |-> Contents'[m]]
    BY DEF Contents
  <2>6. Contents' = [Contents EXCEPT ![k] = v]
    BY <2>3, <2>4, <2>5
  <2> QED BY <2>6 DEF Dict!Set
<1> QED BY <1>2, <1>3

LEMMA DictionaryInit == Init => Dict!Init
<1> SUFFICES ASSUME Init PROVE Contents = [k \in Key |-> NoValue]
  BY DEF Dict!Init
<1>1. ContentsInv
  BY ObjectInvInit, ContentsSound
<1>2. len = 0
  BY DEF Init
<1>3. ASSUME NEW k \in Key PROVE Contents[k] = NoValue
  <2>1. CASE repeats
    BY <1>1, <2>1 DEF ContentsInv
  <2>2. CASE ~repeats
    <3>1. \A i \in 1..len : FALSE
      BY <1>2
    <3> QED BY <1>1, <2>2, <3>1 DEF ContentsInv
  <2> QED BY <2>1, <2>2
<1>4. Contents = [k \in Key |-> Contents[k]]
  BY DEF Contents
<1> QED BY <1>3, <1>4

LEMMA DictionaryNext ==
  ObjectInv /\ ObjectInv' /\ [Next]_vars => [Dict!Next]_Contents
<1> SUFFICES ASSUME ObjectInv, ObjectInv', [Next]_vars
             PROVE  [Dict!Next]_Contents
  OBVIOUS
<1>1. ASSUME NEW k \in Key, NEW v \in Value, Deliver(k, v)
      PROVE  [Dict!Next]_Contents
  BY <1>1, AppendSets DEF Deliver, Dict!Next
<1>2. ASSUME NEW k \in Key, NEW v \in Value, SetExisting(k, v)
      PROVE  [Dict!Next]_Contents
  BY <1>2, SetExistingSets DEF Dict!Next
<1>3. ASSUME NEW k \in Key, NEW v \in Value, SetNew(k, v)
      PROVE  [Dict!Next]_Contents
  BY <1>3, AppendSets DEF SetNew, Dict!Next
<1>4. ASSUME pairs' = pairs, repeats' = repeats PROVE [Dict!Next]_Contents
  BY <1>4, SamePairs
<1>5. CASE UNCHANGED vars
  BY <1>4, <1>5 DEF vars
<1> QED
  BY <1>1, <1>2, <1>3, <1>4, <1>5
     DEF Next, Parsed, SetNewFails, Finalize, Clone

\* Without duplicates nothing that happens to an object shows from outside but
\* that one call sets one key: growing, finalizing, cloning and the failures
\* of json_obj_set change what no lookup answers.
THEOREM ObjectIsDictionary == Spec => ImplementsDictionary
<1>1. Init => Dict!Init
  BY DictionaryInit
<1>2. ObjectInv /\ ObjectInv' /\ [Next]_vars => [Dict!Next]_Contents
  BY DictionaryNext
<1> QED BY <1>1, <1>2, ObjectInvariant, PTL DEF Spec, ImplementsDictionary, Dict!Spec
=============================================================================
