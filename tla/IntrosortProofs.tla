--------------------------- MODULE IntrosortProofs ---------------------------
(***************************************************************************)
(* Proofs about Introsort, for every array of keys, every threshold and    *)
(* every depth limit.                                                      *)
(*                                                                         *)
(* First what each of the three algorithms does to a range of the index,   *)
(* then the machine: the pairs of places that are not yet in order lie in  *)
(* the range of one activation, and a step settles its own range.          *)
(***************************************************************************)
EXTENDS Introsort, Induction, SequenceTheorems

Arrays == [Pairs -> Pairs]

\* What b has in lo..hi comes from lo..hi in a.
Comes(a, b, lo, hi) == \A m \in lo..hi : \E p \in lo..hi : b[m] = a[p]

\* b is a with its entries in lo..hi in another order.
Rearranged(a, b, lo, hi) ==
  /\ a \in Arrays /\ b \in Arrays
  /\ \A m \in Pairs : m \notin lo..hi => b[m] = a[m]
  /\ Comes(a, b, lo, hi)
  /\ Comes(b, a, lo, hi)

\* The keys of a rise from place x to place y, or stay.
Rises(a, x, y) == ~Less(a[y], a[x])

Sorted(a, lo, hi) == \A x, y \in lo..hi : x < y => Rises(a, x, y)

LEMMA CountType ==
  ASSUME key \in Inputs
  PROVE  /\ Count \in Nat /\ Count > 1
         /\ Pairs \subseteq Nat
         /\ \A p \in Pairs : key[p + 1] \in Int
<1>1. key \in Seq(Int) /\ Len(key) > 1
  BY InputsAssumption
<1>2. Count \in Nat /\ Count > 1
  BY <1>1 DEF Count
<1>3. ASSUME NEW p \in Pairs PROVE key[p + 1] \in Int
  <2>1. p + 1 \in 1..Len(key)
    BY <1>1, <1>3 DEF Pairs, Count
  <2> QED BY <1>1, <2>1
<1> QED BY <1>2, <1>3 DEF Pairs

LEMMA PairsBetween ==
  ASSUME key \in Inputs, NEW lo \in Pairs, NEW hi \in Pairs
  PROVE  lo \in Nat /\ hi \in Nat /\ lo..hi \subseteq Pairs
<1>1. Count \in Nat /\ lo \in 0..(Count - 1) /\ hi \in 0..(Count - 1)
  BY CountType DEF Pairs
<1> QED BY <1>1 DEF Pairs

LEMMA LessOrders ==
  ASSUME key \in Inputs, NEW p \in Pairs, NEW q \in Pairs, NEW r \in Pairs
  PROVE  /\ ~Less(p, p)
         /\ Less(p, q) => ~Less(q, p)
         /\ ~Less(q, p) /\ ~Less(r, q) => ~Less(r, p)
  BY CountType DEF Less

LEMMA RisesTwice ==
  ASSUME key \in Inputs, NEW a \in Arrays,
         NEW x \in Pairs, NEW y \in Pairs, NEW z \in Pairs,
         Rises(a, x, y), Rises(a, y, z)
  PROVE  Rises(a, x, z)
<1>1. a[x] \in Pairs /\ a[y] \in Pairs /\ a[z] \in Pairs
  BY DEF Arrays
<1> QED BY <1>1, LessOrders DEF Rises

LEMMA RisesToItself ==
  ASSUME key \in Inputs, NEW a \in Arrays, NEW x \in Pairs
  PROVE  Rises(a, x, x)
<1>1. a[x] \in Pairs
  BY DEF Arrays
<1> QED BY <1>1, LessOrders DEF Rises

(***************************************************************************)
(* Rearrangements.                                                         *)
(***************************************************************************)

LEMMA RearrangedNot ==
  ASSUME NEW a \in Arrays, NEW lo, NEW hi
  PROVE  Rearranged(a, a, lo, hi)
  BY DEF Rearranged, Comes

LEMMA RearrangedTwice ==
  ASSUME NEW a, NEW b, NEW c, NEW lo, NEW hi,
         Rearranged(a, b, lo, hi), Rearranged(b, c, lo, hi)
  PROVE  Rearranged(a, c, lo, hi)
<1>1. Comes(a, c, lo, hi)
  <2> SUFFICES ASSUME NEW m \in lo..hi PROVE \E p \in lo..hi : c[m] = a[p]
    BY DEF Comes
  <2>1. PICK q \in lo..hi : c[m] = b[q]
    BY DEF Rearranged, Comes
  <2>2. PICK p \in lo..hi : b[q] = a[p]
    BY DEF Rearranged, Comes
  <2> QED BY <2>1, <2>2
<1>2. Comes(c, a, lo, hi)
  <2> SUFFICES ASSUME NEW m \in lo..hi PROVE \E p \in lo..hi : a[m] = c[p]
    BY DEF Comes
  <2>1. PICK q \in lo..hi : a[m] = b[q]
    BY DEF Rearranged, Comes
  <2>2. PICK p \in lo..hi : b[q] = c[p]
    BY DEF Rearranged, Comes
  <2> QED BY <2>1, <2>2
<1>3. \A m \in Pairs : m \notin lo..hi => c[m] = a[m]
  BY DEF Rearranged
<1> QED BY <1>1, <1>2, <1>3 DEF Rearranged

LEMMA ComesWider ==
  ASSUME NEW lo, NEW hi, NEW lo2, NEW hi2, lo..hi \subseteq lo2..hi2,
         lo2..hi2 \subseteq Pairs, NEW a, NEW b,
         Comes(a, b, lo, hi), \A m \in Pairs : m \notin lo..hi => b[m] = a[m]
  PROVE  Comes(a, b, lo2, hi2)
<1> SUFFICES ASSUME NEW m \in lo2..hi2 PROVE \E p \in lo2..hi2 : b[m] = a[p]
  BY DEF Comes
<1>1. CASE m \in lo..hi
  BY <1>1 DEF Comes
<1>2. CASE m \notin lo..hi
  BY <1>2
<1> QED BY <1>1, <1>2

LEMMA RearrangedWider ==
  ASSUME NEW lo, NEW hi, NEW lo2, NEW hi2, lo..hi \subseteq lo2..hi2,
         lo2..hi2 \subseteq Pairs, NEW a, NEW b, Rearranged(a, b, lo, hi)
  PROVE  Rearranged(a, b, lo2, hi2)
<1>1. Comes(a, b, lo2, hi2)
  BY ComesWider DEF Rearranged
<1>2. Comes(b, a, lo2, hi2)
  BY ComesWider DEF Rearranged
<1> QED BY <1>1, <1>2 DEF Rearranged

LEMMA SwapType ==
  ASSUME NEW a \in Arrays, NEW i \in Pairs, NEW j \in Pairs,
         NEW b, b = Swap(a, i, j)
  PROVE  /\ b \in Arrays
         /\ b[i] = a[j] /\ b[j] = a[i]
         /\ \A m \in Pairs : m # i /\ m # j => b[m] = a[m]
  BY DEF Swap, Arrays

LEMMA SwapRearranges ==
  ASSUME NEW lo, NEW hi, lo..hi \subseteq Pairs,
         NEW a \in Arrays, NEW i \in lo..hi, NEW j \in lo..hi
  PROVE  Rearranged(a, Swap(a, i, j), lo, hi)
<1>1. i \in Pairs /\ j \in Pairs
  OBVIOUS
<1> DEFINE b == Swap(a, i, j)
<1>2. /\ b \in Arrays /\ b[i] = a[j] /\ b[j] = a[i]
      /\ \A m \in Pairs : m # i /\ m # j => b[m] = a[m]
  BY <1>1, SwapType
<1> HIDE DEF b
<1>3. Comes(a, b, lo, hi)
  BY <1>1, <1>2 DEF Comes
<1>4. Comes(b, a, lo, hi)
  BY <1>1, <1>2 DEF Comes
<1>5. Rearranged(a, b, lo, hi)
  BY <1>2, <1>3, <1>4 DEF Rearranged
<1> QED BY <1>5 DEF b

(***************************************************************************)
(* json__isort.                                                            *)
(***************************************************************************)

\* The while loop stops, at the latest at lo.
LEMMA SlotIs ==
  ASSUME NEW a, NEW lo \in Nat, NEW i \in Nat, lo <= i
  PROVE  /\ Slot(a, lo, i) \in lo..i
         /\ \A m \in Slot(a, lo, i)..(i - 1) : Less(a[i], a[m])
         /\ Slot(a, lo, i) = lo \/ ~Less(a[i], a[Slot(a, lo, i) - 1])
<1> DEFINE W == {p \in lo..i : \A m \in p..(i - 1) : Less(a[i], a[m])}
<1>1. W \subseteq Nat /\ i \in W
  OBVIOUS
<1>2. PICK p \in W : \A q \in W : p <= q
  <2>1. W # {}
    BY <1>1
  <2> HIDE DEF W
  <2> QED BY <1>1, <2>1, Least
<1>3. p = lo \/ ~Less(a[i], a[p - 1])
  <2> SUFFICES ASSUME p # lo, Less(a[i], a[p - 1]) PROVE FALSE
    OBVIOUS
  <2>1. p - 1 \in lo..i /\ ~(p <= p - 1)
    BY <1>2
  <2>2. ASSUME NEW m \in (p - 1)..(i - 1) PROVE Less(a[i], a[m])
    <3>1. m = p - 1 \/ m \in p..(i - 1)
      BY <1>2
    <3> QED BY <1>2, <3>1
  <2>3. p - 1 \in W
    BY <2>1, <2>2
  <2> QED BY <1>2, <2>1, <2>3
<1> QED BY <1>2, <1>3 DEF Slot

LEMMA InsertedIs ==
  ASSUME key \in Inputs, NEW a \in Arrays, NEW lo \in Pairs, NEW i \in Pairs,
         lo <= i, NEW p, p = Slot(a, lo, i), NEW b, b = Inserted(a, lo, i)
  PROVE  /\ b \in Arrays
         /\ b[p] = a[i]
         /\ \A m \in Pairs : m < p \/ m > i => b[m] = a[m]
         /\ \A m \in (p + 1)..i : b[m] = a[m - 1]
<1>0. lo \in Nat /\ i \in Nat /\ lo..i \subseteq Pairs
  BY PairsBetween
<1>1. p \in lo..i /\ lo \in Nat /\ i \in Nat /\ p \in Pairs
  BY <1>0, SlotIs
<1>2. b = [m \in Pairs |-> IF m = p THEN a[i]
                           ELSE IF m \in (p + 1)..i THEN a[m - 1] ELSE a[m]]
  BY DEF Inserted
<1>3. ASSUME NEW m \in (p + 1)..i PROVE m \in Pairs /\ m - 1 \in Pairs /\ m # p
  BY <1>1, CountType DEF Pairs
<1>4. b \in Arrays
  BY <1>2, <1>3 DEF Arrays
<1>5. b[p] = a[i]
  BY <1>1, <1>2
<1>6. ASSUME NEW m \in Pairs, m < p \/ m > i PROVE b[m] = a[m]
  <2>1. m # p /\ m \notin (p + 1)..i
    BY <1>1, <1>6, CountType
  <2> QED BY <1>2, <2>1
<1>7. \A m \in (p + 1)..i : b[m] = a[m - 1]
  BY <1>2, <1>3
<1> QED BY <1>4, <1>5, <1>6, <1>7

LEMMA InsertedRearranges ==
  ASSUME key \in Inputs, NEW a \in Arrays, NEW lo \in Pairs, NEW i \in Pairs,
         lo <= i, NEW b, b = Inserted(a, lo, i)
  PROVE  Rearranged(a, b, lo, i)
<1> DEFINE p == Slot(a, lo, i)
<1>0. lo \in Nat /\ i \in Nat /\ lo..i \subseteq Pairs
  BY PairsBetween
<1>1. p \in lo..i /\ lo \in Nat /\ i \in Nat
  BY <1>0, SlotIs
<1>2. /\ b \in Arrays /\ b[p] = a[i]
      /\ \A m \in Pairs : m < p \/ m > i => b[m] = a[m]
      /\ \A m \in (p + 1)..i : b[m] = a[m - 1]
  BY InsertedIs
<1>3. \A m \in lo..i : m \in Pairs
  BY <1>0
<1> HIDE DEF p
<1>4. ASSUME NEW m \in lo..i PROVE \E q \in lo..i : b[m] = a[q]
  <2>1. CASE m < p
    BY <1>2, <1>3, <2>1
  <2>2. CASE m = p
    <3>1. i \in lo..i
      BY <1>1
    <3> QED BY <1>2, <2>2, <3>1
  <2>3. CASE m > p
    <3>1. m \in (p + 1)..i /\ m - 1 \in lo..i
      BY <1>1, <2>3
    <3> QED BY <1>2, <3>1
  <2> QED BY <1>1, <2>1, <2>2, <2>3
<1>5. ASSUME NEW m \in lo..i PROVE \E q \in lo..i : a[m] = b[q]
  <2>1. CASE m < p
    BY <1>2, <1>3, <2>1
  <2>2. CASE m = i
    BY <1>1, <1>2, <2>2
  <2>3. CASE m >= p /\ m < i
    <3>1. m + 1 \in (p + 1)..i /\ m + 1 \in lo..i /\ (m + 1) - 1 = m
      BY <1>1, <2>3
    <3> QED BY <1>2, <3>1
  <2> QED BY <1>1, <2>1, <2>2, <2>3
<1>6. \A m \in Pairs : m \notin lo..i => b[m] = a[m]
  <2>1. ASSUME NEW m \in Pairs, m \notin lo..i PROVE m < p \/ m > i
    BY <1>1, <2>1, CountType
  <2> QED BY <1>2, <2>1
<1> QED BY <1>2, <1>4, <1>5, <1>6 DEF Rearranged, Comes

LEMMA InsertedSorts ==
  ASSUME key \in Inputs, NEW a \in Arrays, NEW lo \in Pairs, NEW i \in Pairs,
         lo < i, Sorted(a, lo, i - 1), NEW b, b = Inserted(a, lo, i)
  PROVE  Sorted(b, lo, i)
<1> DEFINE p == Slot(a, lo, i)
<1>0. lo \in Nat /\ i \in Nat /\ lo..i \subseteq Pairs
  BY PairsBetween
<1>1. /\ p \in lo..i /\ lo \in Nat /\ i \in Nat
      /\ \A m \in p..(i - 1) : Less(a[i], a[m])
      /\ p = lo \/ ~Less(a[i], a[p - 1])
  BY <1>0, SlotIs
<1>2. /\ b \in Arrays /\ b[p] = a[i]
      /\ \A m \in Pairs : m < p \/ m > i => b[m] = a[m]
      /\ \A m \in (p + 1)..i : b[m] = a[m - 1]
  <2>1. lo <= i
    BY <1>0
  <2> HIDE DEF p
  <2> QED BY <2>1, InsertedIs DEF p
<1>3. \A m \in lo..i : m \in Pairs /\ a[m] \in Pairs
  BY <1>0 DEF Arrays
<1>4. \A x, y \in lo..(i - 1) : x < y => Rises(a, x, y)
  BY DEF Sorted
<1> HIDE DEF p
<1>5. SUFFICES ASSUME NEW x \in lo..i, NEW y \in lo..i, x < y
               PROVE  ~Less(b[y], b[x])
  BY DEF Sorted, Rises
<1>6. CASE y < p
  <2>1. b[x] = a[x] /\ b[y] = a[y] /\ x \in lo..(i - 1) /\ y \in lo..(i - 1)
    BY <1>1, <1>2, <1>3, <1>5, <1>6
  <2> QED BY <1>4, <1>5, <2>1 DEF Rises
<1>7. CASE y = p
  <2>1. /\ b[x] = a[x] /\ b[y] = a[i] /\ p - 1 \in lo..(i - 1) /\ i \in lo..i
        /\ p # lo /\ x \in lo..(i - 1) /\ (x = p - 1 \/ x < p - 1)
        /\ p - 1 \in lo..i
    BY <1>1, <1>2, <1>3, <1>5, <1>7
  <2>2. ~Less(a[i], a[p - 1])
    BY <1>1, <2>1
  <2>3. x = p - 1 \/ ~Less(a[p - 1], a[x])
    BY <1>4, <2>1 DEF Rises
  <2> QED BY <1>3, <2>1, <2>2, <2>3, LessOrders
<1>8. CASE y > p
  <2>1. y \in (p + 1)..i /\ b[y] = a[y - 1] /\ y - 1 \in lo..(i - 1) /\ y - 1 >= p
    BY <1>1, <1>2, <1>5, <1>8
  <2>2. CASE x < p
    <3>1. b[x] = a[x] /\ x \in lo..(i - 1) /\ x < y - 1
      BY <1>1, <1>2, <1>3, <1>5, <2>1, <2>2
    <3> QED BY <1>4, <2>1, <3>1 DEF Rises
  <2>3. CASE x = p
    <3>1. b[x] = a[i] /\ y - 1 \in p..(i - 1) /\ i \in lo..i /\ y - 1 \in lo..i
      BY <1>1, <1>2, <2>1, <2>3
    <3> QED BY <1>1, <1>3, <2>1, <3>1, LessOrders
  <2>4. CASE x > p
    <3>1. x \in (p + 1)..i /\ x - 1 \in lo..(i - 1) /\ x - 1 < y - 1
      BY <1>1, <1>5, <2>1, <2>4
    <3> QED BY <1>2, <1>4, <2>1, <3>1 DEF Rises
  <2> QED BY <1>1, <1>5, <2>2, <2>3, <2>4
<1> QED BY <1>1, <1>5, <1>6, <1>7, <1>8

\* json__isort sorts its range.
LEMMA ISortSorts ==
  ASSUME key \in Inputs, NEW a \in Arrays, NEW lo \in Pairs, NEW hi \in Pairs,
         lo <= hi
  PROVE  /\ Rearranged(a, ISort(a, lo, hi), lo, hi)
         /\ Sorted(ISort(a, lo, hi), lo, hi)
<1> DEFINE n == hi - lo
           After(f, k) == IF k = 0 THEN a ELSE Inserted(f[k - 1], lo, lo + k)
           g == CHOOSE f : f = [k \in 0..n |-> After(f, k)]
           step == [k \in 1..n |-> [b \in Arrays |-> Inserted(b, lo, lo + k)]]
<1>0. lo \in Nat /\ hi \in Nat /\ lo..hi \subseteq Pairs
  BY PairsBetween
<1>1. n \in Nat /\ lo \in Nat /\ hi \in Nat /\ lo + n = hi
  BY <1>0
<1>2. ASSUME NEW k \in 1..n
      PROVE  lo + k \in Pairs /\ lo < lo + k /\ (lo + k) - 1 = lo + (k - 1)
  <2>1. lo + k \in lo..hi
    BY <1>1
  <2> QED BY <1>0, <1>1, <2>1
<1>3. step \in [1..n -> [Arrays -> Arrays]]
  <2>1. ASSUME NEW k \in 1..n, NEW b \in Arrays
        PROVE  Inserted(b, lo, lo + k) \in Arrays
    <3>1. lo + k \in Pairs /\ lo <= lo + k
      BY <1>1, <1>2
    <3> QED BY <3>1, InsertedIs
  <2> QED BY <2>1
<1>4. \E f : f = [k \in 0..n |-> After(f, k)]
  <2> HIDE DEF n, step
  <2>1. PICK f : Iterates(f, n, Arrays, a, step)
    BY <1>1, <1>3, IterationExists
  <2>2. ASSUME NEW k \in 0..n PROVE f[k] = After(f, k)
    <3>1. CASE k = 0
      BY <2>1, <3>1 DEF Iterates
    <3>2. CASE k # 0
      <4>1. k \in 1..n /\ k - 1 \in 0..n
        BY <1>1, <3>2
      <4>2. f[k - 1] \in Arrays /\ f[k] = step[k][f[k - 1]]
        BY <2>1, <4>1 DEF Iterates
      <4> QED BY <3>2, <4>1, <4>2 DEF step
    <3> QED BY <3>1, <3>2
  <2>3. f = [k \in 0..n |-> After(f, k)]
    <3>1. f \in [0..n -> Arrays]
      BY <2>1 DEF Iterates
    <3> HIDE DEF After
    <3> QED BY <2>2, <3>1
  <2> QED BY <2>3
<1>5. g = [k \in 0..n |-> After(g, k)]
  <2> HIDE DEF After, n
  <2> QED BY <1>4
<1>6. ISort(a, lo, hi) = g[n]
  BY DEF ISort
<1> HIDE DEF g, step
<1> DEFINE Done(k) == Rearranged(a, g[k], lo, hi) /\ Sorted(g[k], lo, lo + k)
           T == {k \in Nat : k \in 0..n => Done(k)}
<1>w. \A k \in 0..n : lo..(lo + k) \subseteq lo..hi
  BY <1>1
<1>7. 0 \in T
  <2>1. g[0] = a
    BY <1>1, <1>5
  <2>2. Sorted(a, lo, lo + 0)
    BY <1>1 DEF Sorted
  <2> QED BY <2>1, <2>2, RearrangedNot
<1>8. ASSUME NEW m \in Nat, m \in T PROVE m + 1 \in T
  <2> SUFFICES ASSUME m + 1 \in 0..n PROVE Done(m + 1)
    OBVIOUS
  <2>1. m \in 0..n /\ m + 1 \in 1..n /\ (m + 1) - 1 = m /\ m + 1 # 0
    BY <1>1
  <2>2. Rearranged(a, g[m], lo, hi) /\ Sorted(g[m], lo, lo + m)
    BY <1>8, <2>1
  <2>3. g[m + 1] = Inserted(g[m], lo, lo + (m + 1))
    BY <1>5, <2>1
  <2>4. g[m] \in Arrays
    BY <2>2 DEF Rearranged
  <2>5. /\ lo + (m + 1) \in Pairs /\ lo < lo + (m + 1)
        /\ (lo + (m + 1)) - 1 = lo + m /\ lo <= lo + (m + 1)
    BY <1>1, <1>2, <2>1
  <2> HIDE DEF n
  <2>6. Rearranged(g[m], g[m + 1], lo, lo + (m + 1))
    BY <2>3, <2>4, <2>5, InsertedRearranges
  <2>7. Sorted(g[m + 1], lo, lo + (m + 1))
    BY <2>2, <2>3, <2>4, <2>5, InsertedSorts
  <2>8. Rearranged(g[m], g[m + 1], lo, hi)
    BY <1>w, <1>0, <2>1, <2>6, RearrangedWider
  <2> QED BY <2>2, <2>7, <2>8, RearrangedTwice
<1> HIDE DEF T
<1>9. Nat \subseteq T
  BY <1>7, <1>8, NatSetInduction
<1>10. Done(n)
  <2>1. n \in T /\ n \in 0..n
    BY <1>1, <1>9
  <2> HIDE DEF n
  <2> USE DEF T
  <2> QED BY <2>1
<1> QED BY <1>1, <1>6, <1>10

(***************************************************************************)
(* json__ilog2.                                                            *)
(***************************************************************************)

LEMMA Half ==
  ASSUME NEW n \in Nat
  PROVE  /\ n \div 2 \in Nat
         /\ 2 * (n \div 2) <= n /\ n <= 2 * (n \div 2) + 1
         /\ n > 1 => n \div 2 >= 1 /\ n \div 2 < n
  OBVIOUS

\* f has the logarithms up to n.
Logs(f, n) ==
  /\ f \in [0..n -> Nat]
  /\ \A k \in 0..n : f[k] = IF k <= 1 THEN 0 ELSE 1 + f[k \div 2]

LEMMA LogsExist == ASSUME NEW n \in Nat PROVE \E f : Logs(f, n)
<1> DEFINE T == {m \in Nat : \E f : Logs(f, m)}
<1>1. 0 \in T
  <2>1. Logs([k \in 0..0 |-> 0], 0)
    BY DEF Logs
  <2> QED BY <2>1
<1>2. ASSUME NEW m \in Nat, m \in T PROVE m + 1 \in T
  <2>1. PICK f : Logs(f, m)
    BY <1>2
  <2> DEFINE g == [k \in 0..(m + 1) |->
                     IF k <= m THEN f[k] ELSE IF k <= 1 THEN 0 ELSE 1 + f[k \div 2]]
  <2>2. ASSUME NEW k \in 0..(m + 1), k > 1
        PROVE  k \div 2 \in 0..m /\ k \div 2 <= m /\ k \div 2 \in 0..(m + 1)
    BY <2>2, Half
  <2>3. g \in [0..(m + 1) -> Nat]
    <3> SUFFICES ASSUME NEW k \in 0..(m + 1)
                 PROVE  (IF k <= m THEN f[k] ELSE IF k <= 1 THEN 0 ELSE 1 + f[k \div 2]) \in Nat
      OBVIOUS
    <3>1. CASE k <= m
      BY <2>1, <3>1 DEF Logs
    <3>2. CASE k > m /\ k > 1
      <4>1. f[k \div 2] \in Nat
        BY <2>1, <2>2, <3>2 DEF Logs
      <4> QED BY <3>2, <4>1
    <3>3. CASE k > m /\ k <= 1
      BY <3>3
    <3> QED BY <3>1, <3>2, <3>3
  <2>4. ASSUME NEW k \in 0..(m + 1)
        PROVE  g[k] = IF k <= 1 THEN 0 ELSE 1 + g[k \div 2]
    <3>1. CASE k <= 1
      <4>1. k <= m => f[k] = 0
        BY <2>1, <3>1 DEF Logs
      <4> QED BY <3>1, <4>1
    <3>2. CASE k > 1
      <4>1. g[k \div 2] = f[k \div 2]
        BY <2>2, <3>2
      <4>2. k <= m => f[k] = 1 + f[k \div 2]
        BY <2>1, <3>2 DEF Logs
      <4>3. g[k] = 1 + f[k \div 2]
        BY <3>2, <4>2
      <4> QED BY <3>2, <4>1, <4>3
    <3> QED BY <3>1, <3>2
  <2> HIDE DEF g
  <2>5. Logs(g, m + 1)
    BY <2>3, <2>4 DEF Logs
  <2> QED BY <2>5
<1> HIDE DEF T
<1>3. n \in T
  BY <1>1, <1>2, NatSetInduction
<1> QED BY <1>3 DEF T

LEMMA LogsAgree ==
  ASSUME NEW n \in Nat, NEW m \in Nat, n <= m,
         NEW f, NEW g, Logs(f, n), Logs(g, m)
  PROVE  \A k \in 0..n : f[k] = g[k]
<1> DEFINE T == {k \in Nat : k \in 0..n => f[k] = g[k]}
<1>1. ASSUME NEW k \in Nat, \A l \in 0..(k - 1) : l \in T PROVE k \in T
  <2> SUFFICES ASSUME k \in 0..n PROVE f[k] = g[k]
    OBVIOUS
  <2>1. CASE k <= 1
    BY <2>1 DEF Logs
  <2>2. CASE k > 1
    <3>1. k \div 2 \in 0..(k - 1) /\ k \div 2 \in 0..n /\ k \in 0..m
      BY <2>2, Half
    <3>2. f[k \div 2] = g[k \div 2]
      BY <1>1, <3>1
    <3> QED BY <2>2, <3>1, <3>2 DEF Logs
  <2> QED BY <2>1, <2>2
<1> HIDE DEF T
<1>2. Nat \subseteq T
  BY <1>1, NatStrongInduction
<1> QED BY <1>2 DEF T

LEMMA ILog2Is ==
  ASSUME NEW n \in Nat
  PROVE  /\ ILog2[n] \in Nat
         /\ ILog2[n] = IF n <= 1 THEN 0 ELSE 1 + ILog2[n \div 2]
<1> DEFINE Next1(f, k) == IF k <= 1 THEN 0 ELSE 1 + f[k \div 2]
           Of(k) == CHOOSE f : Logs(f, k)
           F == [k \in Nat |-> Of(k)[k]]
<1>1. \A k \in Nat : Logs(Of(k), k)
  BY LogsExist
<1> HIDE DEF Of
<1>2. ASSUME NEW k \in Nat PROVE F[k] = Next1(F, k) /\ F[k] \in Nat
  <2>1. F[k] = Of(k)[k] /\ Of(k)[k] \in Nat
    BY <1>1 DEF Logs
  <2>2. CASE k <= 1
    BY <1>1, <2>1, <2>2 DEF Logs
  <2>3. CASE k > 1
    <3>1. k \div 2 \in Nat /\ k \div 2 <= k /\ k \div 2 \in 0..(k \div 2)
      BY <2>3, Half
    <3>2. Of(k \div 2)[k \div 2] = Of(k)[k \div 2]
      BY <1>1, <3>1, LogsAgree
    <3>3. Of(k)[k] = 1 + Of(k)[k \div 2]
      <4>1. Logs(Of(k), k) /\ k \in 0..k
        BY <1>1
      <4> QED BY <2>3, <4>1 DEF Logs
    <3>4. F[k \div 2] = Of(k \div 2)[k \div 2]
      BY <3>1
    <3>5. F[k] = 1 + F[k \div 2]
      <4> HIDE DEF F
      <4> QED BY <2>1, <3>2, <3>3, <3>4
    <3> HIDE DEF F
    <3> QED BY <2>1, <2>3, <3>5
  <2> QED BY <2>1, <2>2, <2>3
<1>3. F \in [Nat -> Nat]
  BY <1>2
<1> HIDE DEF F
<1>4. F = [k \in Nat |-> Next1(F, k)]
  <2> HIDE DEF Next1
  <2> QED BY <1>2, <1>3
<1>5. ILog2 = [k \in Nat |-> Next1(ILog2, k)]
  BY <1>4 DEF ILog2
<1>6. \A k \in Nat : ILog2[k] = Next1(ILog2, k)
  BY <1>5
<1> DEFINE T == {k \in Nat : ILog2[k] \in Nat}
<1>7. ASSUME NEW k \in Nat, \A l \in 0..(k - 1) : l \in T PROVE k \in T
  <2>1. CASE k <= 1
    BY <1>6, <2>1
  <2>2. CASE k > 1
    <3>1. k \div 2 \in 0..(k - 1)
      BY <2>2, Half
    <3>2. ILog2[k \div 2] \in Nat
      BY <1>7, <3>1
    <3> QED BY <1>6, <2>2, <3>2
  <2> QED BY <2>1, <2>2
<1> HIDE DEF T
<1>8. Nat \subseteq T
  BY <1>7, NatStrongInduction
<1> QED BY <1>6, <1>8 DEF T

LEMMA ILog2Monotonic ==
  ASSUME NEW m \in Nat, NEW n \in Nat, m <= n
  PROVE  ILog2[m] <= ILog2[n]
<1> DEFINE T == {k \in Nat : \A l \in 0..k : ILog2[l] <= ILog2[k]}
<1>1. ASSUME NEW k \in Nat, \A j \in 0..(k - 1) : j \in T PROVE k \in T
  <2> SUFFICES ASSUME NEW l \in 0..k PROVE ILog2[l] <= ILog2[k]
    OBVIOUS
  <2>1. CASE l <= 1
    BY <2>1, ILog2Is
  <2>2. CASE l > 1
    <3>1. /\ k \div 2 \in 0..(k - 1) /\ l \div 2 \in 0..(k \div 2) /\ k > 1
          /\ l \div 2 \in Nat /\ k \div 2 \in Nat /\ l \in Nat
      <4>1. k \in Nat /\ l \in Nat /\ k > 1 /\ l <= k
        BY <2>2
      <4>2. /\ k \div 2 \in Nat /\ k \div 2 < k /\ l \div 2 \in Nat
            /\ l \div 2 <= k \div 2
        BY <2>2, <4>1, Half
      <4> QED BY <4>1, <4>2
    <3>2. ILog2[l \div 2] <= ILog2[k \div 2]
      BY <1>1, <3>1
    <3>3. ILog2[l] = 1 + ILog2[l \div 2] /\ ILog2[k] = 1 + ILog2[k \div 2]
      BY <2>2, <3>1, ILog2Is
    <3>4. ILog2[l \div 2] \in Nat /\ ILog2[k \div 2] \in Nat
      BY <3>1, ILog2Is
    <3> QED BY <3>2, <3>3, <3>4
  <2> QED BY <2>1, <2>2
<1> HIDE DEF T
<1>2. Nat \subseteq T
  BY <1>1, NatStrongInduction
<1>3. m \in 0..n
  OBVIOUS
<1> QED BY <1>2, <1>3 DEF T

LEMMA ILog2Doubles ==
  ASSUME NEW n \in Nat, n > 0
  PROVE  ILog2[2 * n] = 1 + ILog2[n]
<1>1. (2 * n) \div 2 = n /\ 2 * n \in Nat /\ 2 * n > 1
  OBVIOUS
<1> QED BY <1>1, ILog2Is

(***************************************************************************)
(* json__heapsort.                                                         *)
(***************************************************************************)

Fits(lo, end) == lo \in Nat /\ end \in Nat /\ lo + end \in Pairs

Children(p) == {2 * p + 1, 2 * p + 2}

\* No child of p, in the heap of lo..(lo + end), has a greater key than p.
Over(a, lo, p, end) ==
  \A c \in Children(p) : c <= end => Rises(a, lo + c, lo + p)

HeapFrom(a, lo, root, end) == \A p \in root..end : Over(a, lo, p, end)

\* While json__sift_down works on h.at, only that entry may be smaller than its
\* children, and none of these is greater than the parent of h.at.
Holed(h, lo, root, end) ==
  /\ h \in [arr : Arrays, at : 0..end]
  /\ root <= h.at
  /\ \A p \in root..end : p # h.at => Over(h.arr, lo, p, end)
  /\ \A p \in root..end : h.at \in Children(p) =>
       \A c \in Children(h.at) : c <= end => Rises(h.arr, lo + c, lo + p)

\* One turn: h.at stays, over its children, or changes place with the greater.
Stays(h, g, lo, end) == g = h /\ Over(h.arr, lo, h.at, end)
Sinks(h, g, lo, end) ==
  /\ g.at \in Children(h.at) /\ g.at <= end
  /\ g = [arr |-> Swap(h.arr, lo + h.at, lo + g.at), at |-> g.at]
  /\ Less(h.arr[lo + h.at], h.arr[lo + g.at])
  /\ \A c \in Children(h.at) : c <= end => Rises(h.arr, lo + c, lo + g.at)

LEMMA FitsPairs ==
  ASSUME key \in Inputs, NEW lo, NEW end, Fits(lo, end)
  PROVE  /\ lo..(lo + end) \subseteq Pairs
         /\ \A m \in 0..end : lo + m \in Pairs /\ lo + m \in lo..(lo + end)
<1>1. /\ Count \in Nat /\ lo \in Nat /\ end \in Nat
      /\ lo + end \in 0..(Count - 1)
  BY CountType DEF Fits, Pairs
<1> QED BY <1>1 DEF Pairs

LEMMA SiftTurn ==
  ASSUME key \in Inputs, NEW lo, NEW end, Fits(lo, end),
         NEW h \in [arr : Arrays, at : 0..end], NEW g, g = Sift(h, lo, end)
  PROVE  Stays(h, g, lo, end) \/ Sinks(h, g, lo, end)
<1> DEFINE a     == h.arr
           left  == 2 * h.at + 1
           child == IF left + 1 <= end /\ Less(a[lo + left], a[lo + left + 1])
                      THEN left + 1 ELSE left
<1>1. /\ lo \in Nat /\ end \in Nat /\ h.at \in 0..end /\ a \in Arrays
      /\ left \in Nat /\ left + 1 = 2 * h.at + 2
      /\ lo + left + 1 = lo + (left + 1)
  BY DEF Fits
<1>2. \A m \in 0..end : lo + m \in Pairs /\ a[lo + m] \in Pairs
  BY <1>1, FitsPairs DEF Arrays
<1>3. g = IF left > end \/ ~Less(a[lo + h.at], a[lo + child]) THEN h
          ELSE [arr |-> Swap(a, lo + h.at, lo + child), at |-> child]
  BY DEF Sift
<1>4. Children(h.at) = {left, left + 1}
  BY <1>1 DEF Children
<1>5. child \in {left, left + 1}
  OBVIOUS
<1>6. ASSUME left <= end
      PROVE  /\ child <= end
             /\ \A c \in {left, left + 1} : c <= end => Rises(a, lo + c, lo + child)
  <2>1. left \in 0..end /\ a[lo + left] \in Pairs
    BY <1>1, <1>2, <1>6
  <2>2. CASE left + 1 <= end /\ Less(a[lo + left], a[lo + left + 1])
    <3>1. child = left + 1 /\ left + 1 \in 0..end /\ a[lo + (left + 1)] \in Pairs
      BY <1>1, <1>2, <2>2
    <3>2. /\ Rises(a, lo + left, lo + (left + 1))
          /\ Rises(a, lo + (left + 1), lo + (left + 1))
      BY <1>1, <2>1, <2>2, <3>1, LessOrders DEF Rises
    <3> QED BY <3>1, <3>2
  <2>3. CASE ~(left + 1 <= end /\ Less(a[lo + left], a[lo + left + 1]))
    <3>1. child = left
      BY <2>3
    <3>2. left + 1 <= end => Rises(a, lo + (left + 1), lo + left)
      BY <1>1, <2>3 DEF Rises
    <3>3. Rises(a, lo + left, lo + left)
      BY <2>1, LessOrders DEF Rises
    <3> HIDE DEF a, child
    <3> QED BY <1>6, <3>1, <3>2, <3>3
  <2> QED BY <2>2, <2>3
<1> HIDE DEF child
<1>7. CASE left > end
  <2>1. g = h
    BY <1>3, <1>7
  <2>2. Over(h.arr, lo, h.at, end)
    BY <1>1, <1>4, <1>7 DEF Over
  <2> QED BY <2>1, <2>2 DEF Stays
<1>8. CASE left <= end /\ ~Less(a[lo + h.at], a[lo + child])
  <2>1. g = h
    BY <1>3, <1>8
  <2>2. /\ lo + h.at \in Pairs /\ lo + child \in Pairs
        /\ \A c \in {left, left + 1} : c <= end => lo + c \in Pairs
    <3>1. /\ child \in 0..end /\ h.at \in 0..end
          /\ \A c \in {left, left + 1} : c <= end => c \in 0..end
      BY <1>1, <1>5, <1>6, <1>8
    <3> HIDE DEF a, left
    <3> QED BY <1>2, <3>1
  <2>3. Rises(a, lo + child, lo + h.at)
    BY <1>8 DEF Rises
  <2>4. ASSUME NEW c \in {left, left + 1}, c <= end
        PROVE  Rises(a, lo + c, lo + h.at)
    <3>1. Rises(a, lo + c, lo + child)
      BY <1>6, <1>8, <2>4
    <3>2. lo + c \in Pairs
      BY <2>2, <2>4
    <3> HIDE DEF a
    <3> QED BY <1>1, <2>2, <2>3, <3>1, <3>2, RisesTwice
  <2>5. Over(h.arr, lo, h.at, end)
    BY <1>4, <2>4 DEF Over
  <2> QED BY <2>1, <2>5 DEF Stays
<1>9. CASE left <= end /\ Less(a[lo + h.at], a[lo + child])
  <2>1. g = [arr |-> Swap(a, lo + h.at, lo + child), at |-> child]
    BY <1>1, <1>3, <1>9
  <2>2. g.at = child
    BY <2>1
  <2> QED BY <1>4, <1>5, <1>6, <1>9, <2>1, <2>2 DEF Sinks
<1> QED BY <1>1, <1>7, <1>8, <1>9

LEMMA SiftHoled ==
  ASSUME key \in Inputs, NEW lo, NEW end, Fits(lo, end), NEW root \in Nat,
         NEW h, Holed(h, lo, root, end), NEW g, g = Sift(h, lo, end)
  PROVE  Holed(g, lo, root, end) /\ Rearranged(h.arr, g.arr, lo, lo + end)
<1>1. /\ h \in [arr : Arrays, at : 0..end] /\ h.arr \in Arrays /\ h.at \in 0..end
      /\ root <= h.at
  BY DEF Holed
<1>2. CASE Stays(h, g, lo, end)
  BY <1>1, <1>2, RearrangedNot DEF Stays
<1>3. CASE Sinks(h, g, lo, end)
  <2> DEFINE a == h.arr
             b == g.arr
             x == h.at
             c == g.at
  <2>1. /\ lo \in Nat /\ end \in Nat /\ x \in 0..end /\ root <= x
        /\ (c = 2 * x + 1 \/ c = 2 * x + 2) /\ c <= end
    BY <1>1, <1>3 DEF Fits, Sinks, Children
  <2>2. c \in 0..end /\ c > x
    BY <2>1
  <2>3. \A m \in 0..end : lo + m \in Pairs /\ lo + m \in lo..(lo + end)
    BY FitsPairs
  <2>4. b = Swap(a, lo + x, lo + c) /\ g = [arr |-> b, at |-> c]
    BY <1>3 DEF Sinks
  <2>5. /\ b \in Arrays /\ b[lo + x] = a[lo + c] /\ b[lo + c] = a[lo + x]
        /\ \A m \in 0..end : m # x /\ m # c => b[lo + m] = a[lo + m]
    <3>1. /\ lo + x \in Pairs /\ lo + c \in Pairs
          /\ \A m \in 0..end : m # x /\ m # c =>
               lo + m \in Pairs /\ lo + m # lo + x /\ lo + m # lo + c
      BY <2>1, <2>2, <2>3
    <3>2. PICK i, j \in Pairs : i = lo + x /\ j = lo + c
      BY <3>1
    <3>3. a \in Arrays /\ b = Swap(a, i, j)
      BY <1>1, <2>4, <3>2
    <3> HIDE DEF a, b, x, c
    <3>4. /\ b \in Arrays /\ b[i] = a[j] /\ b[j] = a[i]
          /\ \A m \in Pairs : m # i /\ m # j => b[m] = a[m]
      BY <3>3 DEF Swap, Arrays
    <3> QED BY <3>1, <3>2, <3>4
  <2>6. Rearranged(a, b, lo, lo + end)
    <3>1. lo..(lo + end) \subseteq Pairs
      BY FitsPairs
    <3> QED BY <1>1, <2>1, <2>2, <2>3, <2>4, <3>1, SwapRearranges
  <2>7. /\ ~Less(a[lo + c], a[lo + x])
        /\ \A d \in Children(x) : d <= end => ~Less(a[lo + c], a[lo + d])
    <3>1. a[lo + x] \in Pairs /\ a[lo + c] \in Pairs
      BY <1>1, <2>1, <2>2, <2>3 DEF Arrays
    <3> QED BY <1>3, <3>1, LessOrders DEF Sinks, Rises
  <2>8. /\ \A p \in root..end : p # x =>
             \A d \in Children(p) : d <= end => ~Less(a[lo + p], a[lo + d])
        /\ \A p \in root..end : x \in Children(p) =>
             \A d \in Children(x) : d <= end => ~Less(a[lo + p], a[lo + d])
    BY DEF Holed, Over, Rises
  <2> HIDE DEF a, b, x, c
  <2>9. ASSUME NEW p \in root..end, p # c, NEW d \in Children(p), d <= end
        PROVE  ~Less(b[lo + p], b[lo + d])
    <3>1. p \in 0..end /\ d \in 0..end /\ (d = 2 * p + 1 \/ d = 2 * p + 2) /\ d # p
      BY <2>1, <2>9 DEF Children
    <3>2. CASE p = x /\ d = c
      BY <2>5, <2>7, <3>2
    <3>3. CASE p = x /\ d # c
      <4>1. d # x /\ b[lo + d] = a[lo + d]
        BY <2>5, <3>1, <3>3
      <4> QED BY <2>5, <2>7, <2>9, <3>3, <4>1
    <3>4. CASE p # x
      <4>1. b[lo + p] = a[lo + p]
        BY <2>5, <2>9, <3>1, <3>4
      <4>2. d # c
        BY <2>1, <3>1, <3>4
      <4>3. CASE d = x
        <5>1. x \in Children(p) /\ c \in Children(x)
          BY <2>1, <2>9, <4>3 DEF Children
        <5> QED BY <2>1, <2>5, <2>8, <4>1, <4>3, <5>1
      <4>4. CASE d # x
        BY <2>5, <2>8, <2>9, <3>1, <3>4, <4>1, <4>2, <4>4
      <4> QED BY <4>3, <4>4
    <3> QED BY <3>2, <3>3, <3>4
  <2>10. ASSUME NEW p \in root..end, c \in Children(p),
                NEW d \in Children(c), d <= end
         PROVE  ~Less(b[lo + p], b[lo + d])
    <3>1. /\ p = x /\ c \in root..end /\ d \in 0..end
          /\ (d = 2 * c + 1 \/ d = 2 * c + 2)
      BY <2>1, <2>10 DEF Children
    <3>2. d # c /\ d # x /\ c # x
      BY <2>1, <2>2, <3>1
    <3> QED BY <2>5, <2>8, <2>10, <3>1, <3>2
  <2>11. Holed(g, lo, root, end)
    <3>1. g \in [arr : Arrays, at : 0..end] /\ g.arr = b /\ g.at = c
      BY <2>2, <2>4, <2>5
    <3>2. root <= c
      BY <2>1, <2>2
    <3> QED BY <2>9, <2>10, <3>1, <3>2 DEF Holed, Over, Rises
  <2> QED BY <2>6, <2>11 DEF a, b
<1> QED BY <1>1, <1>2, <1>3, SiftTurn

\* g has what json__sift_down makes of a, turn by turn, and b is the last of it.
SiftRun(g, a, b, lo, root, end) ==
  /\ g \in [0..ILog2[end + 1] -> [arr : Arrays, at : 0..end]]
  /\ g[0] = [arr |-> a, at |-> root]
  /\ \A k \in 1..ILog2[end + 1] : g[k] = Sift(g[k - 1], lo, end)
  /\ b = g[ILog2[end + 1]].arr

LEMMA SiftType ==
  ASSUME key \in Inputs, NEW lo, NEW end, Fits(lo, end),
         NEW h \in [arr : Arrays, at : 0..end]
  PROVE  Sift(h, lo, end) \in [arr : Arrays, at : 0..end]
<1> DEFINE g == Sift(h, lo, end)
<1>1. Stays(h, g, lo, end) \/ Sinks(h, g, lo, end)
  BY SiftTurn
<1> SUFFICES g \in [arr : Arrays, at : 0..end]
  OBVIOUS
<1> HIDE DEF g
<1>2. CASE Stays(h, g, lo, end)
  BY <1>2 DEF Stays
<1>3. CASE Sinks(h, g, lo, end)
  <2>1. /\ g = [arr |-> Swap(h.arr, lo + h.at, lo + g.at), at |-> g.at]
        /\ g.at \in 0..end
    <3>1. h.at \in 0..end /\ end \in Nat
      BY DEF Fits
    <3> QED BY <1>3, <3>1 DEF Sinks, Children
  <2>2. lo + h.at \in Pairs /\ lo + g.at \in Pairs /\ h.arr \in Arrays
    BY <2>1, FitsPairs
  <2>3. Swap(h.arr, lo + h.at, lo + g.at) \in Arrays
    BY <2>2 DEF Swap, Arrays
  <2> QED BY <2>1, <2>3
<1> QED BY <1>1, <1>2, <1>3

LEMMA SiftDownRuns ==
  ASSUME key \in Inputs, NEW lo, NEW end, Fits(lo, end),
         NEW a \in Arrays, NEW root \in 0..end
  PROVE  \E g : SiftRun(g, a, SiftDown(a, lo, root, end), lo, root, end)
<1> DEFINE n == ILog2[end + 1]
           S == [arr : Arrays, at : 0..end]
           x == [arr |-> a, at |-> root]
           After(f, k) == IF k = 0 THEN [arr |-> a, at |-> root]
                                   ELSE Sift(f[k - 1], lo, end)
           g == CHOOSE f : f = [k \in 0..n |-> After(f, k)]
           step == [k \in 1..n |-> [h \in S |-> Sift(h, lo, end)]]
<1>1. n \in Nat
  <2>1. end + 1 \in Nat
    BY DEF Fits
  <2> QED BY <2>1, ILog2Is
<1>2. x \in S
  OBVIOUS
<1>3. step \in [1..n -> [S -> S]]
  <2>1. \A h \in S : Sift(h, lo, end) \in S
    BY SiftType
  <2> HIDE DEF S, n
  <2> QED BY <2>1
<1> SUFFICES \E f : SiftRun(f, a, SiftDown(a, lo, root, end), lo, root, end)
  OBVIOUS
<1> HIDE DEF n, S, x, step
<1>4. PICK f : Iterates(f, n, S, x, step)
  BY <1>1, <1>2, <1>3, IterationExists
<1>5. f \in [0..n -> S]
  BY <1>4 DEF Iterates
<1>6. ASSUME NEW k \in 0..n PROVE f[k] = After(f, k)
  <2>1. CASE k = 0
    BY <1>4, <2>1 DEF Iterates, x
  <2>2. CASE k # 0
    <3>1. k \in 1..n /\ k - 1 \in 0..n
      BY <1>1, <2>2
    <3>2. f[k - 1] \in S /\ f[k] = step[k][f[k - 1]]
      BY <1>4, <3>1 DEF Iterates
    <3> QED BY <2>2, <3>1, <3>2 DEF step
  <2> QED BY <2>1, <2>2
<1>7. f = [k \in 0..n |-> After(f, k)]
  <2> HIDE DEF After
  <2> QED BY <1>5, <1>6
<1>8. g = [k \in 0..n |-> After(g, k)]
  <2> HIDE DEF After
  <2> QED BY <1>7
<1>9. SiftDown(a, lo, root, end) = g[n].arr
  BY DEF SiftDown, n
<1> HIDE DEF g
<1>10. \A k \in 0..n : g[k] = After(g, k)
  <2> HIDE DEF After
  <2> QED BY <1>8
<1>11. g[0] = x /\ \A k \in 1..n : g[k] = Sift(g[k - 1], lo, end)
  BY <1>1, <1>10 DEF x
<1> HIDE DEF After
<1> DEFINE T == {k \in Nat : k \in 0..n => g[k] \in S}
<1>12. 0 \in T
  BY <1>2, <1>11
<1>13. ASSUME NEW k \in Nat, k \in T PROVE k + 1 \in T
  <2> SUFFICES ASSUME k + 1 \in 0..n PROVE g[k + 1] \in S
    OBVIOUS
  <2>1. k \in 0..n /\ k + 1 \in 1..n /\ (k + 1) - 1 = k
    BY <1>1
  <2>2. g[k] \in S /\ g[k + 1] = Sift(g[k], lo, end)
    BY <1>11, <1>13, <2>1
  <2> QED BY <2>2, SiftType DEF S
<1> HIDE DEF T
<1>14. Nat \subseteq T
  BY <1>12, <1>13, NatSetInduction
<1>15. g \in [0..n -> S]
  <2>1. \A k \in 0..n : g[k] \in S
    BY <1>14 DEF T
  <2> QED BY <1>8, <2>1
<1> QED BY <1>9, <1>11, <1>15 DEF SiftRun, n, S, x

LEMMA SiftDownType ==
  ASSUME key \in Inputs, NEW lo, NEW end, Fits(lo, end),
         NEW a \in Arrays, NEW root \in 0..end
  PROVE  SiftDown(a, lo, root, end) \in Arrays
<1>1. PICK g : SiftRun(g, a, SiftDown(a, lo, root, end), lo, root, end)
  BY SiftDownRuns
<1>2. ILog2[end + 1] \in Nat
  <2>1. end + 1 \in Nat
    BY DEF Fits
  <2> QED BY <2>1, ILog2Is
<1>3. g[ILog2[end + 1]] \in [arr : Arrays, at : 0..end]
  BY <1>1, <1>2 DEF SiftRun
<1> QED BY <1>1, <1>3 DEF SiftRun

\* An entry that sinks comes one level down.
LEMMA SinksDeeper ==
  ASSUME NEW lo, NEW end \in Nat, NEW h \in [arr : Arrays, at : 0..end],
         NEW g \in [arr : Arrays, at : 0..end], Sinks(h, g, lo, end)
  PROVE  ILog2[g.at + 1] >= 1 + ILog2[h.at + 1] /\ ILog2[end + 1] >= ILog2[g.at + 1]
<1>1. PICK x \in Nat : x = h.at + 1 /\ x > 0
  OBVIOUS
<1>2. PICK y \in Nat : y = g.at + 1 /\ 2 * x <= y /\ y <= end + 1
  BY <1>1 DEF Sinks, Children
<1>3. 2 * x \in Nat /\ end + 1 \in Nat
  BY <1>1
<1>4. ILog2[2 * x] = 1 + ILog2[x]
  BY <1>1, ILog2Doubles
<1>5. ILog2[2 * x] <= ILog2[y] /\ ILog2[y] <= ILog2[end + 1]
  BY <1>2, <1>3, ILog2Monotonic
<1>6. ILog2[x] \in Nat /\ ILog2[y] \in Nat /\ ILog2[end + 1] \in Nat
  BY <1>3, ILog2Is
<1> QED BY <1>1, <1>2, <1>4, <1>5, <1>6

\* json__sift_down makes a heap of what is one below its root, within as many
\* turns as the heap has levels.
LEMMA SiftDownSifts ==
  ASSUME key \in Inputs, NEW lo, NEW end, Fits(lo, end), NEW a \in Arrays,
         NEW root \in 0..end, HeapFrom(a, lo, root + 1, end),
         NEW b, b = SiftDown(a, lo, root, end)
  PROVE  Rearranged(a, b, lo, lo + end) /\ HeapFrom(b, lo, root, end)
<1> DEFINE n == ILog2[end + 1]
           S == [arr : Arrays, at : 0..end]
<1>0. end \in Nat /\ root \in Nat
  BY DEF Fits
<1>1. n \in Nat
  <2>1. end + 1 \in Nat
    BY <1>0
  <2> QED BY <2>1, ILog2Is
<1>2. PICK g : SiftRun(g, a, b, lo, root, end)
  BY SiftDownRuns
<1>3. /\ g \in [0..n -> S] /\ g[0] = [arr |-> a, at |-> root]
      /\ \A k \in 1..n : g[k] = Sift(g[k - 1], lo, end)
      /\ b = g[n].arr
  BY <1>2 DEF SiftRun
<1> HIDE DEF n, S
<1> DEFINE Settled(k) == Over(g[k].arr, lo, g[k].at, end)
           Done(k) == /\ Holed(g[k], lo, root, end)
                      /\ Rearranged(a, g[k].arr, lo, lo + end)
                      /\ Settled(k) \/ ILog2[g[k].at + 1] >= k
           T == {k \in Nat : k \in 0..n => Done(k)}
<1>4. 0 \in T
  <2>1. g[0].arr = a /\ g[0].at = root /\ g[0] \in S
    BY <1>1, <1>3
  <2>2. Holed(g[0], lo, root, end)
    <3>1. ASSUME NEW p \in root..end, p # root PROVE Over(a, lo, p, end)
      <4>1. p \in (root + 1)..end
        BY <1>0, <3>1
      <4> QED BY <4>1 DEF HeapFrom
    <3>2. ASSUME NEW p \in root..end PROVE root \notin Children(p)
      BY <1>0 DEF Children
    <3> QED BY <1>0, <2>1, <3>1, <3>2 DEF Holed, S
  <2>3. Rearranged(a, g[0].arr, lo, lo + end)
    BY <2>1, RearrangedNot
  <2>4. ILog2[g[0].at + 1] >= 0
    <3>1. g[0].at + 1 \in Nat
      BY <1>0, <2>1
    <3>2. ILog2[g[0].at + 1] \in Nat
      BY <3>1, ILog2Is
    <3> QED BY <3>2
  <2> QED BY <2>2, <2>3, <2>4
<1>5. ASSUME NEW k \in Nat, k \in T PROVE k + 1 \in T
  <2> SUFFICES ASSUME k + 1 \in 0..n PROVE Done(k + 1)
    OBVIOUS
  <2>1. k \in 0..n /\ k + 1 \in 1..n /\ (k + 1) - 1 = k /\ k + 1 \in 0..n
    BY <1>1
  <2>2. Done(k)
    BY <1>5, <2>1
  <2>3. PICK h \in S : h = g[k]
    BY <1>3, <2>1
  <2>4. PICK s \in S : s = g[k + 1] /\ s = Sift(h, lo, end)
    BY <1>3, <2>1, <2>3
  <2>5. /\ Holed(h, lo, root, end)
        /\ Rearranged(a, h.arr, lo, lo + end)
        /\ Over(h.arr, lo, h.at, end) \/ ILog2[h.at + 1] >= k
    BY <2>2, <2>3
  <2> HIDE DEF T, Done
  <2>6. Holed(s, lo, root, end) /\ Rearranged(h.arr, s.arr, lo, lo + end)
    BY <1>0, <2>4, <2>5, SiftHoled
  <2>7. Rearranged(a, s.arr, lo, lo + end)
    BY <2>5, <2>6, RearrangedTwice
  <2>8. Over(s.arr, lo, s.at, end) \/ ILog2[s.at + 1] >= k + 1
    <3>1. Stays(h, s, lo, end) \/ Sinks(h, s, lo, end)
      BY <2>4, SiftTurn DEF S
    <3>2. CASE Stays(h, s, lo, end)
      BY <3>2 DEF Stays
    <3>3. CASE Sinks(h, s, lo, end)
      <4>1. ~Over(h.arr, lo, h.at, end)
        BY <3>3 DEF Sinks, Over, Rises
      <4>2. ILog2[s.at + 1] >= 1 + ILog2[h.at + 1]
        BY <1>0, <3>3, SinksDeeper DEF S
      <4>3. ILog2[s.at + 1] \in Nat /\ ILog2[h.at + 1] \in Nat
        <5>1. s.at + 1 \in Nat /\ h.at + 1 \in Nat
          BY <1>0 DEF S
        <5> QED BY <5>1, ILog2Is
      <4> QED BY <2>5, <4>1, <4>2, <4>3
    <3> QED BY <3>1, <3>2, <3>3
  <2> QED BY <2>4, <2>6, <2>7, <2>8 DEF Done
<1> HIDE DEF T
<1>6. Nat \subseteq T
  BY <1>4, <1>5, NatSetInduction
<1>7. PICK h \in S : h = g[n] /\ b = h.arr
  BY <1>1, <1>3
<1>8. /\ Holed(h, lo, root, end) /\ Rearranged(a, h.arr, lo, lo + end)
      /\ Over(h.arr, lo, h.at, end) \/ ILog2[h.at + 1] >= n
  <2>1. n \in T /\ n \in 0..n
    BY <1>1, <1>6
  <2>2. Done(n)
    BY <2>1 DEF T
  <2> QED BY <1>7, <2>2
<1>9. Over(h.arr, lo, h.at, end)
  <2> SUFFICES ASSUME ILog2[h.at + 1] >= n, ~Over(h.arr, lo, h.at, end) PROVE FALSE
    BY <1>8
  <2>1. PICK s \in S : s = Sift(h, lo, end)
    BY SiftType DEF S
  <2>2. Sinks(h, s, lo, end)
    BY <2>1, SiftTurn DEF S, Stays
  <2>3. ILog2[s.at + 1] >= 1 + ILog2[h.at + 1] /\ n >= ILog2[s.at + 1]
    BY <1>0, <2>2, SinksDeeper DEF S, n
  <2>4. ILog2[s.at + 1] \in Nat /\ ILog2[h.at + 1] \in Nat
    <3>1. s.at + 1 \in Nat /\ h.at + 1 \in Nat
      BY <1>0 DEF S
    <3> QED BY <3>1, ILog2Is
  <2> QED BY <1>1, <2>3, <2>4
<1>10. HeapFrom(b, lo, root, end)
  BY <1>7, <1>8, <1>9 DEF Holed, HeapFrom
<1> QED BY <1>7, <1>8, <1>10

\* The root of a heap has the greatest key.
LEMMA HeapMax ==
  ASSUME key \in Inputs, NEW lo, NEW end, Fits(lo, end), NEW a \in Arrays,
         HeapFrom(a, lo, 0, end), NEW x \in lo..(lo + end)
  PROVE  Rises(a, x, lo)
<1> DEFINE T == {m \in Nat : m \in 0..end => Rises(a, lo + m, lo)}
<1>0. lo \in Nat /\ end \in Nat /\ lo + 0 = lo
  BY DEF Fits
<1>1. \A m \in 0..end : lo + m \in Pairs
  BY FitsPairs
<1>2. ASSUME NEW m \in Nat, \A l \in 0..(m - 1) : l \in T PROVE m \in T
  <2> SUFFICES ASSUME m \in 0..end PROVE Rises(a, lo + m, lo)
    OBVIOUS
  <2>0. lo \in Pairs /\ lo + m \in Pairs
    <3>1. 0 \in 0..end
      BY <1>0
    <3> QED BY <1>0, <1>1, <3>1
  <2>1. CASE m = 0
    BY <1>0, <2>0, <2>1, RisesToItself
  <2>2. CASE m > 0
    <3>1. PICK p \in Nat : m = p + 1
      <4>1. m - 1 \in Nat /\ m = (m - 1) + 1
        BY <2>2
      <4> QED BY <4>1
    <3>2. PICK q \in Nat : 2 * q <= p /\ p <= 2 * q + 1
      <4>1. /\ p \div 2 \in Nat
            /\ 2 * (p \div 2) <= p /\ p <= 2 * (p \div 2) + 1
        BY Half
      <4> QED BY <4>1, Zenon
    <3>3. q \in 0..(m - 1) /\ q \in 0..end /\ (m = 2 * q + 1 \/ m = 2 * q + 2)
      BY <1>0, <3>1, <3>2
    <3>4. Rises(a, lo + m, lo + q)
      BY <3>3 DEF HeapFrom, Over, Children
    <3>5. Rises(a, lo + q, lo) /\ lo + q \in Pairs
      BY <1>1, <1>2, <3>3
    <3> QED BY <2>0, <3>4, <3>5, RisesTwice
  <2> QED BY <2>1, <2>2
<1> HIDE DEF T
<1>3. Nat \subseteq T
  BY <1>2, NatStrongInduction
<1>4. PICK m \in 0..end : x = lo + m
  <2>1. x - lo \in 0..end /\ x = lo + (x - lo)
    BY <1>0
  <2> QED BY <2>1
<1>5. m \in T
  BY <1>0, <1>3
<1> QED BY <1>4, <1>5 DEF T

LEMMA HeapifyBuilds ==
  ASSUME key \in Inputs, NEW lo, NEW n \in Nat, n > 1, Fits(lo, n - 1),
         NEW a \in Arrays, NEW b, b = Heapify(a, lo, n)
  PROVE  Rearranged(a, b, lo, lo + (n - 1)) /\ HeapFrom(b, lo, 0, n - 1)
<1> DEFINE half == n \div 2
           After(f, k) == IF k = 0 THEN a
                          ELSE SiftDown(f[k - 1], lo, half - k, n - 1)
           g == CHOOSE f : f = [k \in 0..half |-> After(f, k)]
           step == [k \in 1..half |-> [c \in Arrays |-> SiftDown(c, lo, half - k, n - 1)]]
<1>1. half \in Nat /\ half <= n - 1 /\ 2 * half + 1 > n - 1
  BY Half
<1>2. b = g[half]
  BY DEF Heapify
<1> HIDE DEF half
<1>3. ASSUME NEW k \in 1..half
      PROVE  half - k \in 0..(n - 1) /\ (half - k) + 1 = half - (k - 1)
  BY <1>1
<1>4. step \in [1..half -> [Arrays -> Arrays]]
  <2>1. ASSUME NEW k \in 1..half, NEW c \in Arrays
        PROVE  SiftDown(c, lo, half - k, n - 1) \in Arrays
    BY <1>3, SiftDownType
  <2> QED BY <2>1
<1> HIDE DEF step
<1>5. PICK f : Iterates(f, half, Arrays, a, step)
  BY <1>1, <1>4, IterationExists
<1>6. f \in [0..half -> Arrays]
  BY <1>5 DEF Iterates
<1>7. ASSUME NEW k \in 0..half PROVE f[k] = After(f, k)
  <2>1. CASE k = 0
    BY <1>5, <2>1 DEF Iterates
  <2>2. CASE k # 0
    <3>1. k \in 1..half /\ k - 1 \in 0..half
      BY <1>1, <2>2
    <3>2. f[k - 1] \in Arrays /\ f[k] = step[k][f[k - 1]]
      BY <1>5, <3>1 DEF Iterates
    <3> QED BY <2>2, <3>1, <3>2 DEF step
  <2> QED BY <2>1, <2>2
<1> HIDE DEF After
<1>8. f = [k \in 0..half |-> After(f, k)]
  BY <1>6, <1>7
<1>9. g = [k \in 0..half |-> After(g, k)]
  BY <1>8
<1> HIDE DEF g
<1>10. \A k \in 0..half : g[k] = After(g, k)
  BY <1>9
<1> DEFINE Done(k) == /\ Rearranged(a, g[k], lo, lo + (n - 1))
                      /\ HeapFrom(g[k], lo, half - k, n - 1)
           T == {k \in Nat : k \in 0..half => Done(k)}
<1>11. 0 \in T
  <2>1. g[0] = a
    BY <1>1, <1>10 DEF After
  <2>2. HeapFrom(a, lo, half - 0, n - 1)
    BY <1>1 DEF HeapFrom, Over, Children
  <2> QED BY <2>1, <2>2, RearrangedNot
<1>12. ASSUME NEW k \in Nat, k \in T PROVE k + 1 \in T
  <2> SUFFICES ASSUME k + 1 \in 0..half PROVE Done(k + 1)
    OBVIOUS
  <2>1. k \in 0..half /\ k + 1 \in 1..half /\ (k + 1) - 1 = k /\ k + 1 # 0
    BY <1>1
  <2>2. Done(k)
    BY <1>12, <2>1
  <2>3. g[k + 1] = SiftDown(g[k], lo, half - (k + 1), n - 1)
    BY <1>10, <2>1 DEF After
  <2>4. PICK c : c = g[k]
    OBVIOUS
  <2>5. PICK d : d = g[k + 1]
    OBVIOUS
  <2>6. PICK root \in 0..(n - 1) : root = half - (k + 1) /\ root + 1 = half - k
    BY <1>1, <2>1
  <2>7. /\ Rearranged(a, c, lo, lo + (n - 1)) /\ HeapFrom(c, lo, root + 1, n - 1)
        /\ d = SiftDown(c, lo, root, n - 1) /\ c \in Arrays
    BY <2>2, <2>3, <2>4, <2>5, <2>6 DEF Rearranged
  <2> HIDE DEF T, Done
  <2>8. Rearranged(c, d, lo, lo + (n - 1)) /\ HeapFrom(d, lo, root, n - 1)
    BY <2>7, SiftDownSifts
  <2>9. Rearranged(a, d, lo, lo + (n - 1))
    BY <2>7, <2>8, RearrangedTwice
  <2> QED BY <2>5, <2>6, <2>8, <2>9 DEF Done
<1> HIDE DEF T
<1>13. Nat \subseteq T
  BY <1>11, <1>12, NatSetInduction
<1>14. Done(half)
  BY <1>1, <1>13 DEF T
<1>15. half - half = 0
  BY <1>1
<1> QED BY <1>2, <1>14, <1>15

\* From place y on, up to hi, nothing has a smaller key than what precedes it.
EndSorted(a, lo, hi, first) ==
  \A x \in lo..hi, y \in first..hi : x < y => Rises(a, x, y)

\* The root of the heap of lo..(lo + m) goes to its end.
LEMMA ExtractTurn ==
  ASSUME key \in Inputs, NEW lo \in Pairs, NEW hi \in Pairs, NEW m \in Nat,
         m > 0, lo + m <= hi, NEW a \in Arrays, HeapFrom(a, lo, 0, m),
         EndSorted(a, lo, hi, lo + m + 1),
         NEW b, b = SiftDown(Swap(a, lo, lo + m), lo, 0, m - 1)
  PROVE  /\ Rearranged(a, b, lo, hi)
         /\ HeapFrom(b, lo, 0, m - 1)
         /\ EndSorted(b, lo, hi, lo + m)
<1>1. lo \in Nat /\ hi \in Nat /\ lo..hi \subseteq Pairs
  BY PairsBetween
<1>2. PICK last \in lo..hi : last = lo + m
  BY <1>1
<1>3. PICK end \in Nat : end = m - 1 /\ lo + end = last - 1
  BY <1>1, <1>2
<1>4. Fits(lo, m) /\ Fits(lo, end)
  BY <1>1, <1>2, <1>3 DEF Fits
<1>5. last \in Pairs /\ last > lo /\ lo + end < last /\ lo \in lo..hi
  BY <1>1, <1>2, <1>3
<1>6. PICK c : c = Swap(a, lo, last)
  OBVIOUS
<1>7. /\ c \in Arrays /\ c[last] = a[lo] /\ c[lo] = a[last]
      /\ \A x \in Pairs : x # lo /\ x # last => c[x] = a[x]
  BY <1>5, <1>6 DEF Swap, Arrays
<1>8. Rearranged(a, c, lo, hi)
  BY <1>1, <1>5, <1>6, SwapRearranges
<1>9. HeapFrom(c, lo, 0 + 1, end)
  <2> SUFFICES ASSUME NEW p \in 1..end, NEW d \in Children(p), d <= end
               PROVE  ~Less(c[lo + p], c[lo + d])
    BY DEF HeapFrom, Over, Rises
  <2>1. /\ p \in 0..m /\ d \in 0..m /\ d <= m
        /\ lo + p # lo /\ lo + p # last /\ lo + d # lo /\ lo + d # last
    BY <1>1, <1>2, <1>3 DEF Children
  <2>2. lo + p \in Pairs /\ lo + d \in Pairs
    BY <1>4, <2>1, FitsPairs
  <2>3. ~Less(a[lo + p], a[lo + d])
    BY <2>1 DEF HeapFrom, Over, Rises
  <2>4. c[lo + p] = a[lo + p] /\ c[lo + d] = a[lo + d]
    BY <1>7, <2>1, <2>2
  <2> QED BY <2>3, <2>4
<1>10. b = SiftDown(c, lo, 0, end) /\ 0 \in 0..end
  BY <1>2, <1>3, <1>6
<1>11. Rearranged(c, b, lo, lo + end) /\ HeapFrom(b, lo, 0, end)
  BY <1>4, <1>7, <1>9, <1>10, SiftDownSifts
<1>12. Rearranged(c, b, lo, hi)
  <2>1. lo..(lo + end) \subseteq lo..hi
    BY <1>1, <1>2, <1>3
  <2> QED BY <1>1, <1>11, <2>1, RearrangedWider
<1>13. Rearranged(a, b, lo, hi)
  BY <1>8, <1>12, RearrangedTwice
<1>14. ASSUME NEW x \in lo..hi, NEW y \in last..hi, x < y
       PROVE  ~Less(b[y], b[x])
  <2>1. /\ x \in Pairs /\ y \in Pairs /\ y # lo /\ y \in lo..hi
        /\ y \notin lo..(lo + end) /\ (y = last \/ y \in (last + 1)..hi)
    BY <1>1, <1>2, <1>3, <1>5, <1>14
  <2>2. b[y] = c[y]
    BY <1>11, <2>1 DEF Rearranged
  <2>3. PICK z \in lo..hi : b[x] = a[z] /\ (z = x \/ z <= last)
    <3>1. CASE x \in lo..(lo + end)
      <4>1. PICK w \in lo..(lo + end) : b[x] = c[w]
        BY <1>11, <3>1 DEF Rearranged, Comes
      <4>2. w \in lo..hi /\ w \in Pairs /\ w # last /\ w <= last
        BY <1>1, <1>2, <1>3
      <4>3. CASE w = lo
        BY <1>1, <1>2, <1>7, <4>1, <4>3
      <4>4. CASE w # lo
        BY <1>7, <4>1, <4>2, <4>4
      <4> QED BY <4>3, <4>4
    <3>2. CASE x \notin lo..(lo + end)
      <4>1. b[x] = c[x] /\ x # lo
        BY <1>1, <1>3, <1>11, <2>1, <3>2 DEF Rearranged
      <4>2. CASE x = last
        BY <1>1, <1>2, <1>5, <1>7, <4>1, <4>2
      <4>3. CASE x # last
        BY <1>7, <2>1, <4>1, <4>3
      <4> QED BY <4>2, <4>3
    <3> QED BY <3>1, <3>2
  <2>4. CASE y = last
    <3>1. b[y] = a[lo]
      BY <1>7, <2>2, <2>4
    <3>2. z \in lo..(lo + m)
      BY <1>1, <1>2, <1>14, <2>3, <2>4
    <3>3. Rises(a, z, lo)
      BY <1>4, <3>2, HeapMax
    <3> QED BY <2>3, <3>1, <3>3 DEF Rises
  <2>5. CASE y \in (last + 1)..hi
    <3>1. b[y] = a[y] /\ z < y
      BY <1>1, <1>2, <1>7, <1>14, <2>1, <2>2, <2>3, <2>5
    <3>2. Rises(a, z, y)
      <4>1. y \in (lo + m + 1)..hi
        BY <1>2, <2>5
      <4> QED BY <3>1, <4>1 DEF EndSorted
    <3> QED BY <2>3, <3>1, <3>2 DEF Rises
  <2> QED BY <2>1, <2>4, <2>5
<1>15. EndSorted(b, lo, hi, lo + m)
  BY <1>2, <1>14 DEF EndSorted, Rises
<1> QED BY <1>3, <1>11, <1>13, <1>15

LEMMA ExtractSorts ==
  ASSUME key \in Inputs, NEW lo \in Pairs, NEW hi \in Pairs, lo < hi,
         NEW n, n = hi - lo + 1, NEW a \in Arrays, HeapFrom(a, lo, 0, n - 1),
         NEW b, b = Extract(a, lo, n)
  PROVE  Rearranged(a, b, lo, hi) /\ Sorted(b, lo, hi)
<1> DEFINE Turn(c, k) == SiftDown(Swap(c, lo, lo + n - k), lo, 0, n - k - 1)
           After(f, k) == IF k = 0 THEN a ELSE Turn(f[k - 1], k)
           g == CHOOSE f : f = [k \in 0..(n - 1) |-> After(f, k)]
           step == [k \in 1..(n - 1) |-> [c \in Arrays |-> Turn(c, k)]]
<1>1. b = g[n - 1]
  BY DEF Extract
<1>2. /\ lo \in Nat /\ hi \in Nat /\ lo..hi \subseteq Pairs
      /\ n \in Nat /\ n - 1 \in Nat /\ hi = lo + (n - 1)
  BY PairsBetween
<1>3. ASSUME NEW k \in 1..(n - 1)
      PROVE  /\ n - k \in Nat /\ n - k > 0 /\ lo + n - k = lo + (n - k)
             /\ n - k - 1 = (n - k) - 1 /\ lo + (n - k) <= hi
             /\ lo + (n - k) \in Pairs /\ Fits(lo, (n - k) - 1) /\ 0 \in 0..((n - k) - 1)
  <2>1. /\ n - k \in Nat /\ n - k > 0 /\ lo + n - k = lo + (n - k)
        /\ n - k - 1 = (n - k) - 1 /\ lo + (n - k) <= hi
        /\ (n - k) - 1 \in Nat /\ lo + ((n - k) - 1) \in lo..hi
        /\ lo + (n - k) \in lo..hi /\ 0 \in 0..((n - k) - 1)
    BY <1>2
  <2> QED BY <1>2, <2>1 DEF Fits
<1>4. step \in [1..(n - 1) -> [Arrays -> Arrays]]
  <2>1. ASSUME NEW k \in 1..(n - 1), NEW c \in Arrays PROVE Turn(c, k) \in Arrays
    <3>1. PICK i \in Pairs : i = lo + n - k
      BY <1>3
    <3>2. PICK d \in Arrays : d = Swap(c, lo, i)
      <4>1. Swap(c, lo, i) \in Arrays
        BY DEF Swap, Arrays
      <4> QED BY <4>1
    <3>3. SiftDown(d, lo, 0, n - k - 1) \in Arrays
      BY <1>3, SiftDownType
    <3> QED BY <3>1, <3>2, <3>3
  <2> HIDE DEF Turn
  <2> QED BY <2>1
<1> HIDE DEF step, Turn
<1>5. PICK f : Iterates(f, n - 1, Arrays, a, step)
  BY <1>2, <1>4, IterationExists
<1>6. f \in [0..(n - 1) -> Arrays]
  BY <1>5 DEF Iterates
<1>7. ASSUME NEW k \in 0..(n - 1) PROVE f[k] = After(f, k)
  <2>1. CASE k = 0
    BY <1>5, <2>1 DEF Iterates
  <2>2. CASE k # 0
    <3>1. k \in 1..(n - 1) /\ k - 1 \in 0..(n - 1)
      BY <1>2, <2>2
    <3>2. f[k - 1] \in Arrays /\ f[k] = step[k][f[k - 1]]
      BY <1>5, <3>1 DEF Iterates
    <3> QED BY <2>2, <3>1, <3>2 DEF step
  <2> QED BY <2>1, <2>2
<1> HIDE DEF After
<1>8. f = [k \in 0..(n - 1) |-> After(f, k)]
  BY <1>6, <1>7
<1>9. g = [k \in 0..(n - 1) |-> After(g, k)]
  BY <1>8
<1> HIDE DEF g
<1>10. \A k \in 0..(n - 1) : g[k] = After(g, k)
  BY <1>9
<1> DEFINE Done(k) == /\ Rearranged(a, g[k], lo, hi)
                      /\ HeapFrom(g[k], lo, 0, (n - 1) - k)
                      /\ EndSorted(g[k], lo, hi, lo + (n - k))
           T == {k \in Nat : k \in 0..(n - 1) => Done(k)}
<1>11. 0 \in T
  <2>1. g[0] = a
    BY <1>2, <1>10 DEF After
  <2>2. (n - 1) - 0 = n - 1 /\ lo + (n - 0) = hi + 1
    BY <1>2
  <2>3. EndSorted(a, lo, hi, hi + 1)
    BY <1>2 DEF EndSorted
  <2>4. Rearranged(a, a, lo, hi)
    BY RearrangedNot
  <2> QED BY <2>1, <2>2, <2>3, <2>4
<1>12. ASSUME NEW k \in Nat, k \in T PROVE k + 1 \in T
  <2> SUFFICES ASSUME k + 1 \in 0..(n - 1) PROVE Done(k + 1)
    OBVIOUS
  <2>1. k \in 0..(n - 1) /\ k + 1 \in 1..(n - 1) /\ (k + 1) - 1 = k /\ k + 1 # 0
    BY <1>2
  <2>2. Done(k)
    BY <1>12, <2>1
  <2>3. g[k + 1] = Turn(g[k], k + 1)
    BY <1>10, <2>1 DEF After
  <2>4. PICK c : c = g[k]
    OBVIOUS
  <2>5. PICK d : d = g[k + 1]
    OBVIOUS
  <2>6. PICK m \in Nat : m = n - (k + 1) /\ m > 0
    BY <1>3, <2>1
  <2>7. /\ lo + n - (k + 1) = lo + m /\ n - (k + 1) - 1 = m - 1 /\ lo + m <= hi
        /\ (n - 1) - k = m /\ lo + (n - k) = lo + m + 1
        /\ (n - 1) - (k + 1) = m - 1 /\ lo + (n - (k + 1)) = lo + m
    BY <1>2, <2>1, <2>6
  <2>8. /\ Rearranged(a, c, lo, hi) /\ HeapFrom(c, lo, 0, m)
        /\ EndSorted(c, lo, hi, lo + m + 1) /\ c \in Arrays
    BY <2>2, <2>4, <2>7 DEF Rearranged
  <2>9. d = SiftDown(Swap(c, lo, lo + m), lo, 0, m - 1)
    BY <2>3, <2>4, <2>5, <2>7 DEF Turn
  <2> HIDE DEF T, Done
  <2>10. Rearranged(c, d, lo, hi) /\ HeapFrom(d, lo, 0, m - 1) /\ EndSorted(d, lo, hi, lo + m)
    BY <2>6, <2>7, <2>8, <2>9, ExtractTurn
  <2>11. Rearranged(a, d, lo, hi)
    BY <2>8, <2>10, RearrangedTwice
  <2> QED BY <2>5, <2>7, <2>10, <2>11 DEF Done
<1> HIDE DEF T
<1>13. Nat \subseteq T
  BY <1>11, <1>12, NatSetInduction
<1>14. Done(n - 1)
  <2>1. n - 1 \in T /\ n - 1 \in 0..(n - 1)
    BY <1>2, <1>13
  <2> QED BY <2>1 DEF T
<1>15. EndSorted(b, lo, hi, lo + 1)
  <2>1. lo + (n - (n - 1)) = lo + 1
    BY <1>2
  <2> QED BY <1>1, <1>14, <2>1
<1>16. Sorted(b, lo, hi)
  <2> SUFFICES ASSUME NEW x \in lo..hi, NEW y \in lo..hi, x < y PROVE Rises(b, x, y)
    BY DEF Sorted
  <2>1. y \in (lo + 1)..hi
    BY <1>2
  <2> QED BY <1>15, <2>1 DEF EndSorted
<1> QED BY <1>1, <1>14, <1>16

\* json__heapsort sorts its range.
LEMMA HeapSortSorts ==
  ASSUME key \in Inputs, NEW a \in Arrays, NEW lo \in Pairs, NEW hi \in Pairs,
         lo < hi
  PROVE  /\ Rearranged(a, HeapSort(a, lo, hi), lo, hi)
         /\ Sorted(HeapSort(a, lo, hi), lo, hi)
<1>1. lo \in Nat /\ hi \in Nat
  BY PairsBetween
<1>2. PICK n \in Nat : n = hi - lo + 1 /\ n > 1 /\ lo + (n - 1) = hi
  <2>1. /\ hi - lo + 1 \in Nat /\ hi - lo + 1 > 1
        /\ lo + ((hi - lo + 1) - 1) = hi
    BY <1>1
  <2> QED BY <2>1
<1>3. Fits(lo, n - 1)
  <2>1. n - 1 \in Nat
    BY <1>2
  <2> QED BY <1>1, <1>2, <2>1 DEF Fits
<1>4. PICK b : b = Heapify(a, lo, n)
  OBVIOUS
<1>5. Rearranged(a, b, lo, hi) /\ HeapFrom(b, lo, 0, n - 1)
  BY <1>2, <1>3, <1>4, HeapifyBuilds
<1>6. PICK c : c = Extract(b, lo, n)
  OBVIOUS
<1>7. b \in Arrays
  BY <1>5 DEF Rearranged
<1>8. Rearranged(b, c, lo, hi) /\ Sorted(c, lo, hi)
  BY <1>2, <1>5, <1>6, <1>7, ExtractSorts
<1>9. Rearranged(a, c, lo, hi)
  BY <1>5, <1>8, RearrangedTwice
<1>10. c = HeapSort(a, lo, hi)
  BY <1>2, <1>4, <1>6 DEF HeapSort
<1> QED BY <1>8, <1>9, <1>10

(***************************************************************************)
(* The partition of json__introsort.                                       *)
(***************************************************************************)

\* c is a with its entries at i and j in the order of their keys.
InOrder(a, c, i, j) ==
  /\ c \in Arrays
  /\ \A m \in Pairs : m # i /\ m # j => c[m] = a[m]
  /\ \/ c[i] = a[i] /\ c[j] = a[j] /\ ~Less(a[j], a[i])
     \/ c[i] = a[j] /\ c[j] = a[i] /\ Less(a[j], a[i])

LEMMA SwapIfLessOrders ==
  ASSUME key \in Inputs, NEW lo, NEW hi, lo..hi \subseteq Pairs, NEW a \in Arrays,
         NEW i \in lo..hi, NEW j \in lo..hi, NEW c, c = SwapIfLess(a, i, j)
  PROVE  InOrder(a, c, i, j) /\ Rearranged(a, c, lo, hi)
<1>1. i \in Pairs /\ j \in Pairs
  OBVIOUS
<1>2. CASE Less(a[j], a[i])
  <2>1. c = Swap(a, i, j)
    BY <1>2 DEF SwapIfLess
  <2>2. Rearranged(a, c, lo, hi)
    BY <2>1, SwapRearranges
  <2> QED BY <1>1, <1>2, <2>1, <2>2 DEF InOrder, Swap, Arrays
<1>3. CASE ~Less(a[j], a[i])
  <2>1. c = a
    BY <1>3 DEF SwapIfLess
  <2> QED BY <1>1, <1>3, <2>1, RearrangedNot DEF InOrder
<1> QED BY <1>2, <1>3

LEMMA WithPivotIs ==
  ASSUME key \in Inputs, NEW lo \in Pairs, NEW hi \in Pairs, lo + 2 <= hi,
         NEW a \in Arrays, NEW b, b = WithPivot(a, lo, hi)
  PROVE  /\ Rearranged(a, b, lo, hi)
         /\ ~Less(b[hi - 1], b[lo]) /\ ~Less(b[hi], b[hi - 1])
<1>1. /\ lo \in Nat /\ hi \in Nat /\ lo..hi \subseteq Pairs
      /\ lo \in lo..hi /\ hi \in lo..hi /\ hi - 1 \in lo..hi /\ hi - 1 # lo /\ hi - 1 # hi
  BY PairsBetween
<1>2. PICK mid \in lo..hi :
        mid = lo + (hi - lo + 1) \div 2 /\ lo < mid /\ mid <= hi - 1
  <2>1. PICK span \in Nat : span = hi - lo + 1 /\ span > 2
    BY <1>1
  <2>2. PICK half \in Nat : half = span \div 2
    BY Half
  <2>3. 2 * half <= span /\ span <= 2 * half + 1
    BY <2>2, Half
  <2>4. lo + half \in lo..hi /\ lo < lo + half /\ lo + half <= hi - 1
    BY <1>1, <2>1, <2>3
  <2> QED BY <2>1, <2>2, <2>4
<1>3. PICK m1 : m1 = SwapIfLess(a, lo, mid)
  OBVIOUS
<1>4. PICK m2 : m2 = SwapIfLess(m1, lo, hi)
  OBVIOUS
<1>5. PICK m3 : m3 = SwapIfLess(m2, mid, hi)
  OBVIOUS
<1>6. b = Swap(m3, mid, hi - 1)
  BY <1>2, <1>3, <1>4, <1>5 DEF WithPivot
<1>7. InOrder(a, m1, lo, mid) /\ Rearranged(a, m1, lo, hi)
  BY <1>1, <1>3, SwapIfLessOrders
<1>8. InOrder(m1, m2, lo, hi) /\ Rearranged(m1, m2, lo, hi)
  <2>1. m1 \in Arrays
    BY <1>7 DEF InOrder
  <2> QED BY <1>1, <1>4, <2>1, SwapIfLessOrders
<1>9. InOrder(m2, m3, mid, hi) /\ Rearranged(m2, m3, lo, hi)
  <2>1. m2 \in Arrays
    BY <1>8 DEF InOrder
  <2> QED BY <1>1, <1>5, <2>1, SwapIfLessOrders
<1>10. m3 \in Arrays
  BY <1>9 DEF InOrder
<1>11. Rearranged(m3, b, lo, hi)
  BY <1>1, <1>6, <1>10, SwapRearranges
<1>12. Rearranged(a, b, lo, hi)
  BY <1>7, <1>8, <1>9, <1>11, RearrangedTwice
<1>13. lo \in Pairs /\ mid \in Pairs /\ hi \in Pairs /\ hi - 1 \in Pairs
       /\ lo # mid /\ mid # hi /\ lo # hi
  BY <1>1, <1>2
<1>14. ~Less(m3[mid], m3[lo]) /\ ~Less(m3[hi], m3[mid])
  <2>1. a[lo] \in Pairs /\ a[mid] \in Pairs /\ a[hi] \in Pairs
    BY <1>13 DEF Arrays
  <2>2. /\ m1[hi] = a[hi] /\ m2[mid] = m1[mid] /\ m3[lo] = m2[lo]
    BY <1>7, <1>8, <1>9, <1>13 DEF InOrder
  <2>3. ~Less(m1[mid], m1[lo])
    BY <1>7, <2>1, LessOrders DEF InOrder
  <2>4. m1[lo] \in Pairs /\ m1[mid] \in Pairs /\ m1[hi] \in Pairs
    BY <1>7, <1>13 DEF InOrder, Arrays
  <2>5. ~Less(m2[mid], m2[lo]) /\ ~Less(m2[hi], m2[lo])
    <3>1. CASE m2[lo] = m1[lo] /\ m2[hi] = m1[hi] /\ ~Less(m1[hi], m1[lo])
      BY <2>2, <2>3, <3>1
    <3>2. CASE m2[lo] = m1[hi] /\ m2[hi] = m1[lo] /\ Less(m1[hi], m1[lo])
      <4>1. ~Less(m1[lo], m1[hi])
        BY <2>4, <3>2, LessOrders
      <4>2. ~Less(m1[mid], m1[hi])
        BY <2>3, <2>4, <4>1, LessOrders
      <4> QED BY <2>2, <3>2, <4>1, <4>2
    <3> QED BY <1>8, <3>1, <3>2 DEF InOrder
  <2>6. m2[mid] \in Pairs /\ m2[hi] \in Pairs
    BY <1>8, <1>13 DEF InOrder, Arrays
  <2> QED BY <1>9, <2>2, <2>5, <2>6, LessOrders DEF InOrder
<1>15. b[hi - 1] = m3[mid] /\ b[lo] = m3[lo] /\ b[hi] = m3[hi]
  <2>1. PICK last \in Pairs : last = hi - 1
    BY <1>13
  <2>2. b[last] = m3[mid] /\ b[lo] = m3[lo] /\ b[hi] = m3[hi]
    BY <1>1, <1>6, <1>10, <1>13, <2>1 DEF Swap, Arrays
  <2> QED BY <2>1, <2>2
<1> QED BY <1>12, <1>14, <1>15

\* The scans are under way: they have left what belongs below the pivot behind
\* i and what belongs above it behind j.
Scanning(s, lo, hi, v) ==
  /\ lo <= s.i /\ s.i < s.j /\ s.j <= hi - 1
  /\ \A m \in lo..s.i : ~Less(v, s.arr[m])
  /\ \A m \in s.j..hi : ~Less(s.arr[m], v)

\* They have met, and i is where the pivot belongs.
Met(s, lo, hi, v) ==
  /\ s.j <= s.i /\ lo < s.i /\ s.i <= hi - 1
  /\ \A m \in lo..(s.i - 1) : ~Less(v, s.arr[m])
  /\ \A m \in s.i..hi : ~Less(s.arr[m], v)

\* The states of the for loop with pivot v.
Scans(lo, hi, v) ==
  {s \in [arr : Arrays, i : lo..hi, j : lo..hi] :
     s.arr[hi - 1] = v /\ (Scanning(s, lo, hi, v) \/ Met(s, lo, hi, v))}

LEMMA ScanUpIs ==
  ASSUME NEW lo \in Nat, NEW hi \in Nat, NEW v, NEW s \in Scans(lo, hi, v),
         Scanning(s, lo, hi, v), NEW up, up = ScanUp(s.arr, s.i, hi, v)
  PROVE  /\ up \in Nat /\ s.i < up /\ up <= s.j
         /\ ~Less(s.arr[up], v)
         /\ \A m \in (s.i + 1)..(up - 1) : Less(s.arr[m], v)
<1> DEFINE a == s.arr
           i == s.i
           j == s.j
           W == {k \in (i + 1)..hi : ~Less(a[k], v) \/ k = hi}
<1>1. /\ i \in Nat /\ j \in Nat /\ lo <= i /\ i < j /\ j < hi
      /\ ~Less(a[j], v)
  BY DEF Scans, Scanning
<1> HIDE DEF a, i, j
<1>2. hi \in W /\ W \subseteq Nat
  BY <1>1
<1>3. PICK k \in W : \A m \in W : k <= m
  <2>1. W # {}
    BY <1>2
  <2> HIDE DEF W
  <2> QED BY <1>2, <2>1, Least
<1>4. \A m \in (i + 1)..(k - 1) : Less(a[m], v)
  <2> SUFFICES ASSUME NEW m \in (i + 1)..(k - 1), ~Less(a[m], v) PROVE FALSE
    OBVIOUS
  <2>1. m \in W /\ ~(k <= m)
    BY <1>1, <1>3
  <2> QED BY <1>3, <2>1
<1>5. up \in (i + 1)..hi /\ (~Less(a[up], v) \/ up = hi)
      /\ \A m \in (i + 1)..(up - 1) : Less(a[m], v)
  BY <1>3, <1>4 DEF ScanUp, a, i
<1>6. up <= j
  <2>1. j \notin (i + 1)..(up - 1)
    BY <1>1, <1>5
  <2> QED BY <1>1, <1>5, <2>1
<1> QED BY <1>1, <1>5, <1>6 DEF a, i, j

LEMMA ScanDownIs ==
  ASSUME NEW lo \in Nat, NEW hi \in Nat, NEW v, NEW s \in Scans(lo, hi, v),
         Scanning(s, lo, hi, v), NEW down, down = ScanDown(s.arr, s.j, lo, v)
  PROVE  /\ down \in Nat /\ s.i <= down /\ down < s.j
         /\ ~Less(v, s.arr[down])
         /\ \A m \in (down + 1)..(s.j - 1) : Less(v, s.arr[m])
<1> DEFINE a == s.arr
           i == s.i
           j == s.j
           W == {k \in lo..(j - 1) : ~Less(v, a[k]) \/ k = lo}
<1>1. /\ i \in Nat /\ j \in Nat /\ lo <= i /\ i < j /\ j < hi
      /\ ~Less(v, a[i]) /\ ~Less(v, a[lo])
  BY DEF Scans, Scanning
<1> HIDE DEF a, i, j
<1>2. lo \in W /\ W \subseteq 0..j
  BY <1>1
<1>3. PICK k \in W : \A m \in W : m <= k
  <2>1. W # {}
    BY <1>2
  <2> HIDE DEF W
  <2> QED BY <1>1, <1>2, <2>1, Greatest
<1>4. \A m \in (k + 1)..(j - 1) : Less(v, a[m])
  <2> SUFFICES ASSUME NEW m \in (k + 1)..(j - 1), ~Less(v, a[m]) PROVE FALSE
    OBVIOUS
  <2>1. m \in W /\ ~(m <= k)
    BY <1>1, <1>3
  <2> QED BY <1>3, <2>1
<1>5. down \in lo..(j - 1) /\ (~Less(v, a[down]) \/ down = lo)
      /\ \A m \in (down + 1)..(j - 1) : Less(v, a[m])
  BY <1>3, <1>4 DEF ScanDown, a, j
<1>6. i <= down
  <2>1. i \notin (down + 1)..(j - 1)
    BY <1>1, <1>5
  <2> QED BY <1>1, <1>5, <2>1
<1> QED BY <1>1, <1>5, <1>6 DEF a, i, j

LEMMA ExchangeTurn ==
  ASSUME key \in Inputs, NEW lo \in Pairs, NEW hi \in Pairs, NEW v \in Pairs,
         NEW s \in Scans(lo, hi, v), NEW t, t = Exchange(s, lo, hi)
  PROVE  /\ t \in Scans(lo, hi, v)
         /\ Rearranged(s.arr, t.arr, lo, hi)
         /\ Scanning(t, lo, hi, v) =>
              Scanning(s, lo, hi, v) /\ t.j - t.i < s.j - s.i
<1>1. lo \in Nat /\ hi \in Nat /\ lo..hi \subseteq Pairs
  BY PairsBetween
<1>2. /\ s.arr \in Arrays /\ s.i \in lo..hi /\ s.j \in lo..hi /\ s.arr[hi - 1] = v
      /\ Scanning(s, lo, hi, v) \/ Met(s, lo, hi, v)
  BY DEF Scans
<1>3. CASE s.i >= s.j
  <2>1. t = s
    BY <1>3 DEF Exchange
  <2>2. ~Scanning(t, lo, hi, v)
    BY <1>1, <1>2, <1>3, <2>1 DEF Scanning
  <2> QED BY <1>2, <2>1, <2>2, RearrangedNot
<1>4. CASE s.i < s.j
  <2>1. Scanning(s, lo, hi, v)
    BY <1>1, <1>2, <1>4 DEF Met
  <2>2. PICK up : up = ScanUp(s.arr, s.i, hi, v)
    OBVIOUS
  <2>3. PICK down : down = ScanDown(s.arr, s.j, lo, v)
    OBVIOUS
  <2>4. PICK b : b = IF up < down THEN Swap(s.arr, up, down) ELSE s.arr
    OBVIOUS
  <2>5. t = [arr |-> b, i |-> up, j |-> down]
    BY <1>1, <1>2, <1>4, <2>2, <2>3, <2>4 DEF Exchange
  <2>6. /\ up \in Nat /\ s.i < up /\ up <= s.j
        /\ ~Less(s.arr[up], v)
        /\ \A m \in (s.i + 1)..(up - 1) : Less(s.arr[m], v)
    BY <1>1, <2>1, <2>2, ScanUpIs
  <2>7. /\ down \in Nat /\ s.i <= down /\ down < s.j
        /\ ~Less(v, s.arr[down])
        /\ \A m \in (down + 1)..(s.j - 1) : Less(v, s.arr[m])
    BY <1>1, <2>1, <2>3, ScanDownIs
  <2> DEFINE a == s.arr
             i == s.i
             j == s.j
  <2>8. /\ i \in Nat /\ j \in Nat /\ lo <= i /\ i < j /\ j <= hi - 1
        /\ \A m \in lo..i : ~Less(v, a[m])
        /\ \A m \in j..hi : ~Less(a[m], v)
    BY <1>1, <1>2, <2>1 DEF Scanning
  <2>9. up \in lo..hi /\ down \in lo..hi /\ down < hi - 1
    BY <1>1, <2>6, <2>7, <2>8
  <2>10. up \in Pairs /\ down \in Pairs /\ hi - 1 \in Pairs /\ a \in Arrays
    BY <1>1, <1>2, <2>8, <2>9
  <2>11. t.arr = b /\ t.i = up /\ t.j = down
    BY <2>5
  <2>12. \A m \in lo..hi : a[m] \in Pairs /\ m \in Pairs
    BY <1>1, <2>10 DEF Arrays
  <2> HIDE DEF a, i, j
  \* What the scans have passed.
  <2>13. ASSUME NEW m \in lo..(up - 1) PROVE ~Less(v, a[m])
    <3>1. CASE m <= i
      BY <1>1, <2>8, <3>1
    <3>2. CASE m > i
      <4>1. m \in (i + 1)..(up - 1) /\ m \in lo..hi
        BY <1>1, <2>8, <2>9, <3>2
      <4>2. Less(a[m], v)
        BY <2>6, <4>1 DEF a, i
      <4> QED BY <2>12, <4>1, <4>2, LessOrders
    <3> QED BY <1>1, <2>8, <3>1, <3>2
  <2>14. ASSUME NEW m \in (down + 1)..hi PROVE ~Less(a[m], v)
    <3>1. CASE m >= j
      BY <1>1, <2>8, <3>1
    <3>2. CASE m < j
      <4>1. m \in (down + 1)..(j - 1) /\ m \in lo..hi
        BY <1>1, <2>8, <2>9, <3>2
      <4>2. Less(v, a[m])
        BY <2>7, <4>1 DEF a, j
      <4> QED BY <2>12, <4>1, <4>2, LessOrders
    <3> QED BY <1>1, <2>8, <3>1, <3>2
  <2>15. CASE up < down
    <3>1. b = Swap(a, up, down)
      BY <2>4, <2>15 DEF a
    <3>2. /\ b \in Arrays /\ b[up] = a[down] /\ b[down] = a[up]
          /\ \A m \in Pairs : m # up /\ m # down => b[m] = a[m]
      BY <2>10, <3>1 DEF Swap, Arrays
    <3>3. Rearranged(a, b, lo, hi)
      BY <1>1, <2>9, <2>10, <3>1, SwapRearranges
    <3>4. b[hi - 1] = v
      BY <1>2, <2>9, <2>10, <2>15, <3>2 DEF a
    <3>5. ASSUME NEW m \in lo..up PROVE ~Less(v, b[m])
      <4>1. CASE m = up
        BY <2>7, <3>2, <4>1 DEF a
      <4>2. CASE m # up
        <5>1. m \in lo..(up - 1) /\ m \in lo..hi /\ m # down
          BY <1>1, <2>9, <2>15, <4>2
        <5> QED BY <2>12, <2>13, <3>2, <4>2, <5>1
      <4> QED BY <4>1, <4>2
    <3>6. ASSUME NEW m \in down..hi PROVE ~Less(b[m], v)
      <4>1. CASE m = down
        BY <2>6, <3>2, <4>1 DEF a
      <4>2. CASE m # down
        <5>1. m \in (down + 1)..hi /\ m \in lo..hi /\ m # up
          BY <1>1, <2>9, <2>15, <4>2
        <5> QED BY <2>12, <2>14, <3>2, <4>2, <5>1
      <4> QED BY <4>1, <4>2
    <3>7. Scanning(t, lo, hi, v)
      <4>1. lo <= up /\ down <= hi - 1
        BY <1>1, <2>9
      <4> QED BY <2>11, <2>15, <3>5, <3>6, <4>1 DEF Scanning
    <3>8. t \in Scans(lo, hi, v)
      <4>1. t \in [arr : Arrays, i : lo..hi, j : lo..hi]
        BY <2>5, <2>9, <3>2
      <4>2. t.arr[hi - 1] = v
        BY <2>11, <3>4
      <4> QED BY <3>7, <4>1, <4>2 DEF Scans
    <3>9. t.j - t.i < j - i
      BY <2>6, <2>7, <2>8, <2>11 DEF i, j
    <3> QED BY <2>1, <2>11, <3>3, <3>8, <3>9 DEF a, i, j
  <2>16. CASE up >= down
    <3>1. b = a
      BY <2>4, <2>6, <2>7, <2>16 DEF a
    <3>2. ASSUME NEW m \in up..hi PROVE ~Less(a[m], v)
      <4>1. CASE m = up
        BY <2>6, <4>1 DEF a
      <4>2. CASE m # up
        <5>1. m \in (down + 1)..hi
          BY <1>1, <2>6, <2>7, <2>16, <4>2
        <5> QED BY <2>14, <5>1
      <4> QED BY <4>1, <4>2
    <3>3. Met(t, lo, hi, v)
      <4>1. lo < up /\ up <= hi - 1 /\ down <= up
        BY <1>1, <2>6, <2>7, <2>8, <2>16 DEF i, j
      <4> QED BY <2>11, <2>13, <3>1, <3>2, <4>1 DEF Met
    <3>4. t \in Scans(lo, hi, v)
      BY <1>2, <2>5, <2>9, <2>10, <2>11, <3>1, <3>3 DEF Scans, a
    <3>5. ~Scanning(t, lo, hi, v)
      BY <2>6, <2>7, <2>11, <2>16 DEF Scanning
    <3>6. Rearranged(a, b, lo, hi)
      BY <2>10, <3>1, RearrangedNot
    <3> QED BY <2>11, <3>4, <3>5, <3>6 DEF a
  <2> QED BY <2>6, <2>7, <2>15, <2>16
<1> QED BY <1>1, <1>2, <1>3, <1>4

\* The scans meet: after at most as many turns as the range has places.
LEMMA PartitionMeets ==
  ASSUME key \in Inputs, NEW lo \in Pairs, NEW hi \in Pairs, lo + 2 <= hi,
         NEW a \in Arrays, NEW v \in Pairs, a[hi - 1] = v,
         ~Less(v, a[lo]), ~Less(a[hi], v), NEW p, p = Partition(a, lo, hi)
  PROVE  \E s \in Scans(lo, hi, v) :
           /\ Met(s, lo, hi, v) /\ Rearranged(a, s.arr, lo, hi)
           /\ p = [arr |-> Swap(s.arr, s.i, hi - 1), at |-> s.i]
<1> DEFINE n == hi - lo
           S == Scans(lo, hi, v)
           x == [arr |-> a, i |-> lo, j |-> hi - 1]
           After(f, k) == IF k = 0 THEN [arr |-> a, i |-> lo, j |-> hi - 1]
                                   ELSE Exchange(f[k - 1], lo, hi)
           g == CHOOSE f : f = [k \in 0..n |-> After(f, k)]
           step == [k \in 1..n |-> [s \in S |-> Exchange(s, lo, hi)]]
<1>1. /\ lo \in Nat /\ hi \in Nat /\ lo..hi \subseteq Pairs /\ n \in Nat
      /\ lo \in lo..hi /\ hi - 1 \in lo..hi /\ lo < hi - 1
  BY PairsBetween
<1>2. p = [arr |-> Swap(g[n].arr, g[n].i, hi - 1), at |-> g[n].i]
  BY DEF Partition
<1>3. Scanning(x, lo, hi, v)
  <2>1. \A m \in lo..lo : m = lo
    BY <1>1
  <2>2. \A m \in (hi - 1)..hi : m = hi - 1 \/ m = hi
    BY <1>1
  <2>3. ~Less(v, v)
    BY LessOrders
  <2> QED BY <1>1, <2>1, <2>2, <2>3 DEF Scanning
<1>4. x \in S
  BY <1>1, <1>3 DEF Scans
<1>5. step \in [1..n -> [S -> S]]
  <2>1. \A s \in S : Exchange(s, lo, hi) \in S
    BY ExchangeTurn
  <2> HIDE DEF S, n
  <2> QED BY <2>1
<1> HIDE DEF n, S, x, step
<1>6. PICK f : Iterates(f, n, S, x, step)
  BY <1>1, <1>4, <1>5, IterationExists
<1>7. f \in [0..n -> S]
  BY <1>6 DEF Iterates
<1>8. ASSUME NEW k \in 0..n PROVE f[k] = After(f, k)
  <2>1. CASE k = 0
    BY <1>6, <2>1 DEF Iterates, x
  <2>2. CASE k # 0
    <3>1. k \in 1..n /\ k - 1 \in 0..n
      BY <1>1, <2>2
    <3>2. f[k - 1] \in S /\ f[k] = step[k][f[k - 1]]
      BY <1>6, <3>1 DEF Iterates
    <3> QED BY <2>2, <3>1, <3>2 DEF step
  <2> QED BY <2>1, <2>2
<1>9. f = [k \in 0..n |-> After(f, k)]
  <2> HIDE DEF After
  <2> QED BY <1>7, <1>8
<1>10. g = [k \in 0..n |-> After(g, k)]
  <2> HIDE DEF After
  <2> QED BY <1>9
<1> HIDE DEF g
<1>11. \A k \in 0..n : g[k] = After(g, k)
  <2> HIDE DEF After
  <2> QED BY <1>10
<1>12. g[0] = x /\ \A k \in 1..n : g[k] = Exchange(g[k - 1], lo, hi)
  BY <1>1, <1>11 DEF x
<1> HIDE DEF After
<1> DEFINE Done(k) == /\ g[k] \in S
                      /\ Rearranged(a, g[k].arr, lo, hi)
                      /\ Scanning(g[k], lo, hi, v) => g[k].j - g[k].i <= (n - 1) - k
           T == {k \in Nat : k \in 0..n => Done(k)}
<1>13. 0 \in T
  <2>1. g[0].arr = a /\ g[0].i = lo /\ g[0].j = hi - 1
    BY <1>12 DEF x
  <2>2. g[0].j - g[0].i <= (n - 1) - 0
    BY <1>1, <2>1 DEF n
  <2> QED BY <1>4, <1>12, <2>1, <2>2, RearrangedNot
<1>14. ASSUME NEW k \in Nat, k \in T PROVE k + 1 \in T
  <2> SUFFICES ASSUME k + 1 \in 0..n PROVE Done(k + 1)
    OBVIOUS
  <2>1. k \in 0..n /\ k + 1 \in 1..n /\ (k + 1) - 1 = k
    BY <1>1
  <2>2. Done(k)
    BY <1>14, <2>1
  <2>3. PICK s \in S : s = g[k]
    BY <2>2
  <2>4. PICK t : t = g[k + 1] /\ t = Exchange(s, lo, hi)
    BY <1>12, <2>1, <2>3
  <2>5. /\ Rearranged(a, s.arr, lo, hi)
        /\ Scanning(s, lo, hi, v) => s.j - s.i <= (n - 1) - k
    BY <2>2, <2>3
  <2> HIDE DEF T, Done
  <2>6. /\ t \in S
        /\ Rearranged(s.arr, t.arr, lo, hi)
        /\ Scanning(t, lo, hi, v) =>
             Scanning(s, lo, hi, v) /\ t.j - t.i < s.j - s.i
    BY <2>4, ExchangeTurn DEF S
  <2>7. Rearranged(a, t.arr, lo, hi)
    BY <2>5, <2>6, RearrangedTwice
  <2>8. ASSUME Scanning(t, lo, hi, v) PROVE t.j - t.i <= (n - 1) - (k + 1)
    <3>1. s.i \in lo..hi /\ s.j \in lo..hi /\ t.i \in lo..hi /\ t.j \in lo..hi
      BY <2>6 DEF S, Scans
    <3> QED BY <1>1, <2>5, <2>6, <2>8, <3>1
  <2> QED BY <2>4, <2>6, <2>7, <2>8 DEF Done
<1> HIDE DEF T
<1>15. Nat \subseteq T
  BY <1>13, <1>14, NatSetInduction
<1>16. Done(n)
  <2>1. n \in T /\ n \in 0..n
    BY <1>1, <1>15
  <2> QED BY <2>1 DEF T
<1>17. PICK s \in S : s = g[n]
  BY <1>16
<1>18. ~Scanning(s, lo, hi, v)
  <2> SUFFICES ASSUME Scanning(s, lo, hi, v) PROVE FALSE
    OBVIOUS
  <2>1. s.j - s.i <= (n - 1) - n
    BY <1>16, <1>17
  <2>2. s.i \in lo..hi /\ s.j \in lo..hi /\ s.i < s.j
    BY DEF S, Scans, Scanning
  <2> QED BY <1>1, <2>1, <2>2
<1>19. Met(s, lo, hi, v)
  BY <1>18 DEF S, Scans
<1> QED BY <1>2, <1>16, <1>17, <1>19 DEF S

\* The pivot has come to p.at, with nothing greater before it and nothing
\* smaller behind it; it is neither the first nor the last of the range.
LEMMA PartitionSplits ==
  ASSUME key \in Inputs, NEW lo \in Pairs, NEW hi \in Pairs, lo + 2 <= hi,
         NEW a \in Arrays,
         NEW p, p = Partition(WithPivot(a, lo, hi), lo, hi)
  PROVE  /\ p.at \in (lo + 1)..(hi - 1)
         /\ Rearranged(a, p.arr, lo, hi)
         /\ \A m \in lo..p.at : Rises(p.arr, m, p.at)
         /\ \A m \in p.at..hi : Rises(p.arr, p.at, m)
<1>1. /\ lo \in Nat /\ hi \in Nat /\ lo..hi \subseteq Pairs
      /\ lo \in lo..hi /\ hi - 1 \in lo..hi /\ hi - 1 \in Pairs
  BY PairsBetween
<1>2. PICK b : b = WithPivot(a, lo, hi)
  OBVIOUS
<1>3. /\ Rearranged(a, b, lo, hi)
      /\ ~Less(b[hi - 1], b[lo]) /\ ~Less(b[hi], b[hi - 1])
  BY <1>2, WithPivotIs
<1>4. b \in Arrays
  BY <1>3 DEF Rearranged
<1>5. PICK v \in Pairs : v = b[hi - 1]
  BY <1>1, <1>4 DEF Arrays
<1>6. PICK s \in Scans(lo, hi, v) :
        /\ Met(s, lo, hi, v) /\ Rearranged(b, s.arr, lo, hi)
        /\ p = [arr |-> Swap(s.arr, s.i, hi - 1), at |-> s.i]
  BY <1>2, <1>3, <1>4, <1>5, PartitionMeets
<1>7. s.arr \in Arrays /\ s.i \in lo..hi /\ s.arr[hi - 1] = v
  BY DEF Scans
<1>8. PICK at \in lo..hi : at = s.i /\ at = p.at
  BY <1>6, <1>7
<1>9. PICK c : c = s.arr
  OBVIOUS
<1>10. PICK last \in lo..hi : last = hi - 1
  BY <1>1
<1>11. PICK d : d = p.arr /\ d = Swap(c, at, last)
  BY <1>6, <1>8, <1>9, <1>10
<1>12. /\ lo < at /\ at <= last
       /\ \A m \in lo..(at - 1) : ~Less(v, c[m])
       /\ \A m \in at..hi : ~Less(c[m], v)
       /\ c[last] = v /\ c \in Arrays
  BY <1>6, <1>7, <1>8, <1>9, <1>10 DEF Met
<1>13. at \in Pairs /\ last \in Pairs /\ \A m \in lo..hi : m \in Pairs
  BY <1>1
<1>14. /\ d \in Arrays /\ d[at] = v /\ d[last] = c[at]
       /\ \A m \in Pairs : m # at /\ m # last => d[m] = c[m]
  BY <1>11, <1>12, <1>13 DEF Swap, Arrays
<1>15. Rearranged(a, d, lo, hi)
  <2>1. Rearranged(c, d, lo, hi)
    BY <1>1, <1>11, <1>12, SwapRearranges
  <2> QED BY <1>3, <1>6, <1>9, <2>1, RearrangedTwice
<1>16. ~Less(v, v)
  BY LessOrders
<1>17. ASSUME NEW m \in lo..at PROVE ~Less(d[at], d[m])
  <2>1. CASE m = at
    BY <1>14, <1>16, <2>1
  <2>2. CASE m # at
    <3>1. m \in lo..(at - 1) /\ m \in lo..hi /\ m # last
      BY <1>1, <1>8, <1>10, <1>12, <2>2
    <3> QED BY <1>12, <1>13, <1>14, <2>2, <3>1
  <2> QED BY <2>1, <2>2
<1>18. ASSUME NEW m \in at..hi PROVE ~Less(d[m], d[at])
  <2>1. CASE m = at
    BY <1>14, <1>16, <2>1
  <2>2. CASE m = last
    <3>1. at \in at..hi
      BY <1>1
    <3> QED BY <1>12, <1>14, <2>2, <3>1
  <2>3. CASE m # at /\ m # last
    <3>1. m \in lo..hi
      BY <1>1
    <3> QED BY <1>12, <1>13, <1>14, <2>3, <3>1
  <2> QED BY <2>1, <2>2, <2>3
<1>19. at \in (lo + 1)..(hi - 1)
  BY <1>1, <1>10, <1>12
<1> QED BY <1>8, <1>11, <1>15, <1>17, <1>18, <1>19 DEF Rises

(***************************************************************************)
(* The loop of json__introsort.                                            *)
(***************************************************************************)

\* An activation has at least one pair to sort.
Frame == {r \in [lo : Pairs, hi : Pairs, depth : Nat] : r.lo <= r.hi}

Size(r) == r.hi - r.lo + 1

Complete(a) == \A q \in Pairs : \E p \in Pairs : a[p] = q

\* No two activations work on the same place.
Apart(s) ==
  \A k, l \in 1..Len(s) : k # l => s[k].hi < s[l].lo \/ s[l].hi < s[k].lo

\* Each activation has at most half of what the one that called it had then.
Halved(s) ==
  \A k \in 1..Len(s) : (k - 1) + ILog2[Size(s[k])] <= ILog2[Count]

\* What is not in order lies within the range of one activation.
InOneRange(s, x, y) == \E k \in 1..Len(s) : s[k].lo <= x /\ y <= s[k].hi
Settled(a, s) ==
  \A x, y \in Pairs : x < y => Rises(a, x, y) \/ InOneRange(s, x, y)

SortState(a, s) ==
  /\ a \in Arrays /\ Complete(a)
  /\ s \in Seq(Frame)
  /\ Apart(s) /\ Halved(s) /\ Settled(a, s)

SortInv == key \in Inputs /\ SortState(arr, stack)

LEMMA PopIs ==
  ASSUME NEW S, NEW s \in Seq(S), s # << >>, NEW t, t = SubSeq(s, 1, Len(s) - 1)
  PROVE  /\ t \in Seq(S) /\ Len(s) \in Nat /\ Len(s) > 0 /\ Len(t) = Len(s) - 1
         /\ \A k \in 1..Len(t) : t[k] = s[k]
         /\ s[Len(s)] \in S
<1>1. Len(s) \in Nat /\ Len(s) > 0
  OBVIOUS
<1>2. t \in Seq(S) /\ Len(t) = Len(s) - 1 /\ \A k \in 1..Len(t) : t[k] = s[k]
  <2>1. \A k \in 1..(Len(s) - 1) : s[k] \in S
    BY <1>1
  <2>2. PICK m \in Nat : m = Len(s) - 1
    BY <1>1
  <2>3. /\ t \in Seq(S) /\ Len(t) = m
        /\ \A k \in 1..m : t[k] = s[1 + k - 1]
    BY <2>1, <2>2, SubSeqProperties
  <2>4. \A k \in 1..m : 1 + k - 1 = k
    BY <2>2
  <2> QED BY <2>2, <2>3, <2>4
<1>3. s[Len(s)] \in S
  <2>1. Len(s) \in 1..Len(s)
    BY <1>1
  <2> QED BY <2>1
<1> QED BY <1>1, <1>2, <1>3

LEMMA PushTwo ==
  ASSUME NEW S, NEW t \in Seq(S), NEW q \in S, NEW r \in S,
         NEW u, u = t \o <<q, r>>
  PROVE  /\ u \in Seq(S) /\ Len(t) \in Nat /\ Len(u) = Len(t) + 2
         /\ \A k \in 1..Len(t) : u[k] = t[k]
         /\ u[Len(t) + 1] = q /\ u[Len(t) + 2] = r
<1>1. <<q, r>> \in Seq(S) /\ Len(<<q, r>>) = 2
  OBVIOUS
<1>2. Len(t) \in Nat
  OBVIOUS
<1>3. u \in Seq(S) /\ Len(u) = Len(t) + 2 /\ \A k \in 1..Len(t) : u[k] = t[k]
  BY <1>1, <1>2, ConcatProperties
<1>4. u[Len(t) + 1] = q /\ u[Len(t) + 2] = r
  BY <1>1, <1>2
<1> QED BY <1>2, <1>3, <1>4

LEMMA RearrangedComplete ==
  ASSUME key \in Inputs, NEW a, NEW b, NEW lo, NEW hi, lo..hi \subseteq Pairs,
         Complete(a), Rearranged(a, b, lo, hi)
  PROVE  Complete(b)
<1> SUFFICES ASSUME NEW q \in Pairs PROVE \E p \in Pairs : b[p] = q
  BY DEF Complete
<1>1. PICK p \in Pairs : a[p] = q
  BY DEF Complete
<1>2. CASE p \in lo..hi
  <2>1. PICK m \in lo..hi : a[p] = b[m]
    BY <1>2 DEF Rearranged, Comes
  <2> QED BY <1>1, <2>1
<1>3. CASE p \notin lo..hi
  BY <1>1, <1>3 DEF Rearranged
<1> QED BY <1>2, <1>3

\* A step that rearranges the range of one activation leaves every other pair
\* of places as it is: in order, or in the range of another activation.
LEMMA OthersStay ==
  ASSUME key \in Inputs, NEW a \in Arrays, NEW s \in Seq(Frame), s # << >>,
         Apart(s), Settled(a, s),
         NEW t, t = SubSeq(s, 1, Len(s) - 1), NEW r, r = s[Len(s)],
         NEW b, Rearranged(a, b, r.lo, r.hi),
         NEW x \in Pairs, NEW y \in Pairs, x < y
  PROVE  \/ Rises(b, x, y)
         \/ x \in r.lo..r.hi /\ y \in r.lo..r.hi
         \/ InOneRange(t, x, y)
<1> DEFINE R == r.lo..r.hi
           n == Len(s)
<1>1. /\ n \in Nat /\ n > 0 /\ r \in Frame /\ Len(t) = n - 1
      /\ \A k \in 1..(n - 1) : t[k] = s[k]
  <2>1. /\ Len(s) \in Nat /\ Len(s) > 0 /\ Len(t) = Len(s) - 1
        /\ \A k \in 1..Len(t) : t[k] = s[k]
        /\ s[Len(s)] \in Frame
    BY PopIs
  <2> QED BY <2>1
<1>2. /\ r.lo \in Nat /\ r.hi \in Nat /\ R \subseteq Pairs
      /\ x \in Nat /\ y \in Nat
  <2>1. r.lo \in Pairs /\ r.hi \in Pairs
    BY <1>1 DEF Frame
  <2> QED BY <2>1, PairsBetween
<1>3. \A k \in 1..n : s[k].lo \in Nat /\ s[k].hi \in Nat
  <2>1. \A k \in 1..n : s[k] \in Frame
    BY <1>1
  <2>2. Pairs \subseteq Nat
    BY CountType
  <2> QED BY <2>1, <2>2 DEF Frame
\* No other activation's range meets R.
<1>4. \A k \in 1..(n - 1) : s[k].hi < r.lo \/ r.hi < s[k].lo
  BY <1>1 DEF Apart
<1>5. \A z \in Pairs : z \notin R => b[z] = a[z]
  BY DEF Rearranged
<1>6. \A z \in R : \E w \in R : b[z] = a[w]
  BY DEF Rearranged, Comes
<1>7. ASSUME NEW k \in 1..n, s[k].lo <= x, y <= s[k].hi
      PROVE  (x \in R /\ y \in R) \/ InOneRange(t, x, y)
  <2>1. CASE k = n
    BY <1>2, <1>7, <2>1
  <2>2. CASE k # n
    <3>1. k \in 1..(n - 1) /\ k \in 1..Len(t)
      BY <1>1, <2>2
    <3> QED BY <1>1, <1>7, <3>1 DEF InOneRange
  <2> QED BY <2>1, <2>2
<1>8. \A v, w \in Pairs : v < w => ~Less(a[w], a[v]) \/ InOneRange(s, v, w)
  BY DEF Settled, Rises
<1>9. CASE x \notin R /\ y \notin R
  <2>1. b[x] = a[x] /\ b[y] = a[y]
    BY <1>5, <1>9
  <2>2. ~Less(a[y], a[x]) \/ InOneRange(s, x, y)
    BY <1>8
  <2>3. CASE InOneRange(s, x, y)
    BY <1>7, <2>3 DEF InOneRange
  <2> QED BY <2>1, <2>2, <2>3 DEF Rises
<1>10. CASE x \in R /\ y \notin R
  <2>1. PICK w \in R : b[x] = a[w]
    BY <1>6, <1>10
  <2>2. w \in Pairs /\ w < y /\ b[y] = a[y]
    BY <1>2, <1>5, <1>10
  <2>3. ~InOneRange(s, w, y)
    <3> SUFFICES ASSUME NEW k \in 1..n, s[k].lo <= w, y <= s[k].hi PROVE FALSE
      BY DEF InOneRange
    <3>1. CASE k = n
      BY <1>2, <1>10, <2>2, <3>1
    <3>2. CASE k # n
      <4>1. k \in 1..(n - 1)
        BY <1>1, <3>2
      <4>2. /\ r.lo <= w /\ w <= r.hi /\ w \in Nat
            /\ y < r.lo \/ r.hi < y
        BY <1>2, <1>10
      <4>3. s[k].hi < r.lo \/ r.hi < s[k].lo
        BY <1>4, <4>1
      <4>4. s[k].lo \in Nat /\ s[k].hi \in Nat
        BY <1>3
      <4> HIDE DEF R, n
      <4> QED BY <1>2, <2>2, <4>2, <4>3, <4>4
    <3> QED BY <3>1, <3>2
  <2> QED BY <1>8, <2>1, <2>2, <2>3 DEF Rises
<1>11. CASE x \notin R /\ y \in R
  <2>1. PICK w \in R : b[y] = a[w]
    BY <1>6, <1>11
  <2>2. w \in Pairs /\ x < w /\ b[x] = a[x]
    BY <1>2, <1>5, <1>11
  <2>3. ~InOneRange(s, x, w)
    <3> SUFFICES ASSUME NEW k \in 1..n, s[k].lo <= x, w <= s[k].hi PROVE FALSE
      BY DEF InOneRange
    <3>1. CASE k = n
      BY <1>2, <1>11, <2>2, <3>1
    <3>2. CASE k # n
      <4>1. k \in 1..(n - 1)
        BY <1>1, <3>2
      <4>2. /\ r.lo <= w /\ w <= r.hi /\ w \in Nat
            /\ x < r.lo \/ r.hi < x
        BY <1>2, <1>11
      <4>3. s[k].hi < r.lo \/ r.hi < s[k].lo
        BY <1>4, <4>1
      <4>4. s[k].lo \in Nat /\ s[k].hi \in Nat
        BY <1>3
      <4> HIDE DEF R, n
      <4> QED BY <1>2, <2>2, <4>2, <4>3, <4>4
    <3> QED BY <3>1, <3>2
  <2> QED BY <1>8, <2>1, <2>2, <2>3 DEF Rises
<1> QED BY <1>9, <1>10, <1>11

\* An activation that returns has sorted its range.
LEMMA ReturnSettles ==
  ASSUME key \in Inputs, NEW a, NEW s, SortState(a, s), s # << >>,
         NEW t, t = SubSeq(s, 1, Len(s) - 1), NEW r, r = s[Len(s)],
         NEW b, Rearranged(a, b, r.lo, r.hi), Sorted(b, r.lo, r.hi)
  PROVE  SortState(b, t)
<1>1. /\ a \in Arrays /\ Complete(a) /\ s \in Seq(Frame)
      /\ Apart(s) /\ Halved(s) /\ Settled(a, s)
  BY DEF SortState
<1>2. /\ t \in Seq(Frame) /\ Len(s) \in Nat /\ Len(t) = Len(s) - 1 /\ r \in Frame
      /\ \A k \in 1..Len(t) : t[k] = s[k] /\ k \in 1..Len(s)
  <2>1. /\ t \in Seq(Frame) /\ Len(s) \in Nat /\ Len(t) = Len(s) - 1 /\ r \in Frame
        /\ \A k \in 1..Len(t) : t[k] = s[k]
    BY <1>1, PopIs
  <2> QED BY <2>1
<1>3. r.lo..r.hi \subseteq Pairs
  BY <1>2, PairsBetween DEF Frame
<1>4. Complete(b) /\ b \in Arrays
  BY <1>1, <1>3, RearrangedComplete DEF Rearranged
<1>5. Apart(t)
  BY <1>1, <1>2 DEF Apart
<1>6. Halved(t)
  BY <1>1, <1>2 DEF Halved
<1>7. Settled(b, t)
  <2> SUFFICES ASSUME NEW x \in Pairs, NEW y \in Pairs, x < y
               PROVE  Rises(b, x, y) \/ InOneRange(t, x, y)
    BY DEF Settled
  <2>1. Rises(b, x, y) \/ (x \in r.lo..r.hi /\ y \in r.lo..r.hi) \/ InOneRange(t, x, y)
    BY <1>1, OthersStay
  <2>2. x \in r.lo..r.hi /\ y \in r.lo..r.hi => Rises(b, x, y)
    BY DEF Sorted
  <2> QED BY <2>1, <2>2
<1> QED BY <1>2, <1>4, <1>5, <1>6, <1>7 DEF SortState

\* An activation r that has split its range at at goes on with the larger part,
\* q, and calls itself with the smaller one, w.
Parts(r, at, d, q, w) ==
  \/ /\ q = Activation(r.lo, at - 1, d) /\ w = Activation(at + 1, r.hi, d)
     /\ r.hi - at <= at - r.lo
  \/ /\ w = Activation(r.lo, at - 1, d) /\ q = Activation(at + 1, r.hi, d)
     /\ at - r.lo < r.hi - at

\* The places of the two parts, and their sizes.
Within(r, q) == q \in Frame /\ r.lo <= q.lo /\ q.hi <= r.hi

LEMMA PartsAre ==
  ASSUME key \in Inputs, NEW r \in Frame, NEW at \in Nat, r.lo < at, at < r.hi,
         NEW d \in Nat, NEW q, NEW w, Parts(r, at, d, q, w)
  PROVE  /\ Within(r, q) /\ Within(r, w)
         /\ q.hi < w.lo \/ w.hi < q.lo
         /\ Size(q) < Size(r) /\ 2 * Size(w) <= Size(r)
         /\ Size(q) + Size(w) + 1 = Size(r)
<1>1. /\ r.lo \in Pairs /\ r.hi \in Pairs
  BY DEF Frame
<1>2. PICK lo \in Nat, hi \in Nat : lo = r.lo /\ hi = r.hi
  BY <1>1, PairsBetween
<1>3. /\ at - 1 \in lo..hi /\ at + 1 \in lo..hi
      /\ lo <= at - 1 /\ at + 1 <= hi /\ at - 1 < at + 1
  BY <1>2
<1>4. at - 1 \in Pairs /\ at + 1 \in Pairs
  BY <1>1, <1>2, <1>3, PairsBetween
<1> DEFINE left == Activation(lo, at - 1, d)
           right == Activation(at + 1, hi, d)
<1>5. /\ left.lo = lo /\ left.hi = at - 1 /\ right.lo = at + 1 /\ right.hi = hi
      /\ left \in Frame /\ right \in Frame
  BY <1>1, <1>2, <1>3, <1>4 DEF Frame, Activation
<1>6. \/ q = left /\ w = right /\ hi - at <= at - lo
      \/ w = left /\ q = right /\ at - lo < hi - at
  BY <1>2 DEF Parts
<1> HIDE DEF left, right
<1>7. lo < at /\ at < hi
  BY <1>2
<1>8. CASE q = left /\ w = right /\ hi - at <= at - lo
  <2>1. Within(r, q) /\ Within(r, w)
    BY <1>2, <1>3, <1>5, <1>8 DEF Within
  <2>2. q.lo = lo /\ q.hi = at - 1 /\ w.lo = at + 1 /\ w.hi = hi
    BY <1>5, <1>8
  <2> QED BY <1>2, <1>7, <1>8, <2>1, <2>2 DEF Size
<1>9. CASE w = left /\ q = right /\ at - lo < hi - at
  <2>1. Within(r, q) /\ Within(r, w)
    BY <1>2, <1>3, <1>5, <1>9 DEF Within
  <2>2. w.lo = lo /\ w.hi = at - 1 /\ q.lo = at + 1 /\ q.hi = hi
    BY <1>5, <1>9
  <2> QED BY <1>2, <1>7, <1>9, <2>1, <2>2 DEF Size
<1> QED BY <1>6, <1>8, <1>9

\* u is s with q and w in the place of its top.
Replaced(s, u, q, w) ==
  /\ s \in Seq(Frame) /\ u \in Seq(Frame)
  /\ Len(s) \in Nat /\ Len(s) > 0 /\ Len(u) = Len(s) + 1
  /\ \A k \in 1..(Len(s) - 1) : u[k] = s[k]
  /\ u[Len(s)] = q /\ u[Len(s) + 1] = w

LEMMA PartsReplace ==
  ASSUME NEW s \in Seq(Frame), s # << >>, NEW q \in Frame, NEW w \in Frame,
         NEW u, u = SubSeq(s, 1, Len(s) - 1) \o <<q, w>>
  PROVE  Replaced(s, u, q, w)
<1>1. PICK t : t = SubSeq(s, 1, Len(s) - 1)
  OBVIOUS
<1>2. /\ t \in Seq(Frame) /\ Len(s) \in Nat /\ Len(s) > 0 /\ Len(t) = Len(s) - 1
      /\ \A k \in 1..Len(t) : t[k] = s[k]
  BY <1>1, PopIs
<1>3. /\ u \in Seq(Frame) /\ Len(u) = Len(t) + 2
      /\ \A k \in 1..Len(t) : u[k] = t[k]
      /\ u[Len(t) + 1] = q /\ u[Len(t) + 2] = w
  BY <1>1, <1>2, PushTwo
<1>4. PICK m \in Nat : m = Len(t) /\ Len(s) = m + 1
  BY <1>2
<1>5. Len(u) = Len(s) + 1
  BY <1>3, <1>4
<1>6. u[Len(s)] = q /\ u[Len(s) + 1] = w
  <2>1. u[m + 1] = q /\ u[m + 2] = w
    BY <1>3, <1>4, Zenon
  <2>2. m + 2 = Len(s) + 1
    BY <1>4
  <2>3. u[Len(s)] = q
    BY <1>4, <2>1, Zenon
  <2>4. u[Len(s) + 1] = w
    BY <2>1, <2>2, Zenon
  <2> QED BY <2>3, <2>4
<1>7. \A k \in 1..(Len(s) - 1) : u[k] = s[k]
  BY <1>2, <1>3
<1> QED BY <1>2, <1>3, <1>5, <1>6, <1>7 DEF Replaced

LEMMA PartsApart ==
  ASSUME key \in Inputs, NEW s, NEW u, NEW q, NEW w, NEW r, r = s[Len(s)],
         Replaced(s, u, q, w), Apart(s),
         Within(r, q), Within(r, w), q.hi < w.lo \/ w.hi < q.lo
  PROVE  Apart(u)
<1>1. PICK n \in Nat : /\ n = Len(s) /\ n > 0 /\ Len(u) = n + 1
                       /\ s \in Seq(Frame) /\ u \in Seq(Frame)
                       /\ \A k \in 1..(n - 1) : u[k] = s[k]
                       /\ u[n] = q /\ u[n + 1] = w /\ r = s[n]
  BY DEF Replaced
<1>2. \A k, l \in 1..n : k # l => s[k].hi < s[l].lo \/ s[l].hi < s[k].lo
  BY <1>1 DEF Apart
<1>3. \A p \in Frame : p.lo \in Nat /\ p.hi \in Nat
  BY CountType DEF Frame
<1>4. r \in Frame /\ q \in Frame /\ w \in Frame
      /\ r.lo <= q.lo /\ q.hi <= r.hi /\ r.lo <= w.lo /\ w.hi <= r.hi
  <2>1. n \in 1..Len(s)
    BY <1>1
  <2> QED BY <1>1, <2>1 DEF Within
<1>5. ASSUME NEW k \in 1..(n - 1)
      PROVE  /\ u[k].hi < q.lo \/ q.hi < u[k].lo
             /\ u[k].hi < w.lo \/ w.hi < u[k].lo
  <2>1. k \in 1..Len(s) /\ n \in 1..n /\ k \in 1..n /\ k # n
    BY <1>1
  <2>2. s[k].hi < r.lo \/ r.hi < s[k].lo
    BY <1>1, <1>2, <2>1
  <2>3. s[k] \in Frame /\ u[k] = s[k]
    BY <1>1, <2>1
  <2>4. PICK p \in Frame : p = s[k]
    BY <2>3
  <2>5. p.hi < r.lo \/ r.hi < p.lo
    BY <2>2, <2>4
  <2>6. p.lo \in Nat /\ p.hi \in Nat /\ r.lo \in Nat /\ r.hi \in Nat
        /\ q.lo \in Nat /\ q.hi \in Nat /\ w.lo \in Nat /\ w.hi \in Nat
    BY <1>3, <1>4
  <2>7. p.hi < q.lo \/ q.hi < p.lo
    BY <1>4, <2>5, <2>6, SMTT(30)
  <2>8. p.hi < w.lo \/ w.hi < p.lo
    BY <1>4, <2>5, <2>6
  <2> QED BY <2>3, <2>4, <2>7, <2>8
<1>6. \A k \in 1..Len(u) : k \in 1..(n - 1) \/ k = n \/ k = n + 1
  BY <1>1
<1>7. \A k, l \in 1..(n - 1) : k # l => u[k].hi < u[l].lo \/ u[l].hi < u[k].lo
  <2>1. \A k \in 1..(n - 1) : k \in 1..n
    OBVIOUS
  <2> QED BY <1>1, <1>2, <2>1
<1> SUFFICES ASSUME NEW k \in 1..Len(u), NEW l \in 1..Len(u), k # l
             PROVE  u[k].hi < u[l].lo \/ u[l].hi < u[k].lo
  BY DEF Apart
<1>8. CASE k \in 1..(n - 1) /\ l \in 1..(n - 1)
  BY <1>7, <1>8
<1>9. CASE k \in 1..(n - 1) /\ (l = n \/ l = n + 1)
  BY <1>1, <1>5, <1>9
<1>10. CASE (k = n \/ k = n + 1) /\ l \in 1..(n - 1)
  BY <1>1, <1>5, <1>10
<1>11. CASE (k = n \/ k = n + 1) /\ (l = n \/ l = n + 1)
  BY <1>1, <1>11
<1> QED BY <1>6, <1>8, <1>9, <1>10, <1>11

LEMMA PartsHalved ==
  ASSUME key \in Inputs, NEW s, NEW u, NEW q, NEW w, NEW r, r = s[Len(s)],
         Replaced(s, u, q, w), Halved(s), r \in Frame,
         Within(r, q), Within(r, w), Size(q) < Size(r), 2 * Size(w) <= Size(r)
  PROVE  Halved(u)
<1>1. PICK n \in Nat : /\ n = Len(s) /\ n > 0 /\ Len(u) = n + 1
                       /\ \A k \in 1..(n - 1) : u[k] = s[k]
                       /\ u[n] = q /\ u[n + 1] = w /\ r = s[n]
  BY DEF Replaced
<1>2. \A p \in Frame : Size(p) \in Nat /\ Size(p) > 0
  <2> SUFFICES ASSUME NEW p \in Frame PROVE Size(p) \in Nat /\ Size(p) > 0
    OBVIOUS
  <2>1. p.lo \in Nat /\ p.hi \in Nat /\ p.lo <= p.hi
    BY CountType DEF Frame
  <2> QED BY <2>1 DEF Size
<1>3. PICK large \in Nat, small \in Nat, span \in Nat :
        /\ large = Size(q) /\ small = Size(w) /\ span = Size(r) /\ small > 0
  BY <1>2 DEF Within
<1>4. ILog2[large] \in Nat /\ ILog2[small] \in Nat /\ ILog2[span] \in Nat
      /\ ILog2[Count] \in Nat
  BY CountType, ILog2Is
<1>5. ILog2[large] <= ILog2[span]
  <2>1. large <= span
    BY <1>3
  <2> QED BY <2>1, ILog2Monotonic
<1>6. 1 + ILog2[small] <= ILog2[span]
  <2>1. PICK two \in Nat : two = 2 * small
    OBVIOUS
  <2>2. ILog2[two] = 1 + ILog2[small]
    BY <1>3, <2>1, ILog2Doubles
  <2>3. two <= span
    BY <1>3, <2>1
  <2>4. ILog2[two] <= ILog2[span]
    BY <2>3, ILog2Monotonic
  <2> QED BY <2>2, <2>4
<1>7. (n - 1) + ILog2[span] <= ILog2[Count]
  <2>1. n \in 1..Len(s)
    BY <1>1
  <2> QED BY <1>1, <1>3, <2>1 DEF Halved
<1>12. /\ (n - 1) + ILog2[large] <= ILog2[Count]
       /\ ((n + 1) - 1) + ILog2[small] <= ILog2[Count]
  <2>1. PICK a, b, c, t \in Nat : /\ a = ILog2[large] /\ b = ILog2[small]
                                  /\ c = ILog2[span] /\ t = ILog2[Count]
    BY <1>4, Zenon
  <2>2. a <= c /\ 1 + b <= c /\ (n - 1) + c <= t
    BY <1>5, <1>6, <1>7, <2>1, Zenon
  <2>3. (n - 1) + a <= t /\ ((n + 1) - 1) + b <= t
    BY <2>2
  <2> QED BY <2>1, <2>3, Zenon
<1> SUFFICES ASSUME NEW k \in 1..Len(u)
             PROVE  (k - 1) + ILog2[Size(u[k])] <= ILog2[Count]
  BY DEF Halved
<1>8. k \in 1..(n - 1) \/ k = n \/ k = n + 1
  BY <1>1
<1>9. CASE k \in 1..(n - 1)
  <2>1. k \in 1..Len(s) /\ u[k] = s[k]
    BY <1>1, <1>9
  <2> QED BY <2>1 DEF Halved
<1>10. CASE k = n
  <2>1. Size(u[k]) = large
    BY <1>1, <1>3, <1>10
  <2>2. (n - 1) + ILog2[large] <= ILog2[Count]
    BY <1>12
  <2> QED BY <1>10, <2>1, <2>2
<1>11. CASE k = n + 1
  <2>1. Size(u[k]) = small
    BY <1>1, <1>3, <1>11
  <2>2. ((n + 1) - 1) + ILog2[small] <= ILog2[Count]
    BY <1>12
  <2> QED BY <1>11, <2>1, <2>2
<1> QED BY <1>8, <1>9, <1>10, <1>11

\* The pivot at at has what is not greater before it and what is not smaller
\* behind it.
Pivoted(b, r, at) ==
  /\ \A m \in r.lo..at : Rises(b, m, at)
  /\ \A m \in at..r.hi : Rises(b, at, m)

\* Two places of the range are in order, or in the same part.
LEMMA PivotParts ==
  ASSUME key \in Inputs, NEW r \in Frame, NEW at \in Nat, r.lo < at, at < r.hi,
         NEW d \in Nat, NEW q, NEW w, Parts(r, at, d, q, w),
         NEW b \in Arrays, Pivoted(b, r, at),
         NEW x \in r.lo..r.hi, NEW y \in r.lo..r.hi, x < y
  PROVE  \/ Rises(b, x, y)
         \/ q.lo <= x /\ y <= q.hi
         \/ w.lo <= x /\ y <= w.hi
<1>1. r.lo \in Pairs /\ r.hi \in Pairs
  BY DEF Frame
<1>2. PICK lo \in Nat, hi \in Nat : lo = r.lo /\ hi = r.hi /\ lo..hi \subseteq Pairs
  BY <1>1, PairsBetween
<1>3. /\ x \in Nat /\ y \in Nat /\ lo <= x /\ x <= hi /\ lo <= y /\ y <= hi
      /\ lo < at /\ at < hi
  BY <1>2
<1>4. \/ q.lo = lo /\ q.hi = at - 1 /\ w.lo = at + 1 /\ w.hi = hi
      \/ w.lo = lo /\ w.hi = at - 1 /\ q.lo = at + 1 /\ q.hi = hi
  BY <1>2 DEF Parts, Activation
<1>5. CASE x <= at /\ at <= y
  <2>1. x \in lo..at /\ y \in at..hi /\ at \in lo..hi /\ x \in lo..hi /\ y \in lo..hi
    BY <1>3, <1>5
  <2>2. Rises(b, x, at) /\ Rises(b, at, y)
    BY <1>2, <2>1 DEF Pivoted
  <2> QED BY <1>2, <2>1, <2>2, RisesTwice
<1>6. CASE y < at
  <2>1. y <= at - 1
    BY <1>3, <1>6
  <2> QED BY <1>3, <1>4, <2>1
<1>7. CASE at < x
  <2>1. at + 1 <= x
    BY <1>3, <1>7
  <2> QED BY <1>3, <1>4, <2>1
<1> QED BY <1>3, <1>5, <1>6, <1>7

LEMMA SplitSettles ==
  ASSUME key \in Inputs, NEW a, NEW s, SortState(a, s), s # << >>,
         NEW r, r = s[Len(s)], NEW b, Rearranged(a, b, r.lo, r.hi),
         NEW at \in Nat, r.lo < at, at < r.hi, Pivoted(b, r, at),
         NEW d \in Nat, NEW q, NEW w, Parts(r, at, d, q, w),
         NEW u, u = SubSeq(s, 1, Len(s) - 1) \o <<q, w>>
  PROVE  SortState(b, u)
<1>1. /\ a \in Arrays /\ Complete(a) /\ s \in Seq(Frame)
      /\ Apart(s) /\ Halved(s) /\ Settled(a, s)
  BY DEF SortState
<1>2. r \in Frame
  BY <1>1, PopIs
<1>3. /\ Within(r, q) /\ Within(r, w)
      /\ q.hi < w.lo \/ w.hi < q.lo
      /\ Size(q) < Size(r) /\ 2 * Size(w) <= Size(r)
  BY <1>2, PartsAre
<1>4. Replaced(s, u, q, w)
  BY <1>1, <1>3, PartsReplace DEF Within
<1>5. Apart(u)
  BY <1>1, <1>3, <1>4, PartsApart
<1>6. Halved(u)
  BY <1>1, <1>2, <1>3, <1>4, PartsHalved
<1>7. r.lo..r.hi \subseteq Pairs
  BY <1>2, PairsBetween DEF Frame
<1>8. Complete(b) /\ b \in Arrays
  BY <1>1, <1>7, RearrangedComplete DEF Rearranged
<1>9. Settled(b, u)
  <2> SUFFICES ASSUME NEW x \in Pairs, NEW y \in Pairs, x < y
               PROVE  Rises(b, x, y) \/ InOneRange(u, x, y)
    BY DEF Settled
  <2>1. PICK t : t = SubSeq(s, 1, Len(s) - 1)
    OBVIOUS
  <2>2. Rises(b, x, y) \/ (x \in r.lo..r.hi /\ y \in r.lo..r.hi) \/ InOneRange(t, x, y)
    BY <1>1, <2>1, OthersStay
  <2>3. /\ Len(s) \in Nat /\ Len(s) > 0 /\ Len(u) = Len(s) + 1
        /\ Len(t) = Len(s) - 1
        /\ \A k \in 1..Len(t) : u[k] = t[k]
        /\ u[Len(s)] = q /\ u[Len(s) + 1] = w
    <3>1. /\ Len(t) = Len(s) - 1 /\ \A k \in 1..Len(t) : t[k] = s[k]
      BY <1>1, <2>1, PopIs
    <3> QED BY <1>4, <3>1 DEF Replaced
  <2>4. CASE InOneRange(t, x, y)
    <3>1. PICK k \in 1..Len(t) : t[k].lo <= x /\ y <= t[k].hi
      BY <2>4 DEF InOneRange
    <3>2. k \in 1..Len(u)
      BY <2>3
    <3> QED BY <2>3, <3>1, <3>2 DEF InOneRange
  <2>5. CASE x \in r.lo..r.hi /\ y \in r.lo..r.hi
    <3>1. \/ Rises(b, x, y)
          \/ q.lo <= x /\ y <= q.hi
          \/ w.lo <= x /\ y <= w.hi
      BY <1>2, <1>8, <2>5, PivotParts
    <3>2. Len(s) \in 1..Len(u) /\ Len(s) + 1 \in 1..Len(u)
      BY <2>3
    <3> QED BY <2>3, <3>1, <3>2 DEF InOneRange
  <2> QED BY <2>2, <2>4, <2>5
<1> QED BY <1>4, <1>5, <1>6, <1>8, <1>9 DEF SortState, Replaced

(***************************************************************************)
(* SortInv is inductive.                                                   *)
(***************************************************************************)

LEMMA TopIs ==
  ASSUME SortInv, stack # << >>
  PROVE  /\ key \in Inputs /\ SortState(arr, stack) /\ arr \in Arrays
         /\ top = stack[Len(stack)] /\ top \in Frame
         /\ top.lo \in Pairs /\ top.hi \in Pairs /\ top.lo <= top.hi
         /\ top.lo \in Nat /\ top.hi \in Nat /\ top.depth \in Nat
         /\ Span = Size(top)
         /\ Pop = SubSeq(stack, 1, Len(stack) - 1)
<1>1. key \in Inputs /\ SortState(arr, stack)
  BY DEF SortInv
<1>2. stack \in Seq(Frame) /\ arr \in Arrays
  BY <1>1 DEF SortState
<1>3. top = stack[Len(stack)] /\ Pop = SubSeq(stack, 1, Len(stack) - 1)
  BY DEF top, Depth, Pop
<1>4. top \in Frame
  BY <1>2, <1>3, PopIs
<1>5. top.lo \in Pairs /\ top.hi \in Pairs /\ top.lo <= top.hi /\ top.depth \in Nat
  BY <1>4 DEF Frame
<1> QED BY <1>1, <1>2, <1>3, <1>4, <1>5, PairsBetween DEF Span, Size

LEMMA InitSorts == Init => SortInv
<1> SUFFICES ASSUME Init PROVE SortInv
  OBVIOUS
<1>1. key \in Inputs /\ arr = [i \in Pairs |-> i]
  BY DEF Init
<1>2. Count \in Nat /\ Count > 1 /\ ILog2[Count] \in Nat
  BY <1>1, CountType, ILog2Is
<1>3. PICK depth \in Nat : stack = <<Activation(0, Count - 1, depth)>>
  BY <1>2 DEF Init
<1>4. PICK r : r = Activation(0, Count - 1, depth)
  OBVIOUS
<1>5. /\ r.lo = 0 /\ r.hi = Count - 1 /\ r \in Frame
  BY <1>2, <1>4 DEF Activation, Frame, Pairs
<1>6. stack \in Seq(Frame) /\ Len(stack) = 1 /\ stack[1] = r
  BY <1>3, <1>4, <1>5
<1>7. arr \in Arrays /\ Complete(arr)
  BY <1>1 DEF Arrays, Complete
<1>8. Apart(stack)
  BY <1>6 DEF Apart
<1>9. Halved(stack)
  <2>1. Size(stack[1]) = Count
    BY <1>2, <1>5, <1>6 DEF Size
  <2> SUFFICES ASSUME NEW k \in 1..Len(stack)
               PROVE  (k - 1) + ILog2[Size(stack[k])] <= ILog2[Count]
    BY DEF Halved
  <2>2. k = 1
    BY <1>6
  <2> QED BY <1>2, <2>1, <2>2
<1>10. Settled(arr, stack)
  <2> SUFFICES ASSUME NEW x \in Pairs, NEW y \in Pairs
               PROVE  InOneRange(stack, x, y)
    BY DEF Settled
  <2>1. 0 <= x /\ y <= Count - 1
    BY <1>2 DEF Pairs
  <2>2. 1 \in 1..Len(stack)
    BY <1>6
  <2> QED BY <1>5, <1>6, <2>1, <2>2 DEF InOneRange
<1> QED BY <1>1, <1>6, <1>7, <1>8, <1>9, <1>10 DEF SortInv, SortState

LEMMA ExitSettles ==
  ASSUME SortInv, Exit
  PROVE  SortState(arr', stack')
<1>1. stack # << >> /\ top.lo >= top.hi /\ arr' = arr /\ stack' = Pop
  BY DEF Exit
<1>2. Sorted(arr, top.lo, top.hi)
  BY <1>1, TopIs DEF Sorted
<1>3. Rearranged(arr, arr, top.lo, top.hi)
  BY <1>1, TopIs, RearrangedNot
<1> QED BY <1>1, <1>2, <1>3, TopIs, ReturnSettles

LEMMA LeafSettles ==
  ASSUME SortInv, Leaf
  PROVE  SortState(arr', stack')
<1>1. /\ stack # << >> /\ top.lo < top.hi
      /\ arr' = ISort(arr, top.lo, top.hi) /\ stack' = Pop
  BY DEF Leaf
<1>2. PICK b : b = arr'
  OBVIOUS
<1>3. Rearranged(arr, b, top.lo, top.hi) /\ Sorted(b, top.lo, top.hi)
  BY <1>1, <1>2, TopIs, ISortSorts
<1> QED BY <1>1, <1>2, <1>3, TopIs, ReturnSettles

LEMMA DepthExceededSettles ==
  ASSUME SortInv, DepthExceeded
  PROVE  SortState(arr', stack')
<1>1. /\ stack # << >> /\ Span > Threshold
      /\ arr' = HeapSort(arr, top.lo, top.hi) /\ stack' = Pop
  BY DEF DepthExceeded
<1>2. top.lo < top.hi
  BY <1>1, TopIs, ThresholdAssumption DEF Size
<1>3. PICK b : b = arr'
  OBVIOUS
<1>4. Rearranged(arr, b, top.lo, top.hi) /\ Sorted(b, top.lo, top.hi)
  BY <1>1, <1>2, <1>3, TopIs, HeapSortSorts
<1> QED BY <1>1, <1>3, <1>4, TopIs, ReturnSettles

\* What Split does: the pivot is inside the range, and two parts are left.
LEMMA SplitIs ==
  ASSUME SortInv, Split
  PROVE  /\ stack # << >> /\ top.depth - 1 \in Nat
         /\ \E at \in Nat : \E q, w :
              /\ top.lo < at /\ at < top.hi
              /\ Rearranged(arr, arr', top.lo, top.hi)
              /\ Pivoted(arr', top, at)
              /\ Parts(top, at, top.depth - 1, q, w)
              /\ stack' = SubSeq(stack, 1, Len(stack) - 1) \o <<q, w>>
<1>1. stack # << >> /\ Span > Threshold /\ top.depth > 0
  BY DEF Split
<1>2. top.lo + 2 <= top.hi
  BY <1>1, TopIs, ThresholdAssumption DEF Size
<1>3. PICK p : p = Partition(WithPivot(arr, top.lo, top.hi), top.lo, top.hi)
  OBVIOUS
<1>4. /\ p.at \in (top.lo + 1)..(top.hi - 1)
      /\ Rearranged(arr, p.arr, top.lo, top.hi)
      /\ \A m \in top.lo..p.at : Rises(p.arr, m, p.at)
      /\ \A m \in p.at..top.hi : Rises(p.arr, p.at, m)
  BY <1>1, <1>2, <1>3, TopIs, PartitionSplits
<1> DEFINE left == Activation(top.lo, p.at - 1, top.depth - 1)
           right == Activation(p.at + 1, top.hi, top.depth - 1)
<1>5. /\ arr' = p.arr
      /\ stack' = Pop \o (IF p.at - top.lo < top.hi - p.at
                            THEN <<right, left>> ELSE <<left, right>>)
  BY <1>3 DEF Split
<1>6. PICK at \in Nat : at = p.at /\ top.lo < at /\ at < top.hi
  <2>1. top.lo \in Nat /\ top.hi \in Nat
    BY <1>1, TopIs
  <2>2. p.at \in Nat /\ top.lo < p.at /\ p.at < top.hi
    BY <1>4, <2>1
  <2> QED BY <2>2
<1>7. PICK q, w : /\ stack' = SubSeq(stack, 1, Len(stack) - 1) \o <<q, w>>
                  /\ Parts(top, at, top.depth - 1, q, w)
  <2>1. CASE at - top.lo < top.hi - at
    <3>1. stack' = Pop \o <<right, left>>
      BY <1>5, <1>6, <2>1
    <3>2. Parts(top, at, top.depth - 1, right, left)
      BY <1>6, <2>1 DEF Parts
    <3> QED BY <1>1, <3>1, <3>2, TopIs
  <2>2. CASE ~(at - top.lo < top.hi - at)
    <3>1. stack' = Pop \o <<left, right>>
      BY <1>5, <1>6, <2>2
    <3>2. top.lo \in Nat /\ top.hi \in Nat
      BY <1>1, TopIs
    <3>3. top.hi - at <= at - top.lo
      BY <2>2, <3>2
    <3>4. Parts(top, at, top.depth - 1, left, right)
      BY <1>6, <3>3 DEF Parts
    <3> QED BY <1>1, <3>1, <3>4, TopIs
  <2> QED BY <2>1, <2>2
<1>8. Pivoted(arr', top, at) /\ Rearranged(arr, arr', top.lo, top.hi)
  BY <1>4, <1>5, <1>6 DEF Pivoted
<1>9. top.depth - 1 \in Nat
  BY <1>1, TopIs
<1> QED BY <1>1, <1>6, <1>7, <1>8, <1>9

LEMMA SplitKeeps ==
  ASSUME SortInv, Split
  PROVE  SortState(arr', stack')
<1>1. PICK d \in Nat : d = top.depth - 1 /\ stack # << >>
  BY SplitIs
<1>2. PICK at \in Nat :
        \E q, w :
          /\ top.lo < at /\ at < top.hi
          /\ Rearranged(arr, arr', top.lo, top.hi)
          /\ Pivoted(arr', top, at)
          /\ Parts(top, at, d, q, w)
          /\ stack' = SubSeq(stack, 1, Len(stack) - 1) \o <<q, w>>
  BY <1>1, SplitIs
<1>3. PICK q, w :
        /\ top.lo < at /\ at < top.hi
        /\ Rearranged(arr, arr', top.lo, top.hi)
        /\ Pivoted(arr', top, at)
        /\ Parts(top, at, d, q, w)
        /\ stack' = SubSeq(stack, 1, Len(stack) - 1) \o <<q, w>>
  BY <1>2
<1>4. PICK b, u : b = arr' /\ u = stack'
  OBVIOUS
<1>5. SortState(b, u)
  BY <1>1, <1>3, <1>4, TopIs, SplitSettles
<1> QED BY <1>4, <1>5

LEMMA KeyStays ==
  ASSUME SortInv, key' = key, SortState(arr', stack')
  PROVE  SortInv'
<1>1. key' \in Inputs
  BY DEF SortInv
<1>2. Count' = Count /\ Pairs' = Pairs
  BY DEF Count, Pairs
<1>3. Arrays' = Arrays /\ Frame' = Frame
  BY <1>2 DEF Arrays, Frame
<1>4. /\ arr' \in Arrays /\ Complete(arr') /\ stack' \in Seq(Frame)
      /\ Apart(stack') /\ Halved(stack') /\ Settled(arr', stack')
  BY DEF SortState
<1>5. arr' \in Arrays' /\ stack' \in Seq(Frame')
  BY <1>3, <1>4
<1>6. Complete(arr)' /\ Apart(stack)' /\ Halved(stack)'
  BY <1>2, <1>4 DEF Complete, Apart, Halved, Size
<1>7. Settled(arr, stack)'
  BY <1>2, <1>4 DEF Settled, Rises, Less, InOneRange
<1> QED BY <1>1, <1>5, <1>6, <1>7 DEF SortInv, SortState

\* What json__introsort has not put in order yet lies within the range of one
\* of its activations; no two of them share a place, and each has at most half
\* of what its caller had.
THEOREM SortInvHolds == Spec => []SortInv
<1>1. Init => SortInv
  BY InitSorts
<1>2. SortInv /\ [Next]_vars => SortInv'
  <2> SUFFICES ASSUME SortInv, [Next]_vars PROVE SortInv'
    OBVIOUS
  <2>1. CASE Exit
    BY <2>1, ExitSettles, KeyStays DEF Exit
  <2>2. CASE Leaf
    BY <2>2, LeafSettles, KeyStays DEF Leaf
  <2>3. CASE DepthExceeded
    BY <2>3, DepthExceededSettles, KeyStays DEF DepthExceeded
  <2>4. CASE Split
    BY <2>4, SplitKeeps, KeyStays DEF Split
  <2>5. CASE UNCHANGED vars
    <3>1. key' = key /\ arr' = arr /\ stack' = stack
      BY <2>5 DEF vars
    <3>2. SortState(arr', stack')
      BY <3>1 DEF SortInv
    <3> QED BY <3>1, <3>2, KeyStays
  <2> QED BY <2>1, <2>2, <2>3, <2>4, <2>5 DEF Next
<1> QED BY <1>1, <1>2, PTL DEF Spec

(***************************************************************************)
(* What follows for the index, the C stack and the number of turns.        *)
(***************************************************************************)

\* SortsByKey is an invariant: whichever of its algorithms json__introsort has
\* used on which ranges, the index it returns lists every pair once, by key.
THEOREM SortsByKeyHolds == Spec => []SortsByKey
<1>1. SortInv => SortsByKey
  <2> SUFFICES ASSUME SortInv, stack = << >>
               PROVE  /\ {arr[i] : i \in Pairs} = Pairs
                      /\ \A i \in 0..(Count - 2) : ~Less(arr[i + 1], arr[i])
    BY DEF SortsByKey
  <2>1. key \in Inputs /\ arr \in Arrays /\ Complete(arr) /\ Settled(arr, stack)
    BY DEF SortInv, SortState
  <2>2. {arr[i] : i \in Pairs} = Pairs
    BY <2>1 DEF Arrays, Complete
  <2>3. \A x, y : ~InOneRange(stack, x, y)
    BY DEF InOneRange
  <2>4. ASSUME NEW i \in 0..(Count - 2) PROVE ~Less(arr[i + 1], arr[i])
    <3>1. Count \in Nat /\ Count > 1
      BY <2>1, CountType
    <3>2. PICK j : j = i + 1
      OBVIOUS
    <3>3. i \in Pairs /\ j \in Pairs /\ i < j
      BY <3>1, <3>2 DEF Pairs
    <3> QED BY <2>1, <2>3, <3>2, <3>3 DEF Settled, Rises
  <2> QED BY <2>2, <2>4
<1> QED BY <1>1, SortInvHolds, PTL

\* RecursionLogarithmic is an invariant: there are never more activations than
\* one and the logarithm of the number of pairs.
THEOREM RecursionLogarithmicHolds == Spec => []RecursionLogarithmic
<1>1. SortInv => RecursionLogarithmic
  <2> SUFFICES ASSUME SortInv PROVE Len(stack) <= 1 + ILog2[Count]
    BY DEF RecursionLogarithmic, Depth
  <2>1. key \in Inputs /\ stack \in Seq(Frame) /\ Halved(stack)
    BY DEF SortInv, SortState
  <2>2. PICK n \in Nat : n = Len(stack)
    BY <2>1
  <2>3. PICK most \in Nat : most = ILog2[Count]
    BY <2>1, CountType, ILog2Is
  <2>4. CASE n = 0
    BY <2>2, <2>3, <2>4
  <2>5. CASE n > 0
    <3>1. n \in 1..Len(stack)
      BY <2>2, <2>5
    <3>2. stack[n] \in Frame
      BY <2>1, <3>1
    <3>3. PICK size \in Nat : size = Size(stack[n])
      <4>1. PICK r \in Frame : r = stack[n]
        BY <3>2
      <4>2. r.lo \in Nat /\ r.hi \in Nat /\ r.lo <= r.hi
        BY <2>1, CountType DEF Frame
      <4> QED BY <4>1, <4>2 DEF Size
    <3>4. (n - 1) + ILog2[size] <= most
      BY <2>1, <2>3, <3>1, <3>3 DEF Halved
    <3>5. ILog2[size] \in Nat
      BY ILog2Is
    <3> QED BY <2>2, <2>3, <3>4, <3>5
  <2> QED BY <2>2, <2>4, <2>5
<1> QED BY <1>1, SortInvHolds, PTL

\* What each activation of s has to do.
Turns(s) == [k \in 1..Len(s) |-> 2 * (s[k].hi - s[k].lo + 1) + 1]

LEMMA TurnsAppended ==
  ASSUME key \in Inputs, NEW s \in Seq(Frame), NEW t \in Seq(Frame),
         Len(t) = Len(s) + 1, \A k \in 1..Len(s) : t[k] = s[k],
         NEW r, r = t[Len(t)]
  PROVE  /\ Total(Turns(s)) \in Nat /\ Total(Turns(t)) \in Nat
         /\ Size(r) \in Nat
         /\ Total(Turns(t)) = Total(Turns(s)) + (2 * Size(r) + 1)
<1>1. \A p \in Frame : /\ Size(p) \in Nat
                       /\ 2 * (p.hi - p.lo + 1) + 1 \in Nat
  <2> SUFFICES ASSUME NEW p \in Frame
               PROVE  Size(p) \in Nat /\ 2 * (p.hi - p.lo + 1) + 1 \in Nat
    OBVIOUS
  <2>1. p.lo \in Nat /\ p.hi \in Nat /\ p.lo <= p.hi
    BY CountType DEF Frame
  <2> QED BY <2>1 DEF Size
<1>2. PICK m \in Nat : m = Len(s) /\ Len(t) = m + 1
  OBVIOUS
<1>3. (\A k \in 1..m : s[k] \in Frame) /\ (\A k \in 1..(m + 1) : t[k] \in Frame)
  BY <1>2
<1>4. PICK f : f = Turns(s)
  OBVIOUS
<1>5. PICK g : g = Turns(t)
  OBVIOUS
<1>6. /\ f \in Seq(Nat) /\ Len(f) = m
      /\ \A k \in 1..m : f[k] = 2 * (s[k].hi - s[k].lo + 1) + 1
  <2>1. \A k \in 1..m : 2 * (s[k].hi - s[k].lo + 1) + 1 \in Nat
    BY <1>1, <1>3
  <2>2. f = [k \in 1..m |-> 2 * (s[k].hi - s[k].lo + 1) + 1]
    BY <1>2, <1>4 DEF Turns
  <2> QED BY <2>1, <2>2
<1>7. /\ g \in Seq(Nat) /\ Len(g) = m + 1
      /\ \A k \in 1..(m + 1) : g[k] = 2 * (t[k].hi - t[k].lo + 1) + 1
  BY <1>1, <1>2, <1>3, <1>5 DEF Turns
<1>8. \A k \in 1..Len(f) : g[k] = f[k]
  <2> SUFFICES ASSUME NEW k \in 1..m PROVE g[k] = f[k]
    BY <1>6
  <2>1. k \in 1..(m + 1) /\ t[k] = s[k]
    BY <1>2
  <2> QED BY <1>6, <1>7, <2>1
<1>9. Total(g) = Total(f) + g[Len(g)]
  BY <1>6, <1>7, <1>8, TotalAppended
<1>10. g[Len(g)] = 2 * Size(r) + 1
  <2>1. m + 1 \in 1..(m + 1)
    OBVIOUS
  <2> QED BY <1>2, <1>7, <2>1 DEF Size
<1>11. r \in Frame
  BY <1>2, <1>3
<1>12. Total(f) \in Nat /\ Total(g) \in Nat
  BY <1>6, <1>7, TotalNat
<1> QED BY <1>1, <1>4, <1>5, <1>9, <1>10, <1>11, <1>12

LEMMA PopShrinks ==
  ASSUME key \in Inputs, NEW s \in Seq(Frame), s # << >>,
         NEW t, t = SubSeq(s, 1, Len(s) - 1)
  PROVE  Total(Turns(t)) < Total(Turns(s))
<1>1. /\ t \in Seq(Frame) /\ Len(s) \in Nat /\ Len(t) = Len(s) - 1
      /\ \A k \in 1..Len(t) : t[k] = s[k]
  BY PopIs
<1>2. Len(s) = Len(t) + 1
  BY <1>1
<1>3. PICK r : r = s[Len(s)]
  OBVIOUS
<1>4. /\ Total(Turns(t)) \in Nat /\ Size(r) \in Nat
      /\ Total(Turns(s)) = Total(Turns(t)) + (2 * Size(r) + 1)
  BY <1>1, <1>2, <1>3, TurnsAppended
<1> QED BY <1>4

LEMMA PartsShrink ==
  ASSUME key \in Inputs, NEW s, NEW u, NEW q, NEW w, NEW r, r = s[Len(s)],
         s # << >>, r \in Frame, q \in Frame, w \in Frame,
         Replaced(s, u, q, w), Size(q) + Size(w) + 1 = Size(r)
  PROVE  Total(Turns(u)) < Total(Turns(s))
<1>1. PICK m \in Nat : /\ Len(s) = m + 1 /\ Len(u) = m + 2
                       /\ s \in Seq(Frame) /\ u \in Seq(Frame)
                       /\ \A k \in 1..m : u[k] = s[k]
                       /\ u[m + 1] = q /\ u[m + 2] = w
  <2>1. PICK n \in Nat : n = Len(s)
    BY DEF Replaced
  <2>2. /\ n > 0 /\ Len(u) = n + 1
        /\ \A k \in 1..(n - 1) : u[k] = s[k]
        /\ u[n] = q /\ u[n + 1] = w /\ s \in Seq(Frame) /\ u \in Seq(Frame)
    BY <2>1 DEF Replaced
  <2>3. PICK m \in Nat : m = n - 1
    BY <2>2
  <2>4. n = m + 1 /\ n + 1 = m + 2
    BY <2>3
  <2> QED BY <2>1, <2>2, <2>3, <2>4
<1>2. PICK t : t = SubSeq(s, 1, Len(s) - 1)
  OBVIOUS
<1>3. t \in Seq(Frame) /\ Len(t) = m /\ \A k \in 1..m : t[k] = s[k]
  <2>1. t \in Seq(Frame) /\ Len(t) = Len(s) - 1 /\ \A k \in 1..Len(t) : t[k] = s[k]
    BY <1>1, <1>2, PopIs
  <2>2. Len(t) = m
    BY <1>1, <2>1
  <2> QED BY <2>1, <2>2
<1>4. PICK v : v = [k \in 1..(m + 1) |-> u[k]]
  OBVIOUS
<1>5. /\ v \in Seq(Frame) /\ Len(v) = m + 1
      /\ \A k \in 1..(m + 1) : v[k] = u[k]
  <2>1. \A k \in 1..(m + 1) : u[k] \in Frame
    BY <1>1
  <2> QED BY <1>4, <2>1
<1>6. /\ Total(Turns(t)) \in Nat /\ Total(Turns(s)) = Total(Turns(t)) + (2 * Size(r) + 1)
      /\ Size(r) \in Nat
  <2>1. Len(s) = Len(t) + 1 /\ \A k \in 1..Len(t) : s[k] = t[k]
    BY <1>1, <1>3
  <2> QED BY <1>1, <1>3, <2>1, TurnsAppended
<1>7. Total(Turns(v)) = Total(Turns(t)) + (2 * Size(q) + 1) /\ Size(q) \in Nat
  <2>1. Len(v) = Len(t) + 1 /\ \A k \in 1..Len(t) : v[k] = t[k]
    BY <1>1, <1>3, <1>5
  <2>2. q = v[Len(v)]
    <3>1. m + 1 \in 1..(m + 1)
      OBVIOUS
    <3> QED BY <1>1, <1>5, <3>1
  <2> QED BY <1>3, <1>5, <2>1, <2>2, TurnsAppended
<1>8. Total(Turns(u)) = Total(Turns(v)) + (2 * Size(w) + 1) /\ Size(w) \in Nat
      /\ Total(Turns(v)) \in Nat
  <2>1. Len(u) = Len(v) + 1 /\ \A k \in 1..Len(v) : u[k] = v[k]
    BY <1>1, <1>5
  <2>2. w = u[Len(u)]
    BY <1>1, Zenon
  <2> QED BY <1>1, <1>5, <2>1, <2>2, TurnsAppended
<1>9. PICK x \in Nat, y \in Nat, z \in Nat : x = Size(q) /\ y = Size(w) /\ z = Total(Turns(t))
  BY <1>6, <1>7, <1>8
<1>10. Total(Turns(s)) = z + (2 * ((x + y) + 1) + 1)
  BY <1>6, <1>9
<1>11. Total(Turns(u)) = (z + (2 * x + 1)) + (2 * y + 1)
  BY <1>7, <1>8, <1>9
<1>12. (z + (2 * x + 1)) + (2 * y + 1) < z + (2 * ((x + y) + 1) + 1)
  OBVIOUS
<1> QED BY <1>10, <1>11, <1>12, Zenon

\* EveryTurnShrinks holds of every step: each turn of the loop leaves less to
\* do, and there is never less than nothing, so json__introsort returns.
THEOREM EveryTurnShrinksHolds == Spec => EveryTurnShrinks
<1>1. SortInv /\ [Next]_vars => [ToDo' < ToDo]_vars
  <2> SUFFICES ASSUME SortInv, Next PROVE ToDo' < ToDo
    OBVIOUS
  <2>1. /\ stack # << >>
        /\ stack' = Pop \/ Split
    BY DEF Next, Exit, Leaf, DepthExceeded, Split
  <2>2. ToDo = Total(Turns(stack)) /\ ToDo' = Total(Turns(stack'))
    BY DEF ToDo, Turns, Depth
  <2>3. /\ key \in Inputs /\ stack \in Seq(Frame)
        /\ top = stack[Len(stack)] /\ top \in Frame
    BY <2>1, TopIs DEF SortState
  <2>4. PICK u : u = stack'
    OBVIOUS
  <2>5. CASE stack' = Pop
    BY <2>1, <2>2, <2>3, <2>4, <2>5, TopIs, PopShrinks
  <2>6. CASE Split
    <3>1. PICK d \in Nat : d = top.depth - 1
      BY <2>6, SplitIs
    <3>2. PICK at \in Nat :
            \E q, w :
              /\ top.lo < at /\ at < top.hi
              /\ Parts(top, at, d, q, w)
              /\ u = SubSeq(stack, 1, Len(stack) - 1) \o <<q, w>>
      BY <2>4, <2>6, <3>1, SplitIs
    <3>3. PICK q, w :
            /\ top.lo < at /\ at < top.hi
            /\ Parts(top, at, d, q, w)
            /\ u = SubSeq(stack, 1, Len(stack) - 1) \o <<q, w>>
      BY <3>2
    <3>4. /\ q \in Frame /\ w \in Frame
          /\ Size(q) + Size(w) + 1 = Size(top)
      BY <2>3, <3>3, PartsAre DEF Within
    <3>5. Replaced(stack, u, q, w)
      BY <2>1, <2>3, <3>3, <3>4, PartsReplace
    <3>6. Total(Turns(u)) < Total(Turns(stack))
      BY <2>1, <2>3, <3>4, <3>5, PartsShrink
    <3> QED BY <2>2, <2>4, <3>6
  <2> QED BY <2>1, <2>5, <2>6
<1> QED BY <1>1, SortInvHolds, PTL DEF EveryTurnShrinks, Spec

\* ToDo is a natural number, so a measure that cannot shrink for ever.
THEOREM ToDoNatural == Spec => [](ToDo \in Nat)
<1>1. SortInv => ToDo \in Nat
  <2> SUFFICES ASSUME SortInv PROVE Total(Turns(stack)) \in Nat
    BY DEF ToDo, Turns, Depth
  <2>1. key \in Inputs /\ stack \in Seq(Frame)
    BY DEF SortInv, SortState
  <2>2. \A p \in Frame : 2 * (p.hi - p.lo + 1) + 1 \in Nat
    <3> SUFFICES ASSUME NEW p \in Frame PROVE 2 * (p.hi - p.lo + 1) + 1 \in Nat
      OBVIOUS
    <3>1. p.lo \in Nat /\ p.hi \in Nat /\ p.lo <= p.hi
      BY <2>1, CountType DEF Frame
    <3> QED BY <3>1
  <2>3. Turns(stack) \in Seq(Nat)
    <3>1. \A k \in 1..Len(stack) : stack[k] \in Frame
      BY <2>1
    <3> QED BY <2>1, <2>2, <3>1 DEF Turns
  <2> QED BY <2>3, TotalNat
<1> QED BY <1>1, SortInvHolds, PTL
=============================================================================
