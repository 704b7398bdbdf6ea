----------------------------- MODULE Induction -----------------------------
(***************************************************************************)
(* Induction over the natural numbers, stated for sets: the theorems of    *)
(* NaturalsInduction take a predicate, here it is the set of numbers for   *)
(* which it holds.  The proofs of the other modules define that set and    *)
(* cite these lemmas.  What follows from them for functions defined by     *)
(* recursion comes next: that iterations exist, and what sums are.         *)
(***************************************************************************)
EXTENDS Totals, WellFoundedInduction, SequenceTheorems, TLAPS

\* A set of natural numbers that is not empty has a least one.
LEMMA Least ==
  ASSUME NEW W, W \subseteq Nat, W # {}
  PROVE  \E x \in W : \A y \in W : x <= y
<1> DEFINE R == OpToRel(<, Nat)
<1>1. IsWellFoundedOn(R, Nat)
  BY NatLessThanWellFounded
<1>2. \A x, y \in Nat : <<y, x>> \in R <=> y < x
  BY DEF OpToRel
<1> HIDE DEF R
<1>3. PICK x \in W : \A y \in W : <<y, x>> \notin R
  BY <1>1, WFMin
<1>4. ASSUME NEW y \in W PROVE x <= y
  <2>1. x \in Nat /\ y \in Nat
    OBVIOUS
  <2>2. ~(y < x)
    BY <1>2, <1>3, <2>1
  <2> QED BY <2>1, <2>2
<1> QED BY <1>4

\* A bounded one has a greatest.
LEMMA Greatest ==
  ASSUME NEW n \in Nat, NEW W, W \subseteq 0..n, W # {}
  PROVE  \E x \in W : \A y \in W : y <= x
<1> DEFINE V == {m \in 0..n : n - m \in W}
<1>1. PICK w \in W : TRUE
  OBVIOUS
<1>2. w \in 0..n /\ n - w \in 0..n /\ n - (n - w) = w
  OBVIOUS
<1>3. V \subseteq Nat /\ V # {}
  <2>1. n - w \in V
    BY <1>2
  <2> QED BY <2>1
<1>4. PICK v \in V : \A m \in V : v <= m
  <2> HIDE DEF V
  <2> QED BY <1>3, Least
<1>5. n - v \in W /\ v \in 0..n
  OBVIOUS
<1>6. ASSUME NEW y \in W PROVE y <= n - v
  <2>1. y \in 0..n /\ n - y \in 0..n /\ n - (n - y) = y
    OBVIOUS
  <2>2. n - y \in V
    BY <2>1
  <2>3. v <= n - y
    BY <1>4, <2>2
  <2> QED BY <1>5, <2>1, <2>3
<1> QED BY <1>5, <1>6

\* What holds of 0, and of n + 1 whenever it holds of n, holds of every n.
LEMMA NatSetInduction ==
  ASSUME NEW T, 0 \in T, \A n \in Nat : n \in T => n + 1 \in T
  PROVE  Nat \subseteq T
<1> DEFINE W == Nat \ T
<1>1. W \subseteq Nat
  OBVIOUS
<1>2. ASSUME W # {} PROVE FALSE
  <2> HIDE DEF W
  <2>1. PICK x \in W : \A y \in W : x <= y
    BY <1>1, <1>2, Least
  <2>2. x \in Nat /\ x \notin T /\ x # 0
    BY <2>1 DEF W
  <2>3. x - 1 \in Nat /\ x - 1 < x /\ (x - 1) + 1 = x
    BY <2>2
  <2>4. x - 1 \in W
    BY <2>2, <2>3 DEF W
  <2> QED BY <2>1, <2>3, <2>4
<1> QED BY <1>2

\* What holds of n whenever it holds of all the smaller numbers holds of every n.
LEMMA NatStrongInduction ==
  ASSUME NEW T, \A n \in Nat : (\A m \in 0..(n - 1) : m \in T) => n \in T
  PROVE  Nat \subseteq T
<1> DEFINE W == Nat \ T
<1>1. W \subseteq Nat
  OBVIOUS
<1>2. ASSUME W # {} PROVE FALSE
  <2> HIDE DEF W
  <2>1. PICK x \in W : \A y \in W : x <= y
    BY <1>1, <1>2, Least
  <2>2. x \in Nat /\ x \notin T
    BY <2>1 DEF W
  <2>3. ASSUME NEW m \in 0..(x - 1) PROVE m \in T
    <3>1. m \in Nat /\ ~(x <= m)
      BY <2>2
    <3>2. m \notin W
      BY <2>1, <3>1
    <3> QED BY <3>1, <3>2 DEF W
  <2> QED BY <2>2, <2>3
<1> QED BY <1>2

\* f holds the values of an iteration from x on: step[k] makes the k-th of
\* the one before it.
Iterates(f, n, S, x, step) ==
  /\ f \in [0..n -> S]
  /\ f[0] = x
  /\ \A k \in 1..n : f[k] = step[k][f[k - 1]]

LEMMA IterationExists ==
  ASSUME NEW n \in Nat, NEW S, NEW x \in S, NEW step \in [1..n -> [S -> S]]
  PROVE  \E f : Iterates(f, n, S, x, step)
<1> DEFINE After(f, k) == IF k = 0 THEN x ELSE step[k][f[k - 1]]
           UpTo(f, m) == /\ f \in [0..n -> S]
                         /\ \A k \in 0..n : k < m => f[k] = After(f, k)
           T == {m \in Nat : \E f : UpTo(f, m)}
<1>1. 0 \in T
  <2>1. UpTo([k \in 0..n |-> x], 0)
    OBVIOUS
  <2> QED BY <2>1
<1>2. ASSUME NEW m \in Nat, m \in T PROVE m + 1 \in T
  <2>1. PICK f : UpTo(f, m)
    BY <1>2
  <2> DEFINE g == [k \in 0..n |-> After(f, k)]
  <2>2. ASSUME NEW k \in 0..n PROVE After(f, k) \in S
    <3>1. CASE k = 0
      BY <3>1
    <3>2. CASE k # 0
      <4>1. k - 1 \in 0..n /\ k \in 1..n
        BY <3>2
      <4>2. f[k - 1] \in S /\ step[k] \in [S -> S]
        BY <2>1, <4>1
      <4> QED BY <3>2, <4>2
    <3> QED BY <3>1, <3>2
  <2>3. g \in [0..n -> S]
    BY <2>2
  <2>4. ASSUME NEW k \in 0..n, k < m + 1 PROVE g[k] = After(g, k)
    <3>1. CASE k = 0
      BY <3>1
    <3>2. CASE k # 0
      <4>1. k - 1 \in 0..n /\ k - 1 < m
        BY <2>4, <3>2
      <4>2. f[k - 1] = After(f, k - 1)
        BY <2>1, <4>1
      <4>3. g[k - 1] = f[k - 1]
        BY <4>1, <4>2
      <4> QED BY <3>2, <4>3
    <3> QED BY <3>1, <3>2
  <2> HIDE DEF g
  <2>5. UpTo(g, m + 1)
    BY <2>3, <2>4
  <2>6. m + 1 \in Nat
    OBVIOUS
  <2> QED BY <2>5, <2>6
<1> HIDE DEF T
<1>3. Nat \subseteq T
  BY <1>1, <1>2, NatSetInduction
<1>4. n + 1 \in T
  BY <1>3
<1> USE DEF T
<1>5. PICK f : UpTo(f, n + 1)
  BY <1>4
<1>6. \A k \in 0..n : f[k] = After(f, k)
  BY <1>5
<1>7. f \in [0..n -> S]
  BY <1>5
<1>8. f[0] = x /\ \A k \in 1..n : f[k] = step[k][f[k - 1]]
  BY <1>6
<1> QED BY <1>7, <1>8 DEF Iterates

(***************************************************************************)
(* Sums.                                                                   *)
(***************************************************************************)

\* f holds the sums of the beginnings of s.
Sums(f, s) ==
  /\ f \in [0..Len(s) -> Nat]
  /\ f[0] = 0
  /\ \A k \in 1..Len(s) : f[k] = f[k - 1] + s[k]

NextSum(f, s, k) == IF k = 0 THEN 0 ELSE f[k - 1] + s[k]

LEMMA SumsExist ==
  ASSUME NEW s \in Seq(Nat)
  PROVE  \E f : Sums(f, s)
<1> DEFINE D == 0..Len(s)
           UpTo(f, m) == /\ f \in [D -> Nat]
                         /\ \A k \in D : k < m => f[k] = NextSum(f, s, k)
           T == {m \in Nat : \E f : UpTo(f, m)}
<1>0. Len(s) \in Nat /\ \A k \in 1..Len(s) : s[k] \in Nat
  OBVIOUS
<1>1. 0 \in T
  <2>1. UpTo([k \in D |-> 0], 0)
    BY <1>0
  <2> QED BY <2>1
<1>2. ASSUME NEW m \in Nat, m \in T PROVE m + 1 \in T
  <2>1. PICK f : UpTo(f, m)
    BY <1>2
  <2> DEFINE g == [k \in D |-> NextSum(f, s, k)]
  <2>2. ASSUME NEW k \in D PROVE NextSum(f, s, k) \in Nat
    <3>1. CASE k = 0
      BY <3>1 DEF NextSum
    <3>2. CASE k # 0
      <4>1. k - 1 \in D /\ k \in 1..Len(s)
        BY <1>0, <3>2
      <4>2. f[k - 1] \in Nat /\ s[k] \in Nat
        BY <1>0, <2>1, <4>1
      <4> QED BY <3>2, <4>2 DEF NextSum
    <3> QED BY <3>1, <3>2
  <2>3. g \in [D -> Nat]
    BY <2>2
  <2>4. ASSUME NEW k \in D, k < m + 1 PROVE g[k] = NextSum(g, s, k)
    <3>1. CASE k = 0
      BY <3>1 DEF NextSum
    <3>2. CASE k # 0
      <4>1. k - 1 \in D /\ k - 1 < m
        BY <1>0, <2>4, <3>2
      <4>2. f[k - 1] = NextSum(f, s, k - 1)
        BY <2>1, <4>1
      <4>3. g[k - 1] = f[k - 1]
        BY <4>1, <4>2
      <4> QED BY <3>2, <4>3 DEF NextSum
    <3> QED BY <3>1, <3>2
  <2> HIDE DEF g
  <2>5. UpTo(g, m + 1)
    BY <2>3, <2>4
  <2>6. m + 1 \in Nat
    OBVIOUS
  <2> QED BY <2>5, <2>6
<1> HIDE DEF T
<1>3. Nat \subseteq T
  BY <1>1, <1>2, NatSetInduction
<1> USE DEF T
<1>4. Len(s) + 1 \in T
  BY <1>0, <1>3
<1>5. PICK f : UpTo(f, Len(s) + 1)
  BY <1>4
<1>6. f[0] = 0
  BY <1>0, <1>5 DEF NextSum
<1>7. ASSUME NEW k \in 1..Len(s) PROVE f[k] = f[k - 1] + s[k]
  BY <1>0, <1>5 DEF NextSum
<1>8. Sums(f, s)
  BY <1>5, <1>6, <1>7 DEF Sums
<1> QED BY <1>8

LEMMA SumsUnique ==
  ASSUME NEW s \in Seq(Nat), NEW f, NEW g, Sums(f, s), Sums(g, s)
  PROVE  f = g
<1> DEFINE T == {k \in Nat : k \in 0..Len(s) => f[k] = g[k]}
<1>0. Len(s) \in Nat
  OBVIOUS
<1>1. 0 \in T
  BY DEF Sums
<1>2. ASSUME NEW k \in Nat, k \in T PROVE k + 1 \in T
  <2>1. ASSUME k + 1 \in 0..Len(s) PROVE f[k + 1] = g[k + 1]
    <3>1. k \in 0..Len(s) /\ k + 1 \in 1..Len(s) /\ (k + 1) - 1 = k
      BY <1>0, <2>1
    <3>2. f[k] = g[k]
      BY <1>2, <3>1
    <3> QED BY <3>1, <3>2 DEF Sums
  <2> QED BY <2>1
<1> HIDE DEF T
<1>3. Nat \subseteq T
  BY <1>1, <1>2, NatSetInduction
<1> USE DEF T
<1>4. ASSUME NEW k \in 0..Len(s) PROVE f[k] = g[k]
  BY <1>0, <1>3
<1> QED BY <1>4 DEF Sums

\* Total is the last of these sums.
LEMMA TotalIs ==
  ASSUME NEW s \in Seq(Nat), NEW f, Sums(f, s)
  PROVE  Total(s) = f[Len(s)]
<1> DEFINE g == CHOOSE h : h = [k \in 0..Len(s) |-> NextSum(h, s, k)]
<1>1. f = [k \in 0..Len(s) |-> NextSum(f, s, k)]
  BY DEF Sums, NextSum
<1>2. g = [k \in 0..Len(s) |-> NextSum(g, s, k)]
  BY <1>1
<1>3. Total(s) = g[Len(s)]
  BY DEF Total, NextSum
<1> HIDE DEF g
<1>4. ASSUME NEW k \in 0..Len(s) PROVE g[k] = NextSum(g, s, k)
  BY <1>2
<1> DEFINE T == {k \in Nat : k \in 0..Len(s) => g[k] = f[k]}
<1>5. Len(s) \in Nat
  OBVIOUS
<1>6. 0 \in T
  <2>1. 0 \in 0..Len(s)
    BY <1>5
  <2> QED BY <1>4, <2>1 DEF Sums, NextSum
<1>7. ASSUME NEW k \in Nat, k \in T PROVE k + 1 \in T
  <2>1. ASSUME k + 1 \in 0..Len(s) PROVE g[k + 1] = f[k + 1]
    <3>1. k \in 0..Len(s) /\ k + 1 \in 1..Len(s) /\ (k + 1) - 1 = k /\ k + 1 # 0
      BY <1>5, <2>1
    <3>2. g[k] = f[k]
      BY <1>7, <3>1
    <3>3. g[k + 1] = g[k] + s[k + 1]
      BY <1>4, <2>1, <3>1 DEF NextSum
    <3> QED BY <3>1, <3>2, <3>3 DEF Sums
  <2> QED BY <2>1
<1> HIDE DEF T
<1>8. Nat \subseteq T
  BY <1>6, <1>7, NatSetInduction
<1> USE DEF T
<1>9. g[Len(s)] = f[Len(s)]
  BY <1>5, <1>8
<1> QED BY <1>3, <1>9

LEMMA TotalNat ==
  ASSUME NEW s \in Seq(Nat)
  PROVE  Total(s) \in Nat
<1>1. PICK f : Sums(f, s)
  BY SumsExist
<1>2. f[Len(s)] \in Nat
  <2>1. Len(s) \in 0..Len(s)
    OBVIOUS
  <2> QED BY <1>1, <2>1 DEF Sums
<1> QED BY <1>1, <1>2, TotalIs

\* Sums of sequences that differ by n from position i on.
LEMMA TotalRaised ==
  ASSUME NEW s \in Seq(Nat), NEW t \in Seq(Nat), Len(t) = Len(s),
         NEW i \in 1..Len(s), NEW n \in Nat,
         \A j \in 1..Len(s) : t[j] = IF j = i THEN s[j] + n ELSE s[j]
  PROVE  Total(t) = Total(s) + n
<1>1. PICK f : Sums(f, s)
  BY SumsExist
<1> DEFINE g == [k \in 0..Len(s) |-> IF k < i THEN f[k] ELSE f[k] + n]
<1>2. Len(s) \in Nat /\ i \in Nat /\ i > 0 /\ i <= Len(s)
  OBVIOUS
<1>3. \A k \in 0..Len(s) : f[k] \in Nat
  BY <1>1 DEF Sums
<1>4. g \in [0..Len(s) -> Nat]
  BY <1>3, SMTT(30)
<1>5. g[0] = 0
  BY <1>1, <1>2 DEF Sums
<1>s. \A a, b \in Nat : (a + b) + n = a + (b + n) /\ (a + b) + n = (a + n) + b
  OBVIOUS
<1>6. ASSUME NEW k \in 1..Len(s) PROVE g[k] = g[k - 1] + t[k]
  <2>1. k - 1 \in 0..Len(s) /\ k \in 0..Len(s)
    BY <1>2
  <2>2. f[k] = f[k - 1] + s[k] /\ f[k - 1] \in Nat /\ f[k] \in Nat
    BY <1>1, <1>3, <2>1 DEF Sums
  <2>3. s[k] \in Nat
    OBVIOUS
  <2>4. CASE k < i
    <3>1. g[k] = f[k] /\ g[k - 1] = f[k - 1] /\ t[k] = s[k]
      BY <1>2, <2>1, <2>4
    <3> QED BY <2>2, <3>1
  <2>5. CASE k = i
    <3>1. g[k] = f[k] + n /\ g[k - 1] = f[k - 1] /\ t[k] = s[k] + n
      BY <1>2, <2>1, <2>5
    <3>2. (f[k - 1] + s[k]) + n = f[k - 1] + (s[k] + n)
      BY <1>s, <2>2, <2>3
    <3> QED BY <2>2, <3>1, <3>2, Zenon
  <2>6. CASE k > i
    <3>1. g[k] = f[k] + n /\ g[k - 1] = f[k - 1] + n /\ t[k] = s[k]
      BY <1>2, <2>1, <2>6
    <3>2. (f[k - 1] + s[k]) + n = (f[k - 1] + n) + s[k]
      BY <1>s, <2>2, <2>3
    <3> QED BY <2>2, <3>1, <3>2, Zenon
  <2> QED BY <1>2, <2>4, <2>5, <2>6
<1>7. g[Len(s)] = f[Len(s)] + n
  BY <1>2
<1> HIDE DEF g
<1>8. Sums(g, t)
  BY <1>4, <1>5, <1>6 DEF Sums
<1>9. Total(s) = f[Len(s)] /\ Total(t) = g[Len(t)]
  BY <1>1, <1>8, TotalIs
<1> QED BY <1>7, <1>9

LEMMA TotalAppended ==
  ASSUME NEW s \in Seq(Nat), NEW t \in Seq(Nat), Len(t) = Len(s) + 1,
         \A j \in 1..Len(s) : t[j] = s[j]
  PROVE  Total(t) = Total(s) + t[Len(t)]
<1>1. PICK f : Sums(f, s)
  BY SumsExist
<1> DEFINE m == Len(s)
           g == [k \in 0..(m + 1) |-> IF k <= m THEN f[k] ELSE f[m] + t[k]]
<1>2. m \in Nat /\ m + 1 \in 1..Len(t) /\ t[m + 1] \in Nat
  OBVIOUS
<1>3. \A k \in 0..m : f[k] \in Nat
  BY <1>1 DEF Sums
<1>4. ASSUME NEW k \in 0..(m + 1) PROVE g[k] \in Nat
  <2>1. CASE k <= m
    <3>1. k \in 0..m
      BY <1>2, <2>1
    <3> QED BY <1>3, <2>1, <3>1
  <2>2. CASE k > m
    <3>1. k = m + 1 /\ m \in 0..m
      BY <1>2, <2>2
    <3> QED BY <1>2, <1>3, <3>1
  <2> QED BY <1>2, <2>1, <2>2
<1>5. g[0] = 0
  BY <1>1, <1>2 DEF Sums
<1>6. ASSUME NEW k \in 1..(m + 1) PROVE g[k] = g[k - 1] + t[k]
  <2>1. CASE k <= m
    <3>1. k \in 1..m /\ k - 1 \in 0..m /\ k - 1 <= m
      BY <1>2, <2>1
    <3>2. f[k] = f[k - 1] + s[k] /\ t[k] = s[k]
      BY <1>1, <3>1 DEF Sums
    <3>3. g[k] = f[k] /\ g[k - 1] = f[k - 1]
      BY <1>2, <2>1, <3>1
    <3> QED BY <3>2, <3>3
  <2>2. CASE k > m
    <3>1. k = m + 1 /\ k - 1 = m
      BY <1>2, <2>2
    <3> QED BY <1>2, <3>1
  <2> QED BY <1>2, <2>1, <2>2
<1>7. g[m + 1] = f[m] + t[m + 1]
  BY <1>2
<1>8. g \in [0..Len(t) -> Nat]
  BY <1>4
<1> HIDE DEF g
<1>9. Sums(g, t)
  BY <1>5, <1>6, <1>8 DEF Sums
<1>10. Total(s) = f[m] /\ Total(t) = g[Len(t)]
  BY <1>1, <1>9, TotalIs
<1> QED BY <1>7, <1>10

LEMMA TotalZero ==
  ASSUME NEW s \in Seq(Nat), \A j \in 1..Len(s) : s[j] = 0
  PROVE  Total(s) = 0
<1> DEFINE g == [k \in 0..Len(s) |-> 0]
<1>1. Len(s) \in Nat
  OBVIOUS
<1>2. \A k \in 1..Len(s) : g[k] = g[k - 1] + s[k]
  BY <1>1
<1>3. g \in [0..Len(s) -> Nat] /\ g[0] = 0 /\ g[Len(s)] = 0
  BY <1>1
<1> HIDE DEF g
<1>4. Sums(g, s)
  BY <1>2, <1>3 DEF Sums
<1> QED BY <1>3, <1>4, TotalIs

LEMMA FunctionIsSeq ==
  ASSUME NEW S, NEW n \in Nat, NEW f \in [1..n -> S]
  PROVE  f \in Seq(S) /\ Len(f) = n
<1>1. f \in Seq(S)
  BY SeqDef, Zenon
<1>2. DOMAIN f = 1..n /\ DOMAIN f = 1..Len(f) /\ Len(f) \in Nat
  BY <1>1, LenProperties
<1>3. ASSUME NEW m \in Nat, 1..n = 1..m PROVE m = n
  <2>1. n \in 1..n \/ n = 0
    OBVIOUS
  <2>2. m \in 1..m \/ m = 0
    OBVIOUS
  <2>3. (n \in 1..m \/ n = 0) /\ (m \in 1..n \/ m = 0)
    BY <1>3, <2>1, <2>2, Zenon
  <2>4. CASE n \in 1..m /\ m \in 1..n
    BY <2>4
  <2>5. CASE n = 0
    BY <2>3, <2>5
  <2>6. CASE m = 0
    BY <2>3, <2>6
  <2> QED BY <2>3, <2>4, <2>5, <2>6
<1> QED BY <1>1, <1>2, <1>3

\* The same, in one piece.
Raised(s, t, i, n) ==
  /\ Len(t) = Len(s) /\ i \in 1..Len(s)
  /\ \A j \in 1..Len(s) : t[j] = IF j = i THEN s[j] + n ELSE s[j]

LEMMA TotalOfRaised ==
  ASSUME NEW s \in Seq(Nat), NEW t \in Seq(Nat), NEW i, NEW n \in Nat,
         Raised(s, t, i, n)
  PROVE  Total(t) = Total(s) + n
<1>1. i \in 1..Len(s) /\ Len(t) = Len(s)
      /\ \A j \in 1..Len(s) : t[j] = IF j = i THEN s[j] + n ELSE s[j]
  BY DEF Raised
<1> QED BY <1>1, TotalRaised

LEMMA TotalConcat ==
  ASSUME NEW s \in Seq(Nat), NEW t \in Seq(Nat), NEW u \in Seq(Nat),
         Len(u) = Len(s) + Len(t),
         \A j \in 1..Len(s) : u[j] = s[j],
         \A j \in 1..Len(t) : u[Len(s) + j] = t[j]
  PROVE  Total(u) = Total(s) + Total(t)
<1>1. PICK f : Sums(f, s)
  BY SumsExist
<1>2. PICK g : Sums(g, t)
  BY SumsExist
<1> DEFINE m == Len(s)
           n == Len(t)
           h == [k \in 0..(m + n) |-> IF k <= m THEN f[k] ELSE f[m] + g[k - m]]
<1>3. m \in Nat /\ n \in Nat
  OBVIOUS
<1>4. (\A k \in 0..m : f[k] \in Nat) /\ (\A k \in 0..n : g[k] \in Nat) /\ g[0] = 0
  BY <1>1, <1>2 DEF Sums
<1>5. ASSUME NEW k \in 0..(m + n) PROVE h[k] \in Nat
  <2>1. CASE k <= m
    <3>1. k \in 0..m
      BY <1>3, <2>1
    <3> QED BY <1>4, <2>1, <3>1
  <2>2. CASE ~(k <= m)
    <3>1. k - m \in 0..n /\ m \in 0..m
      BY <1>3, <2>2, SMTT(30)
    <3>2. g[k - m] \in Nat /\ f[m] \in Nat
      BY <1>4, <3>1
    <3>3. PICK x \in Nat, y \in Nat : x = f[m] /\ y = g[k - m]
      BY <3>2
    <3>4. h[k] = x + y
      BY <2>2, <3>3
    <3> QED BY <3>4
  <2> QED BY <2>1, <2>2
<1>6. h[0] = 0
  BY <1>1, <1>3 DEF Sums
<1>7. ASSUME NEW k \in 1..(m + n) PROVE h[k] = h[k - 1] + u[k]
  <2>1. CASE k <= m
    <3>1. k \in 1..m /\ k - 1 \in 0..m /\ k - 1 <= m
      BY <1>3, <2>1
    <3>2. f[k] = f[k - 1] + s[k] /\ u[k] = s[k]
      BY <1>1, <3>1 DEF Sums
    <3>3. h[k] = f[k] /\ h[k - 1] = f[k - 1]
      BY <1>3, <2>1, <3>1
    <3> QED BY <3>2, <3>3
  <2>2. CASE ~(k <= m)
    <3>0. k - m \in 1..n
      BY <1>3, <2>2
    <3>1. PICK j \in 1..n : j = k - m
      BY <3>0
    <3>2. k = m + j /\ j \in Nat /\ j - 1 \in 0..n /\ j \in 0..n /\ m \in 0..m
      BY <1>3, <3>1
    <3>3. g[j] = g[j - 1] + t[j] /\ u[k] = t[j]
      BY <1>2, <3>2 DEF Sums
    <3>4. h[k] = f[m] + g[j]
      BY <2>2, <3>1
    <3>5. h[k - 1] = f[m] + g[j - 1]
      <4>1. CASE j = 1
        <5>1. k - 1 = m /\ j - 1 = 0
          BY <1>3, <3>2, <4>1
        <5>2. h[m] = f[m] /\ f[m] \in Nat
          BY <1>3, <1>4
        <5> QED BY <1>4, <5>1, <5>2
      <4>2. CASE j # 1
        <5>1. ~(k - 1 <= m) /\ k - 1 \in 0..(m + n) /\ (k - 1) - m = j - 1
          BY <1>3, <3>2, <4>2
        <5> QED BY <5>1
      <4> QED BY <4>1, <4>2
    <3>6. f[m] \in Nat /\ g[j - 1] \in Nat /\ t[j] \in Nat
      <4>1. t[j] \in Nat
        BY ElementOfSeq
      <4> QED BY <1>4, <3>2, <4>1
    <3>7. PICK a \in Nat, b \in Nat, c \in Nat : a = f[m] /\ b = g[j - 1] /\ c = t[j]
      BY <3>6
    <3>8. a + (b + c) = (a + b) + c
      OBVIOUS
    <3>9. f[m] + (g[j - 1] + t[j]) = (f[m] + g[j - 1]) + t[j]
      BY <3>7, <3>8, Zenon
    <3> QED BY <3>3, <3>4, <3>5, <3>9, Zenon
  <2> QED BY <2>1, <2>2
<1>8. h[m + n] = f[m] + g[n]
  <2>1. CASE n = 0
    <3>1. m + n = m /\ h[m] = f[m] /\ f[m] \in Nat
      BY <1>3, <1>4, <2>1
    <3> QED BY <1>4, <2>1, <3>1
  <2>2. CASE n # 0
    <3>1. ~(m + n <= m) /\ (m + n) - m = n /\ m + n \in 0..(m + n)
      BY <1>3, <2>2
    <3> QED BY <3>1
  <2> QED BY <2>1, <2>2
<1>9. h \in [0..(m + n) -> Nat]
  BY <1>5
<1> HIDE DEF h
<1>10. Len(u) = m + n
  OBVIOUS
<1>11. Sums(h, u)
  BY <1>6, <1>7, <1>9, <1>10 DEF Sums
<1>12. Total(s) = f[m] /\ Total(t) = g[n] /\ Total(u) = h[m + n]
  BY <1>1, <1>2, <1>10, <1>11, TotalIs
<1> QED BY <1>8, <1>12

\* Sums of sequences that are added entry by entry.
LEMMA TotalSum ==
  ASSUME NEW s \in Seq(Nat), NEW t \in Seq(Nat), NEW u \in Seq(Nat),
         Len(t) = Len(s), Len(u) = Len(s),
         \A j \in 1..Len(s) : u[j] = s[j] + t[j]
  PROVE  Total(u) = Total(s) + Total(t)
<1>1. PICK f : Sums(f, s)
  BY SumsExist
<1>2. PICK g : Sums(g, t)
  BY SumsExist
<1> DEFINE m == Len(s)
           h == [k \in 0..m |-> f[k] + g[k]]
<1>3. m \in Nat
  OBVIOUS
<1>4. \A k \in 0..m : f[k] \in Nat /\ g[k] \in Nat
  BY <1>1, <1>2 DEF Sums
<1>5. h \in [0..m -> Nat]
  BY <1>4
<1>6. h[0] = 0
  BY <1>1, <1>2, <1>3 DEF Sums
<1>7. ASSUME NEW k \in 1..m PROVE h[k] = h[k - 1] + u[k]
  <2>1. k - 1 \in 0..m /\ k \in 0..m
    BY <1>3
  <2>2. f[k] = f[k - 1] + s[k] /\ g[k] = g[k - 1] + t[k] /\ u[k] = s[k] + t[k]
    BY <1>1, <1>2, <2>1 DEF Sums
  <2>3. f[k - 1] \in Nat /\ g[k - 1] \in Nat /\ s[k] \in Nat /\ t[k] \in Nat
    BY <1>4, <2>1, SMTT(30)
  <2>4. h[k] = f[k] + g[k] /\ h[k - 1] = f[k - 1] + g[k - 1]
    BY <2>1
  <2>5. PICK a \in Nat, b \in Nat, c \in Nat, d \in Nat :
          a = f[k - 1] /\ b = s[k] /\ c = g[k - 1] /\ d = t[k]
    BY <2>3
  <2>6. (a + b) + (c + d) = (a + c) + (b + d)
    OBVIOUS
  <2>7. (f[k - 1] + s[k]) + (g[k - 1] + t[k]) = (f[k - 1] + g[k - 1]) + (s[k] + t[k])
    BY <2>5, <2>6, Zenon
  <2> QED BY <2>2, <2>4, <2>7, Zenon
<1>8. h[m] = f[m] + g[m]
  BY <1>3
<1> HIDE DEF h
<1>9. Sums(h, u)
  BY <1>5, <1>6, <1>7 DEF Sums
<1>10. Total(s) = f[m] /\ Total(t) = g[m] /\ Total(u) = h[m]
  BY <1>1, <1>2, <1>9, TotalIs
<1> QED BY <1>8, <1>10

\* t holds the entries of s in the order p.
Reordered(n, s, t, p) ==
  /\ s \in [1..n -> Nat] /\ t \in [1..n -> Nat]
  /\ p \in [1..n -> 1..n]
  /\ \A i, j \in 1..n : i # j => p[i] # p[j]
  /\ \A i \in 1..n : t[i] = s[p[i]]

\* The last entry of t taken out, and that of s put in its place.
LEMMA ReorderedShorter ==
  ASSUME NEW n \in Nat, NEW s, NEW t, NEW p, Reordered(n + 1, s, t, p)
  PROVE  Reordered(n, [i \in 1..n |-> IF i = p[n + 1] THEN s[n + 1] ELSE s[i]],
                   [i \in 1..n |-> t[i]],
                   [i \in 1..n |-> IF p[i] = n + 1 THEN p[n + 1] ELSE p[i]])
<1>1. PICK j \in 1..(n + 1) : j = p[n + 1]
  <2>1. n + 1 \in 1..(n + 1)
    OBVIOUS
  <2> QED BY <2>1 DEF Reordered
<1> DEFINE r == [i \in 1..n |-> IF i = j THEN s[n + 1] ELSE s[i]]
           u == [i \in 1..n |-> t[i]]
           q == [i \in 1..n |-> IF p[i] = n + 1 THEN j ELSE p[i]]
<1>2. \A i \in 1..n : i \in 1..(n + 1) /\ i # n + 1
  OBVIOUS
<1>3. n + 1 \in 1..(n + 1)
  OBVIOUS
<1>4. \A i \in 1..(n + 1) : s[i] \in Nat /\ t[i] \in Nat /\ p[i] \in 1..(n + 1)
  BY DEF Reordered
<1>5. \A i \in 1..n : p[i] # j
  BY <1>1, <1>2, <1>3 DEF Reordered
<1>6. \A i, k \in 1..n : i # k => p[i] # p[k]
  BY <1>2 DEF Reordered
<1>7. r \in [1..n -> Nat] /\ u \in [1..n -> Nat]
  BY <1>2, <1>3, <1>4
<1>8. ASSUME NEW i \in 1..n PROVE q[i] \in 1..n
  <2>1. CASE p[i] = n + 1
    <3>1. j # n + 1
      BY <1>5, <2>1
    <3>2. j \in 1..n
      BY <3>1
    <3> QED BY <2>1, <3>2
  <2>2. CASE p[i] # n + 1
    <3>1. PICK k \in 1..(n + 1) : k = p[i]
      BY <1>2, <1>4
    <3>2. k \in 1..n
      BY <2>2, <3>1
    <3> QED BY <2>2, <3>1, <3>2
  <2> QED BY <2>1, <2>2
<1>9. ASSUME NEW i \in 1..n, NEW k \in 1..n, i # k PROVE q[i] # q[k]
  BY <1>5, <1>6, <1>9
<1>10. ASSUME NEW i \in 1..n PROVE u[i] = r[q[i]]
  <2>1. t[i] = s[p[i]]
    BY <1>2 DEF Reordered
  <2>2. CASE p[i] = n + 1
    <3>1. q[i] = j /\ j \in 1..n
      BY <1>8, <2>2
    <3> QED BY <2>1, <2>2, <3>1
  <2>3. CASE p[i] # n + 1
    <3>1. q[i] = p[i] /\ p[i] \in 1..n /\ p[i] # j
      BY <1>5, <1>8, <2>3
    <3>2. r[p[i]] = s[p[i]]
      BY <3>1
    <3> QED BY <2>1, <3>1, <3>2
  <2> QED BY <2>2, <2>3
<1>11. q \in [1..n -> 1..n]
  BY <1>8
<1> HIDE DEF r, u, q
<1>12. Reordered(n, r, u, q)
  BY <1>7, <1>9, <1>10, <1>11 DEF Reordered
<1> QED BY <1>1, <1>12 DEF r, u, q

\* The order in which numbers are added does not matter.
LEMMA TotalReordered ==
  ASSUME NEW n \in Nat, NEW s, NEW t, NEW p, Reordered(n, s, t, p)
  PROVE  Total(t) = Total(s)
<1> DEFINE T == {m \in Nat : \A a, b, q : Reordered(m, a, b, q) => Total(b) = Total(a)}
<1>1. 0 \in T
  <2> SUFFICES ASSUME NEW a, NEW b, NEW q, Reordered(0, a, b, q)
               PROVE  Total(b) = Total(a)
    OBVIOUS
  <2>1. a = b
    BY DEF Reordered
  <2> QED BY <2>1
<1>2. ASSUME NEW m \in Nat, m \in T PROVE m + 1 \in T
  <2> SUFFICES ASSUME NEW a, NEW b, NEW q, Reordered(m + 1, a, b, q)
               PROVE  Total(b) = Total(a)
    OBVIOUS
  <2>1. PICK j \in 1..(m + 1) : j = q[m + 1]
    <3>1. m + 1 \in 1..(m + 1)
      OBVIOUS
    <3> QED BY <3>1 DEF Reordered
  <2> DEFINE c == [i \in 1..m |-> IF i = j THEN a[m + 1] ELSE a[i]]
             d == [i \in 1..m |-> b[i]]
             e == [i \in 1..m |-> a[i]]
             z == [i \in 1..m |-> IF i = j THEN 0 ELSE a[i]]
  <2>0. a \in [1..(m + 1) -> Nat] /\ b \in [1..(m + 1) -> Nat]
    BY DEF Reordered
  <2>2. /\ \A i \in 1..(m + 1) : a[i] \in Nat /\ b[i] \in Nat
        /\ m + 1 \in 1..(m + 1)
        /\ \A i \in 1..m : i \in 1..(m + 1)
    BY <2>0
  <2>3. Total(d) = Total(c)
    <3>1. Reordered(m, c, d, [i \in 1..m |-> IF q[i] = m + 1 THEN q[m + 1] ELSE q[i]])
      BY <2>1, ReorderedShorter
    <3> HIDE DEF c, d
    <3> QED BY <1>2, <3>1
  <2>4. /\ a \in Seq(Nat) /\ Len(a) = m + 1
        /\ b \in Seq(Nat) /\ Len(b) = m + 1
    <3>1. m + 1 \in Nat
      OBVIOUS
    <3> QED BY <2>0, <3>1, FunctionIsSeq
  <2>5. /\ c \in Seq(Nat) /\ Len(c) = m
        /\ d \in Seq(Nat) /\ Len(d) = m
        /\ e \in Seq(Nat) /\ Len(e) = m
        /\ z \in Seq(Nat) /\ Len(z) = m
    BY <2>2
  <2>6. Total(b) = Total(d) + b[m + 1]
    <3>1. \A i \in 1..m : b[i] = d[i]
      OBVIOUS
    <3> HIDE DEF c, d, e, z
    <3> QED BY <2>4, <2>5, <3>1, TotalAppended
  <2>7. Total(a) = Total(e) + a[m + 1]
    <3>1. \A i \in 1..m : a[i] = e[i]
      OBVIOUS
    <3> HIDE DEF c, d, e, z
    <3> QED BY <2>4, <2>5, <3>1, TotalAppended
  <2>8. b[m + 1] = a[j]
    BY <2>1, <2>2 DEF Reordered
  <2>9. CASE j = m + 1
    <3>1. c = e
      BY <2>9
    <3> QED BY <2>3, <2>6, <2>7, <2>8, <2>9, <3>1
  <2>10. CASE j # m + 1
    <3>1. j \in 1..m /\ a[j] \in Nat /\ a[m + 1] \in Nat
      BY <2>2, <2>10
    <3>2. \A i \in 1..m : e[i] = IF i = j THEN z[i] + a[j] ELSE z[i]
      BY <2>2
    <3>3. \A i \in 1..m : c[i] = IF i = j THEN z[i] + a[m + 1] ELSE z[i]
      BY <2>2
    <3> HIDE DEF c, d, e, z
    <3>6. Total(z) \in Nat
      BY <2>5, TotalNat
    <3>7. PICK x \in Nat, y \in Nat, w \in Nat : x = a[j] /\ y = a[m + 1] /\ w = Total(z)
      BY <3>1, <3>6
    <3>4. Total(e) = Total(z) + x
      <4>1. \A i \in 1..Len(z) : e[i] = IF i = j THEN z[i] + x ELSE z[i]
        BY <2>5, <3>2, <3>7
      <4>2. j \in 1..Len(z) /\ Len(e) = Len(z)
        BY <2>5, <3>1
      <4>3. Raised(z, e, j, x)
        BY <4>1, <4>2, Zenon DEF Raised
      <4> QED BY <2>5, <3>7, <4>3, TotalOfRaised, Zenon
    <3>5. Total(c) = Total(z) + y
      <4>1. \A i \in 1..Len(z) : c[i] = IF i = j THEN z[i] + y ELSE z[i]
        BY <2>5, <3>3, <3>7
      <4>2. j \in 1..Len(z) /\ Len(c) = Len(z)
        BY <2>5, <3>1
      <4>3. Raised(z, c, j, y)
        BY <4>1, <4>2, Zenon DEF Raised
      <4> QED BY <2>5, <3>7, <4>3, TotalOfRaised, Zenon
    <3>8. Total(b) = (w + y) + x
      BY <2>3, <2>6, <2>8, <3>5, <3>7
    <3>9. Total(a) = (w + x) + y
      BY <2>7, <3>4, <3>7
    <3>10. (w + y) + x = (w + x) + y
      OBVIOUS
    <3> QED BY <3>8, <3>9, <3>10
  <2> QED BY <2>9, <2>10
<1> HIDE DEF T
<1>3. n \in T
  BY <1>1, <1>2, NatSetInduction
<1> USE DEF T
<1> QED BY <1>3
=============================================================================
