---------------------------- MODULE ValuesProofs ----------------------------
(***************************************************************************)
(* Proofs about Values, for heaps of any size and shape, shared and cyclic *)
(* values included.                                                        *)
(*                                                                         *)
(* What a failed builder or clone leaves behind cannot be told from the    *)
(* node alone, for a clone under way has the same holes.  The invariant    *)
(* therefore says that there are two sets of whole nodes without a node in *)
(* common: the entries of either lead back into it.  In one is what is     *)
(* being cloned, in the other what the clone has finished; the caller has  *)
(* nothing else, and the nodes a clone is filling are in neither.          *)
(***************************************************************************)
EXTENDS Values, Induction, SequenceTheorems

Call == [src : Nat, out : Nat]

\* Every entry of node n of heap h leads into S.
Leads(h, n, S) == \A i \in 1..Len(h[n].items) : h[n].items[i].val \in S

Whole(h, S) == \A n \in S : n \in 1..Len(h) /\ Leads(h, n, S)

\* A call of json__clone copies a node of S into a new one, whose entries are
\* to lead into D.
Copies(h, c, S, D) ==
  /\ c.src \in S
  /\ c.out \in 1..Len(h)
  /\ c.out \notin S \cup D
  /\ Len(h[c.out].items) = Len(h[c.src].items)
  /\ Leads(h, c.out, D \cup {Null})

Building(h, cs, S, D) ==
  /\ \A d \in 1..Len(cs) : Copies(h, cs[d], S, D)
  /\ \A d, e \in 1..Len(cs) : d # e => cs[d].out # cs[e].out

Shape(h, cs, S, D) ==
  /\ Whole(h, S)
  /\ Whole(h, D)
  /\ S \cap D = {}
  /\ Building(h, cs, S, D)

\* What the caller has: the values of S, and the clone just finished.
Handed(S, D) ==
  /\ held \subseteq S \cup D
  /\ cloned.out # Null => cloned.src \in S /\ cloned.out \in D

\* The inductive invariant.
ValuesInv ==
  /\ heap \in Seq(Node)
  /\ calls \in Seq(Call)
  /\ \E S, D \in SUBSET Nat : Shape(heap, calls, S, D) /\ Handed(S, D)

\* What can be reached from a whole set lies in it.
Near(near) == near \cup UNION {Children(n) : n \in near}

LEMMA NearStays ==
  ASSUME NEW S, heap \in Seq(Node), Whole(heap, S), NEW near \in SUBSET S
  PROVE  Near(near) \subseteq S
<1>1. ASSUME NEW n \in near, NEW m \in Children(n) PROVE m \in S
  <2>1. n \in 1..Len(heap) /\ Leads(heap, n, S)
    BY DEF Whole
  <2>2. heap[n] \in Node
    BY <2>1
  <2>3. heap[n].items \in Seq(Entry)
    BY <2>2 DEF Node
  <2>4. DOMAIN heap[n].items = 1..Len(heap[n].items)
    BY <2>3
  <2> QED BY <2>1, <2>4, <1>1 DEF Leads, Children
<1> QED BY <1>1 DEF Near

\* The function of Reach, and its equation: a function that solves it up to k
\* gives one that solves it up to k + 1.
Widen(f, S, k) == IF k = 0 THEN S ELSE Near(f[k - 1])

LEMMA ReachWidens ==
  ASSUME NEW S
  PROVE  Reach(S) = (CHOOSE f : f = [k \in 0..Len(heap) |-> Widen(f, S, k)])
                      [Len(heap)]
BY DEF Reach, Widen, Near

LEMMA WidenSolves ==
  ASSUME NEW S, NEW n \in Nat
  PROVE  \E f : f = [k \in 0..n |-> Widen(f, S, k)]
<1> DEFINE Solves(f, m) == \A k \in 0..n : k < m => f[k] = Widen(f, S, k)
           T == {m \in Nat : \E f : Solves(f, m)}
<1>1. 0 \in T
  <2>1. \E f : Solves(f, 0)
    BY SMT
  <2> QED BY <2>1
<1>2. ASSUME NEW m \in Nat, m \in T PROVE m + 1 \in T
  <2>1. PICK f : Solves(f, m)
    BY <1>2
  <2> DEFINE g == [k \in 0..n |-> Widen(f, S, k)]
  <2>2. ASSUME NEW k \in 0..n, k < m + 1 PROVE g[k] = Widen(g, S, k)
    <3>1. CASE k = 0
      BY <3>1 DEF Widen
    <3>2. CASE k # 0
      <4>1. k - 1 \in 0..n /\ k - 1 < m
        BY <2>2, <3>2
      <4>2. f[k - 1] = Widen(f, S, k - 1)
        BY <2>1, <4>1
      <4>3. g[k - 1] = f[k - 1]
        BY <4>1, <4>2
      <4> QED BY <3>2, <4>3 DEF Widen
    <3> QED BY <3>1, <3>2
  <2> HIDE DEF g
  <2>3. Solves(g, m + 1)
    BY <2>2
  <2>4. m + 1 \in Nat
    OBVIOUS
  <2> QED BY <2>3, <2>4
<1> HIDE DEF T
<1>3. Nat \subseteq T
  BY <1>1, <1>2, NatSetInduction
<1> USE DEF T
<1>4. n + 1 \in T
  BY <1>3
<1>5. PICK f : Solves(f, n + 1)
  BY <1>4
<1> DEFINE g == [k \in 0..n |-> Widen(f, S, k)]
<1>6. ASSUME NEW k \in 0..n PROVE g[k] = f[k]
  BY <1>5, <1>6
<1>7. ASSUME NEW k \in 0..n PROVE Widen(g, S, k) = Widen(f, S, k)
  <2>1. CASE k = 0
    BY <2>1 DEF Widen
  <2>2. CASE k # 0
    <3>1. k - 1 \in 0..n
      BY <2>2
    <3>2. g[k - 1] = f[k - 1]
      BY <3>1, <1>6
    <3> QED BY <2>2, <3>2 DEF Widen
  <2> QED BY <2>1, <2>2
<1>8. g = [k \in 0..n |-> Widen(g, S, k)]
  BY <1>7
<1> QED BY <1>8

\* So nothing the caller can reach is outside the set of whole nodes.
LEMMA ReachStays ==
  ASSUME NEW S, heap \in Seq(Node), Whole(heap, S), NEW H \in SUBSET S
  PROVE  Reach(H) \subseteq S
<1> DEFINE f == CHOOSE f : f = [k \in 0..Len(heap) |-> Widen(f, H, k)]
           T == {k \in Nat : k \in 0..Len(heap) => f[k] \subseteq S}
<1>1. f = [k \in 0..Len(heap) |-> Widen(f, H, k)]
  <2>1. Len(heap) \in Nat
    OBVIOUS
  <2>2. \E g : g = [k \in 0..Len(heap) |-> Widen(g, H, k)]
    BY <2>1, WidenSolves
  <2> QED BY <2>2
<1>2. Reach(H) = f[Len(heap)]
  BY ReachWidens
<1> HIDE DEF f
<1>3. \A k \in 0..Len(heap) : f[k] = Widen(f, H, k)
  BY <1>1
<1>4. 0 \in T
  BY <1>3 DEF Widen
<1>5. ASSUME NEW k \in Nat, k \in T PROVE k + 1 \in T
  <2>1. ASSUME k + 1 \in 0..Len(heap) PROVE f[k + 1] \subseteq S
    <3>1. k \in 0..Len(heap) /\ f[k] \subseteq S
      BY <1>5, <2>1
    <3>2. Near(f[k]) \subseteq S
      BY <3>1, NearStays
    <3>3. f[k + 1] = Near(f[k])
      BY <1>3, <2>1 DEF Widen
    <3> QED BY <3>2, <3>3
  <2> QED BY <2>1
<1>6. Len(heap) \in T
  <2> HIDE DEF T
  <2> QED BY <1>4, <1>5, NatSetInduction
<1> QED BY <1>2, <1>6

(***************************************************************************)
(* Heaps that grow and change.                                             *)
(***************************************************************************)

LEMMA NodeFacts ==
  ASSUME NEW h \in Seq(Node), NEW n \in 1..Len(h)
  PROVE  /\ h[n] \in Node
         /\ h[n].items \in Seq(Entry)
         /\ Len(h[n].items) \in Nat
         /\ DOMAIN h[n].items = 1..Len(h[n].items)
         /\ \A i \in 1..Len(h[n].items) : h[n].items[i] \in Entry
<1>1. h[n] \in Node
  OBVIOUS
<1>2. h[n].items \in Seq(Entry)
  BY <1>1 DEF Node
<1> QED BY <1>1, <1>2

\* A node of which nobody knows changes nothing for the others.
LEMMA HeapGrows ==
  ASSUME NEW h \in Seq(Node), NEW node \in Node, NEW g, g = Append(h, node),
         NEW S, Whole(h, S)
  PROVE  /\ g \in Seq(Node)
         /\ Len(g) = Len(h) + 1
         /\ Whole(g, S)
<1>1. /\ g \in Seq(Node)
      /\ Len(g) = Len(h) + 1
      /\ \A n \in 1..Len(h) : g[n] = h[n]
  OBVIOUS
<1>2. Len(h) \in Nat
  OBVIOUS
<1>3. ASSUME NEW n \in S PROVE n \in 1..Len(g) /\ Leads(g, n, S)
  <2>1. n \in 1..Len(h) /\ Leads(h, n, S)
    BY DEF Whole
  <2> QED BY <2>1, <1>1, <1>2 DEF Leads
<1>4. Whole(g, S)
  BY <1>3 DEF Whole
<1> QED BY <1>1, <1>4

\* Nor for a clone under way.
LEMMA CallGrows ==
  ASSUME NEW h \in Seq(Node), NEW node \in Node, NEW g, g = Append(h, node),
         NEW S, Whole(h, S), NEW D, NEW c, Copies(h, c, S, D)
  PROVE  Copies(g, c, S, D)
<1>1. /\ Len(g) = Len(h) + 1 /\ Len(h) \in Nat
      /\ \A n \in 1..Len(h) : g[n] = h[n]
  OBVIOUS
<1>2. c.src \in 1..Len(h) /\ c.out \in 1..Len(h)
  BY DEF Copies, Whole
<1>3. g[c.src] = h[c.src] /\ g[c.out] = h[c.out]
  BY <1>1, <1>2
<1>4. c.out \in 1..Len(g)
  BY <1>1, <1>2
<1> QED BY <1>3, <1>4 DEF Copies, Leads

\* A new whole node joins the set.
LEMMA WholeJoins ==
  ASSUME NEW h \in Seq(Node), NEW S, Whole(h, S), NEW n \in 1..Len(h),
         Leads(h, n, S)
  PROVE  Whole(h, S \cup {n})
<1>1. ASSUME NEW m \in S \cup {n} PROVE m \in 1..Len(h) /\ Leads(h, m, S)
  BY DEF Whole
<1> QED BY <1>1 DEF Whole, Leads

\* A node gets other entries.
Changed(h, n, items, g) ==
  /\ g \in Seq(Node) /\ Len(g) = Len(h)
  /\ g[n].items = items
  /\ \A m \in 1..Len(h) : m # n => g[m] = h[m]

LEMMA ItemsChange ==
  ASSUME NEW h \in Seq(Node), NEW n \in 1..Len(h), NEW items \in Seq(Entry),
         NEW g, g = [h EXCEPT ![n].items = items]
  PROVE  Changed(h, n, items, g)
<1>1. h[n] \in Node
  OBVIOUS
<1>2. PICK node \in Node : node = [h[n] EXCEPT !.items = items]
  <2>1. [h[n] EXCEPT !.items = items] \in Node
    BY <1>1 DEF Node
  <2> QED BY <2>1
<1>3. node.items = items
  BY <1>1, <1>2 DEF Node
<1>4. g = [h EXCEPT ![n] = node]
  BY <1>2
<1>5. g[n] = node /\ \A m \in 1..Len(h) : m # n => g[m] = h[m]
  BY <1>4
<1>6. g \in Seq(Node) /\ Len(g) = Len(h)
  BY <1>4, ExceptSeq
<1> QED BY <1>3, <1>5, <1>6 DEF Changed

\* When they lead into the set, a whole node stays whole.
LEMMA WholeChanges ==
  ASSUME NEW h \in Seq(Node), NEW S, Whole(h, S), NEW n \in S,
         NEW items \in Seq(Entry),
         \A i \in 1..Len(items) : items[i].val \in S,
         NEW g, g = [h EXCEPT ![n].items = items]
  PROVE  g \in Seq(Node) /\ Whole(g, S)
<1>1. n \in 1..Len(h)
  BY DEF Whole
<1>2. /\ g \in Seq(Node) /\ Len(g) = Len(h)
      /\ g[n].items = items
      /\ \A m \in 1..Len(h) : m # n => g[m] = h[m]
  <2>1. Changed(h, n, items, g)
    BY <1>1, ItemsChange
  <2> QED BY <2>1 DEF Changed
<1>3. ASSUME NEW m \in S PROVE m \in 1..Len(g) /\ Leads(g, m, S)
  <2>1. m \in 1..Len(h) /\ Leads(h, m, S)
    BY DEF Whole
  <2>2. CASE m = n
    BY <2>1, <2>2, <1>2 DEF Leads
  <2>3. CASE m # n
    <3>1. g[m] = h[m]
      BY <2>1, <2>3, <1>2
    <3> QED BY <2>1, <3>1, <1>2 DEF Leads
  <2> QED BY <2>2, <2>3
<1> QED BY <1>2, <1>3 DEF Whole

(***************************************************************************)
(* The builders.                                                           *)
(***************************************************************************)

\* The two sets together are one with all the caller has.
LEMMA Together ==
  ASSUME ValuesInv
  PROVE  \E S \in SUBSET Nat : Whole(heap, S) /\ held \subseteq S
<1>1. PICK S, D \in SUBSET Nat : Shape(heap, calls, S, D) /\ Handed(S, D)
  BY DEF ValuesInv
<1>2. PICK T \in SUBSET Nat : T = S \cup D
  OBVIOUS
<1>3. Whole(heap, T)
  BY <1>1, <1>2 DEF Shape, Whole, Leads
<1>4. held \subseteq T
  BY <1>1, <1>2 DEF Handed
<1> QED BY <1>3, <1>4

\* While no clone is under way or has just ended, that is all there is to show.
LEMMA IdleInv ==
  ASSUME NEW S \in SUBSET Nat, heap' \in Seq(Node), calls' = << >>,
         cloned'.out = Null, Whole(heap', S), held' \subseteq S
  PROVE  ValuesInv'
<1>1. PICK D \in SUBSET Nat : D = {}
  OBVIOUS
<1>2. Shape(heap', calls', S, D)
  BY <1>1 DEF Shape, Building, Whole
<1>3. Handed(S, D)'
  BY <1>1 DEF Handed
<1>4. calls' \in Seq(Call)
  OBVIOUS
<1> QED BY <1>2, <1>3, <1>4 DEF ValuesInv

\* A node without entries is made; whether the caller gets it or not.
LEMMA MadeInv ==
  ASSUME ValuesInv, NEW node \in Node, node.items = << >>,
         heap' = Append(heap, node), calls' = << >>, cloned'.out = Null,
         held' \subseteq held \cup {Fresh}
  PROVE  ValuesInv'
<1>1. PICK S \in SUBSET Nat : Whole(heap, S) /\ held \subseteq S
  BY Together
<1>2. heap \in Seq(Node)
  BY DEF ValuesInv
<1>3. /\ heap' \in Seq(Node)
      /\ Len(heap') = Fresh
      /\ heap'[Fresh] = node
      /\ Whole(heap', S)
  <2>1. PICK g : g = heap'
    OBVIOUS
  <2>2. g = Append(heap, node)
    BY <2>1
  <2>3. /\ g \in Seq(Node)
        /\ Len(g) = Len(heap) + 1
        /\ Whole(g, S)
    BY <1>1, <1>2, <2>2, HeapGrows, Zenon
  <2>4. g[Len(heap) + 1] = node
    BY <1>2, <2>2
  <2> QED BY <2>1, <2>3, <2>4 DEF Fresh
<1>4. Fresh \in Nat /\ Fresh \in 1..Len(heap')
  BY <1>2, <1>3 DEF Fresh
<1>5. Leads(heap', Fresh, S)
  BY <1>3 DEF Leads
<1>6. Whole(heap', S \cup {Fresh})
  BY <1>3, <1>4, <1>5, WholeJoins
<1>7. S \cup {Fresh} \in SUBSET Nat /\ held' \subseteq S \cup {Fresh}
  BY <1>1, <1>4
<1> QED BY <1>3, <1>6, <1>7, IdleInv

\* A container the caller can reach gets other entries.
LEMMA ChangedInv ==
  ASSUME NEW S \in SUBSET Nat, heap \in Seq(Node), Whole(heap, S),
         held \subseteq S, NEW n \in S, NEW items \in Seq(Entry),
         \A i \in 1..Len(items) : items[i].val \in S,
         heap' = [heap EXCEPT ![n].items = items],
         calls' = << >>, held' = held, cloned'.out = Null
  PROVE  ValuesInv'
<1>1. heap' \in Seq(Node) /\ Whole(heap', S)
  BY WholeChanges
<1> QED BY <1>1, IdleInv

LEMMA MakeScalarInv ==
  ASSUME ValuesInv, NEW x \in Scalar, MakeScalar(x)
  PROVE  ValuesInv'
<1>1. [type |-> x.type, val |-> x.val, items |-> << >>] \in Node
  BY ScalarAssumption DEF Node
<1> QED BY <1>1, MadeInv DEF MakeScalar, MayMake, Idle, NoClone

LEMMA MakeContainerInv ==
  ASSUME ValuesInv, NEW type \in Container, MakeContainer(type)
  PROVE  ValuesInv'
<1>1. [type |-> type, val |-> 0, items |-> << >>] \in Node
  BY DEF Node
<1> QED BY <1>1, MadeInv DEF MakeContainer, MayMake, Idle, NoClone

LEMMA MakeStringFailsInv ==
  ASSUME ValuesInv, MakeStringFails
  PROVE  ValuesInv'
<1>1. [type |-> "other", val |-> 0, items |-> << >>] \in Node
  BY DEF Node, Leaf
<1> QED BY <1>1, MadeInv DEF MakeStringFails, MayMake, Idle, NoClone

\* One entry more.
LEMMA Appended ==
  ASSUME NEW S, heap \in Seq(Node), Whole(heap, S), NEW n \in S,
         NEW e \in Entry, e.val \in S
  PROVE  /\ Append(heap[n].items, e) \in Seq(Entry)
         /\ \A i \in 1..Len(Append(heap[n].items, e)) :
              Append(heap[n].items, e)[i].val \in S
<1>1. n \in 1..Len(heap) /\ Leads(heap, n, S)
  BY DEF Whole
<1>2. PICK items \in Seq(Entry) : items = heap[n].items
  BY <1>1, NodeFacts
<1>3. \A i \in 1..Len(items) : items[i].val \in S
  BY <1>1, <1>2 DEF Leads
<1>4. Append(items, e) \in Seq(Entry)
  OBVIOUS
<1>5. ASSUME NEW i \in 1..Len(Append(items, e))
      PROVE  Append(items, e)[i].val \in S
  <2>1. i \in 1..Len(items) \/ i = Len(items) + 1
    OBVIOUS
  <2>2. Append(items, e)[i] = IF i = Len(items) + 1 THEN e ELSE items[i]
    OBVIOUS
  <2> QED BY <2>1, <2>2, <1>3
<1> QED BY <1>2, <1>4, <1>5

LEMMA PushInv ==
  ASSUME ValuesInv, NEW arr \in Reach(held), NEW item \in Reach(held),
         Push(arr, item)
  PROVE  ValuesInv'
<1>1. PICK S \in SUBSET Nat : Whole(heap, S) /\ held \subseteq S
  BY Together
<1>2. heap \in Seq(Node) /\ Whole(heap, S)
  BY <1>1 DEF ValuesInv
<1>3. arr \in S /\ item \in S
  BY <1>1, <1>2, ReachStays
<1>4. item \in Nat
  BY <1>3
<1>5. PICK e \in Entry : e = [key |-> 0, val |-> item]
  BY <1>4 DEF Entry
<1>6. e.val \in S
  BY <1>3, <1>5
<1>7. PICK items : items = Append(heap[arr].items, e)
  OBVIOUS
<1>8. items \in Seq(Entry) /\ \A i \in 1..Len(items) : items[i].val \in S
  BY <1>2, <1>3, <1>6, <1>7, Appended
<1>9. /\ heap' = [heap EXCEPT ![arr].items = items]
      /\ calls' = << >> /\ held' = held /\ cloned'.out = Null
  BY <1>5, <1>7 DEF Push, MayChange, Idle, NoClone
<1> QED BY <1>1, <1>2, <1>3, <1>8, <1>9, ChangedInv

\* One entry replaced.
LEMMA Replaced ==
  ASSUME NEW S, NEW items \in Seq(Entry), NEW i \in 1..Len(items),
         \A j \in 1..Len(items) : items[j].val \in S,
         NEW item \in Nat, item \in S,
         NEW replaced, replaced = [items EXCEPT ![i].val = item]
  PROVE  /\ replaced \in Seq(Entry)
         /\ \A j \in 1..Len(replaced) : replaced[j].val \in S
<1>1. items[i] \in Entry
  OBVIOUS
<1>2. PICK e \in Entry : e = [items[i] EXCEPT !.val = item]
  <2>1. [items[i] EXCEPT !.val = item] \in Entry
    BY <1>1 DEF Entry
  <2> QED BY <2>1
<1>3. e.val = item
  BY <1>1, <1>2 DEF Entry
<1>4. replaced = [items EXCEPT ![i] = e]
  BY <1>2
<1>5. replaced \in Seq(Entry) /\ Len(replaced) = Len(items)
  BY <1>4, ExceptSeq
<1>6. \A j \in 1..Len(items) : replaced[j] = IF j = i THEN e ELSE items[j]
  BY <1>4
<1> QED BY <1>3, <1>5, <1>6

LEMMA SetInv ==
  ASSUME ValuesInv, NEW obj \in Reach(held), NEW item \in Reach(held),
         NEW k \in Key, Set(obj, k, item)
  PROVE  ValuesInv'
<1>1. PICK S \in SUBSET Nat : Whole(heap, S) /\ held \subseteq S
  BY Together
<1>2. heap \in Seq(Node) /\ Whole(heap, S)
  BY <1>1 DEF ValuesInv
<1>3. obj \in S /\ item \in S
  BY <1>1, <1>2, ReachStays
<1>4. item \in Nat /\ obj \in 1..Len(heap) /\ Leads(heap, obj, S)
  BY <1>2, <1>3 DEF Whole
<1>5. calls' = << >> /\ held' = held /\ cloned'.out = Null
  BY DEF Set, MayChange, Idle, NoClone
<1>6. CASE heap' = [heap EXCEPT ![obj].items = Append(@, [key |-> k, val |-> item])]
  <2>1. PICK e \in Entry : e = [key |-> k, val |-> item]
    BY <1>4, ScalarAssumption DEF Entry
  <2>2. e.val \in S
    BY <1>3, <2>1
  <2>3. PICK items : items = Append(heap[obj].items, e)
    OBVIOUS
  <2>4. items \in Seq(Entry) /\ \A i \in 1..Len(items) : items[i].val \in S
    BY <1>2, <1>3, <2>2, <2>3, Appended
  <2>5. heap' = [heap EXCEPT ![obj].items = items]
    BY <1>6, <2>1, <2>3
  <2> QED BY <1>1, <1>2, <1>3, <1>5, <2>4, <2>5, ChangedInv
<1>7. CASE \E i \in DOMAIN heap[obj].items :
             heap' = [heap EXCEPT ![obj].items[i].val = item]
  <2>1. PICK i \in DOMAIN heap[obj].items :
          heap' = [heap EXCEPT ![obj].items[i].val = item]
    BY <1>7
  <2>2. PICK items \in Seq(Entry) : items = heap[obj].items
    BY <1>2, <1>4, NodeFacts
  <2>3. i \in 1..Len(items)
    BY <2>1, <2>2
  <2>4. \A j \in 1..Len(items) : items[j].val \in S
    BY <1>4, <2>2 DEF Leads
  <2>5. PICK replaced : replaced = [items EXCEPT ![i].val = item]
    OBVIOUS
  <2>6. replaced \in Seq(Entry) /\ \A j \in 1..Len(replaced) : replaced[j].val \in S
    BY <1>3, <1>4, <2>3, <2>4, <2>5, Replaced
  <2>7. heap' = [heap EXCEPT ![obj].items = replaced]
    BY <2>1, <2>2, <2>5
  <2> QED BY <1>1, <1>2, <1>3, <1>5, <2>6, <2>7, ChangedInv
<1> QED BY <1>6, <1>7 DEF Set

LEMMA ResetInv ==
  ASSUME ValuesInv, Reset
  PROVE  ValuesInv'
<1>1. PICK doc \in Documents : doc = heap'
  BY DEF Reset
<1>2. doc \in Seq(Node) /\ Whole(doc, 1..Len(doc)) /\ 1 \in 1..Len(doc)
  BY DocumentsAssumption, NodeFacts DEF Whole, Leads
<1>3. /\ 1..Len(doc) \in SUBSET Nat /\ calls' = << >> /\ held' = {1}
      /\ cloned'.out = Null
  BY DEF Reset, Idle, NoClone
<1>4. held' \subseteq 1..Len(doc)
  BY <1>2, <1>3
<1>5. heap' \in Seq(Node) /\ Whole(heap', 1..Len(doc))
  BY <1>1, <1>2
<1> QED BY <1>3, <1>4, <1>5, IdleInv

(***************************************************************************)
(* json_clone.                                                             *)
(***************************************************************************)

LEMMA CopiedIsNode ==
  ASSUME NEW node \in Node
  PROVE  /\ Copied(node) \in Node
         /\ Len(Copied(node).items) = Len(node.items)
         /\ \A i \in 1..Len(node.items) : Copied(node).items[i].val = Null
<1>1. node.items \in Seq(Entry)
  BY DEF Node
<1>2. DOMAIN node.items = 1..Len(node.items) /\ Len(node.items) \in Nat
  BY <1>1
<1>3. PICK items : items = [i \in 1..Len(node.items) |-> [key |-> 0, val |-> Null]]
  OBVIOUS
<1>4. [key |-> 0, val |-> Null] \in Entry
  BY DEF Entry, Null
<1>5. items \in Seq(Entry) /\ Len(items) = Len(node.items)
  BY <1>2, <1>3, <1>4
<1>6. \A i \in 1..Len(node.items) : items[i].val = Null
  BY <1>3
<1>7. Copied(node) = [node EXCEPT !.items = items]
  BY <1>2, <1>3 DEF Copied
<1>8. [node EXCEPT !.items = items] \in Node
  BY <1>5 DEF Node
<1>9. [node EXCEPT !.items = items].items = items
  BY DEF Node
<1> QED BY <1>5, <1>6, <1>7, <1>8, <1>9

\* A call that returns NULL leaves the whole nodes as they were.
LEMMA ReturnNullInv ==
  ASSUME ValuesInv, calls' = << >>, held' = held, cloned'.out = Null,
         \/ heap' = heap
         \/ \E node \in Node : heap' = Append(heap, node)
  PROVE  ValuesInv'
<1>1. PICK S \in SUBSET Nat : Whole(heap, S) /\ held \subseteq S
  BY Together
<1>2. heap \in Seq(Node)
  BY DEF ValuesInv
<1>3. CASE heap' = heap
  BY <1>1, <1>2, <1>3, IdleInv
<1>4. CASE \E node \in Node : heap' = Append(heap, node)
  <2>1. PICK node \in Node : heap' = Append(heap, node)
    BY <1>4
  <2>2. PICK g : g = heap'
    OBVIOUS
  <2>3. g = Append(heap, node)
    BY <2>1, <2>2
  <2>4. g \in Seq(Node) /\ Whole(g, S)
    BY <1>1, <1>2, <2>3, HeapGrows, Zenon
  <2> QED BY <1>1, <2>2, <2>4, IdleInv
<1> QED BY <1>3, <1>4

\* The call that follows copies a whole node into a new one.
LEMMA EnterCopiesInv ==
  ASSUME heap \in Seq(Node), calls \in Seq(Call),
         NEW S \in SUBSET Nat, NEW D \in SUBSET Nat,
         Shape(heap, calls, S, D), held \subseteq S \cup D,
         NEW n \in S, EnterCopies(n)
  PROVE  ValuesInv'
<1>1. n \in 1..Len(heap) /\ \A m \in S \cup D : m \in 1..Len(heap)
  BY DEF Shape, Whole
<1>2. heap[n] \in Node
  BY <1>1
<1>3. PICK node \in Node : node = Copied(heap[n])
  BY <1>2, CopiedIsNode
<1>4. /\ Len(node.items) = Len(heap[n].items)
      /\ \A i \in 1..Len(node.items) : node.items[i].val = Null
  BY <1>2, <1>3, CopiedIsNode
<1>5. PICK g : g = heap'
  OBVIOUS
<1>6. g = Append(heap, node)
  BY <1>3, <1>5 DEF EnterCopies
<1>7. /\ g \in Seq(Node) /\ Len(g) = Len(heap) + 1
      /\ Len(heap) + 1 \notin S \cup D
      /\ \A m \in 1..Len(heap) : g[m] = heap[m]
      /\ Whole(g, S) /\ Whole(g, D)
  <2>1. /\ g \in Seq(Node) /\ Len(g) = Len(heap) + 1
        /\ Whole(g, S) /\ Whole(g, D)
    BY <1>6, HeapGrows, Zenon DEF Shape
  <2>2. \A m \in 1..Len(heap) : g[m] = heap[m]
    BY <1>6
  <2>3. Len(heap) + 1 \notin S \cup D
    BY <1>1
  <2> QED BY <2>1, <2>2, <2>3
<1>8. PICK new \in Nat : new = Len(heap) + 1
  OBVIOUS
<1>9. g[new] = node /\ new \in 1..Len(g) /\ g[n] = heap[n]
  BY <1>1, <1>6, <1>7, <1>8
<1>10. Leads(g, new, D \cup {Null})
  BY <1>4, <1>9 DEF Leads
<1>11. PICK call \in Call : call.src = n /\ call.out = new
              /\ calls' = Append(calls, call)
  <2>1. [src |-> n, out |-> new] \in Call
    BY DEF Call
  <2> QED BY <2>1, <1>8 DEF EnterCopies, Fresh
<1>12. Copies(g, call, S, D)
  BY <1>4, <1>7, <1>8, <1>9, <1>10, <1>11 DEF Copies
<1>13. PICK cs \in Seq(Call) : cs = Append(calls, call)
  <2>1. Append(calls, call) \in Seq(Call)
    OBVIOUS
  <2> QED BY <2>1
<1>14. /\ Len(cs) = Len(calls) + 1 /\ Len(calls) \in Nat
       /\ cs[Len(cs)] = call
       /\ \A d \in 1..Len(calls) : cs[d] = calls[d]
  BY <1>13
<1>15. ASSUME NEW d \in 1..Len(calls)
       PROVE  Copies(heap, calls[d], S, D) /\ Copies(g, calls[d], S, D)
  <2>1. Copies(heap, calls[d], S, D) /\ Whole(heap, S)
    BY DEF Shape, Building
  <2> QED BY <1>6, <2>1, CallGrows, Zenon
<1>16. \A d \in 1..Len(calls) : calls[d].out # new
  BY <1>8, <1>15 DEF Copies
<1>17. Building(g, cs, S, D)
  <2>1. ASSUME NEW d \in 1..Len(cs) PROVE Copies(g, cs[d], S, D)
    <3>1. d \in 1..Len(calls) \/ d = Len(cs)
      BY <1>14
    <3> QED BY <3>1, <1>12, <1>14, <1>15
  <2>2. ASSUME NEW d \in 1..Len(cs), NEW e \in 1..Len(cs), d # e
        PROVE  cs[d].out # cs[e].out
    <3>1. /\ d \in 1..Len(calls) \/ d = Len(cs)
          /\ e \in 1..Len(calls) \/ e = Len(cs)
      BY <1>14
    <3>2. \A i, j \in 1..Len(calls) : i # j => calls[i].out # calls[j].out
      BY DEF Shape, Building
    <3> QED BY <2>2, <3>1, <3>2, <1>11, <1>14, <1>16
  <2> QED BY <2>1, <2>2 DEF Building
<1>18. Shape(g, cs, S, D)
  BY <1>7, <1>17 DEF Shape
<1>19. Handed(S, D)'
  BY DEF EnterCopies, Handed, NoClone
<1> QED BY <1>5, <1>7, <1>11, <1>13, <1>18, <1>19 DEF ValuesInv

LEMMA EnterInv ==
  ASSUME ValuesInv, NEW S \in SUBSET Nat, NEW D \in SUBSET Nat,
         Shape(heap, calls, S, D), held \subseteq S \cup D,
         NEW n \in S, Enter(n)
  PROVE  ValuesInv'
<1>1. heap \in Seq(Node) /\ calls \in Seq(Call)
  BY DEF ValuesInv
<1>2. CASE EnterTooDeep(n)
  BY <1>2, ReturnNullInv DEF EnterTooDeep, ReturnNull
<1>3. CASE EnterWithoutNode(n)
  BY <1>3, ReturnNullInv DEF EnterWithoutNode, ReturnNull
<1>4. CASE EnterWithoutMemory(n)
  <2>1. n \in 1..Len(heap)
    BY DEF Shape, Whole
  <2>2. Copied(heap[n]) \in Node
    BY <1>1, <2>1, CopiedIsNode
  <2> QED BY <1>4, <2>2, ReturnNullInv DEF EnterWithoutMemory, ReturnNull
<1>5. CASE EnterCopies(n)
  BY <1>1, <1>5, EnterCopiesInv
<1> QED BY <1>2, <1>3, <1>4, <1>5 DEF Enter

LEMMA TopIsCall ==
  ASSUME calls \in Seq(Call), ~Idle
  PROVE  /\ Len(calls) \in 1..Len(calls)
         /\ Top.out \in Nat
<1>1. Len(calls) \in 1..Len(calls)
  BY DEF Idle
<1>2. calls[Len(calls)] \in Call
  BY <1>1
<1> QED BY <1>1, <1>2 DEF Top, Call

\* A clone goes on with an entry of a whole node.
LEMMA CloneChildInv ==
  ASSUME ValuesInv, CloneChild
  PROVE  ValuesInv'
<1>1. PICK S, D \in SUBSET Nat : Shape(heap, calls, S, D) /\ Handed(S, D)
  BY DEF ValuesInv
<1>2. heap \in Seq(Node) /\ calls \in Seq(Call) /\ Len(calls) \in 1..Len(calls)
  BY DEF ValuesInv, CloneChild, Idle
<1>3. Copies(heap, Top, S, D)
  BY <1>1, <1>2 DEF Shape, Building, Top
<1>4. Top.src \in 1..Len(heap) /\ Leads(heap, Top.src, S)
  BY <1>1, <1>3 DEF Copies, Shape, Whole
<1>5. DOMAIN heap[Top.out].items = 1..Len(heap[Top.src].items)
  BY <1>2, <1>3, NodeFacts DEF Copies
<1>6. Missing \subseteq 1..Len(heap[Top.src].items) /\ Missing # {}
  BY <1>5 DEF Missing, CloneChild
<1>7. NextItem \in Missing
  <2>1. Missing \subseteq Nat
    BY <1>6
  <2>2. \E i \in Missing : \A j \in Missing : i <= j
    BY <2>1, <1>6, Least
  <2> QED BY <2>2 DEF NextItem
<1>8. heap[Top.src].items[NextItem].val \in S
  BY <1>4, <1>6, <1>7 DEF Leads
<1> QED BY <1>1, <1>8, EnterInv DEF CloneChild, Handed

LEMMA CloneKeyFailsInv ==
  ASSUME ValuesInv, CloneKeyFails
  PROVE  ValuesInv'
BY ReturnNullInv DEF CloneKeyFails, ReturnNull

\* When nothing is missing, the copy is whole.
LEMMA CopyIsWhole ==
  ASSUME heap \in Seq(Node), calls \in Seq(Call), ~Idle, Missing = {},
         NEW S, NEW D, Shape(heap, calls, S, D)
  PROVE  /\ Whole(heap, D \cup {Top.out})
         /\ Top.src \in S /\ Top.out \notin S
<1>1. Len(calls) \in 1..Len(calls)
  BY DEF Idle
<1>2. Copies(heap, Top, S, D)
  BY <1>1 DEF Shape, Building, Top
<1>3. Top.out \in 1..Len(heap) /\ Leads(heap, Top.out, D \cup {Null})
  BY <1>2 DEF Copies
<1>4. DOMAIN heap[Top.out].items = 1..Len(heap[Top.out].items)
  BY <1>3, NodeFacts
<1>5. \A i \in 1..Len(heap[Top.out].items) : heap[Top.out].items[i].val # Null
  BY <1>4 DEF Missing
<1>6. Leads(heap, Top.out, D)
  BY <1>3, <1>5 DEF Leads
<1>7. Whole(heap, D \cup {Top.out})
  BY <1>3, <1>6, WholeJoins DEF Shape
<1> QED BY <1>2, <1>7 DEF Copies

\* The outermost call gives the copy to the caller.
LEMMA LastReturnInv ==
  ASSUME ValuesInv, ~Idle, Missing = {}, Len(calls) = 1,
         calls' = SubSeq(calls, 1, Len(calls) - 1),
         held' = held \cup {Top.out}, heap' = heap,
         cloned' = [src |-> Top.src, out |-> Top.out, refused |-> FALSE]
  PROVE  ValuesInv'
<1>1. PICK S, D \in SUBSET Nat : Shape(heap, calls, S, D) /\ Handed(S, D)
  BY DEF ValuesInv
<1>2. heap \in Seq(Node) /\ calls \in Seq(Call)
  BY DEF ValuesInv
<1>3. /\ Whole(heap, D \cup {Top.out})
      /\ Top.src \in S /\ Top.out \notin S
  BY <1>1, <1>2, CopyIsWhole
<1>4. Top.out \in Nat
  BY <1>2, TopIsCall
<1>5. calls' = << >>
  BY <1>2
<1>6. PICK D1 \in SUBSET Nat : D1 = D \cup {Top.out}
  BY <1>4
<1>7. Shape(heap', calls', S, D1)
  <2>1. Whole(heap', S) /\ Whole(heap', D1) /\ S \cap D1 = {}
    BY <1>1, <1>3, <1>6 DEF Shape
  <2>2. Building(heap', calls', S, D1)
    BY <1>5 DEF Building
  <2> QED BY <2>1, <2>2 DEF Shape
<1>8. Handed(S, D1)'
  BY <1>1, <1>3, <1>6 DEF Handed
<1>9. calls' \in Seq(Call)
  BY <1>5
<1> QED BY <1>2, <1>7, <1>8, <1>9 DEF ValuesInv

\* An inner one writes it into the entry the call below has been waiting for.
Fills(b, i, key) ==
  /\ b = calls[Len(calls) - 1].out
  /\ i \in DOMAIN heap[b].items => key \in Nat
  /\ heap' = [heap EXCEPT ![b].items[i] = [key |-> key, val |-> Top.out]]

\* Filling an entry of a node outside a set of whole nodes disturbs none of them.
LEMMA StaysWhole ==
  ASSUME NEW h, NEW g, NEW S, NEW b, Whole(h, S), b \notin S,
         Len(g) = Len(h), \A m \in 1..Len(h) : m # b => g[m] = h[m]
  PROVE  Whole(g, S)
<1> SUFFICES ASSUME NEW n \in S PROVE n \in 1..Len(g) /\ Leads(g, n, S)
  BY DEF Whole
<1>1. n \in 1..Len(h) /\ Leads(h, n, S) /\ n # b
  BY DEF Whole
<1>2. g[n] = h[n]
  BY <1>1
<1> QED BY <1>1, <1>2, Zenon DEF Leads

LEMMA InnerReturnInv ==
  ASSUME ValuesInv, ~Idle, Missing = {}, Len(calls) > 1,
         calls' = SubSeq(calls, 1, Len(calls) - 1),
         held' = held, cloned' = cloned,
         NEW b, NEW i, NEW key, Fills(b, i, key)
  PROVE  ValuesInv'
<1>1. PICK S, D \in SUBSET Nat : Shape(heap, calls, S, D) /\ Handed(S, D)
  BY DEF ValuesInv
<1>2. heap \in Seq(Node) /\ calls \in Seq(Call) /\ Len(calls) \in Nat
  BY DEF ValuesInv
<1>3. \A d \in 1..Len(calls) : Copies(heap, calls[d], S, D)
  BY <1>1 DEF Shape, Building
<1>4. \A d, e \in 1..Len(calls) : d # e => calls[d].out # calls[e].out
  BY <1>1 DEF Shape, Building
<1>5. PICK out : out = Top.out
  OBVIOUS
<1>6. out = calls[Len(calls)].out /\ out \in Nat
  BY <1>2, <1>5, TopIsCall DEF Top
<1>7. PICK D1 \in SUBSET Nat : D1 = D \cup {out}
  BY <1>6
<1>8. Whole(heap, D1) /\ out \notin S
  BY <1>1, <1>2, <1>5, <1>7, CopyIsWhole
<1>9. b # out /\ b \in 1..Len(heap) /\ b \notin S /\ b \notin D
  <2>1. PICK p \in 1..Len(calls) : p = Len(calls) - 1 /\ p # Len(calls)
    BY <1>2
  <2>2. PICK q \in 1..Len(calls) : q = Len(calls)
    BY <1>2
  <2>3. b = calls[p].out /\ out = calls[q].out /\ p # q
    BY <2>1, <2>2, <1>6 DEF Fills
  <2>4. Copies(heap, calls[p], S, D)
    BY <1>3, <2>1
  <2> QED BY <1>4, <2>3, <2>4 DEF Copies
<1>10. Leads(heap, b, D \cup {Null})
  <2>1. Len(calls) - 1 \in 1..Len(calls)
    BY <1>2
  <2>2. Copies(heap, calls[Len(calls) - 1], S, D)
    BY <1>3, <2>1
  <2> QED BY <2>2 DEF Copies, Fills
<1>11. PICK items \in Seq(Entry) : items = heap[b].items
  BY <1>2, <1>9, NodeFacts
<1>12. PICK replaced \in Seq(Entry) :
         /\ replaced = [items EXCEPT ![i] = [key |-> key, val |-> out]]
         /\ Len(replaced) = Len(items)
         /\ \A j \in 1..Len(items) : replaced[j].val \in D1 \cup {Null}
  <2>1. \A j \in 1..Len(items) : items[j].val \in D \cup {Null}
    BY <1>10, <1>11 DEF Leads
  <2>2. CASE i \in 1..Len(items)
    <3>1. key \in Nat
      BY <2>2, <1>11 DEF Fills
    <3>2. PICK e \in Entry : e = [key |-> key, val |-> out]
      BY <3>1, <1>6 DEF Entry
    <3>3. e.val = out
      BY <3>2
    <3>4. PICK r : r = [items EXCEPT ![i] = e]
      OBVIOUS
    <3>5. r \in Seq(Entry) /\ Len(r) = Len(items)
      BY <2>2, <3>4, ExceptSeq
    <3>6. \A j \in 1..Len(items) : r[j] = IF j = i THEN e ELSE items[j]
      BY <3>4
    <3>7. \A j \in 1..Len(items) : r[j].val \in D1 \cup {Null}
      BY <2>1, <3>3, <3>6, <1>7
    <3>8. r = [items EXCEPT ![i] = [key |-> key, val |-> out]]
      BY <3>2, <3>4
    <3> QED BY <3>5, <3>7, <3>8
  <2>3. CASE i \notin 1..Len(items)
    <3>1. [items EXCEPT ![i] = [key |-> key, val |-> out]] = items
      BY <2>3
    <3> QED BY <2>1, <3>1, <1>7
  <2> QED BY <2>2, <2>3
<1>13. PICK g : g = heap'
  OBVIOUS
<1>14. g = [heap EXCEPT ![b].items = replaced]
  BY <1>5, <1>11, <1>12, <1>13 DEF Fills
<1>15. /\ g \in Seq(Node) /\ Len(g) = Len(heap)
       /\ g[b].items = replaced
       /\ \A m \in 1..Len(heap) : m # b => g[m] = heap[m]
  <2>1. Changed(heap, b, replaced, g)
    BY <1>2, <1>9, <1>14, ItemsChange
  <2> QED BY <2>1 DEF Changed
<1>16. b \notin S /\ b \notin D1
  BY <1>7, <1>9
<1>17. Whole(g, S) /\ Whole(g, D1)
  BY <1>1, <1>8, <1>15, <1>16, StaysWhole DEF Shape
<1>18. PICK cs \in Seq(Call) :
         /\ cs = calls'
         /\ Len(cs) = Len(calls) - 1
         /\ \A d \in 1..Len(cs) : cs[d] = calls[d]
  <2>1. PICK m \in Nat : m = Len(calls) - 1
    <3>1. Len(calls) - 1 \in Nat
      BY <1>2
    <3> QED BY <3>1
  <2>2. PICK cs : cs = SubSeq(calls, 1, m)
    OBVIOUS
  <2>3. cs \in Seq(Call) /\ Len(cs) = m /\ \A d \in 1..m : cs[d] = calls[d]
    BY <1>2, <2>1, <2>2
  <2> QED BY <2>1, <2>2, <2>3
<1>19. ASSUME NEW d \in 1..Len(cs) PROVE Copies(g, cs[d], S, D1)
  <2>1. d \in 1..Len(calls) /\ d # Len(calls) /\ cs[d] = calls[d]
    BY <1>2, <1>18
  <2>2. Copies(heap, calls[d], S, D)
    BY <1>3, <2>1
  <2>3. PICK o : o = calls[d].out
    OBVIOUS
  <2>4. PICK src : src = calls[d].src
    OBVIOUS
  <2>5. /\ src \in S /\ o \in 1..Len(heap) /\ o \notin S \cup D /\ o # out
        /\ Len(heap[o].items) = Len(heap[src].items)
        /\ Leads(heap, o, D \cup {Null})
    <3>1. PICK q \in 1..Len(calls) : q = Len(calls)
      BY <1>2
    <3>2. o # out
      BY <1>4, <1>6, <2>1, <2>3, <3>1
    <3> QED BY <2>2, <2>3, <2>4, <3>2 DEF Copies
  <2>6. o \notin S \cup D1 /\ o \in 1..Len(g) /\ src # b /\ src \in 1..Len(heap)
    BY <1>1, <1>7, <1>15, <1>16, <2>5 DEF Shape, Whole
  <2>7. g[src] = heap[src]
    BY <1>15, <2>6
  <2>8. /\ Len(g[o].items) = Len(g[src].items)
        /\ Leads(g, o, D1 \cup {Null})
    <3>1. CASE o = b
      BY <1>11, <1>12, <1>15, <2>5, <2>7, <3>1 DEF Leads
    <3>2. CASE o # b
      <4>1. g[o] = heap[o]
        BY <1>15, <2>5, <3>2
      <4> QED BY <1>7, <2>5, <2>7, <4>1 DEF Leads
    <3> QED BY <3>1, <3>2
  <2> QED BY <2>1, <2>3, <2>4, <2>5, <2>6, <2>8 DEF Copies
<1>20. Building(g, cs, S, D1)
  <2>1. ASSUME NEW d \in 1..Len(cs), NEW e \in 1..Len(cs), d # e
        PROVE  cs[d].out # cs[e].out
    <3>1. d \in 1..Len(calls) /\ e \in 1..Len(calls)
      BY <1>2, <1>18
    <3> QED BY <1>4, <1>18, <2>1, <3>1
  <2> QED BY <2>1, <1>19 DEF Building
<1>21. Shape(g, cs, S, D1)
  BY <1>1, <1>7, <1>8, <1>17, <1>20 DEF Shape
<1>22. Handed(S, D1)'
  BY <1>1, <1>7 DEF Handed
<1> QED BY <1>13, <1>15, <1>18, <1>21, <1>22 DEF ValuesInv

LEMMA CloneReturnInv ==
  ASSUME ValuesInv, CloneReturn
  PROVE  ValuesInv'
<1>1. heap \in Seq(Node) /\ calls \in Seq(Call) /\ Len(calls) \in 1..Len(calls)
  BY TopIsCall DEF ValuesInv, CloneReturn
<1>2. CASE Len(calls) = 1
  BY <1>2, LastReturnInv DEF CloneReturn
<1>3. CASE Len(calls) > 1
  <2>1. PICK S, D \in SUBSET Nat : Shape(heap, calls, S, D)
    BY DEF ValuesInv
  <2>2. PICK below : below = calls[Len(calls) - 1]
    OBVIOUS
  <2>3. Copies(heap, below, S, D)
    <3>1. Len(calls) - 1 \in 1..Len(calls)
      BY <1>1, <1>3
    <3> QED BY <2>1, <2>2, <3>1 DEF Shape, Building
  <2>4. /\ below.src \in 1..Len(heap) /\ below.out \in 1..Len(heap)
        /\ Len(heap[below.out].items) = Len(heap[below.src].items)
    BY <2>1, <2>3 DEF Copies, Shape, Whole
  <2>5. PICK i : heap' = [heap EXCEPT ![below.out].items[i] =
                            [key |-> heap[below.src].items[i].key,
                             val |-> Top.out]]
    <3>1. Len(calls) # 1
      BY <1>1, <1>3
    <3> DEFINE call == calls[Len(calls) - 1]
               todo == {j \in DOMAIN heap[call.out].items :
                          heap[call.out].items[j].val = Null}
               first == CHOOSE j \in todo : \A k \in todo : j <= k
    <3>2. heap' = [heap EXCEPT ![call.out].items[first] =
                     [key |-> heap[call.src].items[first].key, val |-> Top.out]]
      BY <3>1, Zenon DEF CloneReturn
    <3> HIDE DEF todo, first
    <3>3. PICK i : heap' = [heap EXCEPT ![below.out].items[i] =
                              [key |-> heap[below.src].items[i].key, val |-> Top.out]]
      BY <2>2, <3>2, Zenon
    <3> QED BY <3>3
  <2>6. PICK key : key = heap[below.src].items[i].key
    OBVIOUS
  <2>7. ASSUME i \in DOMAIN heap[below.out].items PROVE key \in Nat
    <3>1. DOMAIN heap[below.out].items = 1..Len(heap[below.out].items)
      BY <1>1, <2>4, NodeFacts
    <3>2. i \in 1..Len(heap[below.src].items)
      BY <2>4, <2>7, <3>1
    <3>3. heap[below.src].items[i] \in Entry
      BY <1>1, <2>4, <3>2, NodeFacts
    <3> QED BY <2>6, <3>3 DEF Entry
  <2>8. PICK b : b = below.out
    OBVIOUS
  <2>9. b = calls[Len(calls) - 1].out /\ (i \in DOMAIN heap[b].items => key \in Nat)
    BY <2>2, <2>7, <2>8
  <2>10. Fills(b, i, key)
    BY <2>5, <2>6, <2>8, <2>9 DEF Fills
  <2>11. /\ ~Idle /\ Missing = {}
         /\ calls' = SubSeq(calls, 1, Len(calls) - 1)
         /\ held' = held /\ cloned' = cloned
    <3>1. Len(calls) # 1
      BY <1>1, <1>3
    <3> QED BY <3>1, Zenon DEF CloneReturn
  <2> QED BY <1>3, <2>10, <2>11, InnerReturnInv, Zenon
<1>4. Len(calls) = 1 \/ Len(calls) > 1
  <2>1. PICK m \in Nat : m = Len(calls)
    BY <1>1
  <2>2. m \in 1..m
    BY <1>1, <2>1
  <2> QED BY <2>1, <2>2
<1> QED BY <1>2, <1>3, <1>4

\* A new clone begins with all the caller has in one set.
LEMMA CloneInv ==
  ASSUME ValuesInv, NEW n \in Reach(held), Clone(n)
  PROVE  ValuesInv'
<1>1. PICK S \in SUBSET Nat : Whole(heap, S) /\ held \subseteq S
  BY Together
<1>2. n \in S
  <2>1. heap \in Seq(Node)
    BY DEF ValuesInv
  <2> QED BY <1>1, <2>1, ReachStays
<1>3. PICK D \in SUBSET Nat : D = {}
  OBVIOUS
<1>4. Shape(heap, calls, S, D)
  BY <1>1, <1>3 DEF Shape, Building, Whole, Clone, Idle
<1>5. held \subseteq S \cup D
  BY <1>1
<1> QED BY <1>2, <1>4, <1>5, EnterInv DEF Clone

(***************************************************************************)
(* Theorems.                                                               *)
(***************************************************************************)

LEMMA InitInv == Init => ValuesInv
<1>1. ASSUME Init PROVE ValuesInv
  <2>1. PICK S, D \in SUBSET Nat : S = 1..Len(heap) /\ D = {}
    <3>1. 1..Len(heap) \in SUBSET Nat /\ {} \in SUBSET Nat
      BY <1>1, DocumentsAssumption DEF Init
    <3> QED BY <3>1, Zenon
  <2>2. heap \in Seq(Node) /\ Whole(heap, S) /\ 1 \in S
    BY <1>1, <2>1, DocumentsAssumption, NodeFacts DEF Init, Whole, Leads
  <2>3. calls \in Seq(Call) /\ Whole(heap, D) /\ Building(heap, calls, S, D)
    BY <1>1, <2>1 DEF Init, Building, Whole
  <2>4. Handed(S, D)
    BY <1>1, <2>1, <2>2 DEF Init, Handed, NoClone
  <2> QED BY <2>1, <2>2, <2>3, <2>4 DEF ValuesInv, Shape
<1> QED BY <1>1

THEOREM ValuesInvariant == Spec => []ValuesInv
<1>1. Init => ValuesInv
  BY InitInv
<1>2. ValuesInv /\ [Next]_vars => ValuesInv'
  <2> SUFFICES ASSUME ValuesInv, [Next]_vars PROVE ValuesInv'
    OBVIOUS
  <2>1. CASE \E x \in Scalar : MakeScalar(x)
    BY <2>1, MakeScalarInv
  <2>2. CASE \E type \in Container : MakeContainer(type)
    BY <2>2, MakeContainerInv
  <2>3. CASE MakeStringFails
    BY <2>3, MakeStringFailsInv
  <2>4. CASE \E arr, item \in Reach(held) : Push(arr, item)
    BY <2>4, PushInv
  <2>5. CASE \E obj, item \in Reach(held), k \in Key : Set(obj, k, item)
    BY <2>5, SetInv
  <2>6. CASE \E n \in Reach(held) : Clone(n)
    BY <2>6, CloneInv
  <2>7. CASE CloneChild
    BY <2>7, CloneChildInv
  <2>8. CASE CloneKeyFails
    BY <2>8, CloneKeyFailsInv
  <2>9. CASE CloneReturn
    BY <2>9, CloneReturnInv
  <2>10. CASE Reset
    BY <2>10, ResetInv
  <2>11. CASE UNCHANGED vars
    BY <2>11 DEF vars, ValuesInv, Handed
  <2> QED BY <2>1, <2>2, <2>3, <2>4, <2>5, <2>6, <2>7, <2>8, <2>9, <2>10,
             <2>11 DEF Next
<1> QED BY <1>1, <1>2, PTL DEF Spec

\* Whatever is built, shared, tied into a cycle, cloned or refused half way:
\* no value the caller can reach has an entry that was never written.
THEOREM NoGarbageReached == Spec => []GarbageUnreachable
<1>1. ASSUME ValuesInv PROVE GarbageUnreachable
  <2>1. PICK S \in SUBSET Nat : Whole(heap, S) /\ held \subseteq S
    BY <1>1, Together
  <2>2. heap \in Seq(Node) /\ Whole(heap, S)
    BY <1>1, <2>1 DEF ValuesInv
  <2>3. ASSUME NEW n \in Reach(held), NEW i \in DOMAIN heap[n].items
        PROVE  heap[n].items[i].val # Null
    <3>1. n \in S
      BY <2>1, <2>2, ReachStays
    <3>2. n \in 1..Len(heap) /\ Leads(heap, n, S)
      BY <2>2, <3>1 DEF Whole
    <3>3. heap[n].items[i].val \in S
      BY <2>2, <2>3, <3>2, NodeFacts DEF Leads
    <3> QED BY <2>2, <3>3 DEF Whole, Null
  <2> QED BY <2>3 DEF GarbageUnreachable
<1> QED BY <1>1, ValuesInvariant, PTL

\* A clone shares no node with its source, however the source is shared and
\* tied, and whichever clones were made or failed before.
THEOREM ClonesAreDeep == Spec => []CloneSharesNothing
<1>1. ASSUME ValuesInv, cloned.out # Null
      PROVE  Reach({cloned.out}) \cap Reach({cloned.src}) = {}
  <2>1. PICK S, D \in SUBSET Nat : Shape(heap, calls, S, D) /\ Handed(S, D)
    BY <1>1 DEF ValuesInv
  <2>2. /\ heap \in Seq(Node) /\ Whole(heap, S) /\ Whole(heap, D)
        /\ S \cap D = {}
    BY <1>1, <2>1 DEF ValuesInv, Shape
  <2>3. {cloned.src} \in SUBSET S /\ {cloned.out} \in SUBSET D
    BY <1>1, <2>1 DEF Handed
  <2>4. Reach({cloned.src}) \subseteq S /\ Reach({cloned.out}) \subseteq D
    BY <2>2, <2>3, ReachStays
  <2> QED BY <2>2, <2>4
<1>2. ValuesInv => CloneSharesNothing
  BY <1>1 DEF CloneSharesNothing
<1> QED BY <1>2, ValuesInvariant, PTL
=============================================================================
