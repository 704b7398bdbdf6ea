---------------------------- MODULE WriterProofs ----------------------------
(***************************************************************************)
(* Proofs about Writer, for every set of values, also cyclic ones, every   *)
(* option and every size of buffer.                                        *)
(*                                                                         *)
(* What is left to do is a sequence of well-formed tasks: that much has to *)
(* be known of it to see that no jw_ call takes a byte too many.  The      *)
(* calls of a container come from FlattenSeq, which is defined by          *)
(* recursion: that it is well defined, and of the right type, is shown by  *)
(* induction over the number of items.                                     *)
(*                                                                         *)
(* Two invariants more build on that one: a value that lies too deep is    *)
(* still ahead as long as a call runs (DepthInv), and what is written and  *)
(* what is left make up the whole text until a jw_ call fails (BytesInv).  *)
(***************************************************************************)
EXTENDS Writer, Induction, SequenceTheorems, FiniteSetTheorems

Op    == {"value", "put", "puts", "int", "content", "indent"}
Lex   == {Blank, "v", "s", ":", ",", "{", "}", "[", "]"}
Tasks == [op : Op, n : Nat, must : BOOLEAN, lex : Lex, of : Nat, depth : Nat]
Task  == {t \in Tasks : t.op = "value" => t.of \in Id}

\* A buffer always keeps one byte for the NUL; json_measure has none.
RoomInv ==
  /\ phase \in {"measure", "measured"} => cap = 0
  /\ phase \in {"write", "done"} => used < cap \/ (cap = 0 /\ used = 0)

\* The inductive invariant.
WriterInv ==
  /\ root \in Id /\ opts \in Options
  /\ phase \in {"measure", "measured", "write", "done"}
  /\ cap \in Nat /\ used \in Nat
  /\ measured.size \in Nat
  /\ todo \in Seq(Task)
  /\ RoomInv

(***************************************************************************)
(* FlattenSeq.                                                             *)
(***************************************************************************)

Joined(f, seqs, i) == IF i = 1 THEN seqs[i] ELSE f[i - 1] \o seqs[i]

LEMMA JoinedType ==
  ASSUME NEW S, NEW seqs \in Seq(Seq(S)), NEW i \in 1..Len(seqs),
         NEW f, i # 1 => f[i - 1] \in Seq(S)
  PROVE  Joined(f, seqs, i) \in Seq(S)
<1>1. seqs[i] \in Seq(S)
  OBVIOUS
<1> QED BY <1>1, ConcatProperties DEF Joined

LEMMA FlattenDefined ==
  ASSUME NEW seqs, Len(seqs) \in Nat
  PROVE  \E f : f = [i \in 1..Len(seqs) |-> Joined(f, seqs, i)]
<1> DEFINE D == 1..Len(seqs)
           Solves(f, m) == \A i \in D : i <= m => f[i] = Joined(f, seqs, i)
           T == {m \in Nat : \E f : Solves(f, m)}
<1>1. 0 \in T
  OBVIOUS
<1>2. ASSUME NEW m \in Nat, m \in T PROVE m + 1 \in T
  <2>1. PICK f : Solves(f, m)
    BY <1>2
  <2> DEFINE g == [i \in D |-> Joined(f, seqs, i)]
  <2>2. \A i \in D : g[i] = Joined(f, seqs, i)
    OBVIOUS
  <2> HIDE DEF g
  <2>3. ASSUME NEW i \in D, i <= m + 1 PROVE g[i] = Joined(g, seqs, i)
    <3>1. CASE i = 1
      BY <2>2, <3>1 DEF Joined
    <3>2. CASE i # 1
      <4>1. i - 1 \in D /\ i - 1 <= m
        BY <2>3, <3>2
      <4>2. g[i - 1] = f[i - 1]
        BY <2>1, <2>2, <4>1
      <4> QED BY <2>2, <3>2, <4>2 DEF Joined
    <3> QED BY <3>1, <3>2
  <2>4. Solves(g, m + 1)
    BY <2>3
  <2> QED BY <2>4
<1>3. Len(seqs) \in T
  <2> HIDE DEF T
  <2> QED BY <1>1, <1>2, NatSetInduction
<1>4. PICK f : Solves(f, Len(seqs))
  BY <1>3
<1> DEFINE g == [i \in D |-> Joined(f, seqs, i)]
<1>5. \A i \in D : g[i] = f[i]
  BY <1>4
<1> HIDE DEF g
<1>6. ASSUME NEW i \in D PROVE Joined(g, seqs, i) = Joined(f, seqs, i)
  <2>1. CASE i = 1
    BY <2>1 DEF Joined
  <2>2. CASE i # 1
    <3>1. i - 1 \in D
      BY <2>2
    <3> QED BY <1>5, <2>2, <3>1 DEF Joined
  <2> QED BY <2>1, <2>2
<1>7. g = [i \in D |-> Joined(g, seqs, i)]
  BY <1>6 DEF g
<1> QED BY <1>7

\* FlattenSeq joins one sequence after the other.
JoinedUpTo(f, seqs, S) ==
  /\ \A i \in 1..Len(seqs) : f[i] \in Seq(S) /\ f[i] = Joined(f, seqs, i)
  /\ FlattenSeq(seqs) = f[Len(seqs)]

LEMMA FlattenJoins ==
  ASSUME NEW S, NEW seqs \in Seq(Seq(S)), Len(seqs) # 0
  PROVE  \E f : JoinedUpTo(f, seqs, S)
<1> DEFINE f == CHOOSE f : f = [i \in 1..Len(seqs) |-> Joined(f, seqs, i)]
           T == {m \in Nat : m \in 1..Len(seqs) => f[m] \in Seq(S)}
<1>0. Len(seqs) \in Nat
  OBVIOUS
<1>1. f = [i \in 1..Len(seqs) |-> Joined(f, seqs, i)]
  BY <1>0, FlattenDefined
<1>2. FlattenSeq(seqs) = f[Len(seqs)]
  BY DEF FlattenSeq, Joined
<1> HIDE DEF f
<1>3. 0 \in T
  OBVIOUS
<1>4. ASSUME NEW m \in Nat, m \in T PROVE m + 1 \in T
  <2> SUFFICES ASSUME m + 1 \in 1..Len(seqs) PROVE f[m + 1] \in Seq(S)
    OBVIOUS
  <2>1. m + 1 # 1 => f[(m + 1) - 1] \in Seq(S)
    <3>1. (m + 1) - 1 = m /\ (m + 1 # 1 => m \in 1..Len(seqs))
      BY <1>0
    <3> QED BY <1>4, <3>1
  <2>2. f[m + 1] = Joined(f, seqs, m + 1)
    BY <1>1
  <2> QED BY <2>1, <2>2, JoinedType
<1>5. Nat \subseteq T
  <2> HIDE DEF T
  <2> QED BY <1>3, <1>4, NatSetInduction
<1>6. ASSUME NEW i \in 1..Len(seqs) PROVE f[i] \in Seq(S) /\ f[i] = Joined(f, seqs, i)
  <2>1. i \in Nat
    OBVIOUS
  <2> QED BY <1>1, <1>5, <2>1
<1>7. JoinedUpTo(f, seqs, S)
  BY <1>2, <1>6 DEF JoinedUpTo
<1> QED BY <1>7

\* FlattenSeq of sequences over S is a sequence over S.
LEMMA FlattenType ==
  ASSUME NEW S, NEW seqs \in Seq(Seq(S))
  PROVE  FlattenSeq(seqs) \in Seq(S)
<1>1. CASE Len(seqs) = 0
  <2>1. seqs = << >>
    BY <1>1
  <2> QED BY <1>1, <2>1 DEF FlattenSeq
<1>2. CASE Len(seqs) # 0
  <2>1. PICK f : JoinedUpTo(f, seqs, S)
    BY <1>2, FlattenJoins
  <2>2. Len(seqs) \in 1..Len(seqs)
    BY <1>2
  <2> QED BY <2>1, <2>2 DEF JoinedUpTo
<1> QED BY <1>1, <1>2

\* What is in it is in one of them.
LEMMA ConcatMembers ==
  ASSUME NEW S, NEW s \in Seq(S), NEW t \in Seq(S)
  PROVE  ToSet(s \o t) = ToSet(s) \cup ToSet(t)
<1>1. /\ Len(s) \in Nat /\ Len(t) \in Nat
      /\ DOMAIN s = 1..Len(s) /\ DOMAIN t = 1..Len(t)
      /\ DOMAIN (s \o t) = 1..(Len(s) + Len(t))
      /\ \A i \in 1..(Len(s) + Len(t)) :
           (s \o t)[i] = IF i <= Len(s) THEN s[i] ELSE t[i - Len(s)]
  OBVIOUS
<1>2. ASSUME NEW x \in ToSet(s \o t) PROVE x \in ToSet(s) \cup ToSet(t)
  <2>1. PICK i \in 1..(Len(s) + Len(t)) : x = (s \o t)[i]
    BY <1>1 DEF ToSet
  <2>2. CASE i <= Len(s)
    <3>1. i \in 1..Len(s) /\ x = s[i]
      BY <1>1, <2>1, <2>2
    <3> QED BY <1>1, <3>1 DEF ToSet
  <2>3. CASE ~(i <= Len(s))
    <3>1. i - Len(s) \in 1..Len(t)
      BY <1>1, <2>3
    <3>2. x = t[i - Len(s)]
      BY <1>1, <2>1, <2>3
    <3> QED BY <1>1, <3>1, <3>2 DEF ToSet
  <2> QED BY <2>2, <2>3
<1>3. ASSUME NEW x \in ToSet(s) PROVE x \in ToSet(s \o t)
  <2>1. PICK i \in 1..Len(s) : x = s[i]
    BY <1>1 DEF ToSet
  <2>2. i \in 1..(Len(s) + Len(t)) /\ i <= Len(s)
    BY <1>1
  <2>3. x = (s \o t)[i]
    BY <1>1, <2>1, <2>2
  <2> QED BY <1>1, <2>2, <2>3 DEF ToSet
<1>4. ASSUME NEW x \in ToSet(t) PROVE x \in ToSet(s \o t)
  <2>1. PICK i \in 1..Len(t) : x = t[i]
    BY <1>1 DEF ToSet
  <2>2. PICK j \in 1..(Len(s) + Len(t)) : j = i + Len(s)
    BY <1>1
  <2>3. ~(j <= Len(s)) /\ j - Len(s) = i
    BY <1>1, <2>2
  <2>4. x = (s \o t)[j]
    BY <1>1, <2>1, <2>3
  <2> QED BY <1>1, <2>4 DEF ToSet
<1> QED BY <1>2, <1>3, <1>4

LEMMA FlattenMembers ==
  ASSUME NEW S, NEW seqs \in Seq(Seq(S))
  PROVE  ToSet(FlattenSeq(seqs)) = UNION {ToSet(seqs[i]) : i \in 1..Len(seqs)}
<1>0. Len(seqs) \in Nat
  OBVIOUS
<1>1. CASE Len(seqs) = 0
  <2>1. seqs = << >>
    BY <1>1
  <2>2. ToSet(FlattenSeq(seqs)) = {}
    BY <1>1, <2>1 DEF FlattenSeq, ToSet
  <2>3. 1..Len(seqs) = {}
    BY <1>1
  <2> QED BY <2>2, <2>3
<1>2. CASE Len(seqs) # 0
  <2>1. PICK f : JoinedUpTo(f, seqs, S)
    BY <1>2, FlattenJoins
  <2> DEFINE T == {m \in Nat : m \in 1..Len(seqs) =>
                     ToSet(f[m]) = UNION {ToSet(seqs[i]) : i \in 1..m}}
  <2>2. 0 \in T
    OBVIOUS
  <2>3. ASSUME NEW m \in Nat, m \in T PROVE m + 1 \in T
    <3> SUFFICES ASSUME m + 1 \in 1..Len(seqs)
                 PROVE  ToSet(f[m + 1]) = UNION {ToSet(seqs[i]) : i \in 1..(m + 1)}
      OBVIOUS
    <3>1. PICK n \in 1..Len(seqs) : n = m + 1
      OBVIOUS
    <3>2. f[n] = Joined(f, seqs, n) /\ f[n] \in Seq(S) /\ seqs[n] \in Seq(S)
      BY <2>1 DEF JoinedUpTo
    <3>3. 1..n = (1..m) \cup {n}
      BY <3>1
    <3>4. CASE m = 0
      <4>1. n = 1 /\ 1..m = {}
        BY <3>1, <3>4
      <4>2. f[n] = seqs[n]
        BY <3>2, <4>1 DEF Joined
      <4> QED BY <3>1, <3>3, <4>1, <4>2
    <3>5. CASE m # 0
      <4>1. n # 1 /\ n - 1 = m /\ m \in 1..Len(seqs)
        BY <1>0, <3>1, <3>5
      <4>2. f[m] \in Seq(S) /\ f[n] = f[m] \o seqs[n]
        BY <2>1, <3>2, <4>1 DEF Joined, JoinedUpTo
      <4>3. ToSet(f[n]) = ToSet(f[m]) \cup ToSet(seqs[n])
        BY <3>2, <4>2, ConcatMembers
      <4>4. ToSet(f[m]) = UNION {ToSet(seqs[i]) : i \in 1..m}
        BY <2>3, <4>1
      <4>5. UNION {ToSet(seqs[i]) : i \in 1..n}
              = (UNION {ToSet(seqs[i]) : i \in 1..m}) \cup ToSet(seqs[n])
        <5> DEFINE X(k) == UNION {ToSet(seqs[i]) : i \in 1..k}
        <5>1. \A k : \A x : x \in X(k) <=> \E i \in 1..k : x \in ToSet(seqs[i])
          OBVIOUS
        <5> HIDE DEF X
        <5>2. \A x : x \in X(n) <=> x \in X(m) \/ x \in ToSet(seqs[n])
          BY <3>3, <5>1
        <5>3. X(n) = X(m) \cup ToSet(seqs[n])
          BY <5>2
        <5> QED BY <5>3, Zenon DEF X
      <4> QED BY <3>1, <4>3, <4>4, <4>5
    <3> QED BY <3>4, <3>5
  <2>4. Len(seqs) \in T
    <3> HIDE DEF T
    <3> QED BY <1>0, <2>2, <2>3, NatSetInduction
  <2>5. Len(seqs) \in 1..Len(seqs)
    BY <1>0, <1>2
  <2> QED BY <2>1, <2>4, <2>5 DEF JoinedUpTo
<1> QED BY <1>1, <1>2

(***************************************************************************)
(* What the steps put in todo.                                             *)
(***************************************************************************)

LEMMA CallIsTask ==
  ASSUME NEW op \in Op \ {"value"}, NEW n \in Nat, NEW must \in BOOLEAN,
         NEW lex \in Lex, NEW of \in Nat
  PROVE  Call(op, n, must, lex, of) \in Task /\ <<Call(op, n, must, lex, of)>> \in Seq(Task)
<1>1. Call(op, n, must, lex, of) \in Tasks
  BY DEF Call, Tasks, Op
<1>2. Call(op, n, must, lex, of).op # "value"
  BY DEF Call
<1>3. Call(op, n, must, lex, of) \in Task
  BY <1>1, <1>2 DEF Task
<1> QED BY <1>3

LEMMA PutIsTask ==
  ASSUME NEW lex \in Lex
  PROVE  Checked(lex) \in Seq(Task) /\ Unchecked(lex) \in Seq(Task)
BY CallIsTask DEF Checked, Unchecked, Op

LEMMA WriteIsTask ==
  ASSUME NEW v \in Id, NEW d \in Nat
  PROVE  Write(v, d) \in Seq(Task)
<1> DEFINE t == [op |-> "value", n |-> 0, must |-> TRUE, lex |-> Blank,
                 of |-> v, depth |-> d]
<1>1. v \in Nat
  BY ValuesAssumption DEF Id
<1>2. t \in Tasks
  BY <1>1 DEF Tasks, Op, Lex
<1>3. t \in Task
  BY <1>2 DEF Task
<1> HIDE DEF t
<1>4. <<t>> \in Seq(Task)
  BY <1>3
<1> QED BY <1>4 DEF Write, t

LEMMA ValueType ==
  ASSUME NEW v \in Id
  PROVE  /\ v \in Nat
         /\ Values[v].size \in Nat
         /\ Values[v].items \in Seq([key : Nat, val : Nat])
         /\ Len(Values[v].items) \in Nat
<1> DEFINE V == [type : {Literal, "int", "zero", "string", "array", "object"},
                 size : Nat,
                 items : Seq([key : Nat, val : Nat])]
<1>1. Values \in Seq(V)
  BY ValuesAssumption
<1>2. Values[v] \in V /\ v \in Nat
  <2> HIDE DEF V
  <2> QED BY <1>1 DEF Id
<1>3. Values[v].items \in Seq([key : Nat, val : Nat]) /\ Values[v].size \in Nat
  BY <1>2
<1> QED BY <1>2, <1>3

LEMMA LineIsTasks ==
  ASSUME NEW d \in Nat, opts \in Options
  PROVE  Line(d) \in Seq(Task)
<1>1. opts.indent \in Nat
  BY LimitsAssumption
<1>2. d * opts.indent \in Nat
  BY <1>1
<1>3. Blank \in Lex
  BY DEF Lex
<1>4. <<Call("indent", d * opts.indent, FALSE, Blank, 0)>> \in Seq(Task)
  BY <1>2, <1>3, CallIsTask DEF Op
<1>5. Unchecked(Blank) \in Seq(Task)
  BY <1>3, PutIsTask
<1> QED BY <1>4, <1>5, ConcatProperties, EmptySeq DEF Line

LEMMA ScalarIsTasks ==
  ASSUME NEW v \in Id
  PROVE  ScalarCalls(v) \in Seq(Task)
<1>1. /\ Blank \in Lex /\ "s" \in Lex /\ "v" \in Lex
      /\ v \in Nat /\ Values[v].size \in Nat
  BY ValueType DEF Lex
<1>2. <<Call("content", Values[v].size, TRUE, "s", v)>> \in Seq(Task)
  BY <1>1, CallIsTask DEF Op
<1>3. Checked(Blank) \in Seq(Task)
  BY <1>1, PutIsTask
<1>4. StringCalls(v) \in Seq(Task)
  BY <1>2, <1>3, ConcatProperties DEF StringCalls
<1>5. ASSUME NEW op \in {"put", "int", "puts"}
      PROVE  <<Call(op, Values[v].size, TRUE, "v", v)>> \in Seq(Task)
  BY <1>1, CallIsTask DEF Op
<1>6. ScalarOp(v) \in {"put", "int", "puts"}
  BY DEF ScalarOp
<1> QED BY <1>4, <1>5, <1>6 DEF ScalarCalls

LEMMA KeyIsTasks ==
  ASSUME NEW k \in Key
  PROVE  KeyCalls(k) \in Seq(Task)
<1>1. Blank \in Lex /\ "s" \in Lex /\ ":" \in Lex /\ k \in Nat /\ KeyLength[k] \in Nat
  BY ValuesAssumption DEF Lex, Key
<1>2. <<Call("content", KeyLength[k], FALSE, "s", k)>> \in Seq(Task)
  BY <1>1, CallIsTask DEF Op
<1>3. Unchecked(Blank) \in Seq(Task) /\ Unchecked(":") \in Seq(Task)
  BY <1>1, PutIsTask
<1>4. (IF opts.pretty THEN Unchecked(Blank) ELSE << >>) \in Seq(Task)
  BY <1>3, EmptySeq
<1> QED BY <1>2, <1>3, <1>4, ConcatProperties DEF KeyCalls

LEMMA FourParts ==
  ASSUME NEW S, NEW s \in Seq(S), NEW t \in Seq(S), NEW u \in Seq(S),
         NEW w \in Seq(S)
  PROVE  s \o t \o u \o w \in Seq(S)
<1>1. s \o t \in Seq(S)
  BY ConcatProperties
<1>2. (s \o t) \o u \in Seq(S)
  BY <1>1, ConcatProperties
<1> QED BY <1>2, ConcatProperties

\* The parts of a container, by name.
KeyPart(v, order, i) ==
  IF Values[v].type = "object" THEN KeyCalls(Values[v].items[order[i]].key) ELSE << >>
Comma(v, i) == IF i < Len(Values[v].items) THEN Unchecked(",") ELSE << >>
ItemCalls(v, d, order, i) ==
  Line(d + 1) \o KeyPart(v, order, i)
    \o Write(Values[v].items[order[i]].val, d + 1) \o Comma(v, i)
Items(v, d, order) ==
  [i \in 1..Len(Values[v].items) |-> ItemCalls(v, d, order, i)]
Opening(v) == Checked(IF Values[v].type = "object" THEN "{" ELSE "[")
LastLine(v, d) == IF Len(Values[v].items) > 0 THEN Line(d) ELSE << >>
Closing(v) == Checked(IF Values[v].type = "object" THEN "}" ELSE "]")

LEMMA ContainerIs ==
  ASSUME NEW v, NEW d, NEW order
  PROVE  ContainerCalls(v, d, order)
           = Opening(v) \o FlattenSeq(Items(v, d, order)) \o LastLine(v, d) \o Closing(v)
BY Zenon DEF ContainerCalls, Items, ItemCalls, KeyPart, Comma, Opening, LastLine, Closing

\* What order[i] refers to.
LEMMA ItemType ==
  ASSUME NEW v \in Id, NEW j \in 1..Len(Values[v].items)
  PROVE  /\ Values[v].items[j].val \in Id
         /\ Values[v].type = "object" => Values[v].items[j].key \in Key
BY ValuesAssumption

LEMMA ItemIsTasks ==
  ASSUME NEW v \in Id, NEW d \in Nat, opts \in Options,
         NEW order \in [1..Len(Values[v].items) -> 1..Len(Values[v].items)],
         NEW i \in 1..Len(Values[v].items)
  PROVE  /\ Line(d + 1) \in Seq(Task)
         /\ KeyPart(v, order, i) \in Seq(Task)
         /\ Write(Values[v].items[order[i]].val, d + 1) \in Seq(Task)
         /\ Comma(v, i) \in Seq(Task)
         /\ ItemCalls(v, d, order, i) \in Seq(Task)
<1>1. PICK j \in 1..Len(Values[v].items) : j = order[i]
  OBVIOUS
<1>2. /\ Values[v].items[order[i]].val \in Id
      /\ Values[v].type = "object" => Values[v].items[order[i]].key \in Key
  BY <1>1, ItemType
<1>3. d + 1 \in Nat /\ "," \in Lex
  BY DEF Lex
<1>4. Line(d + 1) \in Seq(Task)
  BY <1>3, LineIsTasks
<1>5. KeyPart(v, order, i) \in Seq(Task)
  BY <1>2, KeyIsTasks, EmptySeq DEF KeyPart
<1>6. Write(Values[v].items[order[i]].val, d + 1) \in Seq(Task)
  BY <1>2, <1>3, WriteIsTask
<1>7. Comma(v, i) \in Seq(Task)
  BY <1>3, PutIsTask, EmptySeq DEF Comma
<1>8. ItemCalls(v, d, order, i) \in Seq(Task)
  BY <1>4, <1>5, <1>6, <1>7, FourParts DEF ItemCalls
<1> QED BY <1>4, <1>5, <1>6, <1>7, <1>8

LEMMA PartsAreTasks ==
  ASSUME NEW v \in Id, NEW d \in Nat, opts \in Options,
         NEW order \in [1..Len(Values[v].items) -> 1..Len(Values[v].items)]
  PROVE  /\ Opening(v) \in Seq(Task)
         /\ Items(v, d, order) \in Seq(Seq(Task))
         /\ Len(Items(v, d, order)) = Len(Values[v].items)
         /\ FlattenSeq(Items(v, d, order)) \in Seq(Task)
         /\ LastLine(v, d) \in Seq(Task)
         /\ Closing(v) \in Seq(Task)
<1>1. Len(Values[v].items) \in Nat /\ {"{", "}", "[", "]"} \subseteq Lex
  BY ValueType DEF Lex
<1>2. Opening(v) \in Seq(Task) /\ Closing(v) \in Seq(Task)
  BY <1>1, PutIsTask DEF Opening, Closing
<1>3. LastLine(v, d) \in Seq(Task)
  BY LineIsTasks, EmptySeq DEF LastLine
<1>4. Items(v, d, order) \in [1..Len(Values[v].items) -> Seq(Task)]
  BY ItemIsTasks DEF Items
<1>5. /\ Items(v, d, order) \in Seq(Seq(Task))
      /\ Len(Items(v, d, order)) = Len(Values[v].items)
  BY <1>1, <1>4, FunctionIsSeq
<1>6. FlattenSeq(Items(v, d, order)) \in Seq(Task)
  BY <1>5, FlattenType, Zenon
<1> QED BY <1>2, <1>3, <1>5, <1>6, SMTT(30)

LEMMA ContainerIsTasks ==
  ASSUME NEW v \in Id, NEW d \in Nat, opts \in Options,
         NEW order \in [1..Len(Values[v].items) -> 1..Len(Values[v].items)]
  PROVE  ContainerCalls(v, d, order) \in Seq(Task)
<1>1. /\ Opening(v) \in Seq(Task)
      /\ FlattenSeq(Items(v, d, order)) \in Seq(Task)
      /\ LastLine(v, d) \in Seq(Task)
      /\ Closing(v) \in Seq(Task)
  BY PartsAreTasks
<1> QED BY <1>1, ContainerIs, FourParts

LEMMA WholeTextIsTasks ==
  ASSUME NEW v \in Id, NEW options
  PROVE  WholeText(v, options) \in Seq(Task)
<1>1. Write(v, 0) \in Seq(Task)
  BY WriteIsTask
<1>2. Checked(Blank) \in Seq(Task)
  BY PutIsTask DEF Lex
<1> QED BY <1>1, <1>2, ConcatProperties, EmptySeq DEF WholeText

\* Every order the sort can leave is one of the numbers of the items.
LEMMA OrdersType ==
  ASSUME NEW v \in Id, NEW order \in Orders(v)
  PROVE  order \in [1..Len(Values[v].items) -> 1..Len(Values[v].items)]
BY DEF Orders

(***************************************************************************)
(* The values that are still to be written.                                *)
(***************************************************************************)

Pending(s) == {t \in ToSet(s) : t.op = "value"}

LEMMA PendingConcat ==
  ASSUME NEW s \in Seq(Task), NEW t \in Seq(Task)
  PROVE  Pending(s \o t) = Pending(s) \cup Pending(t)
<1>1. ToSet(s \o t) = ToSet(s) \cup ToSet(t)
  BY ConcatMembers
<1> QED BY <1>1 DEF Pending

LEMMA PendingFour ==
  ASSUME NEW s \in Seq(Task), NEW t \in Seq(Task), NEW u \in Seq(Task),
         NEW w \in Seq(Task)
  PROVE  Pending(s \o t \o u \o w)
           = Pending(s) \cup Pending(t) \cup Pending(u) \cup Pending(w)
<1>1. s \o t \in Seq(Task) /\ Pending(s \o t) = Pending(s) \cup Pending(t)
  BY PendingConcat, ConcatProperties
<1>2. /\ (s \o t) \o u \in Seq(Task)
      /\ Pending((s \o t) \o u) = Pending(s \o t) \cup Pending(u)
  BY <1>1, PendingConcat, ConcatProperties
<1>3. Pending(((s \o t) \o u) \o w) = Pending((s \o t) \o u) \cup Pending(w)
  BY <1>2, PendingConcat
<1> QED BY <1>1, <1>2, <1>3

LEMMA PendingOne ==
  ASSUME NEW t
  PROVE  Pending(<<t>>) = IF t.op = "value" THEN {t} ELSE {}
<1>1. ToSet(<<t>>) = {t}
  BY DEF ToSet
<1> QED BY <1>1 DEF Pending

LEMMA PendingNone == Pending(<< >>) = {}
BY DEF Pending, ToSet

LEMMA PendingCall ==
  ASSUME NEW op, op # "value", NEW n, NEW must, NEW lex, NEW of
  PROVE  Pending(<<Call(op, n, must, lex, of)>>) = {}
BY PendingOne DEF Call

LEMMA PendingPut ==
  ASSUME NEW lex
  PROVE  Pending(Checked(lex)) = {} /\ Pending(Unchecked(lex)) = {}
BY PendingCall DEF Checked, Unchecked

LEMMA PendingWrite ==
  ASSUME NEW v, NEW d
  PROVE  \A t : t \in Pending(Write(v, d)) =>
           t.op = "value" /\ t.of = v /\ t.depth = d
<1> DEFINE t == [op |-> "value", n |-> 0, must |-> TRUE, lex |-> Blank,
                 of |-> v, depth |-> d]
<1>1. t.op = "value" /\ t.of = v /\ t.depth = d
  OBVIOUS
<1>2. Write(v, d) = <<t>>
  BY DEF Write
<1> HIDE DEF t
<1>3. Pending(<<t>>) = {t}
  BY <1>1, PendingOne
<1> QED BY <1>1, <1>2, <1>3

LEMMA WritePending ==
  ASSUME NEW v, NEW d
  PROVE  \E t \in Pending(Write(v, d)) : t.of = v /\ t.depth = d
<1> DEFINE t == [op |-> "value", n |-> 0, must |-> TRUE, lex |-> Blank,
                 of |-> v, depth |-> d]
<1>1. t.op = "value" /\ t.of = v /\ t.depth = d
  OBVIOUS
<1>2. Write(v, d) = <<t>>
  BY DEF Write
<1> HIDE DEF t
<1>3. Pending(<<t>>) = {t}
  BY <1>1, PendingOne
<1> QED BY <1>1, <1>2, <1>3

LEMMA PendingLine ==
  ASSUME NEW d \in Nat, opts \in Options
  PROVE  Pending(Line(d)) = {}
<1>1. opts.indent \in Nat /\ Blank \in Lex
  BY LimitsAssumption DEF Lex
<1>2. d * opts.indent \in Nat
  BY <1>1
<1>3. /\ Unchecked(Blank) \in Seq(Task)
      /\ <<Call("indent", d * opts.indent, FALSE, Blank, 0)>> \in Seq(Task)
  BY <1>1, <1>2, PutIsTask, CallIsTask DEF Op
<1>4. /\ Pending(Unchecked(Blank)) = {}
      /\ Pending(<<Call("indent", d * opts.indent, FALSE, Blank, 0)>>) = {}
  BY PendingPut, PendingCall
<1> QED BY <1>3, <1>4, PendingConcat, PendingNone DEF Line

LEMMA PendingScalar ==
  ASSUME NEW v \in Id
  PROVE  Pending(ScalarCalls(v)) = {}
<1>1. /\ Blank \in Lex /\ "s" \in Lex /\ "v" \in Lex
      /\ v \in Nat /\ Values[v].size \in Nat
  BY ValueType DEF Lex
<1>2. /\ Checked(Blank) \in Seq(Task)
      /\ <<Call("content", Values[v].size, TRUE, "s", v)>> \in Seq(Task)
  BY <1>1, PutIsTask, CallIsTask DEF Op
<1> DEFINE content == <<Call("content", Values[v].size, TRUE, "s", v)>>
<1>3. Pending(Checked(Blank)) = {} /\ Pending(content) = {}
  BY PendingPut, PendingCall
<1>4. Pending(StringCalls(v)) = {}
  <2>1. StringCalls(v) = Checked(Blank) \o content \o Checked(Blank)
    BY DEF StringCalls
  <2> HIDE DEF content
  <2>2. /\ Checked(Blank) \o content \in Seq(Task)
        /\ Pending(Checked(Blank) \o content) = {}
    BY <1>2, <1>3, PendingConcat, ConcatProperties DEF content
  <2>3. Pending((Checked(Blank) \o content) \o Checked(Blank)) = {}
    BY <1>2, <1>3, <2>2, PendingConcat
  <2> QED BY <2>1, <2>3
<1>5. ASSUME NEW op \in {"put", "int", "puts"}
      PROVE  Pending(<<Call(op, Values[v].size, TRUE, "v", v)>>) = {}
  BY PendingCall
<1>6. ScalarOp(v) \in {"put", "int", "puts"}
  BY DEF ScalarOp
<1> QED BY <1>4, <1>5, <1>6 DEF ScalarCalls

LEMMA PendingKey ==
  ASSUME NEW k \in Key
  PROVE  Pending(KeyCalls(k)) = {}
<1>1. Blank \in Lex /\ "s" \in Lex /\ ":" \in Lex /\ k \in Nat /\ KeyLength[k] \in Nat
  BY ValuesAssumption DEF Lex, Key
<1> DEFINE content == <<Call("content", KeyLength[k], FALSE, "s", k)>>
           space == IF opts.pretty THEN Unchecked(Blank) ELSE << >>
<1>2. content \in Seq(Task) /\ Pending(content) = {}
  BY <1>1, CallIsTask, PendingCall DEF Op
<1>3. Unchecked(Blank) \in Seq(Task) /\ Unchecked(":") \in Seq(Task)
  BY <1>1, PutIsTask
<1>4. Pending(Unchecked(Blank)) = {} /\ Pending(Unchecked(":")) = {}
  BY PendingPut
<1>5. space \in Seq(Task) /\ Pending(space) = {}
  BY <1>3, <1>4, EmptySeq, PendingNone
<1>6. KeyCalls(k) = Unchecked(Blank) \o content \o Unchecked(Blank) \o Unchecked(":") \o space
  BY DEF KeyCalls
<1> HIDE DEF content, space
<1> DEFINE begin == Unchecked(Blank) \o content \o Unchecked(Blank) \o Unchecked(":")
<1>7. begin \in Seq(Task) /\ Pending(begin) = {}
  BY <1>2, <1>3, <1>4, FourParts, PendingFour
<1>8. KeyCalls(k) = begin \o space
  BY <1>6
<1> HIDE DEF begin
<1> QED BY <1>5, <1>7, <1>8, PendingConcat

LEMMA PendingItem ==
  ASSUME NEW v \in Id, NEW d \in Nat, opts \in Options,
         NEW order \in [1..Len(Values[v].items) -> 1..Len(Values[v].items)],
         NEW i \in 1..Len(Values[v].items)
  PROVE  Pending(ItemCalls(v, d, order, i))
           = Pending(Write(Values[v].items[order[i]].val, d + 1))
<1>1. PICK j \in 1..Len(Values[v].items) : j = order[i]
  OBVIOUS
<1>2. Values[v].type = "object" => Values[v].items[order[i]].key \in Key
  BY <1>1, ItemType
<1>3. Pending(Line(d + 1)) = {}
  BY PendingLine
<1>4. Pending(KeyPart(v, order, i)) = {}
  BY <1>2, PendingKey, PendingNone DEF KeyPart
<1>5. Pending(Comma(v, i)) = {}
  BY PendingPut, PendingNone DEF Comma
<1>6. Pending(ItemCalls(v, d, order, i))
        = Pending(Line(d + 1)) \cup Pending(KeyPart(v, order, i))
            \cup Pending(Write(Values[v].items[order[i]].val, d + 1))
            \cup Pending(Comma(v, i))
  <2> DEFINE a == Line(d + 1)
             b == KeyPart(v, order, i)
             c == Write(Values[v].items[order[i]].val, d + 1)
             e == Comma(v, i)
  <2>1. ItemCalls(v, d, order, i) = a \o b \o c \o e
    BY DEF ItemCalls
  <2>2. a \in Seq(Task) /\ b \in Seq(Task) /\ c \in Seq(Task) /\ e \in Seq(Task)
    BY ItemIsTasks
  <2> HIDE DEF a, b, c, e
  <2>3. Pending(ItemCalls(v, d, order, i))
          = Pending(a) \cup Pending(b) \cup Pending(c) \cup Pending(e)
    BY <2>1, <2>2, PendingFour
  <2> QED BY <2>3 DEF a, b, c, e
<1> QED BY <1>3, <1>4, <1>5, <1>6

LEMMA PendingContainer ==
  ASSUME NEW v \in Id, NEW d \in Nat, opts \in Options,
         NEW order \in [1..Len(Values[v].items) -> 1..Len(Values[v].items)]
  PROVE  \A t : t \in Pending(ContainerCalls(v, d, order)) <=>
           \E i \in 1..Len(Values[v].items) :
             t \in Pending(Write(Values[v].items[order[i]].val, d + 1))
<1> DEFINE items == Items(v, d, order)
<1>1. /\ Opening(v) \in Seq(Task)
      /\ items \in Seq(Seq(Task))
      /\ Len(items) = Len(Values[v].items)
      /\ FlattenSeq(items) \in Seq(Task)
      /\ LastLine(v, d) \in Seq(Task)
      /\ Closing(v) \in Seq(Task)
  BY PartsAreTasks
<1>2. Pending(Opening(v)) = {} /\ Pending(LastLine(v, d)) = {} /\ Pending(Closing(v)) = {}
  BY PendingPut, PendingLine, PendingNone DEF Opening, LastLine, Closing
<1>3. Pending(ContainerCalls(v, d, order)) = Pending(FlattenSeq(items))
  <2>1. Pending(ContainerCalls(v, d, order))
          = Pending(Opening(v)) \cup Pending(FlattenSeq(items))
              \cup Pending(LastLine(v, d)) \cup Pending(Closing(v))
    <3> DEFINE a == Opening(v)
               b == FlattenSeq(items)
               c == LastLine(v, d)
               e == Closing(v)
    <3>1. ContainerCalls(v, d, order) = a \o b \o c \o e
      BY ContainerIs
    <3>2. a \in Seq(Task) /\ b \in Seq(Task) /\ c \in Seq(Task) /\ e \in Seq(Task)
      BY <1>1
    <3> HIDE DEF a, b, c, e
    <3>3. Pending(ContainerCalls(v, d, order))
            = Pending(a) \cup Pending(b) \cup Pending(c) \cup Pending(e)
      BY <3>1, <3>2, PendingFour
    <3> QED BY <3>3 DEF a, b, c, e
  <2> QED BY <1>2, <2>1
<1>4. ToSet(FlattenSeq(items)) = UNION {ToSet(items[i]) : i \in 1..Len(items)}
  BY <1>1, FlattenMembers
<1>5. \A t : t \in ToSet(FlattenSeq(items)) <=> \E i \in 1..Len(items) : t \in ToSet(items[i])
  <2> HIDE DEF items
  <2> QED BY <1>4
<1>6. \A t : t \in Pending(FlattenSeq(items)) <=>
               \E i \in 1..Len(items) : t \in Pending(items[i])
  <2> HIDE DEF items
  <2> QED BY <1>5 DEF Pending
<1>7. \A i \in 1..Len(Values[v].items) :
        Pending(items[i]) = Pending(Write(Values[v].items[order[i]].val, d + 1))
  BY PendingItem DEF Items
<1> HIDE DEF items
<1> QED BY <1>1, <1>3, <1>6, <1>7

\* The orders leave no item out.
LEMMA OrdersOnto ==
  ASSUME NEW v \in Id, NEW order \in Orders(v), NEW j \in 1..Len(Values[v].items)
  PROVE  \E i \in 1..Len(Values[v].items) : order[i] = j
<1> DEFINE n == Len(Values[v].items)
<1>1. n \in Nat
  BY ValueType
<1>2. order \in [1..n -> 1..n]
  BY OrdersType
<1>3. \A i, k \in 1..n : i # k => order[i] # order[k]
  BY <1>2 DEF Orders, IsPermutation
<1> HIDE DEF n
<1>4. order \in Injection(1..n, 1..n)
  BY <1>2, <1>3 DEF Injection, IsInjective
<1>5. IsFiniteSet(1..n)
  BY <1>1, FS_Interval
<1>6. order \in Surjection(1..n, 1..n)
  BY <1>4, <1>5, FS_Injection
<1>7. j \in 1..n
  BY DEF n
<1>8. \E i \in 1..n : order[i] = j
  BY <1>6, <1>7 DEF Surjection
<1> QED BY <1>8 DEF n

(***************************************************************************)
(* Depths: Deep is well defined.                                           *)
(***************************************************************************)

\* Some value one level below v is in g.
Over(g, v) ==
  /\ Values[v].type \in {"array", "object"}
  /\ \E i \in 1..Len(Values[v].items) : g[Values[v].items[i].val]

LEMMA DeepSolvable ==
  \E f : f = [k \in 0..MaxDepth |-> [v \in Id |-> k = 0 \/ Over(f[k - 1], v)]]
<1> DEFINE S == [Id -> BOOLEAN]
           x == [v \in Id |-> TRUE]
           step == [k \in 1..MaxDepth |-> [g \in S |-> [v \in Id |-> Over(g, v)]]]
<1>1. MaxDepth \in Nat
  BY LimitsAssumption
<1>2. x \in S
  OBVIOUS
<1>3. \A g : [v \in Id |-> Over(g, v)] \in S
  BY Zenon DEF Over
<1>4. step \in [1..MaxDepth -> [S -> S]]
  <2>1. \A k \in 1..MaxDepth : [g \in S |-> [v \in Id |-> Over(g, v)]] \in [S -> S]
    <3> HIDE DEF S
    <3> QED BY <1>3
  <2> HIDE DEF S
  <2> QED BY <2>1
<1>5. \A k \in 1..MaxDepth : \A g \in S : step[k][g] = [v \in Id |-> Over(g, v)]
  <2> HIDE DEF S
  <2> QED OBVIOUS
<1> HIDE DEF S, step, x
<1>6. PICK f : Iterates(f, MaxDepth, S, x, step)
  BY <1>1, <1>2, <1>4, IterationExists
<1>7. f \in [0..MaxDepth -> S] /\ f[0] = x
      /\ \A k \in 1..MaxDepth : f[k] = step[k][f[k - 1]]
  BY <1>6 DEF Iterates
<1>8. ASSUME NEW k \in 0..MaxDepth
      PROVE  f[k] = [v \in Id |-> k = 0 \/ Over(f[k - 1], v)]
  <2>1. CASE k = 0
    <3>1. f[k] = [v \in Id |-> TRUE]
      BY <1>7, <2>1 DEF x
    <3>2. [v \in Id |-> k = 0 \/ Over(f[k - 1], v)] = [v \in Id |-> TRUE]
      BY <2>1, Zenon
    <3> QED BY <3>1, <3>2, Zenon
  <2>2. CASE k # 0
    <3>1. k \in 1..MaxDepth /\ k - 1 \in 0..MaxDepth
      BY <1>1, <2>2
    <3>2. PICK g \in S : g = f[k - 1]
      BY <1>7, <3>1
    <3>3. f[k] = [v \in Id |-> Over(g, v)]
      BY <1>5, <1>7, <3>1, <3>2
    <3>4. [v \in Id |-> k = 0 \/ Over(g, v)] = [v \in Id |-> Over(g, v)]
      BY <2>2, Zenon DEF Over
    <3> QED BY <3>2, <3>3, <3>4, Zenon
  <2> QED BY <2>1, <2>2
<1>9. f = [k \in 0..MaxDepth |-> [v \in Id |-> k = 0 \/ Over(f[k - 1], v)]]
  BY <1>7, <1>8
<1> QED BY <1>9

LEMMA DeepIs ==
  Deep = [k \in 0..MaxDepth |-> [v \in Id |-> k = 0 \/ Over(Deep[k - 1], v)]]
<1> DEFINE d == CHOOSE f : f = [k \in 0..MaxDepth |-> [v \in Id |-> k = 0 \/ Over(f[k - 1], v)]]
<1>1. Deep = d
  BY Zenon DEF Deep, Over
<1>2. d = [k \in 0..MaxDepth |-> [v \in Id |-> k = 0 \/ Over(d[k - 1], v)]]
  BY DeepSolvable, Zenon
<1> QED BY <1>1, <1>2, Zenon

\* Every value lies 0 levels below itself, and k levels below v whatever lies
\* k - 1 levels below a part of v.
LEMMA DeepValue ==
  ASSUME NEW k \in 0..MaxDepth, NEW v \in Id
  PROVE  /\ k = 0 => Deep[k][v]
         /\ k # 0 => (Deep[k][v] <=> Over(Deep[k - 1], v))
<1>1. Deep[k] = [w \in Id |-> k = 0 \/ Over(Deep[k - 1], w)]
  BY DeepIs, Zenon
<1>2. Deep[k][v] = (k = 0 \/ Over(Deep[k - 1], v))
  BY <1>1, Zenon
<1> QED BY <1>2, Zenon

(***************************************************************************)
(* The steps.                                                              *)
(***************************************************************************)

LEMMA WriterInvInit == Init => WriterInv
<1> SUFFICES ASSUME Init PROVE WriterInv
  OBVIOUS
<1>1. root \in Id
  BY ValuesAssumption DEF Init
<1>2. todo \in Seq(Task)
  BY <1>1, WholeTextIsTasks DEF Init
<1> QED BY <1>1, <1>2 DEF Init, WriterInv, RoomInv

\* The call that is next, and what is left after it.
LEMMA HeadIsTask ==
  ASSUME WriterInv, todo # << >>
  PROVE  head \in Task /\ Tail(todo) \in Seq(Task)
BY HeadTailProperties DEF WriterInv, head

LEMMA CallSize ==
  ASSUME WriterInv, NEW ops, At(ops)
  PROVE  head.n \in Nat /\ head.depth \in Nat
BY HeadIsTask DEF At, Task, Tasks

LEMMA ValueHead ==
  ASSUME WriterInv, At({"value"})
  PROVE  head.of \in Id
BY HeadIsTask DEF At, Task

\* While a call runs, the bytes it may still append are those before the one
\* of the NUL.
LEMMA RoomLeft ==
  ASSUME WriterInv, Running, NEW n \in Nat, n <= Room
  PROVE  /\ used + n \in Nat
         /\ ~measure_only => used + n < cap \/ (cap = 0 /\ used + n = 0)
BY LimitsAssumption DEF WriterInv, RoomInv, Running, Room, measure_only

\* A call that returns leaves the writer as it was, and json_measure tells.
LEMMA ReturnKeeps ==
  ASSUME WriterInv, Running, NEW code, Return(code),
         root' = root, opts' = opts, cap' = cap, used' \in Nat,
         ~measure_only => used' < cap \/ (cap = 0 /\ used' = 0)
  PROVE  WriterInv'
<1>1. /\ phase' = "measured" \/ phase' = "done"
      /\ measure_only => phase' = "measured"
      /\ ~measure_only => phase' = "done"
  BY DEF Return, measure_only
<1>2. measured'.size \in Nat
  BY DEF Return, measure_only, WriterInv
<1>3. todo' \in Seq(Task)
  BY EmptySeq DEF Return
<1>4. RoomInv'
  BY <1>1 DEF RoomInv, WriterInv, Running, measure_only
<1> QED BY <1>1, <1>2, <1>3, <1>4 DEF WriterInv

\* A call whose result is OK, or is ignored: the next one is next.
LEMMA ProceedKeeps ==
  ASSUME WriterInv, Running, todo # << >>, Proceed,
         root' = root, opts' = opts, cap' = cap, used' \in Nat,
         ~measure_only => used' < cap \/ (cap = 0 /\ used' = 0)
  PROVE  WriterInv'
<1>1. todo' \in Seq(Task)
  BY HeadIsTask DEF Proceed
<1>2. RoomInv'
  BY DEF RoomInv, WriterInv, Running, measure_only, Proceed
<1> QED BY <1>1, <1>2 DEF WriterInv, Proceed

\* A value that is begun: its calls come before what was left to do.
LEMMA ExpandKeeps ==
  ASSUME WriterInv, todo # << >>, NEW calls \in Seq(Task),
         todo' = calls \o Tail(todo),
         UNCHANGED <<root, opts, phase, cap, used, err, text, result, measured>>
  PROVE  WriterInv'
<1>1. todo' \in Seq(Task)
  BY HeadIsTask, ConcatProperties
<1> QED BY <1>1 DEF WriterInv, RoomInv

LEMMA CallFitsKeeps ==
  ASSUME WriterInv, CallFits
  PROVE  WriterInv'
<1>1. head.n \in Nat
  BY CallSize DEF CallFits
<1>2. /\ Running /\ todo # << >> /\ root' = root /\ opts' = opts /\ cap' = cap
      /\ used' = used + head.n /\ head.n <= Room
  BY DEF CallFits, At
<1>3. /\ used' \in Nat
      /\ ~measure_only => used' < cap \/ (cap = 0 /\ used' = 0)
  BY <1>1, <1>2, RoomLeft
<1>4. Return(err) \/ Proceed
  BY DEF CallFits
<1> QED BY <1>2, <1>3, <1>4, ReturnKeeps, ProceedKeeps

\* A call that does not fit fills the buffer, up to the byte of the NUL, or
\* appends nothing.
LEMMA CallFailsKeeps ==
  ASSUME WriterInv, CallFails
  PROVE  WriterInv'
<1>1. /\ Running /\ todo # << >> /\ root' = root /\ opts' = opts /\ cap' = cap
      /\ used' = used + Partial(head)
  BY DEF CallFails, At
<1>2. ~measure_only => Room \in Nat
  BY <1>1 DEF WriterInv, RoomInv, Running, Room, measure_only
<1>3. Partial(head) = 0 \/ Partial(head) = Room
  BY DEF Partial
<1>4. /\ used' \in Nat
      /\ ~measure_only => used' < cap \/ (cap = 0 /\ used' = 0)
  <2>1. CASE measure_only
    BY <1>1, <1>3, <2>1, LimitsAssumption DEF Room, WriterInv
  <2>2. CASE ~measure_only
    <3>1. Partial(head) \in Nat /\ Partial(head) <= Room
      BY <1>2, <1>3, <2>2
    <3> QED BY <1>1, <2>2, <3>1, RoomLeft
  <2> QED BY <2>1, <2>2
<1>5. Return(ReturnOf(head)) \/ Proceed
  BY DEF CallFails
<1> QED BY <1>1, <1>4, <1>5, ReturnKeeps, ProceedKeeps

\* The other ends of a call append nothing.
LEMMA EndKeeps ==
  ASSUME WriterInv, TooDeep \/ SortRefused \/ Finish
  PROVE  WriterInv'
<1>1. /\ Running /\ root' = root /\ opts' = opts /\ cap' = cap /\ used' = used
      /\ \E code : Return(code)
  BY DEF TooDeep, SortRefused, Finish, At
<1>2. /\ used' \in Nat
      /\ ~measure_only => used' < cap \/ (cap = 0 /\ used' = 0)
  BY <1>1 DEF WriterInv, RoomInv, Running, measure_only
<1> QED BY <1>1, <1>2, ReturnKeeps

LEMMA ValueKeeps ==
  ASSUME WriterInv, WriteScalar \/ WriteContainer
  PROVE  WriterInv'
<1>1. /\ At({"value"}) /\ todo # << >>
      /\ UNCHANGED <<root, opts, phase, cap, used, err, text, result, measured>>
  BY DEF WriteScalar, WriteContainer, At
<1>2. head.of \in Id /\ head.depth \in Nat /\ opts \in Options
  BY <1>1, ValueHead, CallSize DEF WriterInv
<1>3. CASE WriteScalar
  <2>1. ScalarCalls(head.of) \in Seq(Task)
    BY <1>2, ScalarIsTasks
  <2> QED BY <1>1, <1>3, <2>1, ExpandKeeps DEF WriteScalar
<1>4. CASE WriteContainer
  <2>1. PICK order \in Orders(head.of) :
          todo' = ContainerCalls(head.of, head.depth, order) \o Tail(todo)
    BY <1>4 DEF WriteContainer
  <2>2. ContainerCalls(head.of, head.depth, order) \in Seq(Task)
    BY <1>2, OrdersType, ContainerIsTasks
  <2> QED BY <1>1, <2>1, <2>2, ExpandKeeps
<1> QED BY <1>3, <1>4

LEMMA StartKeeps ==
  ASSUME WriterInv, NEW buf_size \in Nat, StartWrite(buf_size)
  PROVE  WriterInv'
<1>1. todo' \in Seq(Task)
  BY WholeTextIsTasks DEF StartWrite, WriterInv
<1> QED BY <1>1 DEF StartWrite, WriterInv, RoomInv

LEMMA WriterInvNext == WriterInv /\ [Next]_vars => WriterInv'
<1> SUFFICES ASSUME WriterInv, [Next]_vars PROVE WriterInv'
  OBVIOUS
<1>1. CASE Work
  BY <1>1, CallFitsKeeps, CallFailsKeeps, EndKeeps, ValueKeeps DEF Work
<1>2. CASE JsonWrite
  <2>1. Capacities \subseteq Nat
    BY LimitsAssumption DEF Size
  <2> QED BY <1>2, <2>1, StartKeeps DEF JsonWrite
<1>3. CASE JsonWriteArena
  <2>1. measured.size + 1 \in Nat
    BY DEF WriterInv
  <2> QED BY <1>3, <2>1, StartKeeps DEF JsonWriteArena
<1>4. CASE JsonWriteArenaFails
  BY <1>4 DEF JsonWriteArenaFails, WriterInv, RoomInv
<1>5. CASE UNCHANGED vars
  BY <1>5 DEF vars, WriterInv, RoomInv
<1> QED BY <1>1, <1>2, <1>3, <1>4, <1>5 DEF Next

\* The inductive invariant holds in every reachable state.
THEOREM WriterInvariant == Spec => []WriterInv
<1> QED BY WriterInvInit, WriterInvNext, PTL DEF Spec

\* json_write, over any buffer and whatever fails on the way, writes no byte
\* past the last but one and leaves the last for the NUL.
THEOREM StaysWithinBuffer == Spec => []WithinBuffer
<1>1. WriterInv => WithinBuffer
  BY DEF WriterInv, RoomInv, WithinBuffer
<1> QED BY <1>1, WriterInvariant, PTL

(***************************************************************************)
(* Depths.  While a call runs, a value that is too deep is one of those    *)
(* still to be written, or below one; and what is below them is below the  *)
(* root.                                                                   *)
(***************************************************************************)

Errors == {"OK", "OVERFLOW", "BUFFER_TOO_SMALL"}

DepthInv ==
  /\ err \in Errors
  /\ \A t \in Pending(todo) :
       /\ t.depth <= MaxDepth
       /\ Deep[MaxDepth - t.depth][t.of] => TooDeepValue
  /\ Running /\ TooDeepValue =>
       \E t \in Pending(todo) : Deep[MaxDepth - t.depth][t.of]
  /\ DepthTruthful

LEMMA PendingTask ==
  ASSUME NEW s \in Seq(Task), NEW t \in Pending(s)
  PROVE  t \in Task /\ t.op = "value" /\ t.of \in Id /\ t.depth \in Nat
<1>1. t \in Task /\ t.op = "value"
  BY DEF Pending, ToSet
<1> QED BY <1>1 DEF Task, Tasks

LEMMA PendingHead ==
  ASSUME WriterInv, todo # << >>
  PROVE  Pending(todo) = Pending(<<head>>) \cup Pending(Tail(todo))
<1>1. todo \in Seq(Task) /\ head \in Task /\ Tail(todo) \in Seq(Task)
  BY HeadIsTask DEF WriterInv
<1>2. PICK h \in Task, r \in Seq(Task) : h = head /\ r = Tail(todo)
  BY <1>1
<1>3. todo = <<h>> \o r
  BY <1>1, <1>2 DEF head
<1>4. Pending(<<h>> \o r) = Pending(<<h>>) \cup Pending(r)
  <2>1. <<h>> \in Seq(Task)
    OBVIOUS
  <2> QED BY <2>1, PendingConcat
<1> QED BY <1>2, <1>3, <1>4, Zenon

LEMMA PendingWholeText ==
  ASSUME NEW v \in Id, NEW options
  PROVE  Pending(WholeText(v, options)) = Pending(Write(v, 0))
<1>1. Write(v, 0) \in Seq(Task) /\ Checked(Blank) \in Seq(Task) /\ << >> \in Seq(Task)
  BY WriteIsTask, PutIsTask, EmptySeq DEF Lex
<1>2. Pending(Checked(Blank)) = {} /\ Pending(<< >>) = {}
  BY PendingPut, PendingNone
<1>3. ASSUME NEW end \in Seq(Task), Pending(end) = {}
      PROVE  Pending(Write(v, 0) \o end) = Pending(Write(v, 0))
  <2>1. Pending(Write(v, 0) \o end) = Pending(Write(v, 0)) \cup Pending(end)
    BY <1>1, PendingConcat, Zenon
  <2> QED BY <1>3, <2>1
<1>4. PICK end \in Seq(Task) : end = IF options.trailing_nl THEN Checked(Blank) ELSE << >>
  BY <1>1
<1>5. Pending(end) = {} /\ WholeText(v, options) = Write(v, 0) \o end
  BY <1>2, <1>4 DEF WholeText
<1> QED BY <1>3, <1>5

\* The root, when a call begins.
LEMMA RootPending ==
  ASSUME NEW r \in Id, NEW options
  PROVE  /\ \A t \in Pending(WholeText(r, options)) : t.of = r /\ t.depth = 0
         /\ \E t \in Pending(WholeText(r, options)) : t.of = r /\ t.depth = 0
BY PendingWholeText, PendingWrite, WritePending

LEMMA DepthBegins ==
  ASSUME NEW r \in Id, NEW options
  PROVE  /\ \A t \in Pending(WholeText(r, options)) :
              /\ t.depth <= MaxDepth
              /\ Deep[MaxDepth - t.depth][t.of] => Deep[MaxDepth][r]
         /\ Deep[MaxDepth][r] =>
              \E t \in Pending(WholeText(r, options)) : Deep[MaxDepth - t.depth][t.of]
<1>1. MaxDepth \in Nat /\ MaxDepth - 0 = MaxDepth
  BY LimitsAssumption
<1>2. ASSUME NEW t \in Pending(WholeText(r, options))
      PROVE  /\ t.depth <= MaxDepth
             /\ Deep[MaxDepth - t.depth][t.of] => Deep[MaxDepth][r]
  <2>1. t.of = r /\ t.depth = 0
    BY RootPending
  <2>2. t.depth <= MaxDepth
    BY <1>1, <2>1
  <2>3. MaxDepth - t.depth = MaxDepth
    BY <1>1, <2>1
  <2> QED BY <2>1, <2>2, <2>3, Zenon
<1>3. ASSUME Deep[MaxDepth][r]
      PROVE  \E t \in Pending(WholeText(r, options)) : Deep[MaxDepth - t.depth][t.of]
  <2>1. PICK t \in Pending(WholeText(r, options)) : t.of = r /\ t.depth = 0
    BY RootPending
  <2>2. MaxDepth - t.depth = MaxDepth
    BY <1>1, <2>1
  <2>3. Deep[MaxDepth - t.depth][t.of]
    BY <1>3, <2>1, <2>2, Zenon
  <2> QED BY <2>3
<1> QED BY <1>2, <1>3

LEMMA DepthInvInit == Init => DepthInv
<1> SUFFICES ASSUME Init PROVE DepthInv
  OBVIOUS
<1>1. root \in Id /\ todo = WholeText(root, opts)
  BY ValuesAssumption DEF Init
<1>2. /\ \A t \in Pending(todo) :
           /\ t.depth <= MaxDepth
           /\ Deep[MaxDepth - t.depth][t.of] => TooDeepValue
      /\ TooDeepValue => \E t \in Pending(todo) : Deep[MaxDepth - t.depth][t.of]
  BY <1>1, DepthBegins, Zenon DEF TooDeepValue
<1>3. err \in Errors
  BY DEF Init, Errors
<1>4. DepthTruthful
  BY DEF Init, DepthTruthful
<1> QED BY <1>2, <1>3, <1>4, Zenon DEF DepthInv

\* A call that returns, with a code that tells the truth about depths.
LEMMA DepthReturn ==
  ASSUME DepthInv, Running, NEW code, Return(code), root' = root, err' \in Errors,
         code = "DEPTH_EXCEEDED" => TooDeepValue,
         code = "OK" => ~TooDeepValue
  PROVE  DepthInv'
<1>1. TooDeepValue' <=> TooDeepValue
  BY DEF TooDeepValue
<1>2. /\ todo' = << >> /\ result' = code
      /\ phase' = IF measure_only THEN "measured" ELSE "done"
      /\ measured'.result = IF measure_only THEN code ELSE measured.result
  BY DEF Return
<1>3. Pending(todo)' = {}
  BY <1>2, PendingNone DEF Pending
<1>4. ~Running'
  BY <1>2 DEF Running
<1>5. DepthTruthful'
  <2>1. phase' # "measure"
    BY <1>2
  <2>2. /\ measured'.result = "DEPTH_EXCEEDED" => TooDeepValue
        /\ TooDeepValue => measured'.result # "OK"
    <3>1. CASE measure_only
      BY <1>2, <3>1
    <3>2. CASE ~measure_only
      BY <1>2, <3>2 DEF DepthInv, DepthTruthful, measure_only
    <3> QED BY <3>1, <3>2
  <2> QED BY <1>1, <1>2, <2>1, <2>2 DEF DepthTruthful
<1> QED BY <1>3, <1>4, <1>5 DEF DepthInv

\* A step inside a call.
LEMMA DepthProceed ==
  ASSUME DepthInv, Running, root' = root, err' \in Errors,
         phase' = phase, result' = result, measured' = measured,
         \A t \in Pending(todo') :
            /\ t.depth <= MaxDepth
            /\ Deep[MaxDepth - t.depth][t.of] => TooDeepValue,
         (\E t \in Pending(todo) : Deep[MaxDepth - t.depth][t.of]) =>
            \E t \in Pending(todo') : Deep[MaxDepth - t.depth][t.of]
  PROVE  DepthInv'
<1>1. TooDeepValue' <=> TooDeepValue
  BY DEF TooDeepValue
<1>2. DepthTruthful'
  BY <1>1 DEF DepthInv, DepthTruthful
<1>3. \A t \in Pending(todo') :
        /\ t.depth <= MaxDepth
        /\ Deep[MaxDepth - t.depth][t.of] => TooDeepValue'
  BY <1>1
<1>4. Running' /\ TooDeepValue' =>
        \E t \in Pending(todo') : Deep[MaxDepth - t.depth][t.of]
  BY <1>1, Zenon DEF DepthInv
<1> QED BY <1>2, <1>3, <1>4, Zenon DEF DepthInv

LEMMA DepthCall ==
  ASSUME WriterInv, DepthInv, CallFits \/ CallFails
  PROVE  DepthInv'
<1>1. /\ Running /\ todo # << >> /\ root' = root /\ head.op # "value"
  BY DEF CallFits, CallFails, At
<1>2. err' \in Errors
  BY DEF CallFits, CallFails, DepthInv, ErrorOf, Errors
<1>3. CASE Proceed
  <2>1. Pending(todo') = Pending(todo)
    <3>1. Pending(<<head>>) = {}
      BY <1>1, PendingOne
    <3>2. todo' = Tail(todo)
      BY <1>3 DEF Proceed
    <3> QED BY <1>1, <3>1, <3>2, PendingHead
  <2>2. phase' = phase /\ result' = result /\ measured' = measured
    BY <1>3 DEF Proceed
  <2>3. \A t \in Pending(todo') :
          /\ t.depth <= MaxDepth
          /\ Deep[MaxDepth - t.depth][t.of] => TooDeepValue
    BY <2>1, Zenon DEF DepthInv
  <2>4. (\E t \in Pending(todo) : Deep[MaxDepth - t.depth][t.of]) =>
            \E t \in Pending(todo') : Deep[MaxDepth - t.depth][t.of]
    BY <2>1, Zenon
  <2> QED BY <1>1, <1>2, <2>2, <2>3, <2>4, DepthProceed
<1>4. ASSUME ~Proceed PROVE DepthInv'
  <2>1. \E code \in {"OVERFLOW", "BUFFER_TOO_SMALL"} : Return(code)
    BY <1>4 DEF CallFits, CallFails, DepthInv, ReturnOf, ErrorOf, Errors
  <2>2. PICK code \in {"OVERFLOW", "BUFFER_TOO_SMALL"} : Return(code)
    BY <2>1
  <2>3. code # "DEPTH_EXCEEDED" /\ code # "OK"
    OBVIOUS
  <2> QED BY <1>1, <1>2, <2>2, <2>3, DepthReturn
<1> QED BY <1>3, <1>4

\* What the value that is next says, and what the others do.
LEMMA DepthHead ==
  ASSUME WriterInv, DepthInv, At({"value"})
  PROVE  /\ Running /\ todo # << >> /\ head \in Pending(todo)
         /\ head.of \in Id /\ head.depth \in Nat /\ head.depth <= MaxDepth
         /\ Deep[MaxDepth - head.depth][head.of] => TooDeepValue
         /\ Pending(todo) = {head} \cup Pending(Tail(todo))
<1>1. Running /\ todo # << >> /\ head.op = "value"
  BY DEF At
<1>2. Pending(todo) = {head} \cup Pending(Tail(todo))
  BY <1>1, PendingHead, PendingOne
<1>3. head \in Pending(todo)
  BY <1>2
<1>4. /\ head.depth <= MaxDepth
      /\ Deep[MaxDepth - head.depth][head.of] => TooDeepValue
  BY <1>3, Zenon DEF DepthInv
<1>5. head.of \in Id /\ head.depth \in Nat
  BY ValueHead, CallSize
<1> QED BY <1>1, <1>2, <1>3, <1>4, <1>5

LEMMA DepthTooDeep ==
  ASSUME WriterInv, DepthInv, TooDeep
  PROVE  DepthInv' /\ TooDeepValue
<1>1. /\ At({"value"}) /\ head.depth >= MaxDepth /\ root' = root /\ err' = err
      /\ Return("DEPTH_EXCEEDED")
  BY DEF TooDeep
<1>2. MaxDepth \in Nat
  BY LimitsAssumption
<1>3. MaxDepth - head.depth = 0 /\ 0 \in 0..MaxDepth
  BY <1>1, <1>2, DepthHead
<1>4. Deep[0][head.of]
  BY <1>1, <1>3, DepthHead, DeepValue
<1>5. TooDeepValue
  BY <1>1, <1>3, <1>4, DepthHead, Zenon
<1>6. err' \in Errors /\ Running
  BY <1>1 DEF DepthInv, At
<1>7. DepthInv'
  BY <1>1, <1>5, <1>6, DepthReturn
<1> QED BY <1>5, <1>7

LEMMA DepthEnd ==
  ASSUME WriterInv, DepthInv, SortRefused \/ Finish
  PROVE  DepthInv'
<1>1. Running /\ root' = root /\ err' \in Errors
  BY DEF SortRefused, Finish, At, DepthInv
<1>2. CASE SortRefused
  <2>1. Return("OOM")
    BY <1>2 DEF SortRefused
  <2> QED BY <1>1, <2>1, DepthReturn
<1>3. CASE Finish
  <2>1. todo = << >>
    BY <1>3 DEF Finish
  <2>2. Pending(todo) = {}
    BY <2>1, PendingNone
  <2>3. ~TooDeepValue
    BY <1>1, <2>2 DEF DepthInv
  <2>4. \E code \in {"OK", "BUFFER_TOO_SMALL"} : Return(code)
    BY <1>3 DEF Finish
  <2>5. PICK code \in {"OK", "BUFFER_TOO_SMALL"} : Return(code)
    BY <2>4
  <2> QED BY <1>1, <2>3, <2>5, DepthReturn
<1> QED BY <1>2, <1>3

\* A value that is begun gives way to its parts.
LEMMA DepthExpand ==
  ASSUME WriterInv, DepthInv, At({"value"}), head.depth < MaxDepth,
         NEW calls \in Seq(Task), todo' = calls \o Tail(todo),
         UNCHANGED <<root, opts, phase, cap, used, err, text, result, measured>>,
         \A t \in Pending(calls) :
            /\ t.depth <= MaxDepth
            /\ Deep[MaxDepth - t.depth][t.of] => Deep[MaxDepth - head.depth][head.of],
         Deep[MaxDepth - head.depth][head.of] =>
            \E t \in Pending(calls) : Deep[MaxDepth - t.depth][t.of]
  PROVE  DepthInv'
<1>1. Tail(todo) \in Seq(Task) /\ Running
  BY HeadIsTask DEF At
<1>2. Pending(todo') = Pending(calls) \cup Pending(Tail(todo))
  BY <1>1, PendingConcat
<1>3. Pending(todo) = {head} \cup Pending(Tail(todo))
  BY DepthHead
<1>4. Deep[MaxDepth - head.depth][head.of] => TooDeepValue
  BY DepthHead
<1>5. ASSUME NEW t \in Pending(todo')
      PROVE  /\ t.depth <= MaxDepth
             /\ Deep[MaxDepth - t.depth][t.of] => TooDeepValue
  <2>1. CASE t \in Pending(calls)
    BY <1>4, <2>1, Zenon
  <2>2. CASE t \in Pending(Tail(todo))
    BY <1>3, <2>2, Zenon DEF DepthInv
  <2> QED BY <1>2, <2>1, <2>2
<1>6. ASSUME NEW t \in Pending(todo), Deep[MaxDepth - t.depth][t.of]
      PROVE  \E u \in Pending(todo') : Deep[MaxDepth - u.depth][u.of]
  <2>1. CASE t = head
    <3>1. PICK u \in Pending(calls) : Deep[MaxDepth - u.depth][u.of]
      BY <1>6, <2>1, Zenon
    <3>2. u \in Pending(todo')
      BY <1>2, <3>1
    <3> QED BY <3>1, <3>2, Zenon
  <2>2. CASE t \in Pending(Tail(todo))
    <3>1. t \in Pending(todo')
      BY <1>2, <2>2
    <3> QED BY <1>6, <3>1, Zenon
  <2> QED BY <1>3, <2>1, <2>2
<1>7. err' \in Errors
  BY DEF DepthInv
<1> QED BY <1>1, <1>5, <1>6, <1>7, DepthProceed

LEMMA DepthScalar ==
  ASSUME WriterInv, DepthInv, WriteScalar
  PROVE  DepthInv'
<1>1. /\ At({"value"}) /\ head.depth < MaxDepth
      /\ Values[head.of].type \notin {"array", "object"}
      /\ todo' = ScalarCalls(head.of) \o Tail(todo)
      /\ UNCHANGED <<root, opts, phase, cap, used, err, text, result, measured>>
  BY DEF WriteScalar
<1>2. head.of \in Id /\ head.depth \in Nat
  BY <1>1, DepthHead
<1>3. ScalarCalls(head.of) \in Seq(Task) /\ Pending(ScalarCalls(head.of)) = {}
  BY <1>2, ScalarIsTasks, PendingScalar
<1>4. PICK k \in 0..MaxDepth : k = MaxDepth - head.depth /\ k # 0
  BY <1>1, <1>2, LimitsAssumption
<1>5. ~Deep[k][head.of]
  BY <1>1, <1>2, <1>4, DeepValue DEF Over
<1>6. ~Deep[MaxDepth - head.depth][head.of]
  BY <1>4, <1>5, Zenon
<1> QED BY <1>1, <1>3, <1>6, DepthExpand

LEMMA DepthContainer ==
  ASSUME WriterInv, DepthInv, WriteContainer
  PROVE  DepthInv'
<1>1. /\ At({"value"}) /\ head.depth < MaxDepth
      /\ Values[head.of].type \in {"array", "object"}
      /\ UNCHANGED <<root, opts, phase, cap, used, err, text, result, measured>>
  BY DEF WriteContainer
<1>2. PICK order \in Orders(head.of) :
        todo' = ContainerCalls(head.of, head.depth, order) \o Tail(todo)
  BY DEF WriteContainer
<1>3. PICK v \in Id, d \in Nat : v = head.of /\ d = head.depth
  BY <1>1, DepthHead
<1> DEFINE n == Len(Values[v].items)
           calls == ContainerCalls(v, d, order)
<1>4. opts \in Options /\ order \in [1..n -> 1..n]
  BY <1>3, OrdersType DEF WriterInv
<1>5. calls \in Seq(Task)
  BY <1>4, ContainerIsTasks
<1>6. PICK k \in 0..MaxDepth : /\ k = MaxDepth - d /\ k # 0
                               /\ k - 1 = MaxDepth - (d + 1) /\ d + 1 <= MaxDepth
  BY <1>1, <1>3, LimitsAssumption
<1>7. Deep[k][v] <=> \E j \in 1..n : Deep[k - 1][Values[v].items[j].val]
  <2>1. Deep[k][v] <=> Over(Deep[k - 1], v)
    BY <1>6, DeepValue
  <2>2. Over(Deep[k - 1], v) <=> \E j \in 1..n : Deep[k - 1][Values[v].items[j].val]
    BY <1>1, <1>3, Zenon DEF Over
  <2> QED BY <2>1, <2>2, Zenon
<1>8. \A t : t \in Pending(calls) <=>
        \E i \in 1..n : t \in Pending(Write(Values[v].items[order[i]].val, d + 1))
  BY <1>4, PendingContainer
<1> HIDE DEF n, calls
<1>9. ASSUME NEW t \in Pending(calls)
      PROVE  t.depth <= MaxDepth /\ (Deep[MaxDepth - t.depth][t.of] => Deep[k][v])
  <2>1. PICK i \in 1..n : t \in Pending(Write(Values[v].items[order[i]].val, d + 1))
    BY <1>8
  <2>2. PICK j \in 1..n : j = order[i]
    BY <1>4
  <2>3. t.of = Values[v].items[j].val /\ t.depth = d + 1
    <3>1. t \in Pending(Write(Values[v].items[j].val, d + 1))
      BY <2>1, <2>2, Zenon
    <3> QED BY <3>1, PendingWrite
  <2>4. MaxDepth - t.depth = k - 1 /\ t.depth <= MaxDepth
    BY <1>6, <2>3
  <2> QED BY <1>7, <2>3, <2>4, Zenon
<1>10. ASSUME Deep[k][v]
       PROVE  \E t \in Pending(calls) : Deep[MaxDepth - t.depth][t.of]
  <2>1. PICK j \in 1..n : Deep[k - 1][Values[v].items[j].val]
    BY <1>7, <1>10, Zenon
  <2>2. PICK i \in 1..n : order[i] = j
    BY <1>3, OrdersOnto DEF n
  <2>3. PICK t \in Pending(Write(Values[v].items[order[i]].val, d + 1)) :
          t.of = Values[v].items[order[i]].val /\ t.depth = d + 1
    BY WritePending
  <2>4. t \in Pending(calls)
    BY <1>8, <2>3
  <2>5. MaxDepth - t.depth = k - 1
    BY <1>6, <2>3
  <2>6. Deep[MaxDepth - t.depth][t.of]
    BY <2>1, <2>2, <2>3, <2>5, Zenon
  <2> QED BY <2>4, <2>6
<1>11. todo' = calls \o Tail(todo)
  BY <1>2, <1>3 DEF calls
<1>12. Deep[k][v] <=> Deep[MaxDepth - head.depth][head.of]
  BY <1>3, <1>6, Zenon
<1> QED BY <1>1, <1>5, <1>9, <1>10, <1>11, <1>12, DepthExpand, Zenon

LEMMA DepthStart ==
  ASSUME WriterInv, DepthInv, ~Running, NEW buf_size, StartWrite(buf_size)
  PROVE  DepthInv'
<1>1. /\ phase' = "write" /\ err' = "OK" /\ todo' = WholeText(root, opts)
      /\ UNCHANGED <<root, opts, result, measured>> /\ root \in Id
  BY DEF StartWrite, WriterInv
<1>2. TooDeepValue' <=> TooDeepValue
  BY <1>1 DEF TooDeepValue
<1>3. /\ \A t \in Pending(todo') :
           /\ t.depth <= MaxDepth
           /\ Deep[MaxDepth - t.depth][t.of] => TooDeepValue
      /\ TooDeepValue => \E t \in Pending(todo') : Deep[MaxDepth - t.depth][t.of]
  BY <1>1, DepthBegins, Zenon DEF TooDeepValue
<1>4. DepthTruthful'
  BY <1>1, <1>2 DEF DepthInv, DepthTruthful, Running
<1>5. err' \in Errors
  BY <1>1 DEF Errors
<1>6. /\ \A t \in Pending(todo') :
           /\ t.depth <= MaxDepth
           /\ Deep[MaxDepth - t.depth][t.of] => TooDeepValue'
      /\ TooDeepValue' => \E t \in Pending(todo') : Deep[MaxDepth - t.depth][t.of]
  BY <1>2, <1>3, Zenon
<1> QED BY <1>4, <1>5, <1>6, Zenon DEF DepthInv

LEMMA DepthInvNext == WriterInv /\ DepthInv /\ [Next]_vars => DepthInv'
<1> SUFFICES ASSUME WriterInv, DepthInv, [Next]_vars PROVE DepthInv'
  OBVIOUS
<1>1. CASE Work
  BY <1>1, DepthCall, DepthTooDeep, DepthEnd, DepthScalar, DepthContainer DEF Work
<1>2. CASE JsonWrite \/ JsonWriteArena
  <2>1. ~Running /\ \E buf_size : StartWrite(buf_size)
    BY <1>2 DEF JsonWrite, JsonWriteArena
  <2> QED BY <2>1, DepthStart
<1>3. CASE JsonWriteArenaFails
  <2>1. /\ ~Running /\ phase' = "done" /\ err' = "OK"
        /\ UNCHANGED <<root, opts, todo, measured>>
        /\ \/ result' = measured.result /\ measured.result # "OK"
           \/ result' \in {"OVERFLOW", "OOM"}
    BY <1>3 DEF JsonWriteArenaFails
  <2>2. TooDeepValue' <=> TooDeepValue
    BY <2>1 DEF TooDeepValue
  <2>3. DepthTruthful'
    BY <2>1, <2>2 DEF DepthInv, DepthTruthful, Running
  <2>4. ~Running' /\ err' \in Errors
    BY <2>1 DEF Running, Errors
  <2>5. \A t \in Pending(todo') :
          /\ t.depth <= MaxDepth
          /\ Deep[MaxDepth - t.depth][t.of] => TooDeepValue'
    BY <2>1, <2>2, Zenon DEF DepthInv
  <2> QED BY <2>3, <2>4, <2>5, Zenon DEF DepthInv
<1>4. CASE UNCHANGED vars
  <2>1. TooDeepValue' <=> TooDeepValue
    BY <1>4 DEF vars, TooDeepValue
  <2> QED BY <1>4, <2>1, Zenon DEF vars, DepthInv, DepthTruthful, Running
<1> QED BY <1>1, <1>2, <1>3, <1>4 DEF Next

\* A value is refused for its depth exactly when it is too deep, whatever the
\* options, the buffer and the failures on the way, and also when it contains
\* itself.
THEOREM DepthTruthfulHolds == Spec => []DepthTruthful
<1>1. WriterInv /\ DepthInv => DepthTruthful
  BY DEF DepthInv
<1>2. Init => WriterInv /\ DepthInv
  BY WriterInvInit, DepthInvInit
<1>3. WriterInv /\ DepthInv /\ [Next]_vars => WriterInv' /\ DepthInv'
  BY WriterInvNext, DepthInvNext
<1> QED BY <1>1, <1>2, <1>3, PTL DEF Spec

(***************************************************************************)
(* Bytes.  What a value takes does not depend on the order its items are   *)
(* written in, and what is left to do takes what its tasks take together.  *)
(***************************************************************************)

LineBytes(o, d) == IF o.pretty THEN 1 + d * o.indent ELSE 0
KeyBytes(o, k) == KeyLength[k] + 3 + (IF o.pretty THEN 1 ELSE 0)
ScalarBytes(v) == Values[v].size + (IF Values[v].type = "string" THEN 2 ELSE 0)
CommaBytes(v, i) == IF i < Len(Values[v].items) THEN 1 ELSE 0

\* An item at place j of v, without the comma; g says what the values take.
ItemBytes(o, g, v, d, j) ==
  LineBytes(o, d + 1)
    + (IF Values[v].type = "object" THEN KeyBytes(o, Values[v].items[j].key) ELSE 0)
    + g[Values[v].items[j].val]
LastLineBytes(o, v, d) == IF Len(Values[v].items) > 0 THEN LineBytes(o, d) ELSE 0
ContainerBytes(o, g, v, d) ==
  2 + Total([j \in 1..Len(Values[v].items) |-> ItemBytes(o, g, v, d, j)])
    + Total([i \in 1..Len(Values[v].items) |-> CommaBytes(v, i)])
    + LastLineBytes(o, v, d)
ValueBytes(o, g, v, d) ==
  IF Values[v].type \in {"array", "object"} THEN ContainerBytes(o, g, v, d)
                                            ELSE ScalarBytes(v)

\* What the values take k levels above JSON_MAX_DEPTH, one level after another.
NextBytes(o) ==
  [k \in 1..MaxDepth |->
     [g \in [Id -> Nat] |-> [v \in Id |-> ValueBytes(o, g, v, MaxDepth - k)]]]
Bytes(o) ==
  CHOOSE f : Iterates(f, MaxDepth, [Id -> Nat], [v \in Id |-> 0], NextBytes(o))

TaskBytes(o, t) ==
  IF t.op = "value" /\ t.depth <= MaxDepth THEN Bytes(o)[MaxDepth - t.depth][t.of]
                                           ELSE t.n
BytesOf(o, s) == Total([i \in 1..Len(s) |-> TaskBytes(o, s[i])])

LEMMA OptionsType ==
  ASSUME NEW o \in Options
  PROVE  o.indent \in Nat /\ o.pretty \in BOOLEAN
BY LimitsAssumption

LEMMA LineNat ==
  ASSUME NEW o \in Options, NEW d \in Nat
  PROVE  LineBytes(o, d) \in Nat
<1>1. PICK n \in Nat : n = o.indent
  BY OptionsType
<1>2. d * n \in Nat
  OBVIOUS
<1> QED BY <1>1, <1>2 DEF LineBytes

LEMMA KeyNat ==
  ASSUME NEW o, NEW k \in Key
  PROVE  KeyBytes(o, k) \in Nat
<1>1. KeyLength[k] \in Nat
  BY ValuesAssumption DEF Key
<1> QED BY <1>1 DEF KeyBytes

LEMMA ItemNat ==
  ASSUME NEW o \in Options, NEW g \in [Id -> Nat], NEW v \in Id, NEW d \in Nat,
         NEW j \in 1..Len(Values[v].items)
  PROVE  ItemBytes(o, g, v, d, j) \in Nat
<1>1. /\ Values[v].items[j].val \in Id
      /\ Values[v].type = "object" => Values[v].items[j].key \in Key
  BY ItemType
<1>2. d + 1 \in Nat
  OBVIOUS
<1>3. LineBytes(o, d + 1) \in Nat
  BY <1>2, LineNat
<1>4. (IF Values[v].type = "object" THEN KeyBytes(o, Values[v].items[j].key) ELSE 0) \in Nat
  BY <1>1, KeyNat
<1>5. g[Values[v].items[j].val] \in Nat
  BY <1>1
<1>6. PICK a \in Nat, b \in Nat, c \in Nat :
        /\ a = LineBytes(o, d + 1)
        /\ b = IF Values[v].type = "object" THEN KeyBytes(o, Values[v].items[j].key) ELSE 0
        /\ c = g[Values[v].items[j].val]
  BY <1>3, <1>4, <1>5
<1>7. ItemBytes(o, g, v, d, j) = a + b + c
  BY <1>6, Zenon DEF ItemBytes
<1> QED BY <1>7

\* The items of a container, and the commas.
LEMMA ItemsNat ==
  ASSUME NEW o \in Options, NEW g \in [Id -> Nat], NEW v \in Id, NEW d \in Nat
  PROVE  /\ [j \in 1..Len(Values[v].items) |-> ItemBytes(o, g, v, d, j)]
              \in [1..Len(Values[v].items) -> Nat]
         /\ [i \in 1..Len(Values[v].items) |-> CommaBytes(v, i)]
              \in [1..Len(Values[v].items) -> Nat]
BY ItemNat DEF CommaBytes

LEMMA ContainerNat ==
  ASSUME NEW o \in Options, NEW g \in [Id -> Nat], NEW v \in Id, NEW d \in Nat
  PROVE  /\ Total([j \in 1..Len(Values[v].items) |-> ItemBytes(o, g, v, d, j)]) \in Nat
         /\ Total([i \in 1..Len(Values[v].items) |-> CommaBytes(v, i)]) \in Nat
         /\ LastLineBytes(o, v, d) \in Nat
         /\ ContainerBytes(o, g, v, d) \in Nat
<1> DEFINE a == [j \in 1..Len(Values[v].items) |-> ItemBytes(o, g, v, d, j)]
           b == [i \in 1..Len(Values[v].items) |-> CommaBytes(v, i)]
<1>1. PICK n \in Nat : n = Len(Values[v].items)
  BY ValueType
<1>2. a \in [1..n -> Nat] /\ b \in [1..n -> Nat]
  BY <1>1, ItemsNat
<1> HIDE DEF a, b
<1>3. a \in Seq(Nat) /\ b \in Seq(Nat)
  BY <1>2, FunctionIsSeq
<1>4. Total(a) \in Nat /\ Total(b) \in Nat
  BY <1>3, TotalNat
<1>5. LastLineBytes(o, v, d) \in Nat
  BY LineNat DEF LastLineBytes
<1>6. ContainerBytes(o, g, v, d) = 2 + Total(a) + Total(b) + LastLineBytes(o, v, d)
  BY Zenon DEF ContainerBytes, a, b
<1>7. ContainerBytes(o, g, v, d) \in Nat
  BY <1>4, <1>5, <1>6
<1> QED BY <1>4, <1>5, <1>7 DEF a, b

LEMMA ValueNat ==
  ASSUME NEW o \in Options, NEW g \in [Id -> Nat], NEW v \in Id, NEW d \in Nat
  PROVE  ValueBytes(o, g, v, d) \in Nat
<1>1. ScalarBytes(v) \in Nat
  BY ValueType DEF ScalarBytes
<1> QED BY <1>1, ContainerNat DEF ValueBytes

LEMMA BytesIterate ==
  ASSUME NEW o \in Options
  PROVE  Iterates(Bytes(o), MaxDepth, [Id -> Nat], [v \in Id |-> 0], NextBytes(o))
<1> DEFINE S == [Id -> Nat]
           x == [v \in Id |-> 0]
<1>1. MaxDepth \in Nat
  BY LimitsAssumption
<1>2. x \in S
  OBVIOUS
<1>3. ASSUME NEW k \in 1..MaxDepth, NEW g \in S
      PROVE  [v \in Id |-> ValueBytes(o, g, v, MaxDepth - k)] \in S
  <2>1. MaxDepth - k \in Nat
    BY <1>1
  <2> QED BY <2>1, ValueNat
<1>4. NextBytes(o) \in [1..MaxDepth -> [S -> S]]
  BY <1>3, Zenon DEF NextBytes
<1> HIDE DEF S, x
<1>5. \E f : Iterates(f, MaxDepth, S, x, NextBytes(o))
  BY <1>1, <1>2, <1>4, IterationExists
<1>6. Iterates(CHOOSE f : Iterates(f, MaxDepth, S, x, NextBytes(o)), MaxDepth, S, x,
               NextBytes(o))
  BY <1>5, Zenon
<1> QED BY <1>6, Zenon DEF Bytes, S, x

\* A value k levels above the limit takes what its parts take one level below.
LEMMA BytesValue ==
  ASSUME NEW o \in Options
  PROVE  /\ \A k \in 0..MaxDepth : Bytes(o)[k] \in [Id -> Nat]
         /\ \A k \in 1..MaxDepth : \A v \in Id :
              Bytes(o)[k][v] = ValueBytes(o, Bytes(o)[k - 1], v, MaxDepth - k)
<1>1. PICK f : f = Bytes(o)
  OBVIOUS
<1>2. /\ f \in [0..MaxDepth -> [Id -> Nat]]
      /\ \A k \in 1..MaxDepth : f[k] = NextBytes(o)[k][f[k - 1]]
  BY <1>1, BytesIterate, Zenon DEF Iterates
<1>3. ASSUME NEW k \in 1..MaxDepth, NEW v \in Id
      PROVE  f[k][v] = ValueBytes(o, f[k - 1], v, MaxDepth - k)
  <2>1. k - 1 \in 0..MaxDepth
    BY LimitsAssumption
  <2>2. PICK g \in [Id -> Nat] : g = f[k - 1]
    BY <1>2, <2>1
  <2>3. NextBytes(o)[k][g] = [w \in Id |-> ValueBytes(o, g, w, MaxDepth - k)]
    BY Zenon DEF NextBytes
  <2>4. f[k] = [w \in Id |-> ValueBytes(o, g, w, MaxDepth - k)]
    BY <1>2, <2>2, <2>3, Zenon
  <2>5. f[k][v] = ValueBytes(o, g, v, MaxDepth - k)
    BY <2>4, Zenon
  <2> QED BY <2>2, <2>5, Zenon
<1> QED BY <1>1, <1>2, <1>3, Zenon

LEMMA TaskNat ==
  ASSUME NEW o \in Options, NEW t \in Task
  PROVE  TaskBytes(o, t) \in Nat
<1>1. t.n \in Nat /\ t.depth \in Nat /\ (t.op = "value" => t.of \in Id)
  BY DEF Task, Tasks
<1>2. CASE t.op = "value" /\ t.depth <= MaxDepth
  <2>1. PICK k \in 0..MaxDepth : k = MaxDepth - t.depth
    BY <1>1, <1>2, LimitsAssumption
  <2>2. PICK v \in Id : v = t.of
    BY <1>1, <1>2
  <2>3. PICK g \in [Id -> Nat] : g = Bytes(o)[k]
    BY BytesValue
  <2>4. TaskBytes(o, t) = g[v]
    BY <1>2, <2>1, <2>2, <2>3, Zenon DEF TaskBytes
  <2> QED BY <2>4
<1>3. CASE ~(t.op = "value" /\ t.depth <= MaxDepth)
  BY <1>1, <1>3, Zenon DEF TaskBytes
<1> QED BY <1>2, <1>3

\* The bytes of the tasks of s, one by one.
Each(o, s) == [i \in 1..Len(s) |-> TaskBytes(o, s[i])]

LEMMA EachType ==
  ASSUME NEW o \in Options, NEW s \in Seq(Task)
  PROVE  /\ Each(o, s) \in Seq(Nat) /\ Len(Each(o, s)) = Len(s)
         /\ \A i \in 1..Len(s) : Each(o, s)[i] = TaskBytes(o, s[i])
         /\ BytesOf(o, s) = Total(Each(o, s))
         /\ BytesOf(o, s) \in Nat
<1>1. \A i \in 1..Len(s) : TaskBytes(o, s[i]) \in Nat
  BY TaskNat
<1>2. Len(s) \in Nat
  OBVIOUS
<1>3. Each(o, s) \in [1..Len(s) -> Nat]
  BY <1>1 DEF Each
<1>4. Each(o, s) \in Seq(Nat) /\ Len(Each(o, s)) = Len(s)
  BY <1>2, <1>3, FunctionIsSeq
<1>5. BytesOf(o, s) = Total(Each(o, s))
  BY Zenon DEF BytesOf, Each
<1>6. Total(Each(o, s)) \in Nat
  BY <1>4, TotalNat
<1>7. \A i \in 1..Len(s) : Each(o, s)[i] = TaskBytes(o, s[i])
  BY DEF Each
<1> QED BY <1>4, <1>5, <1>6, <1>7

LEMMA BytesConcat ==
  ASSUME NEW o \in Options, NEW s \in Seq(Task), NEW t \in Seq(Task)
  PROVE  BytesOf(o, s \o t) = BytesOf(o, s) + BytesOf(o, t)
<1>1. PICK u \in Seq(Task) : u = s \o t
  BY ConcatProperties
<1>2. /\ Len(s) \in Nat /\ Len(t) \in Nat
      /\ Len(u) = Len(s) + Len(t)
      /\ \A i \in 1..Len(s) : u[i] = s[i]
      /\ \A i \in 1..Len(t) : u[Len(s) + i] = t[i]
  <2>1. \A i \in 1..(Len(s) + Len(t)) :
          (s \o t)[i] = IF i <= Len(s) THEN s[i] ELSE t[i - Len(s)]
    OBVIOUS
  <2>2. Len(s) \in Nat /\ Len(t) \in Nat /\ Len(u) = Len(s) + Len(t)
    BY <1>1
  <2>3. \A i \in 1..Len(s) : u[i] = s[i]
    BY <1>1, <2>1, <2>2
  <2>4. ASSUME NEW i \in 1..Len(t) PROVE u[Len(s) + i] = t[i]
    <3>1. PICK k \in 1..(Len(s) + Len(t)) : k = Len(s) + i /\ ~(k <= Len(s)) /\ k - Len(s) = i
      BY <2>2, SMTT(30)
    <3> QED BY <1>1, <2>1, <3>1
  <2> QED BY <2>2, <2>3, <2>4
<1>3. PICK a \in Seq(Nat), b \in Seq(Nat), c \in Seq(Nat) :
        a = Each(o, s) /\ b = Each(o, t) /\ c = Each(o, u)
  BY EachType
<1>4. Len(a) = Len(s) /\ Len(b) = Len(t) /\ Len(c) = Len(u)
  BY <1>3, EachType
<1>5. ASSUME NEW i \in 1..Len(a) PROVE c[i] = a[i]
  <2>1. i \in 1..Len(s) /\ i \in 1..Len(u)
    BY <1>2, <1>4
  <2>2. c[i] = TaskBytes(o, u[i]) /\ a[i] = TaskBytes(o, s[i])
    BY <1>3, <2>1, EachType
  <2> QED BY <1>2, <2>1, <2>2
<1>6. ASSUME NEW i \in 1..Len(b) PROVE c[Len(a) + i] = b[i]
  <2>1. i \in 1..Len(t)
    BY <1>4
  <2>0. Len(s) + i \in 1..Len(u)
    BY <1>2, <2>1
  <2>2. PICK k \in 1..Len(u) : k = Len(a) + i /\ k = Len(s) + i
    BY <1>4, <2>0
  <2>3. c[k] = TaskBytes(o, u[k]) /\ b[i] = TaskBytes(o, t[i])
    BY <1>3, <2>1, EachType
  <2>4. u[k] = t[i]
    BY <1>2, <2>1, <2>2
  <2> QED BY <2>2, <2>3, <2>4, Zenon
<1>7. Len(c) = Len(a) + Len(b)
  BY <1>2, <1>4
<1>8. Total(c) = Total(a) + Total(b)
  BY <1>5, <1>6, <1>7, TotalConcat
<1> QED BY <1>1, <1>3, <1>8, EachType

LEMMA BytesFour ==
  ASSUME NEW o \in Options, NEW s \in Seq(Task), NEW t \in Seq(Task),
         NEW u \in Seq(Task), NEW w \in Seq(Task)
  PROVE  BytesOf(o, s \o t \o u \o w)
           = ((BytesOf(o, s) + BytesOf(o, t)) + BytesOf(o, u)) + BytesOf(o, w)
<1>1. s \o t \in Seq(Task) /\ BytesOf(o, s \o t) = BytesOf(o, s) + BytesOf(o, t)
  BY BytesConcat, ConcatProperties
<1>2. /\ (s \o t) \o u \in Seq(Task)
      /\ BytesOf(o, (s \o t) \o u) = BytesOf(o, s \o t) + BytesOf(o, u)
  BY <1>1, BytesConcat, ConcatProperties
<1>3. BytesOf(o, ((s \o t) \o u) \o w) = BytesOf(o, (s \o t) \o u) + BytesOf(o, w)
  BY <1>2, BytesConcat
<1> QED BY <1>1, <1>2, <1>3

LEMMA BytesNone ==
  ASSUME NEW o \in Options
  PROVE  BytesOf(o, << >>) = 0
<1>1. PICK s \in Seq(Task) : s = << >>
  BY EmptySeq
<1>2. PICK a \in Seq(Nat) : a = Each(o, s)
  BY EachType
<1>3. Len(s) = 0 /\ Len(a) = Len(s)
  BY <1>1, <1>2, EachType
<1>4. Total(a) = 0
  <2>1. \A i \in 1..Len(a) : a[i] = 0
    BY <1>3
  <2> QED BY <2>1, TotalZero
<1> QED BY <1>1, <1>2, <1>4, EachType

LEMMA BytesOne ==
  ASSUME NEW o \in Options, NEW t \in Task
  PROVE  BytesOf(o, <<t>>) = TaskBytes(o, t)
<1>0. <<t>> \in Seq(Task)
  OBVIOUS
<1>1. PICK s \in Seq(Task) : s = <<t>>
  BY <1>0
<1>2. Len(s) = 1 /\ s[1] = t
  BY <1>1
<1>3. PICK a \in Seq(Nat) : a = Each(o, s)
  BY EachType
<1>4. Len(a) = 1 /\ a[1] = TaskBytes(o, t)
  <2>1. 1 \in 1..Len(s)
    BY <1>2
  <2> QED BY <1>2, <1>3, <2>1, EachType
<1>5. Total(a) = a[1]
  <2>1. PICK e \in Seq(Nat) : e = << >>
    BY EmptySeq
  <2>2. Len(e) = 0 /\ Total(e) = 0
    <3>1. Len(e) = 0
      BY <2>1
    <3>2. \A j \in 1..Len(e) : e[j] = 0
      BY <3>1
    <3> QED BY <3>1, <3>2, TotalZero
  <2>3. Total(a) = Total(e) + a[Len(a)]
    <3>1. \A j \in 1..Len(e) : a[j] = e[j]
      BY <2>2
    <3>2. Len(a) = Len(e) + 1
      BY <1>4, <2>2
    <3> QED BY <3>1, <3>2, TotalAppended
  <2>4. a[1] \in Nat
    BY <1>4, TaskNat
  <2> QED BY <1>4, <2>2, <2>3, <2>4
<1> QED BY <1>1, <1>3, <1>4, <1>5, EachType

LEMMA BytesCall ==
  ASSUME NEW o \in Options, NEW op, op # "value", NEW n \in Nat, NEW must, NEW lex,
         NEW of \in Nat,
         Call(op, n, must, lex, of) \in Task
  PROVE  BytesOf(o, <<Call(op, n, must, lex, of)>>) = n
<1>1. PICK t \in Task : t = Call(op, n, must, lex, of)
  OBVIOUS
<1>2. t.op # "value" /\ t.n = n
  BY <1>1 DEF Call
<1>3. TaskBytes(o, t) = n
  BY <1>2, Zenon DEF TaskBytes
<1> QED BY <1>1, <1>3, BytesOne

LEMMA BytesPut ==
  ASSUME NEW o \in Options, NEW lex \in Lex
  PROVE  BytesOf(o, Checked(lex)) = 1 /\ BytesOf(o, Unchecked(lex)) = 1
<1>1. ASSUME NEW must \in BOOLEAN
      PROVE  BytesOf(o, <<Call("put", 1, must, lex, 0)>>) = 1
  <2>1. Call("put", 1, must, lex, 0) \in Task
    BY CallIsTask DEF Op
  <2> QED BY <2>1, BytesCall
<1> QED BY <1>1 DEF Checked, Unchecked

LEMMA BytesWrite ==
  ASSUME NEW o \in Options, NEW v \in Id, NEW d \in Nat, d <= MaxDepth
  PROVE  BytesOf(o, Write(v, d)) = Bytes(o)[MaxDepth - d][v]
<1> DEFINE t == [op |-> "value", n |-> 0, must |-> TRUE, lex |-> Blank,
                 of |-> v, depth |-> d]
<1>1. t.op = "value" /\ t.of = v /\ t.depth = d
  OBVIOUS
<1>2. Write(v, d) = <<t>>
  BY DEF Write
<1>3. t \in Tasks
  BY ValueType DEF Tasks, Op, Lex
<1> HIDE DEF t
<1>4. t \in Task
  BY <1>1, <1>3 DEF Task
<1>5. BytesOf(o, <<t>>) = TaskBytes(o, t)
  BY <1>4, BytesOne
<1>6. TaskBytes(o, t) = Bytes(o)[MaxDepth - d][v]
  BY <1>1, Zenon DEF TaskBytes
<1> QED BY <1>2, <1>5, <1>6

LEMMA BytesLine ==
  ASSUME NEW d \in Nat, opts \in Options
  PROVE  BytesOf(opts, Line(d)) = LineBytes(opts, d)
<1>1. PICK n \in Nat : n = opts.indent
  BY OptionsType
<1>2. PICK m \in Nat : m = d * n
  OBVIOUS
<1>3. Blank \in Lex
  BY DEF Lex
<1> DEFINE a == Unchecked(Blank)
           b == <<Call("indent", m, FALSE, Blank, 0)>>
<1>4. a \in Seq(Task) /\ b \in Seq(Task)
  BY <1>3, PutIsTask, CallIsTask DEF Op
<1>5. BytesOf(opts, a) = 1 /\ BytesOf(opts, b) = m
  <2>1. ASSUME NEW must \in BOOLEAN
        PROVE  BytesOf(opts, <<Call("indent", m, must, Blank, 0)>>) = m
    <3>1. Call("indent", m, must, Blank, 0) \in Task
      BY <1>3, CallIsTask DEF Op
    <3> QED BY <3>1, BytesCall
  <2> QED BY <1>3, <2>1, BytesPut
<1>6. Line(d) = IF opts.pretty THEN a \o b ELSE << >>
  BY <1>1, <1>2, Zenon DEF Line
<1>7. LineBytes(opts, d) = IF opts.pretty THEN 1 + m ELSE 0
  BY <1>1, <1>2, Zenon DEF LineBytes
<1> HIDE DEF a, b
<1>8. BytesOf(opts, a \o b) = 1 + m
  BY <1>4, <1>5, BytesConcat
<1>9. CASE opts.pretty
  BY <1>6, <1>7, <1>8, <1>9, Zenon
<1>10. CASE ~opts.pretty
  BY <1>6, <1>7, <1>10, BytesNone, Zenon
<1> QED BY <1>9, <1>10

LEMMA BytesScalar ==
  ASSUME NEW o \in Options, NEW v \in Id
  PROVE  BytesOf(o, ScalarCalls(v)) = ScalarBytes(v)
<1>1. /\ Blank \in Lex /\ "s" \in Lex /\ "v" \in Lex /\ v \in Nat
  BY ValueType DEF Lex
<1>2. PICK n \in Nat : n = Values[v].size
  BY ValueType
<1>3. CASE Values[v].type = "string"
  <2> DEFINE a == Checked(Blank)
             b == <<Call("content", n, TRUE, "s", v)>>
  <2>1. a \in Seq(Task) /\ b \in Seq(Task)
    BY <1>1, PutIsTask, CallIsTask DEF Op
  <2>2. BytesOf(o, a) = 1 /\ BytesOf(o, b) = n
    <3>1. ASSUME NEW must \in BOOLEAN
          PROVE  BytesOf(o, <<Call("content", n, must, "s", v)>>) = n
      <4>1. Call("content", n, must, "s", v) \in Task
        BY <1>1, CallIsTask DEF Op
      <4> QED BY <1>1, <4>1, BytesCall
    <3> QED BY <1>1, <3>1, BytesPut
  <2>3. ScalarCalls(v) = a \o b \o a
    BY <1>2, <1>3, Zenon DEF ScalarCalls, StringCalls
  <2> HIDE DEF a, b
  <2>4. a \o b \in Seq(Task) /\ BytesOf(o, a \o b) = 1 + n
    BY <2>1, <2>2, BytesConcat, ConcatProperties
  <2>5. BytesOf(o, (a \o b) \o a) = (1 + n) + 1
    BY <2>1, <2>2, <2>4, BytesConcat
  <2>6. ScalarBytes(v) = n + 2
    BY <1>2, <1>3, Zenon DEF ScalarBytes
  <2> QED BY <2>3, <2>5, <2>6
<1>4. CASE Values[v].type # "string"
  <2>1. PICK op \in {"put", "int", "puts"} : op = ScalarOp(v)
    BY DEF ScalarOp
  <2>2. ScalarCalls(v) = <<Call(op, n, TRUE, "v", v)>>
    BY <1>2, <1>4, <2>1, Zenon DEF ScalarCalls
  <2>3. BytesOf(o, <<Call(op, n, TRUE, "v", v)>>) = n
    <3>1. ASSUME NEW must \in BOOLEAN
          PROVE  BytesOf(o, <<Call(op, n, must, "v", v)>>) = n
      <4>1. Call(op, n, must, "v", v) \in Task
        BY <1>1, CallIsTask DEF Op
      <4> QED BY <1>1, <4>1, BytesCall
    <3> QED BY <3>1
  <2>4. ScalarBytes(v) = n + 0
    BY <1>2, <1>4, Zenon DEF ScalarBytes
  <2> QED BY <2>2, <2>3, <2>4
<1> QED BY <1>3, <1>4

LEMMA BytesKey ==
  ASSUME NEW k \in Key, opts \in Options
  PROVE  BytesOf(opts, KeyCalls(k)) = KeyBytes(opts, k)
<1>1. Blank \in Lex /\ "s" \in Lex /\ ":" \in Lex /\ k \in Nat /\ KeyLength[k] \in Nat
  BY ValuesAssumption DEF Lex, Key
<1>2. PICK n \in Nat : n = KeyLength[k]
  BY <1>1
<1> DEFINE a == Unchecked(Blank)
           b == <<Call("content", n, FALSE, "s", k)>>
           c == Unchecked(":")
           e == IF opts.pretty THEN Unchecked(Blank) ELSE << >>
           m == IF opts.pretty THEN 1 ELSE 0
<1>3. a \in Seq(Task) /\ b \in Seq(Task) /\ c \in Seq(Task)
  BY <1>1, PutIsTask, CallIsTask DEF Op
<1>4. BytesOf(opts, a) = 1 /\ BytesOf(opts, b) = n /\ BytesOf(opts, c) = 1
  <2>1. ASSUME NEW must \in BOOLEAN
        PROVE  BytesOf(opts, <<Call("content", n, must, "s", k)>>) = n
    <3>1. Call("content", n, must, "s", k) \in Task
      BY <1>1, CallIsTask DEF Op
    <3> QED BY <1>1, <3>1, BytesCall
  <2> QED BY <1>1, <2>1, BytesPut
<1>5. e \in Seq(Task)
  BY <1>3, EmptySeq
<1>6. BytesOf(opts, e) = m /\ m \in Nat
  BY <1>4, BytesNone
<1>7. KeyCalls(k) = a \o b \o a \o c \o e
  BY <1>2, Zenon DEF KeyCalls
<1>8. KeyBytes(opts, k) = n + 3 + m
  BY <1>2, Zenon DEF KeyBytes
<1> HIDE DEF a, b, c, e, m
<1>9. PICK begin \in Seq(Task) : begin = a \o b \o a \o c
  BY <1>3, FourParts
<1>10. BytesOf(opts, begin) = ((1 + n) + 1) + 1
  <2>1. BytesOf(opts, a \o b \o a \o c)
          = ((BytesOf(opts, a) + BytesOf(opts, b)) + BytesOf(opts, a)) + BytesOf(opts, c)
    BY <1>3, BytesFour
  <2> QED BY <1>4, <1>9, <2>1, Zenon
<1>11. BytesOf(opts, begin \o e) = BytesOf(opts, begin) + m
  BY <1>5, <1>6, BytesConcat
<1> QED BY <1>6, <1>7, <1>8, <1>9, <1>10, <1>11

\* An item takes its bytes and its comma's.
LEMMA BytesItem ==
  ASSUME NEW v \in Id, NEW d \in Nat, d < MaxDepth, opts \in Options,
         NEW order \in [1..Len(Values[v].items) -> 1..Len(Values[v].items)],
         NEW i \in 1..Len(Values[v].items)
  PROVE  BytesOf(opts, ItemCalls(v, d, order, i))
           = ItemBytes(opts, Bytes(opts)[MaxDepth - (d + 1)], v, d, order[i])
               + CommaBytes(v, i)
<1>1. PICK j \in 1..Len(Values[v].items) : j = order[i]
  OBVIOUS
<1>2. PICK x \in Id : x = Values[v].items[j].val
  BY ItemType
<1>3. Values[v].type = "object" => Values[v].items[j].key \in Key
  BY ItemType
<1>4. d + 1 \in Nat /\ d + 1 <= MaxDepth /\ "," \in Lex
  BY LimitsAssumption DEF Lex
<1>5. PICK l \in 0..MaxDepth : l = MaxDepth - (d + 1)
  BY LimitsAssumption
<1>6. PICK g \in [Id -> Nat] : g = Bytes(opts)[l]
  BY BytesValue
<1> DEFINE a == Line(d + 1)
           b == KeyPart(v, order, i)
           c == Write(Values[v].items[order[i]].val, d + 1)
           e == Comma(v, i)
           key == IF Values[v].type = "object" THEN KeyBytes(opts, Values[v].items[j].key) ELSE 0
<1>7. a \in Seq(Task) /\ b \in Seq(Task) /\ c \in Seq(Task) /\ e \in Seq(Task)
  BY ItemIsTasks
<1>8. BytesOf(opts, a) = LineBytes(opts, d + 1) /\ LineBytes(opts, d + 1) \in Nat
  BY <1>4, BytesLine, LineNat
<1>9. BytesOf(opts, b) = key /\ key \in Nat
  <2>1. CASE Values[v].type = "object"
    <3>1. b = KeyCalls(Values[v].items[j].key) /\ key = KeyBytes(opts, Values[v].items[j].key)
      BY <1>1, <2>1, Zenon DEF KeyPart
    <3> QED BY <1>3, <2>1, <3>1, BytesKey, KeyNat
  <2>2. CASE Values[v].type # "object"
    <3>1. b = << >> /\ key = 0
      BY <2>2, Zenon DEF KeyPart
    <3> QED BY <3>1, BytesNone
  <2> QED BY <2>1, <2>2
<1>10. BytesOf(opts, c) = g[x]
  <2>1. c = Write(x, d + 1)
    BY <1>1, <1>2, Zenon
  <2>2. BytesOf(opts, Write(x, d + 1)) = Bytes(opts)[MaxDepth - (d + 1)][x]
    BY <1>4, BytesWrite
  <2> QED BY <1>5, <1>6, <2>1, <2>2, Zenon
<1>11. BytesOf(opts, e) = CommaBytes(v, i)
  BY <1>4, BytesPut, BytesNone DEF Comma, CommaBytes
<1>12. CommaBytes(v, i) \in Nat
  BY DEF CommaBytes
<1>13. ItemCalls(v, d, order, i) = a \o b \o c \o e
  BY DEF ItemCalls
<1>14. ItemBytes(opts, Bytes(opts)[MaxDepth - (d + 1)], v, d, order[i])
         = LineBytes(opts, d + 1) + key + g[x]
  BY <1>1, <1>2, <1>5, <1>6, Zenon DEF ItemBytes
<1> HIDE DEF a, b, c, e, key
<1>15. BytesOf(opts, a \o b \o c \o e)
         = ((BytesOf(opts, a) + BytesOf(opts, b)) + BytesOf(opts, c)) + BytesOf(opts, e)
  BY <1>7, BytesFour
<1> QED BY <1>8, <1>9, <1>10, <1>11, <1>13, <1>14, <1>15, Zenon

LEMMA BytesFlatten ==
  ASSUME NEW o \in Options, NEW seqs \in Seq(Seq(Task))
  PROVE  BytesOf(o, FlattenSeq(seqs))
           = Total([i \in 1..Len(seqs) |-> BytesOf(o, seqs[i])])
<1> DEFINE w == [i \in 1..Len(seqs) |-> BytesOf(o, seqs[i])]
<1>0. Len(seqs) \in Nat
  OBVIOUS
<1>1. w \in [1..Len(seqs) -> Nat]
  BY EachType
<1>2. \A i \in 1..Len(seqs) : w[i] = BytesOf(o, seqs[i])
  OBVIOUS
<1> HIDE DEF w
<1>3. w \in Seq(Nat) /\ Len(w) = Len(seqs)
  BY <1>0, <1>1, FunctionIsSeq
<1>4. CASE Len(seqs) = 0
  <2>1. FlattenSeq(seqs) = << >>
    <3>1. seqs = << >>
      BY <1>4
    <3> QED BY <1>4, <3>1 DEF FlattenSeq
  <2>2. \A j \in 1..Len(w) : w[j] = 0
    BY <1>3, <1>4
  <2>3. Total(w) = 0
    BY <1>3, <2>2, TotalZero
  <2> QED BY <2>1, <2>3, BytesNone DEF w
<1>5. CASE Len(seqs) # 0
  <2>1. PICK f : JoinedUpTo(f, seqs, Task)
    BY <1>5, FlattenJoins
  <2>2. PICK h : Sums(h, w)
    BY <1>3, SumsExist
  <2>3. /\ h[0] = 0
        /\ \A k \in 1..Len(seqs) : h[k] = h[k - 1] + w[k]
        /\ \A k \in 0..Len(seqs) : h[k] \in Nat
    BY <1>3, <2>2 DEF Sums
  <2> DEFINE T == {m \in Nat : m \in 1..Len(seqs) => BytesOf(o, f[m]) = h[m]}
  <2>4. 0 \in T
    OBVIOUS
  <2>5. ASSUME NEW m \in Nat, m \in T PROVE m + 1 \in T
    <3> SUFFICES ASSUME m + 1 \in 1..Len(seqs) PROVE BytesOf(o, f[m + 1]) = h[m + 1]
      OBVIOUS
    <3>1. PICK n \in 1..Len(seqs) : n = m + 1 /\ n - 1 = m
      OBVIOUS
    <3>2. f[n] = Joined(f, seqs, n) /\ seqs[n] \in Seq(Task)
      BY <2>1 DEF JoinedUpTo
    <3>3. h[n] = h[m] + BytesOf(o, seqs[n])
      BY <1>2, <2>3, <3>1
    <3>4. CASE m = 0
      <4>1. f[n] = seqs[n]
        BY <3>1, <3>2, <3>4 DEF Joined
      <4>2. BytesOf(o, seqs[n]) \in Nat
        BY <3>2, EachType
      <4>3. h[n] = BytesOf(o, seqs[n])
        BY <2>3, <3>3, <3>4, <4>2
      <4> QED BY <3>1, <4>1, <4>3
    <3>5. CASE m # 0
      <4>1. n # 1 /\ m \in 1..Len(seqs)
        BY <1>0, <3>1, <3>5
      <4>2. f[m] \in Seq(Task) /\ f[n] = f[m] \o seqs[n]
        BY <2>1, <3>1, <3>2, <4>1 DEF Joined, JoinedUpTo
      <4>3. BytesOf(o, f[n]) = BytesOf(o, f[m]) + BytesOf(o, seqs[n])
        BY <3>2, <4>2, BytesConcat
      <4>4. BytesOf(o, f[m]) = h[m]
        BY <2>5, <4>1
      <4> QED BY <3>1, <3>3, <4>3, <4>4
    <3> QED BY <3>4, <3>5
  <2>6. Len(seqs) \in T
    <3> HIDE DEF T
    <3> QED BY <1>0, <2>4, <2>5, NatSetInduction
  <2>7. Len(seqs) \in 1..Len(seqs)
    BY <1>0, <1>5
  <2>8. BytesOf(o, FlattenSeq(seqs)) = h[Len(seqs)]
    BY <2>1, <2>6, <2>7 DEF JoinedUpTo
  <2>9. Total(w) = h[Len(seqs)]
    BY <1>3, <2>2, TotalIs
  <2> QED BY <2>8, <2>9 DEF w
<1> QED BY <1>4, <1>5

\* The items of a container take the same in every order.
LEMMA BytesItems ==
  ASSUME NEW v \in Id, NEW d \in Nat, d < MaxDepth, opts \in Options,
         NEW order \in Orders(v), NEW g, g = Bytes(opts)[MaxDepth - (d + 1)]
  PROVE  BytesOf(opts, FlattenSeq(Items(v, d, order)))
           = Total([j \in 1..Len(Values[v].items) |-> ItemBytes(opts, g, v, d, j)])
               + Total([i \in 1..Len(Values[v].items) |-> CommaBytes(v, i)])
<1>1. PICK n \in Nat : n = Len(Values[v].items)
  BY ValueType
<1>2. order \in [1..n -> 1..n]
  BY <1>1, OrdersType
<1>3. \A i, k \in 1..n : i # k => order[i] # order[k]
  BY <1>1, <1>2 DEF Orders, IsPermutation
<1>4. g \in [Id -> Nat]
  <2>1. PICK l \in 0..MaxDepth : l = MaxDepth - (d + 1)
    BY LimitsAssumption
  <2> QED BY <2>1, BytesValue, Zenon
<1> DEFINE a == [j \in 1..n |-> ItemBytes(opts, g, v, d, j)]
           b == [i \in 1..n |-> CommaBytes(v, i)]
           t == [i \in 1..n |-> a[order[i]]]
           w == [i \in 1..n |-> BytesOf(opts, Items(v, d, order)[i])]
<1>5. a \in [1..n -> Nat] /\ b \in [1..n -> Nat]
  BY <1>1, <1>4, ItemsNat, SMTT(30)
<1>6. t \in [1..n -> Nat]
  <2> HIDE DEF a
  <2> QED BY <1>2, <1>5
<1>7. /\ Items(v, d, order) \in Seq(Seq(Task)) /\ Len(Items(v, d, order)) = n
  BY <1>1, <1>2, PartsAreTasks
<1>8. w \in [1..n -> Nat]
  <2>1. \A i \in 1..n : Items(v, d, order)[i] \in Seq(Task)
    BY <1>7
  <2> QED BY <2>1, EachType
<1>9. ASSUME NEW i \in 1..n PROVE w[i] = t[i] + b[i]
  <2>1. PICK j \in 1..n : j = order[i]
    BY <1>2
  <2>2. Items(v, d, order)[i] = ItemCalls(v, d, order, i)
    BY <1>1 DEF Items
  <2>3. BytesOf(opts, ItemCalls(v, d, order, i))
          = ItemBytes(opts, g, v, d, order[i]) + CommaBytes(v, i)
    BY <1>1, <1>2, BytesItem
  <2>4. t[i] = ItemBytes(opts, g, v, d, order[i])
    BY <2>1
  <2> QED BY <2>2, <2>3, <2>4
<1>10. \A i \in 1..n : t[i] = a[order[i]]
  OBVIOUS
<1> HIDE DEF a, b, t, w
<1>11. Reordered(n, a, t, order)
  BY <1>2, <1>3, <1>5, <1>6, <1>10 DEF Reordered
<1>12. Total(t) = Total(a)
  BY <1>11, TotalReordered
<1>13. /\ t \in Seq(Nat) /\ b \in Seq(Nat) /\ w \in Seq(Nat)
       /\ Len(t) = n /\ Len(b) = n /\ Len(w) = n
  BY <1>5, <1>6, <1>8, FunctionIsSeq
<1>14. Total(w) = Total(t) + Total(b)
  BY <1>9, <1>13, TotalSum, SMTT(30)
<1>15. BytesOf(opts, FlattenSeq(Items(v, d, order))) = Total(w)
  BY <1>7, BytesFlatten DEF w
<1> QED BY <1>1, <1>12, <1>14, <1>15, Zenon DEF a, b

\* The calls of a container take what the container does, in every order.
LEMMA BytesContainer ==
  ASSUME NEW v \in Id, NEW d \in Nat, d < MaxDepth, opts \in Options,
         NEW order \in Orders(v), Values[v].type \in {"array", "object"}
  PROVE  BytesOf(opts, ContainerCalls(v, d, order)) = Bytes(opts)[MaxDepth - d][v]
<1>1. PICK k \in 1..MaxDepth : /\ k = MaxDepth - d /\ k - 1 = MaxDepth - (d + 1)
                               /\ k - 1 \in 0..MaxDepth /\ MaxDepth - k = d
  BY LimitsAssumption
<1>2. PICK g \in [Id -> Nat] : g = Bytes(opts)[k - 1]
  BY <1>1, BytesValue
<1>3. Bytes(opts)[k][v] = ContainerBytes(opts, g, v, d)
  <2>1. Bytes(opts)[k][v] = ValueBytes(opts, Bytes(opts)[k - 1], v, MaxDepth - k)
    BY BytesValue
  <2>2. Bytes(opts)[k][v] = ValueBytes(opts, g, v, d)
    BY <1>1, <1>2, <2>1, Zenon
  <2> QED BY <2>2, Zenon DEF ValueBytes
<1> DEFINE a == Opening(v)
           b == FlattenSeq(Items(v, d, order))
           c == LastLine(v, d)
           e == Closing(v)
           x == Total([j \in 1..Len(Values[v].items) |-> ItemBytes(opts, g, v, d, j)])
           y == Total([i \in 1..Len(Values[v].items) |-> CommaBytes(v, i)])
           z == LastLineBytes(opts, v, d)
<1>4. a \in Seq(Task) /\ b \in Seq(Task) /\ c \in Seq(Task) /\ e \in Seq(Task)
  BY OrdersType, PartsAreTasks
<1>5. ContainerCalls(v, d, order) = a \o b \o c \o e
  BY ContainerIs
<1>6. BytesOf(opts, a) = 1 /\ BytesOf(opts, e) = 1
  BY BytesPut DEF Opening, Closing, Lex
<1>7. BytesOf(opts, b) = x + y
  <2>1. g = Bytes(opts)[MaxDepth - (d + 1)]
    BY <1>1, <1>2, Zenon
  <2> QED BY <2>1, BytesItems
<1>8. BytesOf(opts, c) = z
  BY BytesLine, BytesNone DEF LastLine, LastLineBytes
<1>9. x \in Nat /\ y \in Nat /\ z \in Nat
  BY ContainerNat
<1>10. ContainerBytes(opts, g, v, d) = 2 + x + y + z
  BY Zenon DEF ContainerBytes
<1> HIDE DEF a, b, c, e, x, y, z
<1>11. BytesOf(opts, a \o b \o c \o e)
         = ((BytesOf(opts, a) + BytesOf(opts, b)) + BytesOf(opts, c)) + BytesOf(opts, e)
  BY <1>4, BytesFour
<1>12. BytesOf(opts, a \o b \o c \o e) = ((1 + (x + y)) + z) + 1
  BY <1>6, <1>7, <1>8, <1>11, Zenon
<1>13. ((1 + (x + y)) + z) + 1 = 2 + x + y + z
  BY <1>9
<1> QED BY <1>1, <1>3, <1>5, <1>10, <1>12, <1>13, Zenon

(***************************************************************************)
(* Two passes.  As long as no jw_ call has failed, what has been appended  *)
(* and what is left make up the whole text, in either pass.                *)
(***************************************************************************)

WholeBytes(o, v) == Bytes(o)[MaxDepth][v] + (IF o.trailing_nl THEN 1 ELSE 0)

OnTheWay == err = "OK" /\ used + BytesOf(opts, todo) = WholeBytes(opts, root)

\* json_measure has counted everything.
Reliable == measured.result = "OK" /\ measured.err = "OK"

BytesInv ==
  /\ phase = "measure" /\ err = "OK" => OnTheWay
  /\ phase # "measure" /\ Reliable => measured.size = WholeBytes(opts, root)
  /\ phase = "write" /\ Reliable /\ cap > measured.size => OnTheWay
  /\ MeasuredSuffices

LEMMA BytesWholeText ==
  ASSUME NEW o \in Options, NEW v \in Id
  PROVE  BytesOf(o, WholeText(v, o)) = WholeBytes(o, v) /\ WholeBytes(o, v) \in Nat
<1>1. 0 \in Nat /\ 0 <= MaxDepth /\ MaxDepth - 0 = MaxDepth /\ MaxDepth \in 0..MaxDepth
  BY LimitsAssumption
<1>2. PICK g \in [Id -> Nat] : g = Bytes(o)[MaxDepth]
  BY <1>1, BytesValue
<1>3. BytesOf(o, Write(v, 0)) = g[v] /\ Write(v, 0) \in Seq(Task)
  <2>1. BytesOf(o, Write(v, 0)) = Bytes(o)[MaxDepth - 0][v]
    BY <1>1, BytesWrite
  <2>2. Write(v, 0) \in Seq(Task)
    BY <1>1, WriteIsTask
  <2> QED BY <1>1, <1>2, <2>1, <2>2, Zenon
<1>4. Checked(Blank) \in Seq(Task) /\ << >> \in Seq(Task)
  BY PutIsTask, EmptySeq DEF Lex
<1> DEFINE end == IF o.trailing_nl THEN Checked(Blank) ELSE << >>
           m == IF o.trailing_nl THEN 1 ELSE 0
<1>5. end \in Seq(Task)
  BY <1>4
<1>6. BytesOf(o, end) = m /\ m \in Nat
  BY BytesPut, BytesNone DEF Lex
<1>7. WholeText(v, o) = Write(v, 0) \o end
  BY DEF WholeText
<1>8. WholeBytes(o, v) = g[v] + m
  BY <1>2, Zenon DEF WholeBytes
<1> HIDE DEF end, m
<1>9. BytesOf(o, Write(v, 0) \o end) = BytesOf(o, Write(v, 0)) + BytesOf(o, end)
  BY <1>3, <1>5, BytesConcat
<1>10. BytesOf(o, WholeText(v, o)) = g[v] + m
  BY <1>3, <1>6, <1>7, <1>9, Zenon
<1>11. g[v] \in Nat
  OBVIOUS
<1> QED BY <1>6, <1>8, <1>10, <1>11

\* What is left takes what the next task takes, and the others.
LEMMA BytesHead ==
  ASSUME WriterInv, todo # << >>
  PROVE  /\ BytesOf(opts, todo) = TaskBytes(opts, head) + BytesOf(opts, Tail(todo))
         /\ TaskBytes(opts, head) \in Nat /\ BytesOf(opts, Tail(todo)) \in Nat
<1>1. todo \in Seq(Task) /\ head \in Task /\ Tail(todo) \in Seq(Task) /\ opts \in Options
  BY HeadIsTask DEF WriterInv
<1>2. PICK h \in Task, r \in Seq(Task), o \in Options :
        h = head /\ r = Tail(todo) /\ o = opts
  BY <1>1
<1>3. todo = <<h>> \o r
  BY <1>1, <1>2 DEF head
<1>4. BytesOf(o, <<h>> \o r) = BytesOf(o, <<h>>) + BytesOf(o, r)
  <2>1. <<h>> \in Seq(Task)
    OBVIOUS
  <2> QED BY <2>1, BytesConcat
<1>5. BytesOf(o, <<h>>) = TaskBytes(o, h) /\ TaskBytes(o, h) \in Nat /\ BytesOf(o, r) \in Nat
  BY BytesOne, TaskNat, EachType
<1> QED BY <1>2, <1>3, <1>4, <1>5, Zenon

LEMMA BytesInvInit == Init => BytesInv
<1> SUFFICES ASSUME Init PROVE BytesInv
  OBVIOUS
<1>1. root \in Id /\ opts \in Options
  BY ValuesAssumption DEF Init
<1>2. /\ todo = WholeText(root, opts) /\ used = 0 /\ err = "OK" /\ phase = "measure"
  BY DEF Init
<1>3. BytesOf(opts, todo) = WholeBytes(opts, root) /\ WholeBytes(opts, root) \in Nat
  BY <1>1, <1>2, BytesWholeText
<1>4. OnTheWay
  BY <1>2, <1>3 DEF OnTheWay
<1> QED BY <1>2, <1>4 DEF BytesInv, MeasuredSuffices

\* A step inside a call: what it appends, it takes from what is left.
LEMMA BytesProceed ==
  ASSUME BytesInv, Running,
         UNCHANGED <<root, opts, phase, cap, measured>>,
         err' = "OK" => /\ err = "OK"
                        /\ used' + BytesOf(opts, todo') = used + BytesOf(opts, todo),
         phase = "write" /\ Reliable /\ cap > measured.size => err' = "OK"
  PROVE  BytesInv'
<1>1. /\ WholeBytes(opts, root)' = WholeBytes(opts, root)
      /\ Reliable' = Reliable
      /\ BytesOf(opts, todo)' = BytesOf(opts, todo')
  BY DEF Reliable
<1>2. phase # "done" /\ phase' = phase
  BY DEF Running
<1>3. OnTheWay /\ err' = "OK" => OnTheWay'
  BY <1>1 DEF OnTheWay
<1>4. phase' = "measure" /\ err' = "OK" => OnTheWay'
  BY <1>2, <1>3 DEF BytesInv
<1>5. phase' # "measure" /\ Reliable' => measured'.size = WholeBytes(opts, root)'
  BY <1>1, <1>2 DEF BytesInv
<1>6. phase' = "write" /\ Reliable' /\ cap' > measured'.size => OnTheWay'
  BY <1>1, <1>2, <1>3 DEF BytesInv
<1>7. MeasuredSuffices'
  BY <1>2 DEF MeasuredSuffices
<1> QED BY <1>4, <1>5, <1>6, <1>7 DEF BytesInv

\* The end of a call.
LEMMA BytesReturn ==
  ASSUME BytesInv, Running, NEW code, Return(code),
         UNCHANGED <<root, opts, cap>>,
         measure_only /\ code = "OK" /\ err' = "OK" => used' = WholeBytes(opts, root),
         phase = "write" /\ Reliable /\ cap > measured.size =>
           \/ code = "OK" /\ used' = measured.size
           \/ code = "OOM" /\ \E v \in Id : Sorts(v)
  PROVE  BytesInv'
<1>1. WholeBytes(opts, root)' = WholeBytes(opts, root)
  OBVIOUS
<1>2. /\ result' = code
      /\ phase' = IF measure_only THEN "measured" ELSE "done"
      /\ measured' = IF measure_only
                       THEN [size |-> used', result |-> code, err |-> err']
                       ELSE measured
  BY DEF Return
<1>3. CASE measure_only
  <2>1. /\ phase' = "measured" /\ measured'.size = used'
        /\ measured'.result = code /\ measured'.err = err'
    BY <1>2, <1>3
  <2>2. Reliable' => measured'.size = WholeBytes(opts, root)'
    BY <1>1, <1>3, <2>1 DEF Reliable
  <2> QED BY <2>1, <2>2 DEF BytesInv, MeasuredSuffices
<1>4. CASE ~measure_only
  <2>1. /\ phase' = "done" /\ measured' = measured /\ phase = "write" /\ ~measure_only'
    BY <1>2, <1>4 DEF Running, measure_only
  <2>2. Reliable' = Reliable
    BY <2>1 DEF Reliable
  <2>3. Reliable => measured.size = WholeBytes(opts, root)
    BY <2>1 DEF BytesInv
  <2>4. (\E v \in Id : Sorts(v)) => \E v \in Id : Sorts(v)'
    BY <2>1 DEF Sorts
  <2>5. MeasuredSuffices'
    BY <1>2, <2>1, <2>4 DEF MeasuredSuffices, Reliable
  <2> QED BY <1>1, <2>1, <2>2, <2>3, <2>5 DEF BytesInv
<1> QED BY <1>3, <1>4

\* In a buffer of more than the measured size, every piece fits.
LEMMA PieceFits ==
  ASSUME WriterInv, BytesInv, At(Op \ {"value"}),
         phase = "write", Reliable, cap > measured.size
  PROVE  head.n <= Room
<1>1. todo # << >> /\ head.op # "value"
  BY DEF At
<1>2. OnTheWay /\ measured.size = WholeBytes(opts, root)
  BY DEF BytesInv
<1>3. TaskBytes(opts, head) = head.n
  BY <1>1, Zenon DEF TaskBytes
<1>4. PICK n \in Nat, r \in Nat : n = TaskBytes(opts, head) /\ r = BytesOf(opts, Tail(todo))
  BY <1>1, BytesHead
<1>5. PICK b : b = BytesOf(opts, todo) /\ b = n + r
  BY <1>1, <1>4, BytesHead
<1>6. PICK u \in Nat, c \in Nat, s \in Nat : u = used /\ c = cap /\ s = measured.size
  BY DEF WriterInv
<1>7. u + b = s
  BY <1>2, <1>5, <1>6 DEF OnTheWay
<1>8. c > s
  BY <1>6
<1>9. n <= (c - 1) - u /\ c # 0
  BY <1>5, <1>7, <1>8
<1>10. Room = (c - 1) - u
  BY <1>6, <1>9 DEF Room, measure_only
<1> QED BY <1>3, <1>4, <1>9, <1>10

LEMMA BytesCallFits ==
  ASSUME WriterInv, BytesInv, CallFits
  PROVE  BytesInv'
<1>1. /\ Running /\ todo # << >> /\ head.op # "value"
      /\ used' = used + head.n /\ err' = err
      /\ UNCHANGED <<root, opts, cap>>
      /\ Proceed \/ (Return(err) /\ err # "OK")
  BY DEF CallFits, At
<1>2. phase = "write" /\ Reliable /\ cap > measured.size => err = "OK"
  BY DEF BytesInv, OnTheWay
<1>3. CASE Proceed
  <2>1. todo' = Tail(todo) /\ UNCHANGED <<phase, measured>>
    BY <1>3 DEF Proceed
  <2>2. used' + BytesOf(opts, todo') = used + BytesOf(opts, todo)
    <3>1. TaskBytes(opts, head) = head.n
      BY <1>1, Zenon DEF TaskBytes
    <3>2. PICK n \in Nat, r \in Nat, u \in Nat :
            n = TaskBytes(opts, head) /\ r = BytesOf(opts, Tail(todo)) /\ u = used
      BY <1>1, BytesHead DEF WriterInv
    <3>3. BytesOf(opts, todo) = n + r
      BY <1>1, <3>2, BytesHead
    <3>4. used' = u + n /\ BytesOf(opts, todo') = r
      BY <1>1, <2>1, <3>1, <3>2
    <3>5. (u + n) + r = u + (n + r)
      OBVIOUS
    <3> QED BY <3>2, <3>3, <3>4, <3>5, Zenon
  <2> QED BY <1>1, <1>2, <2>1, <2>2, BytesProceed
<1>4. CASE Return(err) /\ err # "OK"
  BY <1>1, <1>2, <1>4, BytesReturn
<1> QED BY <1>1, <1>3, <1>4

LEMMA BytesCallFails ==
  ASSUME WriterInv, BytesInv, CallFails
  PROVE  BytesInv'
<1>1. /\ Running /\ At({"put", "puts", "int", "content", "indent"})
      /\ head.n > Room /\ err' = ErrorOf(head)
      /\ UNCHANGED <<root, opts, cap>>
      /\ Proceed \/ Return(ReturnOf(head))
  BY DEF CallFails, At
<1>2. ErrorOf(head) # "OK" /\ ReturnOf(head) # "OK"
  BY DEF ErrorOf, ReturnOf
<1>3. ~(phase = "write" /\ Reliable /\ cap > measured.size)
  <2> SUFFICES ASSUME phase = "write", Reliable, cap > measured.size PROVE FALSE
    OBVIOUS
  <2>1. At(Op \ {"value"})
    BY <1>1 DEF At, Op
  <2>2. head.n <= Room
    BY <2>1, PieceFits
  <2>3. head.n \in Nat /\ Room \in Int
    BY <1>1, CallSize DEF Room, WriterInv, measure_only
  <2> QED BY <1>1, <2>2, <2>3
<1>4. CASE Proceed
  <2>1. UNCHANGED <<phase, measured>>
    BY <1>4 DEF Proceed
  <2> QED BY <1>1, <1>2, <1>3, <2>1, BytesProceed
<1>5. CASE Return(ReturnOf(head))
  BY <1>1, <1>2, <1>3, <1>5, BytesReturn
<1> QED BY <1>1, <1>4, <1>5

LEMMA BytesTooDeep ==
  ASSUME WriterInv, DepthInv, BytesInv, TooDeep
  PROVE  BytesInv'
<1>1. Running /\ Return("DEPTH_EXCEEDED") /\ UNCHANGED <<root, opts, cap>>
  BY DEF TooDeep, At
<1>2. phase = "write" => ~Reliable
  BY DepthTooDeep DEF DepthInv, DepthTruthful, Reliable
<1> QED BY <1>1, <1>2, BytesReturn

LEMMA BytesSortRefused ==
  ASSUME WriterInv, BytesInv, SortRefused
  PROVE  BytesInv'
<1>1. Running /\ Return("OOM") /\ UNCHANGED <<root, opts, cap>>
  BY DEF SortRefused, At
<1>2. Sorts(head.of) /\ head.of \in Id
  BY ValueHead DEF SortRefused
<1> QED BY <1>1, <1>2, BytesReturn

LEMMA BytesFinish ==
  ASSUME WriterInv, BytesInv, Finish
  PROVE  BytesInv'
<1> DEFINE code == IF measure_only \/ used < cap THEN "OK" ELSE "BUFFER_TOO_SMALL"
<1>1. /\ Running /\ todo = << >> /\ Return(code)
      /\ UNCHANGED <<root, opts, cap, used, err>>
  BY DEF Finish
<1>2. BytesOf(opts, todo) = 0
  BY <1>1, BytesNone DEF WriterInv
<1>3. OnTheWay => used = WholeBytes(opts, root)
  BY <1>2 DEF OnTheWay, WriterInv
<1>4. measure_only /\ err = "OK" => used = WholeBytes(opts, root)
  BY <1>3 DEF BytesInv, measure_only
<1>5. phase = "write" /\ Reliable /\ cap > measured.size =>
        code = "OK" /\ used = measured.size
  <2> SUFFICES ASSUME phase = "write", Reliable, cap > measured.size
               PROVE  code = "OK" /\ used = measured.size
    OBVIOUS
  <2>1. used = measured.size
    BY <1>3 DEF BytesInv
  <2>2. used < cap
    BY <2>1 DEF WriterInv
  <2> QED BY <2>1, <2>2
<1> HIDE DEF code
<1> QED BY <1>1, <1>4, <1>5, BytesReturn

\* A value gives way to calls that take what it does.
LEMMA BytesExpand ==
  ASSUME WriterInv, BytesInv, Running, todo # << >>,
         NEW calls \in Seq(Task), todo' = calls \o Tail(todo),
         UNCHANGED <<root, opts, phase, cap, used, err, text, result, measured>>,
         BytesOf(opts, calls) = TaskBytes(opts, head)
  PROVE  BytesInv'
<1>1. PICK r \in Seq(Task), o \in Options : r = Tail(todo) /\ o = opts
  BY HeadIsTask DEF WriterInv
<1>2. BytesOf(o, calls \o r) = BytesOf(o, calls) + BytesOf(o, r)
  BY BytesConcat
<1>3. BytesOf(opts, todo') = BytesOf(opts, todo)
  BY <1>1, <1>2, BytesHead, Zenon
<1>4. phase = "write" /\ Reliable /\ cap > measured.size => err' = "OK"
  BY DEF BytesInv, OnTheWay
<1> QED BY <1>3, <1>4, BytesProceed

LEMMA BytesBegun ==
  ASSUME WriterInv, BytesInv, WriteScalar \/ WriteContainer
  PROVE  BytesInv'
<1>1. /\ At({"value"}) /\ Running /\ todo # << >> /\ head.op = "value"
      /\ head.depth < MaxDepth
      /\ UNCHANGED <<root, opts, phase, cap, used, err, text, result, measured>>
  BY DEF WriteScalar, WriteContainer, At
<1>2. PICK v \in Id, d \in Nat, o \in Options : v = head.of /\ d = head.depth /\ o = opts
  BY <1>1, ValueHead, CallSize DEF WriterInv
<1>3. d < MaxDepth /\ d <= MaxDepth
  BY <1>1, <1>2, LimitsAssumption
<1>4. TaskBytes(opts, head) = Bytes(o)[MaxDepth - d][v]
  BY <1>1, <1>2, <1>3, Zenon DEF TaskBytes
<1>5. CASE WriteScalar
  <2>1. Values[v].type \notin {"array", "object"} /\ todo' = ScalarCalls(v) \o Tail(todo)
    BY <1>2, <1>5 DEF WriteScalar
  <2>2. PICK k \in 1..MaxDepth : k = MaxDepth - d
    BY <1>3, LimitsAssumption
  <2>3. Bytes(o)[k][v] = ValueBytes(o, Bytes(o)[k - 1], v, MaxDepth - k)
    BY BytesValue
  <2>4. Bytes(o)[k][v] = ScalarBytes(v)
    BY <2>1, <2>3, Zenon DEF ValueBytes
  <2>5. BytesOf(o, ScalarCalls(v)) = ScalarBytes(v) /\ ScalarCalls(v) \in Seq(Task)
    BY BytesScalar, ScalarIsTasks
  <2>6. BytesOf(opts, ScalarCalls(v)) = TaskBytes(opts, head)
    BY <1>2, <1>4, <2>2, <2>4, <2>5, Zenon
  <2> QED BY <1>1, <2>1, <2>5, <2>6, BytesExpand
<1>6. CASE WriteContainer
  <2>1. PICK order \in Orders(v) : todo' = ContainerCalls(v, d, order) \o Tail(todo)
    BY <1>2, <1>6 DEF WriteContainer
  <2>2. Values[v].type \in {"array", "object"} /\ opts \in Options
    BY <1>2, <1>6 DEF WriteContainer
  <2>3. ContainerCalls(v, d, order) \in Seq(Task)
    BY <2>2, OrdersType, ContainerIsTasks
  <2>4. BytesOf(opts, ContainerCalls(v, d, order)) = Bytes(opts)[MaxDepth - d][v]
    BY <1>3, <2>2, BytesContainer
  <2>5. BytesOf(opts, ContainerCalls(v, d, order)) = TaskBytes(opts, head)
    BY <1>2, <1>4, <2>4, Zenon
  <2> QED BY <1>1, <2>1, <2>3, <2>5, BytesExpand
<1> QED BY <1>5, <1>6

LEMMA BytesStart ==
  ASSUME WriterInv, BytesInv, ~Running, NEW buf_size, StartWrite(buf_size)
  PROVE  BytesInv'
<1>1. /\ phase' = "write" /\ err' = "OK" /\ used' = 0 /\ todo' = WholeText(root, opts)
      /\ UNCHANGED <<root, opts, result, measured>>
      /\ root \in Id /\ opts \in Options /\ phase # "measure"
  BY DEF StartWrite, WriterInv, Running
<1>2. WholeBytes(opts, root)' = WholeBytes(opts, root) /\ Reliable' = Reliable
  BY <1>1 DEF Reliable
<1>3. BytesOf(opts, todo)' = WholeBytes(opts, root) /\ WholeBytes(opts, root) \in Nat
  <2>1. BytesOf(opts, todo)' = BytesOf(opts, todo')
    BY <1>1
  <2> QED BY <1>1, <2>1, BytesWholeText
<1>4. OnTheWay'
  BY <1>1, <1>2, <1>3 DEF OnTheWay
<1>5. Reliable => measured.size = WholeBytes(opts, root)
  BY <1>1 DEF BytesInv
<1> QED BY <1>1, <1>2, <1>4, <1>5 DEF BytesInv, MeasuredSuffices

LEMMA BytesInvNext ==
  WriterInv /\ DepthInv /\ BytesInv /\ [Next]_vars => BytesInv'
<1> SUFFICES ASSUME WriterInv, DepthInv, BytesInv, [Next]_vars PROVE BytesInv'
  OBVIOUS
<1>1. CASE Work
  BY <1>1, BytesCallFits, BytesCallFails, BytesTooDeep, BytesSortRefused, BytesFinish,
     BytesBegun DEF Work
<1>2. CASE JsonWrite \/ JsonWriteArena
  <2>1. ~Running /\ \E buf_size : StartWrite(buf_size)
    BY <1>2 DEF JsonWrite, JsonWriteArena
  <2> QED BY <2>1, BytesStart
<1>3. CASE JsonWriteArenaFails
  <2>1. /\ phase' = "done" /\ cap' = 0 /\ phase # "measure"
        /\ UNCHANGED <<root, opts, measured>> /\ measured.size \in Nat
    BY <1>3 DEF JsonWriteArenaFails, WriterInv, Running
  <2>2. WholeBytes(opts, root)' = WholeBytes(opts, root) /\ Reliable' = Reliable
    BY <2>1 DEF Reliable
  <2>3. ~(cap' > measured'.size)
    BY <2>1
  <2>4. MeasuredSuffices'
    BY <2>3 DEF MeasuredSuffices
  <2> QED BY <2>1, <2>2, <2>4 DEF BytesInv
<1>4. CASE UNCHANGED vars
  <2>1. /\ UNCHANGED <<root, opts, phase, cap, used, err, todo, result, measured>>
    BY <1>4 DEF vars
  <2>2. /\ WholeBytes(opts, root)' = WholeBytes(opts, root) /\ Reliable' = Reliable
        /\ BytesOf(opts, todo)' = BytesOf(opts, todo)
    BY <2>1 DEF Reliable
  <2>3. OnTheWay' = OnTheWay
    BY <2>1, <2>2 DEF OnTheWay
  <2>4. \A v \in Id : Sorts(v)' = Sorts(v)
    BY <2>1 DEF Sorts, measure_only
  <2>5. MeasuredSuffices'
    BY <2>1, <2>4 DEF BytesInv, MeasuredSuffices
  <2> QED BY <2>1, <2>2, <2>3, <2>5 DEF BytesInv
<1> QED BY <1>1, <1>2, <1>3, <1>4 DEF Next

\* After a measurement in which no jw_ call failed, a write to a buffer of more
\* than the measured size writes exactly that many bytes and returns JSON_OK, in
\* whatever order sort_keys writes the items, unless the sort gets no memory.
THEOREM MeasuredSufficesHolds == Spec => []MeasuredSuffices
<1>1. BytesInv => MeasuredSuffices
  BY DEF BytesInv
<1>2. Init => WriterInv /\ DepthInv /\ BytesInv
  BY WriterInvInit, DepthInvInit, BytesInvInit
<1>3. WriterInv /\ DepthInv /\ BytesInv /\ [Next]_vars => (WriterInv /\ DepthInv /\ BytesInv)'
  BY WriterInvNext, DepthInvNext, BytesInvNext
<1> QED BY <1>1, <1>2, <1>3, PTL DEF Spec
=============================================================================
