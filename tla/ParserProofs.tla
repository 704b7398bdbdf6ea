---------------------------- MODULE ParserProofs ----------------------------
(***************************************************************************)
(* Proofs about Parser, for every limit and every input: the stack and the *)
(* walk first, then the error codes and capacities, which tell the truth,  *)
(* and the nodes, which form a forest that is one tree in the end.         *)
(*                                                                         *)
(* ParserInv adds to the properties that a frame in a container state      *)
(* points to a node that exists.  A step of the loop changes the stack in  *)
(* three ways only: it rewrites the top frame, pushes a VALUE frame over   *)
(* it, or pops it and resumes the frame below; Rewritten, Pushed and       *)
(* Popped say what each does to the frames.                                *)
(***************************************************************************)
EXTENDS Parser, FiniteSetTheorems, SequenceTheorems, TLAPS

ParserInv ==
  /\ input \in Inputs
  /\ base \in BaseCounts
  /\ TypeOK
  /\ StackBounded
  /\ FramesNested
  /\ \A i \in 1..depth :
       stack[i].state # "VALUE" => stack[i].container \in 1..Len(nodes)

LEMMA InputLength == ASSUME input \in Inputs PROVE Len(input) \in Nat
  BY InputsAssumption

\* A refused lexeme ends the call, at a limit only if it is beyond one.
LEMMA RefusalCodes ==
  ASSUME NEW l
  PROVE  /\ RefusalOf(l) \in Failure \ {"OOM", "DEPTH_EXCEEDED", "NODE_LIMIT"}
         /\ RefusalOf(l) = "OVERFLOW" => l \in TooLarge
BY DEF RefusalOf, Failure, TooLarge

LEMMA Rewritten ==
  ASSUME NEW S, NEW s \in Seq(S), Len(s) > 0, NEW f \in S
  PROVE  LET t == [s EXCEPT ![Len(s)] = f]
         IN  /\ t \in Seq(S) /\ Len(t) = Len(s)
             /\ t[Len(s)] = f
             /\ \A i \in 1..(Len(s) - 1) : t[i] = s[i]
  OBVIOUS

LEMMA Pushed ==
  ASSUME NEW S, NEW s \in Seq(S), Len(s) > 0, NEW f \in S, NEW g \in S
  PROVE  LET t == Append([s EXCEPT ![Len(s)] = f], g)
         IN  /\ t \in Seq(S) /\ Len(t) = Len(s) + 1
             /\ t[Len(s) + 1] = g
             /\ t[Len(s)] = f
             /\ \A i \in 1..(Len(s) - 1) : t[i] = s[i]
<1> DEFINE r == [s EXCEPT ![Len(s)] = f]
<1>1. /\ r \in Seq(S) /\ Len(r) = Len(s)
      /\ r[Len(s)] = f
      /\ \A i \in 1..(Len(s) - 1) : r[i] = s[i]
  OBVIOUS
<1> HIDE DEF r
<1>2. LET t == Append(r, g)
      IN  /\ t \in Seq(S) /\ Len(t) = Len(s) + 1
          /\ t[Len(s) + 1] = g
          /\ t[Len(s)] = f
          /\ \A i \in 1..(Len(s) - 1) : t[i] = s[i]
  BY <1>1
<1> QED BY <1>2 DEF r

LEMMA Prefix ==
  ASSUME NEW S, NEW s \in Seq(S), NEW n \in Nat, n <= Len(s)
  PROVE  /\ SubSeq(s, 1, n) \in Seq(S)
         /\ Len(SubSeq(s, 1, n)) = n
         /\ \A i \in 1..n : SubSeq(s, 1, n)[i] = s[i]
<1>1. \A i \in 1..n : s[i] \in S
  OBVIOUS
<1> DEFINE r == SubSeq(s, 1, n)
<1>2. /\ r \in Seq(S)
      /\ Len(r) = IF 1 <= n THEN n - 1 + 1 ELSE 0
      /\ \A i \in 1..(n - 1 + 1) : r[i] = s[1 + i - 1]
  BY <1>1, SubSeqProperties
<1> HIDE DEF r
<1>3. n - 1 + 1 = n /\ \A i \in 1..n : 1 + i - 1 = i
  OBVIOUS
<1>4. Len(r) = n /\ \A i \in 1..n : r[i] = s[i]
  BY <1>2, <1>3
<1> QED BY <1>2, <1>4 DEF r

LEMMA Popped ==
  ASSUME NEW S, NEW s \in Seq(S), Len(s) > 1, NEW f \in S
  PROVE  LET t == Append(SubSeq(s, 1, Len(s) - 2), f)
         IN  /\ t \in Seq(S) /\ Len(t) = Len(s) - 1
             /\ t[Len(s) - 1] = f
             /\ \A i \in 1..(Len(s) - 2) : t[i] = s[i]
<1> DEFINE r == SubSeq(s, 1, Len(s) - 2)
<1>1. /\ r \in Seq(S) /\ Len(r) = Len(s) - 2
      /\ \A i \in 1..(Len(s) - 2) : r[i] = s[i]
  <2>1. Len(s) - 2 \in Nat /\ Len(s) - 2 <= Len(s)
    OBVIOUS
  <2> QED BY <2>1, Prefix
<1> HIDE DEF r
<1>2. LET t == Append(r, f)
      IN  /\ t \in Seq(S) /\ Len(t) = Len(s) - 1
          /\ t[Len(s) - 1] = f
          /\ \A i \in 1..(Len(s) - 2) : t[i] = s[i]
  BY <1>1
<1> QED BY <1>2 DEF r

LEMMA NewNodeType ==
  ASSUME ParserInv, NEW type \in {"scalar", "array", "object"}
  PROVE  /\ With(type) \in Seq(Node)
         /\ Len(With(type)) = Len(nodes) + 1
         /\ NewId \in 1..Len(With(type))
         /\ NewId \in Nat
<1>1. nodes \in Seq(Node) /\ pos \in Nat
  BY InputLength DEF ParserInv, TypeOK
<1>2. NewNode(type) \in Node
  BY <1>1 DEF NewNode, Node
<1> QED BY <1>1, <1>2 DEF With, NewId

\* A step that ends the call leaves only the types to check.
LEMMA FailInv ==
  ASSUME ParserInv, NEW code \in Failure, Fail(code),
         input' = input, base' = base,
         nodes' \in Seq(Node), Len(nodes') >= Len(nodes)
  PROVE  ParserInv'
<1>1. /\ status' = code /\ pos' = pos /\ stack' = stack /\ root' = root
      /\ code # "RUNNING"
  BY DEF Fail, Failure
<1>2. Len(nodes) \in Nat /\ Len(nodes') \in Nat
  BY DEF ParserInv, TypeOK
<1>3. TypeOK'
  BY <1>1, <1>2 DEF ParserInv, TypeOK
<1> QED BY <1>1, <1>2, <1>3 DEF ParserInv, StackBounded, FramesNested, depth, top

LEMMA GrownCapType == ASSUME NEW cap \in Nat PROVE GrownCap(cap) \in Nat
  BY LimitsAssumption DEF GrownCap

LEMMA AddedType ==
  ASSUME NEW node \in Node, NEW entry \in Entry
  PROVE  Added(node, entry) \in Node
<1>1. /\ node.items \in Seq(Entry)
      /\ node.cap \in Nat
      /\ Append(node.items, entry) \in Seq(Entry)
      /\ (IF IsFull(node) THEN GrownCap(node.cap) ELSE node.cap) \in Nat
  BY GrownCapType DEF Node
<1> QED BY <1>1 DEF Added, Node

\* Delivering a finished value keeps the invariant, whichever frame it is for.
LEMMA DeliverInv ==
  ASSUME ParserInv, status = "RUNNING", pos <= Len(input),
         input' = input, base' = base,
         NEW nd \in Seq(Node), Len(nd) >= Len(nodes),
         NEW v \in 1..Len(nd),
         NEW eaten \in {1, 2}, pos + eaten <= Len(input) + 1,
         Deliver(v, nd, eaten)
  PROVE  ParserInv'
<1>1. /\ Len(input) \in Nat
      /\ pos \in Nat /\ pos >= 1
      /\ stack \in Seq(Frame)
      /\ nodes \in Seq(Node)
      /\ root \in 0..Len(nodes)
      /\ depth \in 1..MaxDepth
      /\ Len(nodes) \in Nat /\ Len(nd) \in Nat
  BY InputLength DEF ParserInv, TypeOK, StackBounded
<1>c. \A i \in 1..Len(stack) :
        stack[i].state # "VALUE" => stack[i].container \in 1..Len(nodes)
  BY DEF ParserInv, depth
<1>2. CASE DeliverRoot(v, nd, eaten)
  <2>1. /\ root' = v /\ nodes' = nd /\ pos' = pos + eaten /\ stack' = stack
        /\ status' \in {"OK", "INVALID_JSON"}
    BY <1>2 DEF DeliverRoot, Eat
  <2>2. /\ pos' \in 1..(Len(input') + 1)
        /\ root' \in 0..Len(nodes')
        /\ status' \in Failure \cup {"RUNNING", "OK"}
        /\ status' # "RUNNING"
    BY <1>1, <2>1 DEF Failure
  <2>3. \A i \in 1..depth :
          stack[i].state # "VALUE" => stack[i].container \in 1..Len(nodes')
    BY <1>1, <2>1, SMTT(30) DEF ParserInv
  <2> QED
    BY <1>1, <2>1, <2>2, <2>3
    DEF ParserInv, TypeOK, StackBounded, FramesNested, depth
<1>3. CASE DeliverChild(v, nd, eaten)
  <2> DEFINE c == nd[Parent.container]
             new == Append(SubSeq(stack, 1, depth - 2), Resumed(Parent))
  <2>1. depth > 1 /\ Parent \in Frame /\ Parent.state \in Waiting
    BY <1>1, <1>3, SMTT(30) DEF DeliverChild, Parent, ParserInv, FramesNested, depth
  <2>2. Parent.container \in 1..Len(nd)
    <3>1. Parent.state # "VALUE"
      BY <2>1 DEF Waiting
    <3>2. depth - 1 \in 1..Len(stack)
      BY <1>1, <2>1 DEF depth
    <3>3. Parent.container \in 1..Len(nodes)
      BY <1>c, <3>1, <3>2 DEF Parent
    <3> QED BY <1>1, <3>3
  <2>3. CASE nodes' = nd /\ (Fail("OVERFLOW") \/ Fail("OOM"))
    <3>1. {"OVERFLOW", "OOM"} \subseteq Failure
      BY DEF Failure
    <3> QED BY <2>3, <3>1, FailInv
  <2>4. CASE /\ nodes' = [nd EXCEPT ![Parent.container] =
                                     Added(c, EntryFor(Parent, v))]
             /\ stack' = new
             /\ Eat(eaten)
             /\ UNCHANGED <<root, status>>
    <3>1. EntryFor(Parent, v) \in Entry
      BY <1>1, <2>1 DEF EntryFor, Entry, Frame
    <3>2. c \in Node
      BY <2>2
    <3>3. Added(c, EntryFor(Parent, v)) \in Node
      BY <3>1, <3>2, AddedType
    <3>4. nodes' \in Seq(Node) /\ Len(nodes') = Len(nd)
      BY <2>2, <2>4, <3>3
    <3>5. /\ Resumed(Parent) \in Frame
          /\ Resumed(Parent).state \in {"OBJ_CONT", "ARR_CONT"}
          /\ Resumed(Parent).container = Parent.container
      BY <2>1 DEF Resumed, Frame, FrameState, Waiting
    <3>6. /\ stack' \in Seq(Frame) /\ Len(stack') = Len(stack) - 1
          /\ stack'[Len(stack) - 1] = Resumed(Parent)
          /\ \A i \in 1..(Len(stack) - 2) : stack'[i] = stack[i]
      BY <1>1, <2>1, <2>4, <3>5, Popped DEF depth
    <3>7. TypeOK'
      BY <1>1, <2>4, <3>4, <3>6 DEF TypeOK, Eat, ParserInv
    <3>8. StackBounded'
      BY <1>1, <2>1, <3>5, <3>6, LimitsAssumption, SMTT(30) DEF StackBounded, ParserInv, depth
    <3>9. FramesNested'
      BY <1>1, <2>1, <3>5, <3>6, SMTT(30) DEF FramesNested, ParserInv, depth, top, Waiting
    <3>10. \A i \in 1..Len(stack') :
             stack'[i].state # "VALUE" => stack'[i].container \in 1..Len(nodes')
      <4>1. ASSUME NEW i \in 1..Len(stack'), stack'[i].state # "VALUE"
            PROVE  stack'[i].container \in 1..Len(nd)
        <5>1. CASE i = Len(stack) - 1
          BY <2>2, <3>5, <3>6, <5>1
        <5>2. CASE i # Len(stack) - 1
          <6>1. i \in 1..(Len(stack) - 2) /\ i \in 1..Len(stack)
            BY <1>1, <2>1, <3>6, <5>2, SMTT(30) DEF depth
          <6>2. stack[i].container \in 1..Len(nodes)
            BY <1>c, <3>6, <4>1, <6>1
          <6>3. stack'[i] = stack[i]
            BY <3>6, <6>1
          <6>4. 1..Len(nodes) \subseteq 1..Len(nd)
            BY <1>1
          <6> QED BY <6>2, <6>3, <6>4
        <5> QED BY <5>1, <5>2
      <4> QED BY <3>4, <4>1
    <3> QED BY <3>7, <3>8, <3>9, <3>10 DEF ParserInv, depth
  <2> QED BY <1>3, <2>3, <2>4 DEF DeliverChild
<1> QED BY <1>2, <1>3 DEF Deliver

LEMMA PushInv ==
  ASSUME ParserInv, status = "RUNNING", pos <= Len(input),
         input' = input, base' = base, UNCHANGED <<root, status>>,
         nodes' \in Seq(Node), Len(nodes') >= Len(nodes),
         depth < MaxDepth,
         NEW frame \in Frame, frame.state \in Waiting,
         frame.container \in 1..Len(nodes'),
         Push(frame), Eat(1)
  PROVE  ParserInv'
<1>1. /\ Len(input) \in Nat
      /\ pos \in Nat /\ pos >= 1
      /\ stack \in Seq(Frame) /\ Len(stack) \in Nat /\ Len(stack) > 0
      /\ root \in 0..Len(nodes)
      /\ Len(nodes) \in Nat /\ Len(nodes') \in Nat
  BY InputLength DEF ParserInv, TypeOK, StackBounded, depth
<1>2. ValueFrame \in Frame
  BY DEF ValueFrame, Frame, FrameState
<1>3. /\ stack' \in Seq(Frame) /\ Len(stack') = Len(stack) + 1
      /\ stack'[Len(stack) + 1] = ValueFrame
      /\ stack'[Len(stack)] = frame
      /\ \A i \in 1..(Len(stack) - 1) : stack'[i] = stack[i]
  BY <1>1, <1>2, Pushed DEF Push, depth
<1>4. TypeOK'
  BY <1>1, <1>3 DEF TypeOK, ParserInv, Eat
<1>5. StackBounded'
  BY <1>1, <1>3, LimitsAssumption DEF StackBounded, ParserInv, depth, ValueFrame
<1>6. FramesNested'
  BY <1>1, <1>3, SMTT(30) DEF FramesNested, ParserInv, depth, top, ValueFrame, Waiting
<1>7. ASSUME NEW i \in 1..Len(stack'), stack'[i].state # "VALUE"
      PROVE  stack'[i].container \in 1..Len(nodes')
  <2>1. CASE i = Len(stack) + 1
    BY <1>3, <1>7, <2>1 DEF ValueFrame
  <2>2. CASE i = Len(stack)
    BY <1>3, <2>2
  <2>3. CASE i \in 1..(Len(stack) - 1)
    <3>1. stack'[i] = stack[i] /\ i \in 1..depth
      BY <1>1, <1>3, <2>3, SMTT(30) DEF depth
    <3>2. stack[i].container \in 1..Len(nodes)
      BY <1>7, <3>1 DEF ParserInv
    <3> QED BY <1>1, <3>1, <3>2
  <2> QED BY <1>1, <1>3, <2>1, <2>2, <2>3
<1> QED BY <1>4, <1>5, <1>6, <1>7 DEF ParserInv, depth

LEMMA RewriteInv ==
  ASSUME ParserInv, status = "RUNNING", pos <= Len(input),
         input' = input, base' = base, UNCHANGED <<root, status>>,
         nodes' \in Seq(Node), Len(nodes') >= Len(nodes),
         depth < MaxDepth,
         NEW frame \in Frame, frame.state \notin Waiting,
         frame.container \in 1..Len(nodes'),
         Rewrite(frame), Eat(1)
  PROVE  ParserInv'
<1>1. /\ Len(input) \in Nat
      /\ pos \in Nat /\ pos >= 1
      /\ stack \in Seq(Frame) /\ Len(stack) \in Nat /\ Len(stack) > 0
      /\ root \in 0..Len(nodes)
      /\ Len(nodes) \in Nat /\ Len(nodes') \in Nat
  BY InputLength DEF ParserInv, TypeOK, StackBounded, depth
<1>2. /\ stack' \in Seq(Frame) /\ Len(stack') = Len(stack)
      /\ stack'[Len(stack)] = frame
      /\ \A i \in 1..(Len(stack) - 1) : stack'[i] = stack[i]
  BY <1>1, Rewritten DEF Rewrite, depth
<1>3. TypeOK'
  BY <1>1, <1>2 DEF TypeOK, ParserInv, Eat
<1>4. StackBounded'
  BY <1>1, <1>2, LimitsAssumption DEF StackBounded, ParserInv, depth
<1>5. FramesNested'
  BY <1>1, <1>2 DEF FramesNested, ParserInv, depth, top
<1>6. ASSUME NEW i \in 1..Len(stack'), stack'[i].state # "VALUE"
      PROVE  stack'[i].container \in 1..Len(nodes')
  <2>1. CASE i = Len(stack)
    BY <1>2, <2>1
  <2>2. CASE i \in 1..(Len(stack) - 1)
    <3>1. stack'[i] = stack[i] /\ i \in 1..depth
      BY <1>1, <1>2, <2>2 DEF depth
    <3>2. stack[i].container \in 1..Len(nodes)
      BY <1>6, <3>1 DEF ParserInv
    <3> QED BY <1>1, <3>1, <3>2
  <2> QED BY <1>1, <1>2, <2>1, <2>2
<1> QED BY <1>3, <1>4, <1>5, <1>6 DEF ParserInv, depth

THEOREM ParserInvInit == Init => ParserInv
<1> SUFFICES ASSUME Init PROVE ParserInv
  OBVIOUS
<1>1. ValueFrame \in Frame
  BY DEF ValueFrame, Frame, FrameState
<1>2. /\ stack \in Seq(Frame) /\ Len(stack) = 1 /\ stack[1] = ValueFrame
  BY <1>1 DEF Init
<1>3. TypeOK
  BY <1>2, InputLength DEF Init, TypeOK
<1>4. StackBounded
  BY <1>2, LimitsAssumption DEF StackBounded, depth, ValueFrame
<1>5. FramesNested
  BY <1>2 DEF FramesNested, depth, top, ValueFrame, Waiting
<1>6. \A i \in 1..depth : stack[i].state = "VALUE"
  BY <1>2 DEF depth, ValueFrame
<1> QED BY <1>3, <1>4, <1>5, <1>6 DEF Init, ParserInv

\* In the middle of a call the top frame exists and, unless it is a VALUE
\* frame, holds a container and has room above it.
LEMMA TopFrame ==
  ASSUME ParserInv
  PROVE  /\ top \in Frame
         /\ stack \in Seq(Frame)
         /\ nodes \in Seq(Node)
         /\ Len(nodes) \in Nat
         /\ pos \in Nat /\ Len(input) \in Nat
         /\ top.state # "VALUE" => /\ top.container \in 1..Len(nodes)
                                   /\ depth < MaxDepth
<1>1. stack \in Seq(Frame) /\ Len(stack) \in Nat /\ Len(stack) > 0
  BY DEF ParserInv, TypeOK, StackBounded, depth
<1>2. top = stack[Len(stack)] /\ Len(stack) \in 1..Len(stack)
  BY <1>1 DEF top, depth
<1>3. top.state # "VALUE" => top.container \in 1..Len(nodes)
  BY <1>2 DEF ParserInv, depth
<1>4. top.state # "VALUE" => depth < MaxDepth
  BY <1>2 DEF ParserInv, StackBounded, depth
<1> QED BY <1>1, <1>2, <1>3, <1>4, InputLength DEF ParserInv, TypeOK

\* [ and {: a failure, an empty container delivered, or a frame for it.
LEMMA OpenInv ==
  ASSUME ParserInv, In("VALUE"), input' = input, base' = base,
         ValueArray \/ ValueObject
  PROVE  ParserInv'
<1>1. status = "RUNNING" /\ pos <= Len(input)
  BY DEF In
<1>2. PICK type \in {"array", "object"} :
        \/ nodes' = With(type) /\ Fail("DEPTH_EXCEEDED")
        \/ /\ Deliver(NewId, With(type), 2)
           /\ pos < Len(input)
        \/ /\ depth < MaxDepth
           /\ nodes' = With(type)
           /\ Eat(1)
           /\ UNCHANGED <<root, status>>
           /\ \/ Push([top EXCEPT !.container = NewId, !.state = "ARR_ITEM"])
              \/ Rewrite([top EXCEPT !.container = NewId, !.state = "OBJ_KEY"])
  BY DEF ValueArray, ValueObject, Open, Peek
<1>3. /\ With(type) \in Seq(Node)
      /\ Len(With(type)) = Len(nodes) + 1
      /\ NewId \in 1..Len(With(type))
      /\ NewId \in Nat
  BY NewNodeType
<1>4. /\ top \in Frame /\ Len(nodes) \in Nat /\ pos \in Nat /\ Len(input) \in Nat
      /\ Len(With(type)) >= Len(nodes)
  BY <1>3, TopFrame
<1>5. CASE nodes' = With(type) /\ Fail("DEPTH_EXCEEDED")
  <2>1. "DEPTH_EXCEEDED" \in Failure
    BY DEF Failure
  <2> QED BY <1>3, <1>4, <1>5, <2>1, FailInv
<1>6. CASE Deliver(NewId, With(type), 2) /\ pos < Len(input)
  <2>1. pos + 2 <= Len(input) + 1
    BY <1>4, <1>6
  <2>2. 2 \in {1, 2}
    OBVIOUS
  <2> QED BY <1>1, <1>3, <1>4, <1>6, <2>1, <2>2, DeliverInv
<1>7. CASE /\ depth < MaxDepth
           /\ nodes' = With(type)
           /\ Eat(1)
           /\ UNCHANGED <<root, status>>
           /\ \/ Push([top EXCEPT !.container = NewId, !.state = "ARR_ITEM"])
              \/ Rewrite([top EXCEPT !.container = NewId, !.state = "OBJ_KEY"])
  <2> DEFINE item == [top EXCEPT !.container = NewId, !.state = "ARR_ITEM"]
             key  == [top EXCEPT !.container = NewId, !.state = "OBJ_KEY"]
  <2>1. /\ item \in Frame /\ item.state \in Waiting /\ item.container = NewId
        /\ key \in Frame /\ key.state \notin Waiting /\ key.container = NewId
    BY <1>3, <1>4 DEF Frame, FrameState, Waiting
  <2> HIDE DEF item, key
  <2>2. CASE Push(item)
    BY <1>1, <1>3, <1>4, <1>7, <2>1, <2>2, PushInv
  <2>3. CASE Rewrite(key)
    BY <1>1, <1>3, <1>4, <1>7, <2>1, <2>3, RewriteInv
  <2> QED BY <1>7, <2>2, <2>3 DEF item, key
<1> QED BY <1>2, <1>5, <1>6, <1>7

THEOREM ParserInvNext == ParserInv /\ [Next]_vars => ParserInv'
<1> SUFFICES ASSUME ParserInv, [Next]_vars PROVE ParserInv'
  OBVIOUS
<1> USE TopFrame
<1>1. CASE UNCHANGED vars
  <2>1. /\ input' = input /\ base' = base /\ pos' = pos /\ stack' = stack
        /\ nodes' = nodes /\ root' = root /\ status' = status
    BY <1>1 DEF vars
  <2> QED
    BY <2>1 DEF ParserInv, TypeOK, StackBounded, FramesNested, depth, top
<1>2. CASE Next
  <2>0. input' = input /\ base' = base
    BY <1>2 DEF Next
  <2>a. /\ nodes \in Seq(Node) /\ Len(nodes) \in Nat /\ Len(nodes) >= Len(nodes)
        /\ pos \in Nat /\ Len(input) \in Nat
    OBVIOUS
  <2>b. ASSUME UNCHANGED nodes, NEW code \in Failure, Fail(code) PROVE ParserInv'
    BY <2>0, <2>a, <2>b, FailInv
  <2>c. {"UNEXPECTED_EOF", "OOM", "NODE_LIMIT", "INVALID_JSON"} \subseteq Failure
    BY DEF Failure
  <2>d. ASSUME NEW code \in Failure, nodes' = With("scalar"), Fail(code)
        PROVE  ParserInv'
    BY <2>0, <2>a, <2>d, FailInv, NewNodeType
  <2>e. ASSUME NEW s \in FrameState, In(s)
        PROVE  /\ status = "RUNNING" /\ pos <= Len(input) /\ top.state = s
               /\ pos + 1 <= Len(input) + 1 /\ 1 \in {1, 2}
    BY <2>a, <2>e DEF In
  <2>1. CASE EndOfInput
    BY <2>b, <2>c, <2>1 DEF EndOfInput
  <2>2. CASE NodeRefused
    BY <2>b, <2>c, <2>2 DEF NodeRefused
  <2>3. CASE ValueScalar
    <3>1. In("VALUE") /\ Deliver(NewId, With("scalar"), 1)
      BY <2>3 DEF ValueScalar
    <3>2. "VALUE" \in FrameState
      BY DEF FrameState
    <3>3. /\ With("scalar") \in Seq(Node)
          /\ NewId \in 1..Len(With("scalar"))
          /\ Len(With("scalar")) >= Len(nodes)
      BY <2>a, NewNodeType
    <3> QED BY <2>0, <2>e, <3>1, <3>2, <3>3, DeliverInv
  <2>4. CASE ValueNoMemory
    BY <2>c, <2>d, <2>4 DEF ValueNoMemory
  <2>5. CASE ValueRefused
    BY <2>d, <2>5, RefusalCodes DEF ValueRefused
  <2>6. CASE ValueArray
    <3>1. In("VALUE")
      BY <2>6 DEF ValueArray, Open
    <3> QED BY <2>0, <2>6, <3>1, OpenInv
  <2>7. CASE ValueObject
    <3>1. In("VALUE")
      BY <2>7 DEF ValueObject, Open
    <3> QED BY <2>0, <2>7, <3>1, OpenInv
  <2>8. CASE ArrayClose
    <3>1. In("ARR_CONT") /\ Deliver(top.container, nodes, 1)
      BY <2>8 DEF ArrayClose
    <3>2. "ARR_CONT" \in FrameState
      BY DEF FrameState
    <3>3. top.container \in 1..Len(nodes)
      BY <2>e, <3>1, <3>2
    <3> QED BY <2>0, <2>a, <2>e, <3>1, <3>2, <3>3, DeliverInv
  <2>9. CASE ArrayComma
    <3> DEFINE frame == [top EXCEPT !.state = "ARR_ITEM"]
    <3>1. /\ In("ARR_CONT") /\ Push(frame) /\ Eat(1)
          /\ UNCHANGED <<root, status>> /\ nodes' = nodes
      BY <2>9 DEF ArrayComma
    <3>2. "ARR_CONT" \in FrameState
      BY DEF FrameState
    <3>3. top.container \in 1..Len(nodes) /\ depth < MaxDepth
      BY <2>e, <3>1, <3>2
    <3>4. /\ frame \in Frame /\ frame.state \in Waiting
          /\ frame.container = top.container
      BY DEF Frame, FrameState, Waiting
    <3> HIDE DEF frame
    <3> QED BY <2>0, <2>a, <2>e, <3>1, <3>2, <3>3, <3>4, PushInv
  <2>10. CASE ArrayMalformed
    BY <2>b, <2>c, <2>10 DEF ArrayMalformed
  <2>11. CASE ObjectKey
    <3> DEFINE frame == [top EXCEPT !.pending_key = pos, !.state = "OBJ_COLON"]
    <3>1. /\ In("OBJ_KEY") /\ nodes' = nodes
          /\ \/ Rewrite(frame) /\ Eat(1) /\ UNCHANGED <<root, status>>
             \/ Fail("OOM")
      BY <2>11 DEF ObjectKey
    <3>2. "OBJ_KEY" \in FrameState
      BY DEF FrameState
    <3>3. top.container \in 1..Len(nodes) /\ depth < MaxDepth
      BY <2>e, <3>1, <3>2
    <3>4. /\ frame \in Frame /\ frame.state \notin Waiting
          /\ frame.container = top.container
      BY <2>a DEF Frame, FrameState, Waiting
    <3> HIDE DEF frame
    <3>5. CASE Rewrite(frame) /\ Eat(1) /\ UNCHANGED <<root, status>>
      BY <2>0, <2>a, <2>e, <3>1, <3>2, <3>3, <3>4, <3>5, RewriteInv
    <3>6. CASE Fail("OOM")
      BY <2>b, <2>c, <3>1, <3>6
    <3> QED BY <3>1, <3>5, <3>6
  <2>12. CASE ObjectKeyRefused
    <3>1. PICK code \in Failure : Fail(code) /\ UNCHANGED nodes
      BY <2>c, <2>12, RefusalCodes DEF ObjectKeyRefused
    <3> QED BY <2>b, <3>1
  <2>13. CASE ObjectColon
    <3> DEFINE frame == [top EXCEPT !.state = "OBJ_VAL"]
    <3>1. /\ In("OBJ_COLON") /\ Push(frame) /\ Eat(1)
          /\ UNCHANGED <<root, status>> /\ nodes' = nodes
      BY <2>13 DEF ObjectColon
    <3>2. "OBJ_COLON" \in FrameState
      BY DEF FrameState
    <3>3. top.container \in 1..Len(nodes) /\ depth < MaxDepth
      BY <2>e, <3>1, <3>2
    <3>4. /\ frame \in Frame /\ frame.state \in Waiting
          /\ frame.container = top.container
      BY DEF Frame, FrameState, Waiting
    <3> HIDE DEF frame
    <3> QED BY <2>0, <2>a, <2>e, <3>1, <3>2, <3>3, <3>4, PushInv
  <2>14. CASE ObjectColonMalformed
    BY <2>b, <2>c, <2>14 DEF ObjectColonMalformed
  <2>15. CASE ObjectClose
    <3>1. In("OBJ_CONT") /\ Deliver(top.container, nodes, 1)
      BY <2>15 DEF ObjectClose
    <3>2. "OBJ_CONT" \in FrameState
      BY DEF FrameState
    <3>3. top.container \in 1..Len(nodes)
      BY <2>e, <3>1, <3>2
    <3> QED BY <2>0, <2>a, <2>e, <3>1, <3>2, <3>3, DeliverInv
  <2>16. CASE ObjectComma
    <3> DEFINE frame == [top EXCEPT !.state = "OBJ_KEY"]
    <3>1. /\ In("OBJ_CONT") /\ Rewrite(frame) /\ Eat(1)
          /\ UNCHANGED <<root, status>> /\ nodes' = nodes
      BY <2>16 DEF ObjectComma
    <3>2. "OBJ_CONT" \in FrameState
      BY DEF FrameState
    <3>3. top.container \in 1..Len(nodes) /\ depth < MaxDepth
      BY <2>e, <3>1, <3>2
    <3>4. /\ frame \in Frame /\ frame.state \notin Waiting
          /\ frame.container = top.container
      BY DEF Frame, FrameState, Waiting
    <3> HIDE DEF frame
    <3> QED BY <2>0, <2>a, <2>e, <3>1, <3>2, <3>3, <3>4, RewriteInv
  <2>17. CASE ObjectMalformed
    BY <2>b, <2>c, <2>17 DEF ObjectMalformed
  <2> QED
    BY <1>2, <2>1, <2>2, <2>3, <2>4, <2>5, <2>6, <2>7, <2>8, <2>9, <2>10,
       <2>11, <2>12, <2>13, <2>14, <2>15, <2>16, <2>17 DEF Next
<1> QED BY <1>1, <1>2

\* The parser's state keeps the shape its theorems below rest on.
THEOREM ParserInvariant == Spec => []ParserInv
<1>1. Init => ParserInv
  BY ParserInvInit
<1>2. ParserInv /\ [Next]_vars => ParserInv'
  BY ParserInvNext
<1> QED BY <1>1, <1>2, PTL DEF Spec

\* json_parse's variables keep their types on every input.
THEOREM ParserTypes == Spec => []TypeOK
<1>1. ParserInv => TypeOK
  BY DEF ParserInv
<1> QED BY <1>1, ParserInvariant, PTL

\* For every JSON_MAX_DEPTH and every input the frame stack is written within
\* its bounds, with room above every frame that holds a container.
THEOREM StackNeverOverflows == Spec => []StackBounded
<1>1. ParserInv => StackBounded
  BY DEF ParserInv
<1> QED BY <1>1, ParserInvariant, PTL

\* A value is only ever delivered to a frame that waits for one.
THEOREM DeliveredToWaitingFrame == Spec => []FramesNested
<1>1. ParserInv => FramesNested
  BY DEF ParserInv
<1> QED BY <1>1, ParserInvariant, PTL

LEMMA DeliverProgress ==
  ASSUME pos \in Nat, NEW v, NEW nd, NEW eaten \in {1, 2}, Deliver(v, nd, eaten)
  PROVE  pos' > pos \/ status' # "RUNNING"
<1>1. CASE DeliverRoot(v, nd, eaten)
  BY <1>1 DEF DeliverRoot
<1>2. CASE DeliverChild(v, nd, eaten)
  <2>1. Eat(eaten) \/ status' \in {"OVERFLOW", "OOM"}
    BY <1>2 DEF DeliverChild, Fail
  <2> QED BY <2>1 DEF Eat
<1> QED BY <1>1, <1>2 DEF Deliver

\* The loop cannot spin: a turn consumes a lexeme or ends the call, so a call
\* makes at most one turn more than the input has lexemes.
THEOREM EveryTurnProgresses == Spec => Progress
<1>1. ASSUME ParserInv, [Next]_vars
      PROVE  [pos' > pos \/ status' # "RUNNING"]_vars
  <2>1. pos \in Nat
    BY <1>1, TopFrame
  <2>2. CASE Next
    <3>1. ASSUME NEW eaten \in {1, 2}, Eat(eaten) PROVE pos' > pos
      BY <2>1, <3>1 DEF Eat
    <3>2. ASSUME NEW code \in Failure, Fail(code) PROVE status' # "RUNNING"
      BY <3>2 DEF Fail, Failure
    <3>3. /\ {"UNEXPECTED_EOF", "OOM", "NODE_LIMIT", "INVALID_JSON",
              "DEPTH_EXCEEDED"} \subseteq Failure
          /\ 1 \in {1, 2} /\ 2 \in {1, 2}
      BY DEF Failure
    <3>4. CASE ValueScalar \/ ArrayClose \/ ObjectClose
      BY <2>1, <3>3, <3>4, DeliverProgress DEF ValueScalar, ArrayClose, ObjectClose
    <3>5. CASE ValueArray \/ ValueObject
      BY <2>1, <3>1, <3>2, <3>3, <3>5, DeliverProgress DEF ValueArray, ValueObject, Open
    <3>6. CASE ArrayComma \/ ObjectColon \/ ObjectComma
      BY <3>1, <3>3, <3>6 DEF ArrayComma, ObjectColon, ObjectComma
    <3>7. CASE ObjectKey
      BY <3>1, <3>2, <3>3, <3>7 DEF ObjectKey
    <3>8. CASE \/ EndOfInput \/ NodeRefused \/ ValueNoMemory \/ ArrayMalformed
               \/ ObjectColonMalformed \/ ObjectMalformed
      BY <3>2, <3>3, <3>8
      DEF EndOfInput, NodeRefused, ValueNoMemory, ArrayMalformed,
          ObjectColonMalformed, ObjectMalformed
    <3>9. CASE ValueRefused \/ ObjectKeyRefused
      <4>1. PICK code \in Failure : Fail(code)
        BY <3>3, <3>9, RefusalCodes DEF ValueRefused, ObjectKeyRefused
      <4> QED BY <3>2, <4>1
    <3> QED BY <2>2, <3>4, <3>5, <3>6, <3>7, <3>8, <3>9 DEF Next
  <2> QED BY <1>1, <2>2
<1> QED BY <1>1, ParserInvariant, PTL DEF Spec, Progress

(***************************************************************************)
(* Limits and the forest.                                                  *)
(*                                                                         *)
(* The actions make five kinds of step, which is all that the proofs from  *)
(* here on look at.                                                        *)
(***************************************************************************)

Opening == {"[", "{"}
Closing == {"]", "}"}
Type    == {"scalar", "array", "object"}

(***************************************************************************)
(* The kinds of step.                                                      *)
(***************************************************************************)

\* The call ends with an error.
Ends(code) ==
  /\ status = "RUNNING" /\ Fail(code)
  /\ \/ nodes' = nodes
     \/ In("VALUE") /\ NodeAllowed /\ \E type \in Type : nodes' = With(type)
  /\ code \in Failure
  /\ code = "OVERFLOW" => input[pos] \in TooLarge
  /\ code = "NODE_LIMIT" => ~NodeAllowed /\ nodes' = nodes
  /\ code = "DEPTH_EXCEEDED" =>
       In("VALUE") /\ depth >= MaxDepth /\ input[pos] \in Opening

\* A new node is complete at once: a scalar, or a container without entries.
DeliversNew(type, eaten) ==
  /\ In("VALUE") /\ NodeAllowed
  /\ Deliver(NewId, With(type), eaten)
  /\ \/ eaten = 1 /\ input[pos] \in Accepted \ (Opening \cup Closing)
     \/ /\ eaten = 2 /\ pos < Len(input)
        /\ input[pos] \in Opening /\ input[pos + 1] \in Closing

\* The container of the top frame is complete.
DeliversOwn ==
  /\ In("ARR_CONT") \/ In("OBJ_CONT")
  /\ input[pos] \in Closing
  /\ Deliver(top.container, nodes, 1)

\* A new container that has entries: its frame goes on.
Begins(type, state) ==
  /\ In("VALUE") /\ NodeAllowed /\ depth < MaxDepth
  /\ input[pos] \in Opening
  /\ nodes' = With(type) /\ Eat(1) /\ UNCHANGED <<root, status>>
  /\ LET frame == [top EXCEPT !.container = NewId, !.state = state]
     IN  \/ type = "array" /\ state = "ARR_ITEM" /\ Push(frame)
         \/ type = "object" /\ state = "OBJ_KEY" /\ Rewrite(frame)

\* The frame of a container goes on to its next state.
Continues(frame) ==
  /\ status = "RUNNING" /\ pos <= Len(input)
  /\ input[pos] \in Accepted \ (Opening \cup Closing)
  /\ top.state # "VALUE" /\ depth < MaxDepth
  /\ frame \in Frame /\ frame.container = top.container
  /\ frame.state # "VALUE" /\ TypeIn(frame.state) = TypeIn(top.state)
  /\ Push(frame) \/ Rewrite(frame)
  /\ Eat(1) /\ UNCHANGED <<nodes, root, status>>

LEMMA KindsOfStep ==
  ASSUME ParserInv, Next
  PROVE  \/ \E code : Ends(code)
         \/ \E type \in Type, eaten \in {1, 2} : DeliversNew(type, eaten)
         \/ DeliversOwn
         \/ \E type \in Type, state \in FrameState : Begins(type, state)
         \/ \E frame : Continues(frame)
<1>1. CASE EndOfInput
  <2>1. Ends("UNEXPECTED_EOF")
    BY <1>1 DEF EndOfInput, Ends, In, Failure
  <2> QED BY <2>1
<1>2. CASE NodeRefused
  <2>1. CASE NodeAllowed
    <3>1. Ends("OOM")
      BY <1>2, <2>1 DEF NodeRefused, Ends, In, Failure
    <3> QED BY <3>1
  <2>2. CASE ~NodeAllowed
    <3>1. Ends("NODE_LIMIT")
      BY <1>2, <2>2 DEF NodeRefused, Ends, In, Failure
    <3> QED BY <3>1
  <2> QED BY <2>1, <2>2
<1>3. CASE ValueScalar
  <2>1. DeliversNew("scalar", 1)
    BY <1>3 DEF ValueScalar, DeliversNew, See, Opening, Closing, Accepted,
                Structural
  <2> QED BY <2>1 DEF Type
<1>4. CASE ValueNoMemory
  <2>1. Ends("OOM")
    BY <1>4 DEF ValueNoMemory, Ends, In, Failure, Type
  <2> QED BY <2>1
<1>5. CASE ValueRefused
  <2> DEFINE code == RefusalOf(input[pos])
  <2>1. /\ code \in Failure /\ code # "NODE_LIMIT" /\ code # "DEPTH_EXCEEDED"
        /\ code = "OVERFLOW" => input[pos] \in TooLarge
    BY RefusalCodes
  <2>2. /\ In("VALUE") /\ NodeAllowed /\ Fail(code)
        /\ "scalar" \in Type /\ nodes' = With("scalar")
    BY <1>5 DEF ValueRefused, Type
  <2> HIDE DEF code
  <2>3. Ends(code)
    BY <2>1, <2>2 DEF Ends, In
  <2> QED BY <2>3
<1>6. CASE ValueArray
  <2>1. CASE depth >= MaxDepth /\ nodes' = With("array") /\ Fail("DEPTH_EXCEEDED")
    <3>1. Ends("DEPTH_EXCEEDED")
      BY <1>6, <2>1 DEF ValueArray, Open, See, Ends, In, Failure, Type, Opening
    <3> QED BY <3>1
  <2>2. CASE Peek("]") /\ Deliver(NewId, With("array"), 2)
    <3>1. DeliversNew("array", 2)
      BY <1>6, <2>2 DEF ValueArray, Open, See, Peek, DeliversNew, Opening, Closing
    <3> QED BY <3>1 DEF Type
  <2>3. CASE /\ depth < MaxDepth
             /\ Push([top EXCEPT !.container = NewId, !.state = "ARR_ITEM"])
             /\ nodes' = With("array") /\ Eat(1) /\ UNCHANGED <<root, status>>
    <3>1. Begins("array", "ARR_ITEM")
      BY <1>6, <2>3 DEF ValueArray, Open, See, Begins, Opening
    <3> QED BY <3>1 DEF Type, FrameState, Waiting
  <2> QED BY <1>6, <2>1, <2>2, <2>3 DEF ValueArray, Open
<1>7. CASE ValueObject
  <2>1. CASE depth >= MaxDepth /\ nodes' = With("object") /\ Fail("DEPTH_EXCEEDED")
    <3>1. Ends("DEPTH_EXCEEDED")
      BY <1>7, <2>1 DEF ValueObject, Open, See, Ends, In, Failure, Type, Opening
    <3> QED BY <3>1
  <2>2. CASE Peek("}") /\ Deliver(NewId, With("object"), 2)
    <3>1. DeliversNew("object", 2)
      BY <1>7, <2>2 DEF ValueObject, Open, See, Peek, DeliversNew, Opening, Closing
    <3> QED BY <3>1 DEF Type
  <2>3. CASE /\ depth < MaxDepth
             /\ Rewrite([top EXCEPT !.container = NewId, !.state = "OBJ_KEY"])
             /\ nodes' = With("object") /\ Eat(1) /\ UNCHANGED <<root, status>>
    <3>1. Begins("object", "OBJ_KEY")
      BY <1>7, <2>3 DEF ValueObject, Open, See, Begins, Opening
    <3> QED BY <3>1 DEF Type, FrameState
  <2> QED BY <1>7, <2>1, <2>2, <2>3 DEF ValueObject, Open
<1>8. CASE ArrayClose \/ ObjectClose
  BY <1>8 DEF ArrayClose, ObjectClose, DeliversOwn, See, Closing
<1>9. CASE ArrayMalformed \/ ObjectColonMalformed \/ ObjectMalformed
  <2>1. Ends("INVALID_JSON")
    BY <1>9 DEF ArrayMalformed, ObjectColonMalformed, ObjectMalformed, Ends, In,
                Failure
  <2> QED BY <2>1
<1>19. CASE ObjectKeyRefused
  <2> DEFINE code == IF input[pos] \in RefusedString THEN RefusalOf(input[pos])
                                                     ELSE "INVALID_JSON"
  <2>1. /\ code \in Failure /\ code # "NODE_LIMIT" /\ code # "DEPTH_EXCEEDED"
        /\ code = "OVERFLOW" => input[pos] \in TooLarge
    BY RefusalCodes DEF Failure
  <2>2. status = "RUNNING" /\ Fail(code) /\ nodes' = nodes
    BY <1>19 DEF ObjectKeyRefused, In
  <2> HIDE DEF code
  <2>3. Ends(code)
    BY <2>1, <2>2 DEF Ends
  <2> QED BY <2>3
<1>10. CASE ObjectKey /\ Fail("OOM")
  <2>1. Ends("OOM")
    BY <1>10 DEF ObjectKey, Ends, In, Failure
  <2> QED BY <2>1
<1> DEFINE keyed == [top EXCEPT !.pending_key = pos, !.state = "OBJ_COLON"]
           next(s) == [top EXCEPT !.state = s]
<1>11. /\ top \in Frame /\ pos \in Nat
       /\ top.state # "VALUE" => depth < MaxDepth
  BY TopFrame
<1>12. CASE ObjectKey /\ Rewrite(keyed) /\ Eat(1) /\ UNCHANGED <<root, status>>
  <2>1. /\ keyed \in Frame /\ keyed.container = top.container
        /\ keyed.state = "OBJ_COLON"
    BY <1>11 DEF Frame, FrameState
  <2> HIDE DEF keyed
  <2>2. Continues(keyed)
    BY <1>11, <1>12, <2>1
    DEF ObjectKey, In, See, Continues, TypeIn, Opening, Closing, Accepted,
        Structural
  <2> QED BY <2>2
<1>13. ASSUME NEW s \in FrameState, s # "VALUE"
       PROVE  /\ next(s) \in Frame /\ next(s).container = top.container
              /\ next(s).state = s
  BY <1>11 DEF Frame
<1>14. {"ARR_ITEM", "OBJ_VAL", "OBJ_KEY"} \subseteq FrameState
  BY DEF FrameState, Waiting
<1> HIDE DEF next
<1>15. CASE ArrayComma
  <2>1. Continues(next("ARR_ITEM"))
    BY <1>11, <1>13, <1>14, <1>15
    DEF ArrayComma, In, See, Continues, TypeIn, Opening, Closing, Accepted,
        Structural, next
  <2> QED BY <2>1
<1>16. CASE ObjectColon
  <2>1. Continues(next("OBJ_VAL"))
    BY <1>11, <1>13, <1>14, <1>16
    DEF ObjectColon, In, See, Continues, TypeIn, Opening, Closing, Accepted,
        Structural, next
  <2> QED BY <2>1
<1>17. CASE ObjectComma
  <2>1. Continues(next("OBJ_KEY"))
    BY <1>11, <1>13, <1>14, <1>17
    DEF ObjectComma, In, See, Continues, TypeIn, Opening, Closing, Accepted,
        Structural, next
  <2> QED BY <2>1
<1>18. ObjectKey => \/ ObjectKey /\ Fail("OOM")
                    \/ /\ ObjectKey /\ Rewrite(keyed) /\ Eat(1)
                       /\ UNCHANGED <<root, status>>
  BY DEF ObjectKey
<1> QED
  BY <1>1, <1>2, <1>3, <1>4, <1>5, <1>6, <1>7, <1>8, <1>9, <1>10, <1>12, <1>15,
     <1>16, <1>17, <1>18, <1>19 DEF Next

\* A delivery succeeds for a frame that waits ...
Resumes(v, nd, eaten) ==
  /\ depth > 1 /\ Parent \in Frame /\ Parent.state \in Waiting
  /\ Parent.container \in 1..Len(nodes)
  /\ IsFull(nd[Parent.container]) => nd[Parent.container].cap < MaxArrayLen
  /\ nodes' = [nd EXCEPT ![Parent.container] =
                 Added(nd[Parent.container], EntryFor(Parent, v))]
  /\ Len(stack') = Len(stack) - 1
  /\ stack'[Len(stack) - 1] = Resumed(Parent)
  /\ \A i \in 1..(Len(stack) - 2) : stack'[i] = stack[i]
  /\ Eat(eaten) /\ UNCHANGED <<root, status>>

\* ... or its container has no room for the value.
Refused(nd) ==
  /\ nodes' = nd
  /\ \/ Fail("OOM")
     \/ /\ Fail("OVERFLOW")
        /\ depth > 1 /\ Parent.container \in 1..Len(nd)
        /\ IsFull(nd[Parent.container]) /\ nd[Parent.container].cap >= MaxArrayLen

LEMMA Deliveries ==
  ASSUME ParserInv, status = "RUNNING",
         NEW nd \in Seq(Node), Len(nd) >= Len(nodes),
         NEW v, NEW eaten, Deliver(v, nd, eaten)
  PROVE  DeliverRoot(v, nd, eaten) \/ Refused(nd) \/ Resumes(v, nd, eaten)
<1>1. /\ stack \in Seq(Frame) /\ nodes \in Seq(Node)
      /\ Len(stack) \in Nat /\ Len(nodes) \in Nat /\ Len(nd) \in Nat
  BY DEF ParserInv, TypeOK
<1>2. CASE DeliverChild(v, nd, eaten)
  <2>1. /\ depth > 1 /\ Parent \in Frame /\ Parent.state \in Waiting
        /\ depth - 1 \in 1..depth
    BY <1>1, <1>2 DEF DeliverChild, Parent, ParserInv, FramesNested, depth
  <2>2. Parent.container \in 1..Len(nodes)
    <3>1. Parent.state # "VALUE"
      BY <2>1 DEF Waiting
    <3> QED BY <2>1, <3>1 DEF ParserInv, Parent
  <2>3. Parent.container \in 1..Len(nd)
    BY <1>1, <2>2
  <2> DEFINE c == nd[Parent.container]
  <2>4. CASE /\ nodes' = nd /\ IsFull(c)
             /\ \/ c.cap >= MaxArrayLen /\ Fail("OVERFLOW")
                \/ Fail("OOM")
    BY <2>1, <2>3, <2>4 DEF Refused
  <2>5. CASE /\ IsFull(c) => c.cap < MaxArrayLen
             /\ nodes' = [nd EXCEPT ![Parent.container] =
                                      Added(c, EntryFor(Parent, v))]
             /\ stack' = Append(SubSeq(stack, 1, depth - 2), Resumed(Parent))
             /\ Eat(eaten)
             /\ UNCHANGED <<root, status>>
    <3>1. Resumed(Parent) \in Frame
      BY <2>1 DEF Resumed, Frame, FrameState, Waiting
    <3>2. /\ Len(stack') = Len(stack) - 1
          /\ stack'[Len(stack) - 1] = Resumed(Parent)
          /\ \A i \in 1..(Len(stack) - 2) : stack'[i] = stack[i]
      BY <1>1, <2>1, <2>5, <3>1, Popped DEF depth
    <3> QED BY <2>1, <2>2, <2>5, <3>2 DEF Resumes
  <2> QED BY <1>2, <2>4, <2>5 DEF DeliverChild
<1> QED BY <1>2 DEF Deliver

\* A frame that is pushed over or rewritten.
LEMMA StackGoesOn ==
  ASSUME ParserInv, NEW frame \in Frame
  PROVE  /\ Push(frame) =>
              /\ Len(stack') = Len(stack) + 1
              /\ stack'[Len(stack) + 1] = ValueFrame
              /\ stack'[Len(stack)] = frame
              /\ \A i \in 1..(Len(stack) - 1) : stack'[i] = stack[i]
         /\ Rewrite(frame) =>
              /\ Len(stack') = Len(stack)
              /\ stack'[Len(stack)] = frame
              /\ \A i \in 1..(Len(stack) - 1) : stack'[i] = stack[i]
<1>1. stack \in Seq(Frame) /\ Len(stack) > 0
  BY DEF ParserInv, TypeOK, StackBounded, depth
<1>2. ValueFrame \in Frame
  BY DEF ValueFrame, Frame, FrameState
<1> QED BY <1>1, <1>2, Pushed, Rewritten DEF Push, Rewrite, depth

(***************************************************************************)
(* The brackets before pos.                                                *)
(***************************************************************************)

Before(in, p, S) == {i \in 1..(p - 1) : in[i] \in S}
Balance(in, p) == Cardinality(Before(in, p, Opening))
                    - Cardinality(Before(in, p, Closing))

LEMMA BeforeNext ==
  ASSUME NEW in, NEW p \in Nat, p >= 1, NEW S
  PROVE  /\ Cardinality(Before(in, p, S)) \in Nat
         /\ Cardinality(Before(in, p + 1, S)) =
              Cardinality(Before(in, p, S)) + (IF in[p] \in S THEN 1 ELSE 0)
<1>1. IsFiniteSet(Before(in, p, S))
  <2>1. IsFiniteSet(1..(p - 1))
    BY FS_Interval
  <2>2. Before(in, p, S) \subseteq 1..(p - 1)
    BY DEF Before
  <2> QED BY <2>1, <2>2, FS_Subset
<1>2. p \notin Before(in, p, S)
  BY DEF Before
<1>3. CASE in[p] \in S
  <2>1. Before(in, p + 1, S) = Before(in, p, S) \cup {p}
    BY <1>3 DEF Before
  <2> QED BY <1>1, <1>2, <1>3, <2>1, FS_AddElement, FS_CardinalityType
<1>4. CASE in[p] \notin S
  <2>1. Before(in, p + 1, S) = Before(in, p, S)
    BY <1>4 DEF Before
  <2> QED BY <1>1, <1>4, <2>1, FS_CardinalityType
<1> QED BY <1>3, <1>4

LEMMA BalanceNext ==
  ASSUME NEW in, NEW p \in Nat, p >= 1
  PROVE  /\ Balance(in, p) \in Int
         /\ in[p] \in Opening => Balance(in, p + 1) = Balance(in, p) + 1
         /\ in[p] \in Closing => Balance(in, p + 1) = Balance(in, p) - 1
         /\ in[p] \notin Opening \cup Closing => Balance(in, p + 1) = Balance(in, p)
<1>1. in[p] \in Opening => in[p] \notin Closing
  BY DEF Opening, Closing
<1>2. /\ Cardinality(Before(in, p, Opening)) \in Nat
      /\ Cardinality(Before(in, p + 1, Opening)) =
           Cardinality(Before(in, p, Opening)) + (IF in[p] \in Opening THEN 1 ELSE 0)
  BY BeforeNext
<1>3. /\ Cardinality(Before(in, p, Closing)) \in Nat
      /\ Cardinality(Before(in, p + 1, Closing)) =
           Cardinality(Before(in, p, Closing)) + (IF in[p] \in Closing THEN 1 ELSE 0)
  BY BeforeNext
<1> QED BY <1>1, <1>2, <1>3 DEF Balance

(***************************************************************************)
(* Limits.                                                                 *)
(***************************************************************************)

\* The containers that are open: those of every frame but a VALUE frame.
OpenCount == IF top.state = "VALUE" THEN Len(stack) - 1 ELSE Len(stack)

Fits(nd) == \A n \in 1..Len(nd) : /\ Len(nd[n].items) <= nd[n].cap
                                  /\ nd[n].cap <= MaxArrayLen

\* No lexeme before p is one the parser refuses.
AcceptedBefore(p) == \A i \in 1..(p - 1) : input[i] \in Accepted

\* While the call runs, the open containers are the brackets open in the
\* input, which is what the depth check is about.
LimitsInv ==
  /\ base + Len(nodes) <= MaxNodes
  /\ Fits(nodes)
  /\ status = "NODE_LIMIT" => base + Len(nodes) = MaxNodes
  /\ status = "DEPTH_EXCEEDED" =>
       input[pos] \in Opening /\ Balance(input, pos) = MaxDepth - 1
  /\ status = "OVERFLOW" =>
       \/ input[pos] \in TooLarge
       \/ depth > 1 /\ Len(nodes[Parent.container].items) = MaxArrayLen
  /\ AcceptedBefore(pos)
  /\ status = "RUNNING" => Balance(input, pos) = OpenCount

\* The entry a container gets fits in the capacity it has then.
LEMMA AddedFits ==
  ASSUME NEW node \in Node, NEW entry,
         Len(node.items) <= node.cap, node.cap <= MaxArrayLen,
         IsFull(node) => node.cap < MaxArrayLen
  PROVE  /\ Added(node, entry).type = node.type
         /\ Added(node, entry).items = Append(node.items, entry)
         /\ Len(Added(node, entry).items) <= Added(node, entry).cap
         /\ Added(node, entry).cap <= MaxArrayLen
<1>1. /\ node.items \in Seq(Entry) /\ node.cap \in Nat
      /\ FirstCap \in Nat \ {0} /\ MaxArrayLen \in Nat \ {0}
  BY LimitsAssumption DEF Node
<1>2. /\ Added(node, entry).type = node.type
      /\ Added(node, entry).items = Append(node.items, entry)
      /\ Added(node, entry).cap = IF IsFull(node) THEN GrownCap(node.cap) ELSE node.cap
  BY DEF Added, Node
<1>3. Len(Append(node.items, entry)) = Len(node.items) + 1
  BY <1>1
<1>4. CASE IsFull(node)
  <2>1. GrownCap(node.cap) > node.cap /\ GrownCap(node.cap) <= MaxArrayLen
    BY <1>1, <1>4 DEF GrownCap
  <2> QED BY <1>1, <1>2, <1>3, <1>4, <2>1, GrownCapType
<1>5. CASE ~IsFull(node)
  BY <1>1, <1>2, <1>3, <1>5 DEF IsFull
<1> QED BY <1>4, <1>5

LEMMA LimitsInvInit == Init => LimitsInv
<1> SUFFICES ASSUME Init PROVE LimitsInv
  OBVIOUS
<1>1. Before(input, 1, Opening) = {} /\ Before(input, 1, Closing) = {}
  BY DEF Before
<1>2. Balance(input, pos) = 0
  <2>1. Cardinality(Before(input, 1, Opening)) = 0
    BY <1>1, FS_EmptySet, Zenon
  <2>2. Cardinality(Before(input, 1, Closing)) = 0
    BY <1>1, FS_EmptySet, Zenon
  <2> QED BY <2>1, <2>2 DEF Balance, Init
<1>3. OpenCount = 0
  BY DEF Init, OpenCount, top, depth, ValueFrame
<1>4. base \in Nat /\ base <= MaxNodes
  BY LimitsAssumption DEF Init
<1> QED BY <1>2, <1>3, <1>4 DEF Init, LimitsInv, Fits, AcceptedBefore

\* The nodes after json__new_node.
LEMMA NewNodeFits ==
  ASSUME ParserInv, Fits(nodes), base + Len(nodes) <= MaxNodes, NodeAllowed,
         NEW type \in Type
  PROVE  /\ With(type) \in Seq(Node)
         /\ Len(With(type)) = Len(nodes) + 1
         /\ base + Len(With(type)) <= MaxNodes
         /\ Fits(With(type))
<1>1. /\ With(type) \in Seq(Node) /\ Len(With(type)) = Len(nodes) + 1
      /\ nodes \in Seq(Node) /\ Len(nodes) \in Nat
  BY NewNodeType, TopFrame DEF Type
<1>2. base \in Nat /\ MaxNodes \in Nat /\ MaxArrayLen \in Nat
  BY LimitsAssumption DEF ParserInv
<1>3. base + Len(With(type)) <= MaxNodes
  BY <1>1, <1>2 DEF NodeAllowed
<1>4. /\ \A n \in 1..Len(nodes) : With(type)[n] = nodes[n]
      /\ With(type)[Len(nodes) + 1] = NewNode(type)
  BY <1>1 DEF With
<1>5. Len(NewNode(type).items) = 0 /\ NewNode(type).cap = 0
  BY DEF NewNode
<1>6. ASSUME NEW n \in 1..Len(With(type))
      PROVE  /\ Len(With(type)[n].items) <= With(type)[n].cap
             /\ With(type)[n].cap <= MaxArrayLen
  <2>1. CASE n = Len(nodes) + 1
    BY <1>2, <1>4, <1>5, <2>1
  <2>2. CASE n \in 1..Len(nodes)
    BY <1>4, <2>2 DEF Fits
  <2> QED BY <1>1, <2>1, <2>2
<1> QED BY <1>1, <1>3, <1>6 DEF Fits

\* The nodes after a delivery to a frame that waits.
LEMMA ResumesFits ==
  ASSUME ParserInv, NEW nd \in Seq(Node), Len(nd) >= Len(nodes), Fits(nd),
         NEW v, NEW eaten, Resumes(v, nd, eaten)
  PROVE  Len(nodes') = Len(nd) /\ Fits(nodes')
<1> DEFINE p == Parent.container
           entry == EntryFor(Parent, v)
<1>1. /\ p \in 1..Len(nd) /\ nodes' = [nd EXCEPT ![p] = Added(nd[p], entry)]
      /\ IsFull(nd[p]) => nd[p].cap < MaxArrayLen
  <2>1. Len(nodes) \in Nat /\ Len(nd) \in Nat
    BY TopFrame
  <2> QED BY <2>1 DEF Resumes
<1> HIDE DEF p, entry
<1>2. /\ nd[p] \in Node
      /\ Len(nd[p].items) <= nd[p].cap /\ nd[p].cap <= MaxArrayLen
  BY <1>1 DEF Fits
<1>3. /\ Len(Added(nd[p], entry).items) <= Added(nd[p], entry).cap
      /\ Added(nd[p], entry).cap <= MaxArrayLen
  BY <1>1, <1>2, AddedFits
<1>4. /\ Len(nodes') = Len(nd)
      /\ nodes'[p] = Added(nd[p], entry)
      /\ \A n \in 1..Len(nd) : n # p => nodes'[n] = nd[n]
  BY <1>1
<1> QED BY <1>3, <1>4 DEF Fits

\* A delivery keeps the limits: nd are the nodes, with the one that is new,
\* and the brackets eaten close one container more than they open, if v is
\* the container of the top frame, and as many, if v is new.
LEMMA DeliveryLimits ==
  ASSUME ParserInv, LimitsInv, status = "RUNNING", input' = input, base' = base,
         NEW nd \in Seq(Node), Len(nd) >= Len(nodes),
         base + Len(nd) <= MaxNodes, Fits(nd),
         NEW v, NEW eaten \in {1, 2}, Deliver(v, nd, eaten),
         Balance(input, pos + eaten) = Len(stack) - 1,
         \A i \in pos..(pos + eaten - 1) : input[i] \in Accepted
  PROVE  LimitsInv'
<1>1. Len(nodes) \in Nat /\ Len(stack) \in Nat /\ pos \in Nat
  BY TopFrame
<1>5. AcceptedBefore(pos + eaten)
  BY <1>1 DEF LimitsInv, AcceptedBefore
<1>2. CASE DeliverRoot(v, nd, eaten)
  <2>1. /\ nodes' = nd /\ base' + Len(nodes') <= MaxNodes /\ Fits(nodes')
        /\ status' \in {"OK", "INVALID_JSON"} /\ pos' = pos + eaten
    BY <1>2 DEF DeliverRoot, Eat
  <2>2. AcceptedBefore(pos)'
    BY <1>5, <2>1 DEF AcceptedBefore
  <2> QED BY <2>1, <2>2 DEF LimitsInv
<1>3. CASE Refused(nd)
  <2>1. /\ nodes' = nd /\ base' + Len(nodes') <= MaxNodes /\ Fits(nodes')
        /\ status' \in {"OOM", "OVERFLOW"} /\ pos' = pos /\ stack' = stack
    BY <1>3 DEF Refused, Fail
  <2>2. ASSUME status' = "OVERFLOW"
        PROVE  (depth > 1 /\ Len(nodes[Parent.container].items) = MaxArrayLen)'
    <3>1. PICK n \in 1..Len(nd) : /\ n = Parent.container /\ depth > 1
                                  /\ IsFull(nd[n]) /\ nd[n].cap >= MaxArrayLen
      BY <1>3, <2>2 DEF Refused, Fail
    <3>2. Len(nd[n].items) \in Nat /\ nd[n].cap \in Nat /\ MaxArrayLen \in Nat
      <4>1. nd[n] \in Node
        OBVIOUS
      <4>2. nd[n].items \in Seq(Entry) /\ nd[n].cap \in Nat
        BY <4>1 DEF Node
      <4>3. MaxArrayLen \in Nat
        BY LimitsAssumption
      <4> QED BY <4>2, <4>3
    <3>3. Len(nd[n].items) <= nd[n].cap /\ nd[n].cap <= MaxArrayLen
      BY DEF Fits
    <3>4. Len(nd[n].items) >= nd[n].cap
      BY <3>1 DEF IsFull
    <3>5. Len(nd[n].items) = MaxArrayLen
      BY <3>1, <3>2, <3>3, <3>4
    <3> QED BY <2>1, <3>1, <3>5 DEF Parent, depth
  <2>3. AcceptedBefore(pos)'
    BY <2>1 DEF LimitsInv, AcceptedBefore
  <2> QED BY <2>1, <2>2, <2>3 DEF LimitsInv
<1>4. CASE Resumes(v, nd, eaten)
  <2>1. Len(nodes') = Len(nd) /\ Fits(nodes')
    BY <1>4, ResumesFits
  <2>2. /\ Len(stack') = Len(stack) - 1 /\ top' = Resumed(Parent)
        /\ Resumed(Parent).state \in {"ARR_CONT", "OBJ_CONT"}
    <3>1. Len(stack') = Len(stack) - 1 /\ stack'[Len(stack) - 1] = Resumed(Parent)
      BY <1>4 DEF Resumes
    <3>2. Parent \in Frame
      BY <1>4 DEF Resumes
    <3> QED BY <3>1, <3>2 DEF top, depth, Resumed, Frame
  <2>3. OpenCount' = Len(stack) - 1
    BY <2>2 DEF OpenCount
  <2>4. pos' = pos + eaten /\ status' = status
    BY <1>4 DEF Resumes, Eat
  <2>5. AcceptedBefore(pos)'
    BY <1>5, <2>4 DEF AcceptedBefore
  <2> QED BY <2>1, <2>3, <2>4, <2>5 DEF LimitsInv
<1> QED BY <1>2, <1>3, <1>4, Deliveries

LEMMA EndsLimits ==
  ASSUME ParserInv, LimitsInv, input' = input, base' = base, NEW code, Ends(code)
  PROVE  LimitsInv'
<1>1. /\ status' = code /\ pos' = pos
      /\ code \in Failure /\ code # "RUNNING"
      /\ code = "OVERFLOW" => input[pos] \in TooLarge
  BY DEF Ends, Fail, Failure
<1>2. base + Len(nodes') <= MaxNodes /\ Fits(nodes')
  <2>1. CASE nodes' = nodes
    BY <2>1 DEF LimitsInv
  <2>2. CASE NodeAllowed /\ \E type \in Type : nodes' = With(type)
    BY <2>2, NewNodeFits DEF LimitsInv
  <2> QED BY <2>1, <2>2 DEF Ends
<1>3. code = "NODE_LIMIT" => base' + Len(nodes') = MaxNodes
  <2>1. Len(nodes) \in Nat /\ base \in Nat /\ MaxNodes \in Nat
    BY TopFrame, LimitsAssumption DEF ParserInv
  <2> QED BY <2>1 DEF Ends, NodeAllowed, LimitsInv
<1>4. code = "DEPTH_EXCEEDED" =>
        input[pos] \in Opening /\ Balance(input, pos) = MaxDepth - 1
  <2> SUFFICES ASSUME code = "DEPTH_EXCEEDED"
               PROVE  input[pos] \in Opening /\ Balance(input, pos) = MaxDepth - 1
    OBVIOUS
  <2>1. /\ status = "RUNNING" /\ top.state = "VALUE" /\ depth >= MaxDepth
        /\ input[pos] \in Opening
    BY DEF Ends, In
  <2>2. Len(stack) = MaxDepth
    BY <2>1, LimitsAssumption DEF ParserInv, StackBounded, depth
  <2> QED BY <2>1, <2>2 DEF LimitsInv, OpenCount
<1>5. base' + Len(nodes') <= MaxNodes /\ Fits(nodes)'
  BY <1>2 DEF Fits
<1>6. code = "DEPTH_EXCEEDED" =>
        input'[pos'] \in Opening /\ Balance(input, pos)' = MaxDepth - 1
  BY <1>1, <1>4 DEF Balance, Before
<1>7. AcceptedBefore(pos)'
  BY <1>1 DEF LimitsInv, AcceptedBefore
<1> QED BY <1>1, <1>3, <1>5, <1>6, <1>7 DEF LimitsInv

LEMMA BeginsLimits ==
  ASSUME ParserInv, LimitsInv, input' = input, base' = base,
         NEW type \in Type, NEW state \in FrameState, Begins(type, state)
  PROVE  LimitsInv'
<1> DEFINE frame == [top EXCEPT !.container = NewId, !.state = state]
<1>1. /\ status = "RUNNING" /\ status' = status /\ pos' = pos + 1
      /\ nodes' = With(type) /\ top.state = "VALUE" /\ input[pos] \in Opening
      /\ pos \in Nat /\ pos >= 1
  BY DEF Begins, In, Eat, ParserInv, TypeOK
<1>2. /\ base' + Len(nodes') <= MaxNodes /\ Fits(nodes)'
      /\ AcceptedBefore(pos)'
  <2>1. input[pos] \in Accepted
    BY <1>1 DEF Opening, Accepted, Structural
  <2>2. AcceptedBefore(pos)'
    BY <1>1, <2>1 DEF LimitsInv, AcceptedBefore
  <2> QED BY <1>1, <2>2, NewNodeFits DEF Begins, LimitsInv, Fits
<1>3. Balance(input, pos)' = Len(stack)
  <2>1. Balance(input, pos) = Len(stack) - 1
    BY <1>1 DEF LimitsInv, OpenCount
  <2>2. Balance(input, pos + 1) = Balance(input, pos) + 1
    BY <1>1, BalanceNext
  <2>3. Len(stack) \in Nat
    BY TopFrame
  <2> QED BY <1>1, <2>1, <2>2, <2>3 DEF Balance, Before
<1>4. frame \in Frame /\ frame.state = state
  <2>1. top \in Frame /\ NewId \in Nat
    BY TopFrame, NewNodeType DEF Type
  <2> QED BY <2>1 DEF Frame
<1> HIDE DEF frame
<1>5. OpenCount' = Len(stack)
  <2>0. Len(stack) \in Nat /\ Len(stack) > 0
    BY DEF ParserInv, TypeOK, StackBounded, depth
  <2>1. CASE Push(frame)
    <3>1. Len(stack') = Len(stack) + 1 /\ stack'[Len(stack) + 1] = ValueFrame
      BY <1>4, <2>1, StackGoesOn
    <3> QED BY <2>0, <3>1 DEF OpenCount, top, depth, ValueFrame
  <2>2. CASE Rewrite(frame) /\ state = "OBJ_KEY"
    <3>1. Len(stack') = Len(stack) /\ stack'[Len(stack)] = frame
      BY <1>4, <2>2, StackGoesOn
    <3> QED BY <1>4, <2>0, <2>2, <3>1 DEF OpenCount, top, depth
  <2> QED BY <2>1, <2>2 DEF Begins, frame
<1> QED BY <1>1, <1>2, <1>3, <1>5 DEF LimitsInv

LEMMA ContinuesLimits ==
  ASSUME ParserInv, LimitsInv, input' = input, base' = base,
         NEW frame, Continues(frame)
  PROVE  LimitsInv'
<1>1. /\ status = "RUNNING" /\ status' = status /\ pos' = pos + 1
      /\ nodes' = nodes /\ top.state # "VALUE"
      /\ input[pos] \in Accepted \ (Opening \cup Closing)
      /\ pos \in Nat /\ pos >= 1 /\ frame \in Frame /\ frame.state # "VALUE"
  BY DEF Continues, Eat, ParserInv, TypeOK
<1>2. Balance(input, pos)' = Len(stack)
  <2>1. Balance(input, pos) = Len(stack)
    BY <1>1 DEF LimitsInv, OpenCount
  <2>2. Balance(input, pos + 1) = Balance(input, pos)
    BY <1>1, BalanceNext
  <2> QED BY <1>1, <2>1, <2>2 DEF Balance, Before
<1>3. OpenCount' = Len(stack)
  <2>0. Len(stack) \in Nat /\ Len(stack) > 0
    BY DEF ParserInv, TypeOK, StackBounded, depth
  <2>1. CASE Push(frame)
    <3>1. Len(stack') = Len(stack) + 1 /\ stack'[Len(stack) + 1] = ValueFrame
      BY <1>1, <2>1, StackGoesOn
    <3> QED BY <2>0, <3>1 DEF OpenCount, top, depth, ValueFrame
  <2>2. CASE Rewrite(frame)
    <3>1. Len(stack') = Len(stack) /\ stack'[Len(stack)] = frame
      BY <1>1, <2>2, StackGoesOn
    <3> QED BY <1>1, <2>0, <3>1 DEF OpenCount, top, depth
  <2> QED BY <2>1, <2>2 DEF Continues
<1>4. AcceptedBefore(pos)'
  BY <1>1 DEF LimitsInv, AcceptedBefore
<1> QED BY <1>1, <1>2, <1>3, <1>4 DEF LimitsInv, Fits

LEMMA LimitsInvNext == ParserInv /\ LimitsInv /\ [Next]_vars => LimitsInv'
<1> SUFFICES ASSUME ParserInv, LimitsInv, [Next]_vars PROVE LimitsInv'
  OBVIOUS
<1>1. CASE UNCHANGED vars
  BY <1>1 DEF vars, LimitsInv, Fits, Balance, Before, OpenCount, AcceptedBefore,
              Parent, top, depth
<1>2. CASE Next
  <2>0. /\ input' = input /\ base' = base
        /\ pos \in Nat /\ pos >= 1 /\ Len(stack) \in Nat
        /\ nodes \in Seq(Node) /\ Len(nodes) \in Nat
    BY <1>2, TopFrame DEF Next, ParserInv, TypeOK
  <2>1. CASE \E code : Ends(code)
    BY <2>0, <2>1, EndsLimits
  <2>2. ASSUME NEW type \in Type, NEW eaten \in {1, 2}, DeliversNew(type, eaten)
        PROVE  LimitsInv'
    <3>1. /\ status = "RUNNING" /\ top.state = "VALUE" /\ NodeAllowed
          /\ Deliver(NewId, With(type), eaten)
      BY <2>2 DEF DeliversNew, In
    <3>2. /\ With(type) \in Seq(Node) /\ Len(With(type)) >= Len(nodes)
          /\ base + Len(With(type)) <= MaxNodes /\ Fits(With(type))
      BY <2>0, <3>1, NewNodeFits DEF LimitsInv
    <3>3. Balance(input, pos) = Len(stack) - 1
      BY <3>1 DEF LimitsInv, OpenCount
    <3>4. Balance(input, pos + eaten) = Len(stack) - 1
      <4>1. CASE eaten = 1 /\ input[pos] \in Accepted \ (Opening \cup Closing)
        BY <2>0, <3>3, <4>1, BalanceNext
      <4>2. CASE eaten = 2 /\ input[pos] \in Opening /\ input[pos + 1] \in Closing
        <5>1. Balance(input, pos + 1) = Balance(input, pos) + 1
          BY <2>0, <4>2, BalanceNext
        <5>2. Balance(input, (pos + 1) + 1) = Balance(input, pos + 1) - 1
          BY <2>0, <4>2, BalanceNext
        <5>3. (pos + 1) + 1 = pos + eaten
          BY <2>0, <4>2
        <5> QED BY <2>0, <3>3, <5>1, <5>2, <5>3
      <4> QED BY <2>2, <4>1, <4>2 DEF DeliversNew
    <3>5. \A i \in pos..(pos + eaten - 1) : input[i] \in Accepted
      <4>1. Opening \cup Closing \subseteq Accepted
        BY DEF Opening, Closing, Accepted, Structural
      <4>2. eaten = 1 => pos..(pos + eaten - 1) = {pos}
        BY <2>0
      <4>3. eaten = 2 => pos..(pos + eaten - 1) = {pos, pos + 1}
        BY <2>0
      <4> QED BY <2>2, <4>1, <4>2, <4>3 DEF DeliversNew
    <3> QED BY <2>0, <3>1, <3>2, <3>4, <3>5, DeliveryLimits
  <2>3. CASE DeliversOwn
    <3>1. /\ status = "RUNNING" /\ top.state # "VALUE"
          /\ input[pos] \in Closing /\ Deliver(top.container, nodes, 1)
      BY <2>3 DEF DeliversOwn, In
    <3>2. Balance(input, pos) = Len(stack)
      BY <3>1 DEF LimitsInv, OpenCount
    <3>3. Balance(input, pos + 1) = Len(stack) - 1
      BY <2>0, <3>1, <3>2, BalanceNext
    <3>4. base + Len(nodes) <= MaxNodes /\ Fits(nodes) /\ Len(nodes) >= Len(nodes)
      BY <2>0 DEF LimitsInv
    <3>5. \A i \in pos..(pos + 1 - 1) : input[i] \in Accepted
      <4>1. input[pos] \in Accepted
        BY <3>1 DEF Closing, Accepted, Structural
      <4>2. pos..(pos + 1 - 1) = {pos}
        BY <2>0
      <4> QED BY <4>1, <4>2
    <3> QED BY <2>0, <3>1, <3>3, <3>4, <3>5, DeliveryLimits
  <2>4. CASE \E type \in Type, state \in FrameState : Begins(type, state)
    BY <2>0, <2>4, BeginsLimits
  <2>5. CASE \E frame : Continues(frame)
    BY <2>0, <2>5, ContinuesLimits
  <2> QED BY <1>2, <2>1, <2>2, <2>3, <2>4, <2>5, KindsOfStep
<1> QED BY <1>1, <1>2

\* For every limit and every input, refused lexemes among them: the node count
\* stays below its limit, a capacity covers the entries and stays below its
\* own, an error code that names a limit is returned only where that limit is
\* reached, and nothing refused is read past.
THEOREM LimitsHold == Spec => []LimitsTruthful
<1>1. Init => ParserInv /\ LimitsInv
  BY ParserInvInit, LimitsInvInit
<1>2. (ParserInv /\ LimitsInv) /\ [Next]_vars => (ParserInv /\ LimitsInv)'
  BY ParserInvNext, LimitsInvNext
<1>3. LimitsInv => LimitsTruthful
  BY DEF LimitsInv, LimitsTruthful, Fits, Balance, Before, AcceptedBefore, Opening,
         Closing
<1> QED BY <1>1, <1>2, <1>3, PTL DEF Spec

(***************************************************************************)
(* Forests.                                                                *)
(***************************************************************************)

\* No container of nd holds node id ...
Loose(nd, id) ==
  \A p \in 1..Len(nd) : \A k \in 1..Len(nd[p].items) : nd[p].items[k].val # id

\* ... or one does, which is older, in one place.
Placed(nd, id) ==
  \E p \in 1..Len(nd) : \E k \in 1..Len(nd[p].items) :
    /\ nd[p].items[k].val = id
    /\ p < id
    /\ \A q \in 1..Len(nd) : \A l \in 1..Len(nd[q].items) :
         nd[q].items[l].val = id => q = p /\ l = k

Forest(nd, held) ==
  /\ \A p \in 1..Len(nd) : \A k \in 1..Len(nd[p].items) :
       nd[p].items[k].val \in 1..Len(nd)
  /\ \A id \in 1..Len(nd) : IF id \in held THEN Loose(nd, id) ELSE Placed(nd, id)

\* A new node has no entries, and nobody holds it.
LEMMA ForestNew ==
  ASSUME NEW nd \in Seq(Node), NEW held, Forest(nd, held),
         NEW node \in Node, node.items = << >>
  PROVE  Forest(Append(nd, node), held \cup {Len(nd) + 1})
<1> DEFINE new == Append(nd, node)
<1>1. /\ Len(nd) \in Nat /\ Len(new) = Len(nd) + 1
      /\ \A p \in 1..Len(nd) : new[p] = nd[p]
      /\ new[Len(nd) + 1] = node
  OBVIOUS
<1> HIDE DEF new
<1>2. ASSUME NEW p \in 1..Len(new), NEW k \in 1..Len(new[p].items)
      PROVE  p \in 1..Len(nd) /\ new[p] = nd[p]
  <2>1. p # Len(nd) + 1
    BY <1>1, <1>2
  <2> QED BY <1>1, <2>1
<1>3. ASSUME NEW p \in 1..Len(new), NEW k \in 1..Len(new[p].items)
      PROVE  new[p].items[k].val \in 1..Len(new)
  <2>1. p \in 1..Len(nd) /\ new[p] = nd[p]
    BY <1>2
  <2>2. new[p].items[k].val \in 1..Len(nd)
    BY <2>1 DEF Forest
  <2> QED BY <1>1, <2>2
<1>4. ASSUME NEW id \in 1..Len(nd) PROVE Loose(nd, id) => Loose(new, id)
  BY <1>2 DEF Loose
<1>5. ASSUME NEW id \in 1..Len(nd), Placed(nd, id) PROVE Placed(new, id)
  <2>1. PICK p \in 1..Len(nd) : \E k \in 1..Len(nd[p].items) :
          /\ nd[p].items[k].val = id
          /\ p < id
          /\ \A q \in 1..Len(nd) : \A l \in 1..Len(nd[q].items) :
               nd[q].items[l].val = id => q = p /\ l = k
    BY <1>5 DEF Placed
  <2>2. PICK k \in 1..Len(nd[p].items) :
          /\ nd[p].items[k].val = id
          /\ p < id
          /\ \A q \in 1..Len(nd) : \A l \in 1..Len(nd[q].items) :
               nd[q].items[l].val = id => q = p /\ l = k
    BY <2>1
  <2>3. p \in 1..Len(new) /\ new[p] = nd[p]
    BY <1>1
  <2>4. ASSUME NEW q \in 1..Len(new), NEW l \in 1..Len(new[q].items),
               new[q].items[l].val = id
        PROVE  q = p /\ l = k
    <3>1. q \in 1..Len(nd) /\ new[q] = nd[q]
      BY <1>2
    <3> QED BY <2>2, <2>4, <3>1
  <2>5. k \in 1..Len(new[p].items) /\ new[p].items[k].val = id
    BY <2>2, <2>3
  <2> QED BY <2>2, <2>3, <2>4, <2>5 DEF Placed
<1>6. Loose(new, Len(nd) + 1)
  <2>1. ASSUME NEW p \in 1..Len(new), NEW k \in 1..Len(new[p].items)
        PROVE  new[p].items[k].val # Len(nd) + 1
    <3>1. p \in 1..Len(nd) /\ new[p] = nd[p]
      BY <1>2
    <3>2. new[p].items[k].val \in 1..Len(nd)
      BY <3>1 DEF Forest
    <3> QED BY <1>1, <3>2
  <2> QED BY <2>1 DEF Loose
<1>7. ASSUME NEW id \in 1..Len(new)
      PROVE  IF id \in held \cup {Len(nd) + 1} THEN Loose(new, id) ELSE Placed(new, id)
  <2>1. CASE id = Len(nd) + 1
    BY <1>6, <2>1
  <2>2. CASE id # Len(nd) + 1
    <3>1. id \in 1..Len(nd)
      BY <1>1, <2>2
    <3> QED BY <1>4, <1>5, <2>2, <3>1 DEF Forest
  <2> QED BY <2>1, <2>2
<1>8. Forest(new, held \cup {Len(nd) + 1})
  BY <1>3, <1>7 DEF Forest
<1> QED BY <1>8 DEF new

\* A node that nobody holds becomes the last entry of an older one.
LEMMA ForestAdd ==
  ASSUME NEW nd \in Seq(Node), NEW held, Forest(nd, held),
         NEW v \in 1..Len(nd), v \in held,
         NEW p \in 1..Len(nd), p < v,
         NEW node \in Node, NEW entry \in Entry, entry.val = v,
         node.items = Append(nd[p].items, entry)
  PROVE  Forest([nd EXCEPT ![p] = node], held \ {v})
<1> DEFINE new == [nd EXCEPT ![p] = node]
           last == Len(nd[p].items) + 1
<1>1. /\ Len(nd) \in Nat /\ Len(new) = Len(nd)
      /\ new[p] = node
      /\ \A q \in 1..Len(nd) : q # p => new[q] = nd[q]
  OBVIOUS
<1>2. /\ Len(nd[p].items) \in Nat
      /\ Len(node.items) = last
      /\ node.items[last] = entry
      /\ \A k \in 1..Len(nd[p].items) : node.items[k] = nd[p].items[k]
  <2>1. nd[p].items \in Seq(Entry)
    <3>1. nd[p] \in Node
      OBVIOUS
    <3> QED BY <3>1 DEF Node
  <2>2. PICK items \in Seq(Entry) : items = nd[p].items
    BY <2>1
  <2>3. node.items = Append(items, entry)
    BY <2>2
  <2>4. /\ Len(Append(items, entry)) = Len(items) + 1
        /\ Append(items, entry)[Len(items) + 1] = entry
        /\ \A k \in 1..Len(items) : Append(items, entry)[k] = items[k]
    OBVIOUS
  <2> QED BY <2>2, <2>3, <2>4
<1> HIDE DEF new
<1>3. ASSUME NEW q \in 1..Len(new), NEW k \in 1..Len(new[q].items)
      PROVE  \/ q = p /\ k = last /\ new[q].items[k].val = v
             \/ /\ q \in 1..Len(nd) /\ k \in 1..Len(nd[q].items)
                /\ ~(q = p /\ k = last)
                /\ new[q].items[k] = nd[q].items[k]
  <2>1. CASE q = p
    <3>1. k \in 1..last
      BY <1>1, <1>2, <2>1
    <3>2. CASE k = last
      BY <1>1, <1>2, <2>1, <3>2
    <3>3. CASE k # last
      <4>1. k \in 1..Len(nd[p].items)
        BY <1>2, <3>1, <3>3
      <4> QED BY <1>1, <1>2, <2>1, <3>3, <4>1
    <3> QED BY <3>2, <3>3
  <2>2. CASE q # p
    BY <1>1, <2>2
  <2> QED BY <2>1, <2>2
<1>4. ASSUME NEW q \in 1..Len(nd), NEW k \in 1..Len(nd[q].items)
      PROVE  /\ q \in 1..Len(new) /\ k \in 1..Len(new[q].items)
             /\ new[q].items[k] = nd[q].items[k]
  <2>1. CASE q = p
    <3>1. k \in 1..last
      BY <1>2, <2>1
    <3>2. k \in 1..Len(new[q].items) /\ q \in 1..Len(new)
      <4>1. new[q].items = node.items
        BY <1>1, <2>1
      <4> QED BY <1>1, <1>2, <3>1, <4>1
    <3>3. new[q].items[k] = nd[q].items[k]
      BY <1>1, <1>2, <2>1
    <3> QED BY <3>2, <3>3
  <2>2. CASE q # p
    BY <1>1, <2>2
  <2> QED BY <2>1, <2>2
<1> HIDE DEF last
<1>5. Loose(nd, v)
  BY DEF Forest
<1>6. ASSUME NEW q \in 1..Len(new), NEW k \in 1..Len(new[q].items)
      PROVE  new[q].items[k].val \in 1..Len(new)
  <2>1. CASE new[q].items[k].val = v
    BY <1>1, <2>1
  <2>2. CASE q \in 1..Len(nd) /\ k \in 1..Len(nd[q].items)
             /\ new[q].items[k] = nd[q].items[k]
    BY <1>1, <2>2 DEF Forest
  <2> QED BY <1>3, <2>1, <2>2
<1>7. Placed(new, v)
  <2>1. last \in 1..Len(new[p].items) /\ p \in 1..Len(new) /\ new[p].items[last].val = v
    BY <1>1, <1>2 DEF last
  <2>2. ASSUME NEW q \in 1..Len(new), NEW l \in 1..Len(new[q].items),
               new[q].items[l].val = v
        PROVE  q = p /\ l = last
    <3>1. ~(/\ q \in 1..Len(nd) /\ l \in 1..Len(nd[q].items)
            /\ new[q].items[l] = nd[q].items[l])
      BY <1>5, <2>2 DEF Loose
    <3> QED BY <1>3, <3>1
  <2> QED BY <2>1, <2>2 DEF Placed
<1>8. ASSUME NEW id \in 1..Len(nd), id # v, Loose(nd, id) PROVE Loose(new, id)
  <2> SUFFICES ASSUME NEW q \in 1..Len(new), NEW k \in 1..Len(new[q].items)
               PROVE  new[q].items[k].val # id
    BY DEF Loose
  <2>1. CASE new[q].items[k].val = v
    BY <1>8, <2>1
  <2>2. CASE q \in 1..Len(nd) /\ k \in 1..Len(nd[q].items)
             /\ new[q].items[k] = nd[q].items[k]
    BY <1>8, <2>2 DEF Loose
  <2> QED BY <1>3, <2>1, <2>2
<1>9. ASSUME NEW id \in 1..Len(nd), id # v, Placed(nd, id) PROVE Placed(new, id)
  <2>1. PICK r \in 1..Len(nd) : \E k \in 1..Len(nd[r].items) :
          /\ nd[r].items[k].val = id
          /\ r < id
          /\ \A q \in 1..Len(nd) : \A l \in 1..Len(nd[q].items) :
               nd[q].items[l].val = id => q = r /\ l = k
    BY <1>9 DEF Placed
  <2>2. PICK k \in 1..Len(nd[r].items) :
          /\ nd[r].items[k].val = id
          /\ r < id
          /\ \A q \in 1..Len(nd) : \A l \in 1..Len(nd[q].items) :
               nd[q].items[l].val = id => q = r /\ l = k
    BY <2>1
  <2>3. /\ r \in 1..Len(new) /\ k \in 1..Len(new[r].items)
        /\ new[r].items[k].val = id
    BY <1>4, <2>2
  <2>4. ASSUME NEW q \in 1..Len(new), NEW l \in 1..Len(new[q].items),
               new[q].items[l].val = id
        PROVE  q = r /\ l = k
    <3>1. /\ q \in 1..Len(nd) /\ l \in 1..Len(nd[q].items)
          /\ new[q].items[l] = nd[q].items[l]
      BY <1>3, <1>9, <2>4
    <3> QED BY <2>2, <2>4, <3>1
  <2> QED BY <2>2, <2>3, <2>4 DEF Placed
<1>10. ASSUME NEW id \in 1..Len(new)
       PROVE  IF id \in held \ {v} THEN Loose(new, id) ELSE Placed(new, id)
  BY <1>1, <1>7, <1>8, <1>9 DEF Forest
<1>11. Forest(new, held \ {v})
  BY <1>6, <1>10 DEF Forest
<1> QED BY <1>11 DEF new

(***************************************************************************)
(* The frames and their containers.                                        *)
(***************************************************************************)

\* Frame i of stack s, over the nodes nd: it fills a container of the type of
\* its state, if it has one, and those above it fill younger ones.
FrameFills(s, nd, i) ==
  /\ s[i].state = "VALUE" => s[i].container = 0
  /\ \A type \in TypeIn(s[i].state) : nd[s[i].container].type = type
  /\ \A j \in 1..Len(s) :
       i < j /\ s[j].container # 0 => s[i].container < s[j].container

Containers(s) == {s[i].container : i \in 1..Len(s)} \ {0}

EntriesFit(nd, p) == \A n \in 1..Len(nd) : Len(nd[n].items) < p

\* Nobody holds the nodes of held; a call that failed may have left its last
\* node to nobody too.
Grown(nd, held) ==
  \/ Forest(nd, held)
  \/ status \in Failure /\ Forest(nd, held \cup {Len(nd)})

\* Held is written out here as what the frames fill, and the root once known.
ForestInv ==
  /\ EntriesFit(nodes, pos)
  /\ status = "RUNNING" => root = 0
  /\ status = "OK" => root # 0
  /\ root = 0 => /\ \A i \in 1..Len(stack) : FrameFills(stack, nodes, i)
                 /\ Grown(nodes, Containers(stack))
  /\ root # 0 => /\ Len(stack) = 1 /\ stack[1].container \in {0, root}
                 /\ \A type \in TypeIn(stack[1].state) :
                      nodes[stack[1].container].type = type
                 /\ Forest(nodes, {root})

LEMMA TypeInFrames ==
  /\ TypeIn("VALUE") = {}
  /\ \A frame \in Frame : frame.state \in Waiting =>
       TypeIn(Resumed(frame).state) = TypeIn(frame.state)
BY DEF TypeIn, Frame, FrameState, Waiting, Resumed

LEMMA ForestInvInit == Init => ForestInv
<1> SUFFICES ASSUME Init PROVE ForestInv
  OBVIOUS
<1>1. Len(stack) = 1 /\ stack[1] = ValueFrame /\ Len(nodes) = 0
  BY DEF Init
<1>2. FrameFills(stack, nodes, 1)
  BY <1>1, TypeInFrames DEF FrameFills, ValueFrame
<1>3. Forest(nodes, Containers(stack)) /\ EntriesFit(nodes, pos)
  BY <1>1 DEF Forest, EntriesFit
<1> QED BY <1>1, <1>2, <1>3 DEF Init, ForestInv, Grown

\* The frames of a running call: all but the top one wait, each has a
\* container, and the top one has none just when it is a VALUE frame.
LEMMA FramesOfCall ==
  ASSUME ParserInv, ForestInv, status = "RUNNING"
  PROVE  /\ stack \in Seq(Frame) /\ Len(stack) \in Nat /\ Len(stack) > 0
         /\ nodes \in Seq(Node) /\ Len(nodes) \in Nat
         /\ pos \in Nat /\ pos >= 1
         /\ top = stack[Len(stack)] /\ top \in Frame
         /\ \A i \in 1..(Len(stack) - 1) : /\ stack[i].state \in Waiting
                                           /\ stack[i].container \in 1..Len(nodes)
         /\ IF top.state = "VALUE" THEN top.container = 0
                                   ELSE top.container \in 1..Len(nodes)
         /\ root = 0 /\ Forest(nodes, Containers(stack))
         /\ \A i \in 1..Len(stack) : FrameFills(stack, nodes, i)
<1>1. /\ stack \in Seq(Frame) /\ Len(stack) \in Nat /\ Len(stack) > 0
      /\ nodes \in Seq(Node) /\ Len(nodes) \in Nat
      /\ pos \in Nat /\ pos >= 1 /\ top \in Frame
  BY TopFrame DEF ParserInv, TypeOK, StackBounded, depth
<1>2. top = stack[Len(stack)] /\ Len(stack) \in 1..Len(stack)
  BY <1>1 DEF top, depth
<1>3. ASSUME NEW i \in 1..(Len(stack) - 1)
      PROVE  stack[i].state \in Waiting /\ stack[i].container \in 1..Len(nodes)
  <2>1. stack[i].state \in Waiting
    BY DEF ParserInv, FramesNested, depth
  <2>2. stack[i].state # "VALUE" /\ i \in 1..depth
    BY <1>1, <2>1 DEF Waiting, depth
  <2> QED BY <2>1, <2>2 DEF ParserInv
<1>4. top.state = "VALUE" => top.container = 0
  BY <1>2 DEF ForestInv, FrameFills
<1>5. root = 0 /\ Forest(nodes, Containers(stack))
  BY DEF ForestInv, Grown, Failure
<1> QED BY <1>1, <1>2, <1>3, <1>4, <1>5, TopFrame DEF ForestInv

\* A new node of the given type, held by who asked for it.
LEMMA NewNodeForest ==
  ASSUME ParserInv, ForestInv, status = "RUNNING", NEW type \in Type
  PROVE  /\ With(type) \in Seq(Node)
         /\ Len(With(type)) = Len(nodes) + 1
         /\ NewId = Len(nodes) + 1
         /\ With(type)[NewId].type = type
         /\ \A n \in 1..Len(nodes) : With(type)[n] = nodes[n]
         /\ EntriesFit(With(type), pos)
         /\ Forest(With(type), Containers(stack) \cup {NewId})
<1>1. /\ nodes \in Seq(Node) /\ Len(nodes) \in Nat /\ pos \in Nat /\ pos >= 1
  BY FramesOfCall
<1>2. /\ NewNode(type) \in Node /\ NewNode(type).items = << >>
      /\ NewNode(type).type = type
  BY <1>1 DEF NewNode, Node, Type
<1>3. /\ With(type) \in Seq(Node) /\ Len(With(type)) = Len(nodes) + 1
      /\ With(type)[Len(nodes) + 1] = NewNode(type)
      /\ \A n \in 1..Len(nodes) : With(type)[n] = nodes[n]
  BY <1>1, <1>2 DEF With
<1>4. EntriesFit(With(type), pos)
  BY <1>1, <1>2, <1>3 DEF EntriesFit, ForestInv
<1>5. Forest(With(type), Containers(stack) \cup {Len(nodes) + 1})
  <2>1. Forest(nodes, Containers(stack))
    BY FramesOfCall
  <2> QED BY <1>1, <1>2, <2>1, ForestNew DEF With
<1> QED BY <1>2, <1>3, <1>4, <1>5 DEF NewId

\* A call that fails moves no frame, and adds to nodes at most a new last one,
\* held by nobody.
LEMMA FailForest ==
  ASSUME ParserInv, ForestInv, status = "RUNNING", NEW code \in Failure, Fail(code),
         nodes' \in Seq(Node), Len(nodes') >= Len(nodes), EntriesFit(nodes', pos),
         \A n \in 1..Len(nodes) : nodes'[n].type = nodes[n].type,
         \/ Forest(nodes', Containers(stack))
         \/ Forest(nodes', Containers(stack) \cup {Len(nodes')})
  PROVE  ForestInv'
<1>1. /\ status' \in Failure /\ status' # "RUNNING" /\ status' # "OK"
      /\ pos' = pos /\ stack' = stack /\ root' = 0
  BY FramesOfCall DEF Fail, Failure
<1>2. ASSUME NEW i \in 1..Len(stack) PROVE FrameFills(stack, nodes', i)
  <2>1. FrameFills(stack, nodes, i)
    BY FramesOfCall
  <2>2. ASSUME NEW type \in TypeIn(stack[i].state)
        PROVE  nodes'[stack[i].container].type = type
    <3>1. stack[i].container \in 1..Len(nodes)
      BY TypeInFrames DEF ParserInv, depth
    <3> QED BY <2>1, <3>1 DEF FrameFills
  <2> QED BY <2>1, <2>2 DEF FrameFills
<1>3. Grown(nodes, Containers(stack))'
  BY <1>1 DEF Grown, Containers
<1>4. /\ EntriesFit(nodes, pos)'
      /\ \A i \in 1..Len(stack') : FrameFills(stack, nodes, i)'
  BY <1>1, <1>2 DEF EntriesFit, FrameFills
<1> QED BY <1>1, <1>3, <1>4 DEF ForestInv

LEMMA EndsForest ==
  ASSUME ParserInv, ForestInv, NEW code, Ends(code)
  PROVE  ForestInv'
<1>1. /\ status = "RUNNING" /\ code \in Failure /\ Fail(code)
      /\ nodes \in Seq(Node) /\ Len(nodes) \in Nat
  BY FramesOfCall DEF Ends
<1>2. CASE nodes' = nodes
  <2>1. EntriesFit(nodes', pos) /\ Forest(nodes', Containers(stack))
    BY <1>1, <1>2, FramesOfCall DEF ForestInv
  <2> QED BY <1>1, <1>2, <2>1, FailForest
<1>3. ASSUME NEW type \in Type, nodes' = With(type) PROVE ForestInv'
  <2>1. /\ nodes' \in Seq(Node) /\ Len(nodes') = Len(nodes) + 1
        /\ \A n \in 1..Len(nodes) : nodes'[n] = nodes[n]
        /\ EntriesFit(nodes', pos)
        /\ Forest(nodes', Containers(stack) \cup {Len(nodes')})
    <3>1. NewId = Len(With(type))
      BY <1>1, NewNodeForest
    <3> QED BY <1>1, <1>3, <3>1, NewNodeForest
  <2>2. /\ Len(nodes') >= Len(nodes)
        /\ \A n \in 1..Len(nodes) : nodes'[n].type = nodes[n].type
    BY <1>1, <2>1
  <2> QED BY <1>1, <2>1, <2>2, FailForest
<1> QED BY <1>2, <1>3 DEF Ends

\* The shape of a running call, of primed variables.
LEMMA RunningForest ==
  ASSUME status' = "RUNNING", root' = 0, EntriesFit(nodes', pos'),
         \A i \in 1..Len(stack') : FrameFills(stack', nodes', i),
         Forest(nodes', Containers(stack'))
  PROVE  ForestInv'
BY DEF ForestInv, Grown, EntriesFit, FrameFills, Forest, Loose, Placed, Containers

\* Frame i of stack s fills its container, and goes on to fill it in stack t.
FrameKept(s, t, old, new, i) ==
  /\ FrameFills(s, old, i)
  /\ s[i].container \in Nat /\ s[i].container # 0
  /\ t[i].container = s[i].container
  /\ t[i].state # "VALUE"
  /\ TypeIn(t[i].state) = TypeIn(s[i].state)
  /\ new[s[i].container].type = old[s[i].container].type

\* The first m frames of stack s still fill their containers in stack t, with
\* a VALUE frame above them or none.
LEMMA FramesGoOn ==
  ASSUME NEW s, NEW t, NEW old, NEW new, NEW m \in Nat,
         Len(t) = m \/ (Len(t) = m + 1 /\ t[m + 1] = ValueFrame),
         Len(s) \in Nat, m <= Len(s),
         \A i \in 1..m : FrameKept(s, t, old, new, i)
  PROVE  \A i \in 1..Len(t) : FrameFills(t, new, i)
<1>1. ASSUME NEW i \in 1..m, NEW j \in 1..Len(t), i < j, t[j].container # 0
      PROVE  t[i].container < t[j].container
  <2>1. CASE j \in 1..m
    <3>1. j \in 1..Len(s)
      BY <2>1
    <3> QED BY <1>1, <2>1, <3>1 DEF FrameFills, FrameKept
  <2>2. CASE j \notin 1..m
    <3>1. j = m + 1 /\ t[j] = ValueFrame
      BY <2>2
    <3> QED BY <1>1, <3>1 DEF ValueFrame, FrameKept
  <2> QED BY <2>1, <2>2
<1>2. ASSUME NEW i \in 1..m PROVE FrameFills(t, new, i)
  BY <1>1 DEF FrameFills, FrameKept
<1>3. ASSUME NEW i \in 1..Len(t), i \notin 1..m PROVE FrameFills(t, new, i)
  <2>1. i = m + 1 /\ Len(t) = m + 1 /\ t[i] = ValueFrame
    BY <1>3
  <2> QED BY <2>1, TypeInFrames DEF FrameFills, ValueFrame
<1> QED BY <1>2, <1>3

LEMMA EntriesCount ==
  ASSUME NEW nd \in Seq(Node), NEW n \in 1..Len(nd)
  PROVE  nd[n].items \in Seq(Entry) /\ Len(nd[n].items) \in Nat
<1>1. nd[n] \in Node
  OBVIOUS
<1> QED BY <1>1 DEF Node

\* A delivery takes node v from the top frame to the one below, or makes it
\* the root; nd are the nodes, with v among them if it is new.
Delivered(v, nd) ==
  /\ nd \in Seq(Node) /\ Len(nd) >= Len(nodes)
  /\ \A n \in 1..Len(nodes) : nd[n].type = nodes[n].type
  /\ v \in 1..Len(nd) /\ top.container \in {0, v}
  /\ \A i \in 1..(Len(stack) - 1) : stack[i].container < v
  /\ v \in Containers(stack) \/ v = Len(nd)
  /\ Forest(nd, Containers(stack) \cup {v}) /\ EntriesFit(nd, pos)

LEMMA RootForest ==
  ASSUME ParserInv, ForestInv, status = "RUNNING", NEW v, NEW nd, Delivered(v, nd),
         NEW eaten \in {1, 2}, DeliverRoot(v, nd, eaten)
  PROVE  ForestInv'
<1>1. /\ Len(stack) = 1 /\ stack' = stack /\ nodes' = nd /\ root' = v
      /\ pos' = pos + eaten /\ status' \in {"OK", "INVALID_JSON"}
  BY DEF DeliverRoot, Eat, depth
<1>2. /\ nd \in Seq(Node) /\ Len(nd) \in Nat /\ v \in 1..Len(nd)
      /\ stack[1].container \in {0, v} /\ top = stack[1]
      /\ pos \in Nat /\ Len(nodes) \in Nat /\ Len(nodes) <= Len(nd)
  BY <1>1, FramesOfCall DEF Delivered
<1>3. EntriesFit(nd, pos + eaten)
  BY <1>2, EntriesCount DEF EntriesFit, Delivered
<1>4. Containers(stack) \cup {v} = {v}
  BY <1>1, <1>2 DEF Containers
<1>5. \A type \in TypeIn(stack[1].state) : nd[stack[1].container].type = type
  <2>1. \A type \in TypeIn(stack[1].state) : nodes[stack[1].container].type = type
    <3>1. FrameFills(stack, nodes, 1)
      BY <1>1, FramesOfCall
    <3> QED BY <3>1 DEF FrameFills
  <2>2. CASE top.state = "VALUE"
    BY <1>2, <2>2, TypeInFrames
  <2>3. CASE top.state # "VALUE"
    <3>1. stack[1].container \in 1..Len(nodes)
      BY <1>2, <2>3, FramesOfCall
    <3> QED BY <2>1, <3>1 DEF Delivered
  <2> QED BY <2>2, <2>3
<1>6. Forest(nd, {v})
  BY <1>4 DEF Delivered
<1>7. /\ EntriesFit(nodes', pos') /\ Forest(nodes', {root'}) /\ root' # 0
      /\ Len(stack') = 1 /\ stack'[1].container \in {0, root'}
      /\ \A type \in TypeIn(stack'[1].state) :
           nodes'[stack'[1].container].type = type
  BY <1>1, <1>2, <1>3, <1>5, <1>6
<1> QED BY <1>1, <1>7 DEF ForestInv, EntriesFit, Forest, Loose, Placed

\* The nodes after a delivery to a frame that waits.
LEMMA ResumesNodes ==
  ASSUME ParserInv, ForestInv, status = "RUNNING", NEW v, NEW nd, Delivered(v, nd),
         NEW eaten \in {1, 2}, Resumes(v, nd, eaten)
  PROVE  /\ Forest(nodes', (Containers(stack) \cup {v}) \ {v})
         /\ EntriesFit(nodes', pos + eaten)
         /\ \A n \in 1..Len(nodes) : nodes'[n].type = nodes[n].type
<1> DEFINE p == Parent.container
           entry == EntryFor(Parent, v)
           node == Added(nd[p], entry)
<1>1. /\ nd \in Seq(Node) /\ Len(nd) \in Nat /\ v \in 1..Len(nd) /\ v \in Nat
      /\ pos \in Nat /\ Len(nodes) \in Nat /\ Len(nodes) <= Len(nd)
  BY FramesOfCall DEF Delivered
<1>2. /\ Parent \in Frame /\ p \in 1..Len(nd)
      /\ nodes' = [nd EXCEPT ![p] = node]
  BY <1>1 DEF Resumes
<1>3. p < v
  <2>1. depth - 1 \in 1..(Len(stack) - 1)
    BY FramesOfCall DEF Resumes, depth
  <2> QED BY <2>1 DEF Delivered, Parent
<1>4. entry \in Entry /\ entry.val = v
  BY <1>1, <1>2 DEF EntryFor, Entry, Frame
<1>5. /\ node \in Node /\ node.type = nd[p].type
      /\ node.items = Append(nd[p].items, entry)
  <2>1. nd[p] \in Node
    BY <1>1, <1>2
  <2> HIDE DEF entry
  <2> QED BY <1>4, <2>1, AddedType DEF Added, Node
<1>6. Len(node.items) = Len(nd[p].items) + 1
  <2> HIDE DEF entry, node
  <2>1. PICK items \in Seq(Entry) : items = nd[p].items
    BY <1>1, <1>2, EntriesCount
  <2> QED BY <1>4, <1>5, <2>1
<1> HIDE DEF p, entry, node
<1>7. /\ Len(nodes') = Len(nd) /\ nodes'[p] = node
      /\ \A n \in 1..Len(nd) : n # p => nodes'[n] = nd[n]
  BY <1>1, <1>2
<1>8. ASSUME NEW n \in 1..Len(nodes') PROVE Len(nodes'[n].items) < pos + eaten
  <2>1. Len(nd[n].items) \in Nat /\ Len(nd[n].items) < pos
    BY <1>1, <1>7, EntriesCount DEF Delivered, EntriesFit
  <2>2. CASE n = p
    BY <1>1, <1>6, <1>7, <2>1, <2>2
  <2>3. CASE n # p
    BY <1>1, <1>7, <2>1, <2>3
  <2> QED BY <2>2, <2>3
<1>9. ASSUME NEW n \in 1..Len(nodes) PROVE nodes'[n].type = nodes[n].type
  <2>1. n \in 1..Len(nd) /\ nd[n].type = nodes[n].type
    BY <1>1 DEF Delivered
  <2> QED BY <1>5, <1>7, <2>1
<1>10. Forest(nodes', (Containers(stack) \cup {v}) \ {v})
  <2>1. Forest(nd, Containers(stack) \cup {v})
    BY DEF Delivered
  <2> DEFINE held == Containers(stack) \cup {v}
  <2>2. v \in held
    OBVIOUS
  <2> HIDE DEF held
  <2>3. Forest([nd EXCEPT ![p] = node], held \ {v})
    <3>1. Forest(nd, held)
      BY <2>1 DEF held
    <3> QED BY <1>1, <1>2, <1>3, <1>4, <1>5, <2>2, <3>1, ForestAdd
  <2> QED BY <1>2, <2>3 DEF held
<1> QED BY <1>8, <1>9, <1>10 DEF EntriesFit

LEMMA ResumesForest ==
  ASSUME ParserInv, ForestInv, status = "RUNNING", NEW v, NEW nd, Delivered(v, nd),
         NEW eaten \in {1, 2}, Resumes(v, nd, eaten)
  PROVE  ForestInv'
<1>1. PICK n \in Nat : n = Len(stack) - 1
  <2>1. Len(stack) \in Nat /\ Len(stack) > 0
    BY FramesOfCall
  <2> QED BY <2>1
<1>2. /\ n > 0 /\ n + 1 = Len(stack) /\ Len(stack) \in Nat
      /\ Parent = stack[n] /\ Parent \in Frame /\ Parent.state \in Waiting
      /\ Len(stack') = n /\ stack'[n] = Resumed(Parent)
      /\ \A i \in 1..(n - 1) : stack'[i] = stack[i]
      /\ pos' = pos + eaten /\ status' = "RUNNING" /\ root' = 0
  <2>1. Len(stack) - 2 = n - 1 /\ Len(stack) \in Nat /\ root = 0
    BY <1>1, FramesOfCall
  <2> QED BY <1>1, <2>1 DEF Resumes, Eat, Parent, depth
<1>3. /\ Resumed(Parent).container = Parent.container
      /\ TypeIn(Resumed(Parent).state) = TypeIn(Parent.state)
      /\ Resumed(Parent).state # "VALUE"
  BY <1>2, TypeInFrames DEF Resumed, Frame
<1>4. ASSUME NEW i \in 1..n
      PROVE  /\ FrameKept(stack, stack', nodes, nodes', i)
             /\ stack[i].container # 0 /\ stack[i].container # v
  <2>1. i \in 1..Len(stack) /\ i \in 1..(Len(stack) - 1)
    BY <1>2
  <2>2. /\ stack[i].state \in Waiting
        /\ stack[i].container \in 1..Len(nodes) /\ Len(nodes) \in Nat
    BY <2>1, FramesOfCall
  <2>3. FrameFills(stack, nodes, i)
    BY <2>1, FramesOfCall
  <2>4. stack[i].container # v
    <3>1. stack[i].container < v /\ v \in Nat
      BY <2>1, FramesOfCall DEF Delivered
    <3> QED BY <2>2, <3>1
  <2>5. nodes'[stack[i].container].type = nodes[stack[i].container].type
    BY <2>2, ResumesNodes
  <2>6. /\ stack'[i].container = stack[i].container
        /\ stack'[i].state # "VALUE"
        /\ TypeIn(stack'[i].state) = TypeIn(stack[i].state)
    <3>1. CASE i = n
      BY <1>2, <1>3, <3>1
    <3>2. CASE i # n
      <4>1. i \in 1..(n - 1)
        BY <3>2
      <4> QED BY <1>2, <2>2, <4>1 DEF Waiting
    <3> QED BY <3>1, <3>2
  <2> QED BY <2>2, <2>3, <2>4, <2>5, <2>6 DEF FrameKept
<1>5. \A i \in 1..Len(stack') : FrameFills(stack', nodes', i)
  <2>1. /\ Len(stack) \in Nat /\ n <= Len(stack)
        /\ Len(stack') = n \/ (Len(stack') = n + 1 /\ stack'[n + 1] = ValueFrame)
    BY <1>2
  <2>2. \A i \in 1..n : FrameKept(stack, stack', nodes, nodes', i)
    BY <1>4
  <2> QED BY <2>1, <2>2, FramesGoOn, Zenon
<1>6. (Containers(stack) \cup {v}) \ {v} = Containers(stack')
  <2>1. stack[n + 1].container \in {0, v}
    BY <1>2, FramesOfCall DEF Delivered
  <2>2. 1..Len(stack) = 1..n \cup {n + 1}
    BY <1>2
  <2>3. Containers(stack) \cup {v} = {stack[i].container : i \in 1..n} \cup {v}
    BY <1>4, <2>1, <2>2 DEF Containers
  <2>4. v \notin {stack[i].container : i \in 1..n}
    BY <1>4
  <2>5. \A i \in 1..n : stack'[i].container = stack[i].container
    BY <1>4 DEF FrameKept
  <2>6. Containers(stack') = {stack[i].container : i \in 1..n}
    BY <1>2, <1>4, <2>5 DEF Containers
  <2> QED BY <2>3, <2>4, <2>6
<1>7. Forest(nodes', Containers(stack')) /\ EntriesFit(nodes', pos')
  BY <1>2, <1>6, ResumesNodes
<1> QED BY <1>2, <1>5, <1>7, RunningForest

LEMMA DeliveryForest ==
  ASSUME ParserInv, ForestInv, status = "RUNNING", NEW v, NEW nd, Delivered(v, nd),
         NEW eaten \in {1, 2}, Deliver(v, nd, eaten)
  PROVE  ForestInv'
<1>1. CASE Refused(nd)
  <2>1. nodes' = nd /\ \E code \in Failure : Fail(code)
    BY <1>1 DEF Refused, Failure
  <2>2. /\ nodes' \in Seq(Node) /\ Len(nodes') >= Len(nodes) /\ EntriesFit(nodes', pos)
        /\ \A n \in 1..Len(nodes) : nodes'[n].type = nodes[n].type
        /\ Forest(nodes', Containers(stack) \cup {v})
        /\ v \in Containers(stack) \/ v = Len(nodes')
    BY <2>1 DEF Delivered
  <2>3. \/ Forest(nodes', Containers(stack))
        \/ Forest(nodes', Containers(stack) \cup {Len(nodes')})
    <3>1. v \in Containers(stack) => Containers(stack) \cup {v} = Containers(stack)
      OBVIOUS
    <3> QED BY <2>2, <3>1
  <2> QED BY <2>1, <2>2, <2>3, FailForest
<1>2. DeliverRoot(v, nd, eaten) \/ Refused(nd) \/ Resumes(v, nd, eaten)
  BY Deliveries DEF Delivered
<1> QED BY <1>1, <1>2, RootForest, ResumesForest

LEMMA ContinuesForest ==
  ASSUME ParserInv, ForestInv, NEW frame, Continues(frame)
  PROVE  ForestInv'
<1>1. /\ status = "RUNNING" /\ status' = status /\ pos' = pos + 1
      /\ nodes' = nodes /\ root' = root /\ top.state # "VALUE"
      /\ frame \in Frame /\ frame.container = top.container
      /\ frame.state # "VALUE" /\ TypeIn(frame.state) = TypeIn(top.state)
  BY DEF Continues, Eat
<1>2. PICK n \in Nat : n = Len(stack)
  BY <1>1, FramesOfCall
<1>3. /\ n > 0 /\ top = stack[n] /\ top.container \in 1..Len(nodes)
      /\ Len(nodes) \in Nat /\ nodes \in Seq(Node) /\ pos \in Nat /\ root = 0
  BY <1>1, <1>2, FramesOfCall
<1>4. /\ Len(stack') = n \/ (Len(stack') = n + 1 /\ stack'[n + 1] = ValueFrame)
      /\ stack'[n] = frame
      /\ \A i \in 1..(n - 1) : stack'[i] = stack[i]
  BY <1>1, <1>2, StackGoesOn DEF Continues
<1>5. ASSUME NEW i \in 1..n PROVE FrameKept(stack, stack', nodes, nodes', i)
  <2>1. FrameFills(stack, nodes, i)
    BY <1>1, <1>2, FramesOfCall
  <2>2. CASE i = n
    BY <1>1, <1>3, <1>4, <2>1, <2>2 DEF FrameKept
  <2>3. CASE i # n
    <3>1. i \in 1..(n - 1)
      BY <2>3
    <3>2. stack[i].state \in Waiting /\ stack[i].container \in 1..Len(nodes)
      BY <1>1, <1>2, <3>1, FramesOfCall
    <3> QED BY <1>1, <1>3, <1>4, <2>1, <3>1, <3>2 DEF FrameKept, Waiting
  <2> QED BY <2>2, <2>3
<1>6. \A i \in 1..Len(stack') : FrameFills(stack', nodes', i)
  <2>1. Len(stack) \in Nat /\ n <= Len(stack)
    BY <1>2
  <2> QED BY <1>4, <1>5, <2>1, FramesGoOn, Zenon
<1>7. Containers(stack') = Containers(stack)
  <2>1. \A i \in 1..n : stack'[i].container = stack[i].container
    BY <1>5 DEF FrameKept
  <2>2. CASE Len(stack') = n
    BY <1>2, <2>1, <2>2 DEF Containers
  <2>3. CASE Len(stack') = n + 1 /\ stack'[n + 1] = ValueFrame
    <3>1. 1..(n + 1) = 1..n \cup {n + 1} /\ stack'[n + 1].container = 0
      BY <2>3 DEF ValueFrame
    <3> QED BY <1>2, <2>1, <2>3, <3>1 DEF Containers
  <2> QED BY <1>4, <2>2, <2>3
<1>8. EntriesFit(nodes', pos') /\ Forest(nodes', Containers(stack'))
  <2>1. EntriesFit(nodes, pos + 1)
    BY <1>3, EntriesCount DEF EntriesFit, ForestInv
  <2> QED BY <1>1, <1>7, <2>1, FramesOfCall
<1> QED BY <1>1, <1>3, <1>6, <1>8, RunningForest

LEMMA BeginsForest ==
  ASSUME ParserInv, ForestInv, NEW type \in Type, NEW state \in FrameState,
         Begins(type, state)
  PROVE  ForestInv'
<1> DEFINE frame == [top EXCEPT !.container = NewId, !.state = state]
<1>1. /\ status = "RUNNING" /\ status' = status /\ pos' = pos + 1
      /\ nodes' = With(type) /\ root' = root /\ top.state = "VALUE"
      /\ \/ type = "array" /\ state = "ARR_ITEM"
         \/ type = "object" /\ state = "OBJ_KEY"
      /\ Push(frame) \/ Rewrite(frame)
  BY DEF Begins, In, Eat
<1>2. PICK n \in Nat : n = Len(stack)
  BY <1>1, FramesOfCall
<1>3. /\ n > 0 /\ top = stack[n] /\ top.container = 0 /\ top \in Frame
      /\ Len(nodes) \in Nat /\ nodes \in Seq(Node) /\ pos \in Nat /\ root = 0
  BY <1>1, <1>2, FramesOfCall
<1>4. /\ With(type) \in Seq(Node) /\ NewId = Len(nodes) + 1
      /\ With(type)[NewId].type = type
      /\ \A m \in 1..Len(nodes) : With(type)[m] = nodes[m]
      /\ EntriesFit(With(type), pos)
      /\ Forest(With(type), Containers(stack) \cup {NewId})
  BY <1>1, NewNodeForest
<1>5. /\ frame \in Frame /\ frame.container = NewId /\ frame.state = state
      /\ state # "VALUE" /\ TypeIn(state) = {type}
  <2>1. NewId \in Nat
    BY <1>3, <1>4
  <2>2. frame \in Frame /\ frame.container = NewId /\ frame.state = state
    BY <1>3, <2>1 DEF Frame
  <2> HIDE DEF frame
  <2> QED BY <1>1, <2>2 DEF TypeIn
<1> HIDE DEF frame
<1>6. /\ Len(stack') = n \/ (Len(stack') = n + 1 /\ stack'[n + 1] = ValueFrame)
      /\ stack'[n] = frame
      /\ \A i \in 1..(n - 1) : stack'[i] = stack[i]
  BY <1>1, <1>2, <1>5, StackGoesOn
<1>7. ASSUME NEW i \in 1..(n - 1)
      PROVE  /\ stack'[i] = stack[i] /\ FrameFills(stack, nodes, i)
             /\ stack[i].container \in 1..Len(nodes)
             /\ stack[i].state # "VALUE"
  <2>1. i \in 1..Len(stack) /\ i \in 1..(Len(stack) - 1)
    BY <1>2
  <2>2. stack[i].state \in Waiting /\ stack[i].container \in 1..Len(nodes)
    BY <1>1, <2>1, FramesOfCall
  <2> QED BY <1>1, <1>6, <2>1, <2>2, FramesOfCall DEF Waiting
<1>8. ASSUME NEW i \in 1..(n - 1) PROVE FrameFills(stack', nodes', i)
  <2>1. \A t \in TypeIn(stack'[i].state) : nodes'[stack'[i].container].type = t
    BY <1>1, <1>4, <1>7 DEF FrameFills
  <2>2. ASSUME NEW j \in 1..Len(stack'), i < j, stack'[j].container # 0
        PROVE  stack'[i].container < stack'[j].container
    <3>1. CASE j \in 1..(n - 1)
      BY <1>2, <1>7, <2>2, <3>1 DEF FrameFills
    <3>2. CASE j = n
      BY <1>3, <1>4, <1>5, <1>6, <1>7, <3>2, SMTT(30)
    <3>3. CASE j = n + 1 /\ stack'[j] = ValueFrame
      BY <2>2, <3>3 DEF ValueFrame
    <3> QED BY <1>6, <3>1, <3>2, <3>3
  <2> QED BY <1>7, <2>1, <2>2 DEF FrameFills
<1>9. FrameFills(stack', nodes', n)
  <2>1. ASSUME NEW j \in 1..Len(stack'), n < j PROVE stack'[j].container = 0
    BY <1>6, <2>1 DEF ValueFrame
  <2> QED BY <1>1, <1>4, <1>5, <1>6, <2>1 DEF FrameFills
<1>10. ASSUME NEW i \in 1..Len(stack') PROVE FrameFills(stack', nodes', i)
  <2>1. CASE i = n + 1 /\ Len(stack') = n + 1 /\ stack'[i] = ValueFrame
    BY <2>1, TypeInFrames DEF FrameFills, ValueFrame
  <2>2. \/ i \in 1..(n - 1) \/ i = n
        \/ i = n + 1 /\ Len(stack') = n + 1 /\ stack'[i] = ValueFrame
    BY <1>6
  <2> QED BY <1>8, <1>9, <2>1, <2>2
<1>11. Containers(stack') = Containers(stack) \cup {NewId}
  <2>1. /\ \A i \in 1..(n - 1) : stack'[i].container = stack[i].container
        /\ stack'[n].container = NewId /\ NewId # 0 /\ stack[n].container = 0
    BY <1>3, <1>4, <1>5, <1>6
  <2>2. Containers(stack) = {stack[i].container : i \in 1..(n - 1)} \ {0}
    <3>1. 1..Len(stack) = 1..(n - 1) \cup {n}
      BY <1>2, <1>3
    <3> QED BY <2>1, <3>1 DEF Containers
  <2>3. Containers(stack') = ({stack[i].container : i \in 1..(n - 1)} \cup {NewId}) \ {0}
    <3>1. CASE Len(stack') = n
      <4>1. 1..n = 1..(n - 1) \cup {n}
        BY <1>3
      <4> QED BY <2>1, <3>1, <4>1 DEF Containers
    <3>2. CASE Len(stack') = n + 1 /\ stack'[n + 1] = ValueFrame
      <4>1. 1..(n + 1) = 1..(n - 1) \cup {n, n + 1} /\ stack'[n + 1].container = 0
        BY <1>3, <3>2 DEF ValueFrame
      <4> QED BY <2>1, <3>2, <4>1 DEF Containers
    <3> QED BY <1>6, <3>1, <3>2
  <2> QED BY <2>1, <2>2, <2>3
<1>12. EntriesFit(nodes', pos') /\ Forest(nodes', Containers(stack'))
  <2>1. EntriesFit(With(type), pos + 1)
    BY <1>3, <1>4, EntriesCount DEF EntriesFit
  <2> QED BY <1>1, <1>4, <1>11, <2>1
<1> QED BY <1>1, <1>3, <1>10, <1>12, RunningForest

LEMMA DeliversNewForest ==
  ASSUME ParserInv, ForestInv, NEW type \in Type, NEW eaten \in {1, 2},
         DeliversNew(type, eaten)
  PROVE  ForestInv'
<1>1. /\ status = "RUNNING" /\ top.state = "VALUE"
      /\ Deliver(NewId, With(type), eaten)
  BY DEF DeliversNew, In
<1>2. /\ Len(nodes) \in Nat /\ top.container = 0
      /\ \A i \in 1..(Len(stack) - 1) : stack[i].container \in 1..Len(nodes)
  BY <1>1, FramesOfCall
<1>3. /\ With(type) \in Seq(Node)
      /\ Len(With(type)) = Len(nodes) + 1 /\ NewId = Len(nodes) + 1
      /\ \A n \in 1..Len(nodes) : With(type)[n] = nodes[n]
      /\ EntriesFit(With(type), pos)
      /\ Forest(With(type), Containers(stack) \cup {NewId})
  BY <1>1, NewNodeForest
<1>4. NewId \in 1..Len(With(type)) /\ Len(With(type)) >= Len(nodes)
  BY <1>2, <1>3
<1>5. \A i \in 1..(Len(stack) - 1) : stack[i].container < NewId
  BY <1>2, <1>3
<1>6. Delivered(NewId, With(type))
  BY <1>2, <1>3, <1>4, <1>5 DEF Delivered
<1> QED BY <1>1, <1>6, DeliveryForest

LEMMA DeliversOwnForest ==
  ASSUME ParserInv, ForestInv, DeliversOwn
  PROVE  ForestInv'
<1>1. /\ status = "RUNNING" /\ top.state # "VALUE"
      /\ Deliver(top.container, nodes, 1)
  BY DEF DeliversOwn, In
<1>2. /\ nodes \in Seq(Node) /\ Len(nodes) \in Nat
      /\ Len(stack) \in Nat /\ Len(stack) > 0
      /\ top = stack[Len(stack)] /\ top.container \in 1..Len(nodes)
  BY <1>1, FramesOfCall
<1>3. ASSUME NEW i \in 1..(Len(stack) - 1) PROVE stack[i].container < top.container
  <2>1. /\ i \in 1..Len(stack) /\ Len(stack) \in 1..Len(stack) /\ i < Len(stack)
        /\ top.container # 0
    BY <1>2
  <2> QED BY <1>1, <1>2, <2>1, FramesOfCall DEF FrameFills
<1>4. /\ Containers(stack) \cup {top.container} = Containers(stack)
      /\ top.container \in Containers(stack)
  BY <1>2 DEF Containers
<1>5. Delivered(top.container, nodes)
  <2>1. EntriesFit(nodes, pos) /\ Forest(nodes, Containers(stack))
    BY <1>1, FramesOfCall DEF ForestInv
  <2>2. Forest(nodes, Containers(stack) \cup {top.container})
    BY <1>4, <2>1
  <2>3. Len(nodes) >= Len(nodes) /\ top.container \in {0, top.container}
    BY <1>2
  <2> QED BY <1>2, <1>3, <1>4, <2>1, <2>2, <2>3 DEF Delivered
<1>6. 1 \in {1, 2}
  OBVIOUS
<1> QED BY <1>1, <1>5, <1>6, DeliveryForest

LEMMA ForestInvNext == ParserInv /\ ForestInv /\ [Next]_vars => ForestInv'
<1> SUFFICES ASSUME ParserInv, ForestInv, [Next]_vars PROVE ForestInv'
  OBVIOUS
<1>1. CASE UNCHANGED vars
  BY <1>1 DEF vars, ForestInv, Grown, EntriesFit, FrameFills, Forest, Loose, Placed,
              Containers
<1>2. CASE Next
  <2>1. CASE \E code : Ends(code)
    BY <2>1, EndsForest
  <2>2. CASE \E type \in Type, eaten \in {1, 2} : DeliversNew(type, eaten)
    BY <2>2, DeliversNewForest
  <2>3. CASE DeliversOwn
    BY <2>3, DeliversOwnForest
  <2>4. CASE \E type \in Type, state \in FrameState : Begins(type, state)
    BY <2>4, BeginsForest
  <2>5. CASE \E frame : Continues(frame)
    BY <2>5, ContinuesForest
  <2> QED BY <1>2, <2>1, <2>2, <2>3, <2>4, <2>5, KindsOfStep
<1> QED BY <1>1, <1>2

\* Entries, as the properties count them: Loose and Placed say as much.
LEMMA EntriesOf ==
  ASSUME ParserInv, EntriesFit(nodes, pos), NEW id
  PROVE  /\ Loose(nodes, id) => Entries(id) = {}
         /\ Placed(nodes, id) =>
              \E at \in Entries(id) : Entries(id) = {at} /\ at[1] < id
<1>1. /\ nodes \in Seq(Node) /\ pos \in Nat /\ Len(input) \in Nat
      /\ pos <= Len(input) + 1
  BY InputLength DEF ParserInv, TypeOK
<1>2. ASSUME NEW n \in 1..Len(nodes), NEW k \in 1..Len(nodes[n].items)
      PROVE  k \in 1..Len(input)
  <2>1. Len(nodes[n].items) \in Nat /\ Len(nodes[n].items) < pos
    BY <1>1, EntriesCount DEF EntriesFit
  <2> QED BY <1>1, <2>1
<1>3. ASSUME NEW at \in Entries(id)
      PROVE  /\ at[1] \in 1..Len(nodes) /\ at[2] \in 1..Len(nodes[at[1]].items)
             /\ nodes[at[1]].items[at[2]].val = id
             /\ at = <<at[1], at[2]>>
  <2>1. /\ at \in (1..Len(nodes)) \X (1..Len(input))
        /\ at[2] <= Len(nodes[at[1]].items)
        /\ nodes[at[1]].items[at[2]].val = id
    BY DEF Entries
  <2>2. at[1] \in 1..Len(nodes) /\ at[2] \in 1..Len(input) /\ at = <<at[1], at[2]>>
    BY <2>1
  <2>3. Len(nodes[at[1]].items) \in Nat
    BY <1>1, <2>2, EntriesCount
  <2> QED BY <1>1, <2>1, <2>2, <2>3
<1>4. Loose(nodes, id) => Entries(id) = {}
  BY <1>3 DEF Loose
<1>5. ASSUME Placed(nodes, id)
      PROVE  \E at \in Entries(id) : Entries(id) = {at} /\ at[1] < id
  <2>1. PICK p \in 1..Len(nodes) : \E k \in 1..Len(nodes[p].items) :
          /\ nodes[p].items[k].val = id
          /\ p < id
          /\ \A q \in 1..Len(nodes) : \A l \in 1..Len(nodes[q].items) :
               nodes[q].items[l].val = id => q = p /\ l = k
    BY <1>5 DEF Placed
  <2>2. PICK k \in 1..Len(nodes[p].items) :
          /\ nodes[p].items[k].val = id
          /\ p < id
          /\ \A q \in 1..Len(nodes) : \A l \in 1..Len(nodes[q].items) :
               nodes[q].items[l].val = id => q = p /\ l = k
    BY <2>1
  <2>3. <<p, k>> \in Entries(id)
    <3>1. k \in 1..Len(input) /\ k <= Len(nodes[p].items)
      <4>1. Len(nodes[p].items) \in Nat
        BY <1>1, EntriesCount
      <4> QED BY <1>2, <4>1
    <3> QED BY <2>2, <3>1 DEF Entries
  <2>4. ASSUME NEW at \in Entries(id) PROVE at = <<p, k>>
    <3>1. at[1] = p /\ at[2] = k
      BY <1>3, <2>2
    <3> QED BY <1>3, <3>1
  <2>5. Entries(id) = {<<p, k>>} /\ <<p, k>>[1] < id
    BY <2>2, <2>3, <2>4
  <2> QED BY <2>3, <2>5
<1> QED BY <1>4, <1>5

\* A node of a forest, in the words of the property.
LEMMA InForest ==
  ASSUME ParserInv, EntriesFit(nodes, pos), NEW held, Forest(nodes, held),
         NEW id \in 1..Len(nodes)
  PROVE  IF id \in held
           THEN Entries(id) = {}
           ELSE \E at \in Entries(id) : Entries(id) = {at} /\ at[1] < id
<1>1. IF id \in held THEN Loose(nodes, id) ELSE Placed(nodes, id)
  BY DEF Forest
<1> QED BY <1>1, EntriesOf

LEMMA ForestInvSuffices == ParserInv /\ ForestInv => NodesFormForest
<1> SUFFICES ASSUME ParserInv, ForestInv PROVE NodesFormForest
  OBVIOUS
<1> DEFINE Alone(id) == Entries(id) = {}
           Once(id)  == \E at \in Entries(id) : Entries(id) = {at} /\ at[1] < id
<1>1. EntriesFit(nodes, pos) /\ stack \in Seq(Frame) /\ Len(stack) \in Nat
  BY DEF ForestInv, ParserInv, TypeOK
<1>2. CASE root = 0
  <2>1. Held = Containers(stack)
    BY <1>2 DEF Held, Containers, depth
  <2>2. ASSUME NEW i \in 1..depth, NEW j \in 1..depth, i < j,
               stack[i].container = stack[j].container
        PROVE  stack[i].container = 0
    <3>1. CASE stack[j].container # 0
      <4>1. stack[i].container < stack[j].container
        BY <1>2, <2>2, <3>1 DEF ForestInv, FrameFills, depth
      <4>2. stack[j].container \in Nat
        <5>1. j \in 1..Len(stack)
          BY DEF depth
        <5>2. stack[j] \in Frame
          BY <1>1, <5>1
        <5> QED BY <5>2 DEF Frame
      <4> QED BY <2>2, <4>1, <4>2
    <3>2. CASE stack[j].container = 0
      BY <2>2, <3>2
    <3> QED BY <3>1, <3>2
  <2>3. ASSUME NEW i \in 1..depth, NEW j \in 1..depth,
               stack[i].container = stack[j].container
        PROVE  i = j \/ stack[i].container = 0
    <3>1. i < j \/ j < i \/ i = j
      BY <1>1 DEF depth
    <3> QED BY <2>2, <2>3, <3>1
  <2>4. \A i \in 1..depth : \A type \in TypeIn(stack[i].state) :
          nodes[stack[i].container].type = type
    BY <1>2 DEF ForestInv, FrameFills, depth
  <2>5. ASSUME NEW id \in 1..Len(nodes)
        PROVE  \/ id \in Held /\ Alone(id)
               \/ id \notin Held /\ Once(id)
               \/ id = Len(nodes) /\ id \notin Held /\ Alone(id) /\ status \in Failure
    <3>1. CASE Forest(nodes, Held)
      BY <1>1, <3>1, InForest
    <3>2. CASE status \in Failure /\ Forest(nodes, Held \cup {Len(nodes)})
      <4>1. IF id \in Held \cup {Len(nodes)} THEN Alone(id) ELSE Once(id)
        BY <1>1, <3>2, InForest
      <4> HIDE DEF Alone, Once
      <4> QED BY <3>2, <4>1
    <3> QED BY <1>2, <2>1, <3>1, <3>2 DEF ForestInv, Grown
  <2>6. status # "OK"
    BY <1>2 DEF ForestInv
  <2> QED BY <1>2, <2>3, <2>4, <2>5, <2>6 DEF NodesFormForest
<1>3. CASE root # 0
  <2>1. /\ depth = 1 /\ stack[1].container \in {0, root}
        /\ \A type \in TypeIn(stack[1].state) :
             nodes[stack[1].container].type = type
        /\ Forest(nodes, {root})
    BY <1>3 DEF ForestInv, depth
  <2>2. 1..depth = {1}
    BY <2>1
  <2>3. Held = {root}
    BY <1>3, <2>1, <2>2 DEF Held
  <2>4. ASSUME NEW id \in 1..Len(nodes)
        PROVE  (id \in Held /\ Alone(id)) \/ (id \notin Held /\ Once(id))
    BY <1>1, <2>1, <2>3, InForest
  <2> QED BY <1>3, <2>1, <2>2, <2>3, <2>4 DEF NodesFormForest
<1> QED BY <1>2, <1>3

\* On every input, at every turn and however the call ends, refused growths and
\* allocations included, the nodes form a forest: its roots are the containers
\* being filled or the value returned, and, after a failure, at most the one
\* node the failure left to nobody.
THEOREM NodesAreForest == Spec => []NodesFormForest
<1>1. Init => ParserInv /\ ForestInv
  BY ParserInvInit, ForestInvInit
<1>2. (ParserInv /\ ForestInv) /\ [Next]_vars => (ParserInv /\ ForestInv)'
  BY ParserInvNext, ForestInvNext
<1> QED BY <1>1, <1>2, ForestInvSuffices, PTL DEF Spec
=============================================================================
