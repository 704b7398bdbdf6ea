------------------------------- MODULE Paths -------------------------------
(***************************************************************************)
(* json_path of sJson.c: a path of selectors, name, [N] and ["key"], is    *)
(* followed from the root of a document.  One turn of the main loop, or of *)
(* the loop over the digits of N, is one step; err and token are what it   *)
(* returns, token the node.  Paths hold no NUL: it ends them.              *)
(***************************************************************************)
EXTENDS Lex
LOCAL INSTANCE FiniteSetsExt

CONSTANTS
  PathTexts,      \* the paths to follow
  Doc,            \* the document: nodes [type, items], node 1 its root
  MaxIndex,       \* UINT32_MAX
  KeyBuf          \* sizeof(key_buf)

PathNode == [type : {"array", "object", "other"},
             items : Seq([key : Seq(Byte), val : Nat])]  \* in an array no key

ASSUME PathsAssumption ==
  /\ \A text \in PathTexts : text \in Seq(Byte \ {0})
  /\ Doc \in Seq(PathNode)
  /\ MaxIndex \in Nat
  /\ KeyBuf \in Nat \ {0}

VARIABLES
  cur,            \* the node reached, 0 when json_path is not running
  idx             \* the index read so far, 32 bits

pathVars == <<cur, idx>>

OpenBracket  == 91
CloseBracket == 93
NameFirst    == (65..90) \cup (97..122) \cup {95} \cup (128..255)

PathReturn(code, value) ==
  /\ phase' = "RETURNED"
  /\ err' = code
  /\ token' = value
  /\ cur' = 0
  /\ UNCHANGED <<src, pos, idx>>

PathFail(code) == PathReturn(code, [type |-> "none"])

\* The next byte of B from i on; the text may end before it.
NextOf(B, i) == Min({j \in i..Len(src) : src[j] \in B} \cup {Len(src) + 1})

\* Where a selector begins: the optional dot is passed over.
AfterDot == IF See({Dot}) THEN pos + 1 ELSE pos
ByteAt(i) == IF i \in DOMAIN src THEN src[i] ELSE 0

\* cur = out, with the path read up to i.
Select(child, i) ==
  /\ cur' = child
  /\ pos' = i
  /\ Goto("PATH")
  /\ UNCHANGED idx

\* json_obj_get_n on cur, with keys that are not repeated.
SelectKey(key, i) ==
  IF Doc[cur].type # "object" THEN PathFail("TYPE_MISMATCH")
  ELSE IF \A pair \in DOMAIN Doc[cur].items : Doc[cur].items[pair].key # key
    THEN PathFail("NOT_FOUND")
  ELSE \E pair \in DOMAIN Doc[cur].items :
         /\ Doc[cur].items[pair].key = key
         /\ Select(Doc[cur].items[pair].val, i)

\* json_arr_get on cur.
SelectIndex(i) ==
  IF Doc[cur].type # "array" THEN PathFail("TYPE_MISMATCH")
  ELSE IF idx >= Len(Doc[cur].items) THEN PathFail("NOT_FOUND")
  ELSE Select(Doc[cur].items[idx + 1].val, i)

PathEnds ==
  /\ phase = "PATH"
  /\ AtEnd
  /\ PathReturn("OK", [type |-> "value", node |-> cur])

\* ["key"]
PathKey ==
  /\ phase = "PATH"
  /\ ByteAt(AfterDot) = OpenBracket
  /\ ByteAt(AfterDot + 1) = Quote
  /\ LET close == NextOf({Quote}, AfterDot + 2)
     IN  IF ByteAt(close) # Quote \/ ByteAt(close + 1) # CloseBracket
           THEN PathFail("INVALID_JSON")
           ELSE SelectKey(SubSeq(src, AfterDot + 2, close - 1), close + 2)

\* [N]
PathIndex ==
  /\ phase = "PATH"
  /\ ByteAt(AfterDot) = OpenBracket
  /\ ByteAt(AfterDot + 1) \in Digit
  /\ pos' = AfterDot + 1
  /\ idx' = 0
  /\ Goto("INDEX")
  /\ UNCHANGED cur

\* Mutant of IndexOverflows: the digit about to be added is forgotten.
IndexOverflowsLate(digit) == idx > MaxIndex \div 10

IndexOverflows(digit) == idx > (MaxIndex - digit) \div 10

IndexDigit ==
  /\ phase = "INDEX"
  /\ See(Digit)
  /\ LET digit == src[pos] - 48
     IN  IF IndexOverflows(digit) THEN PathFail("OVERFLOW")
         ELSE /\ idx' = (idx * 10 + digit) % (MaxIndex + 1)
              /\ Eat(1)
              /\ UNCHANGED <<src, phase, err, token, cur>>

IndexEnds ==
  /\ phase = "INDEX"
  /\ ~See(Digit)
  /\ IF See({CloseBracket}) THEN SelectIndex(pos + 1)
     ELSE PathFail("INVALID_JSON")

\* name
PathName ==
  /\ phase = "PATH"
  /\ ByteAt(AfterDot) \in NameFirst
  /\ LET end == NextOf({Dot, OpenBracket}, AfterDot)
     IN  IF end - AfterDot >= KeyBuf THEN PathFail("OVERFLOW")
         ELSE SelectKey(SubSeq(src, AfterDot, end - 1), end)

NoSelector ==
  /\ phase = "PATH"
  /\ ~AtEnd
  /\ ByteAt(AfterDot) \notin NameFirst
  /\ ByteAt(AfterDot) = OpenBracket => ByteAt(AfterDot + 1) \notin {Quote} \cup Digit
  /\ PathFail("INVALID_JSON")

PathInit ==
  /\ src \in PathTexts
  /\ pos = 1
  /\ phase = "PATH"
  /\ err = "OK"
  /\ token = [type |-> "none"]
  /\ cur = 1
  /\ idx = 0

PathIdle == cur = 0 /\ idx = 0

PathNext == \/ PathEnds \/ PathKey \/ PathIndex \/ IndexDigit \/ IndexEnds
            \/ PathName \/ NoSelector

(***************************************************************************)
(* What a path means: all the ways of cutting it into selectors.           *)
(***************************************************************************)

\* What may be written, optional dot aside, for the child at i of a node.
IsName(s) == /\ s # << >>
             /\ s[1] \in NameFirst
             /\ Len(s) < KeyBuf
             /\ \A i \in DOMAIN s : s[i] \notin {Dot, OpenBracket}

Value(digits) ==
  LET value[n \in 0..Len(digits)] ==
        IF n = 0 THEN 0 ELSE value[n - 1] * 10 + digits[n] - 48
  IN  value[Len(digits)]

Spells(s, node, i) ==
  LET key    == node.items[i].key
      inside == SubSeq(s, 2, Len(s) - 1)
      boxed  == Len(s) > 2 /\ s[1] = OpenBracket /\ s[Len(s)] = CloseBracket
  IN  CASE node.type = "object" ->
             \/ IsName(s) /\ s = key
             \/ boxed /\ inside = <<Quote>> \o key \o <<Quote>>
                      /\ \A j \in DOMAIN key : key[j] # Quote
        [] node.type = "array" ->
             /\ boxed
             /\ \A j \in DOMAIN inside : inside[j] \in Digit
             /\ Value(inside) \in 0..MaxIndex
             /\ Value(inside) = i - 1

\* The nodes a text leads to from the root, by pairs of a node and how much of
\* the text has led to it.  A name is never followed by another without a dot
\* between them.
LeadsTo(text) ==
  LET piece(i, j) == SubSeq(text, IF text[i] = Dot THEN i + 1 ELSE i, j)
      whole(j) == j = Len(text) \/ text[j + 1] \in {Dot, OpenBracket}
      ways(i, n) ==
        {w \in ((i + 1)..Len(text)) \X DOMAIN Doc[n].items :
           LET s == piece(i + 1, w[1])
           IN  Spells(s, Doc[n], w[2]) /\ (IsName(s) => whole(w[1]))}
      led[k \in 0..Len(text)] ==
        IF k = 0 THEN {<<0, 1>>}
        ELSE LET before == led[k - 1]
             IN  before \cup
                 UNION {{<<w[1], Doc[at[2]].items[w[2]].val>> :
                           w \in ways(at[1], at[2])} : at \in before}
  IN  {at[2] : at \in {a \in led[Len(text)] : a[1] = Len(text)}}

\* json_path returns the value its path spells out, by names, keys and indices
\* with or without dots, and returns one for no other text.  In particular an
\* index beyond 32 bits, leading zeros aside, is no element of any array, and
\* a name the buffer does not hold is refused although its key exists.
PathExact ==
  phase = "RETURNED" =>
    IF err = "OK" THEN LeadsTo(src) = {token.node} ELSE LeadsTo(src) = {}
=============================================================================
