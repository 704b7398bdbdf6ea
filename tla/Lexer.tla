------------------------------- MODULE Lexer -------------------------------
(***************************************************************************)
(* One scalar of a document: the dispatch of json_parse on its first byte, *)
(* json__lex_skip_ws before it, the three literals, and the lexers of      *)
(* strings and of numbers.  Containers and what lies between values are    *)
(* module Parser's, to which a scalar is one lexeme.                       *)
(***************************************************************************)
EXTENDS Strings, Numbers
LOCAL INSTANCE SequencesExt

vars == <<lexVars, stringVars, numberVars>>

Space    == {32, 10, 13, 9}
Literals == {<<110, 117, 108, 108>>, <<116, 114, 117, 101>>,
             <<102, 97, 108, 115, 101>>}

AtStart == phase = "START"

SkipSpace == /\ AtStart
             /\ See(Space)
             /\ Eat(1)
             /\ UNCHANGED <<src, phase, err, token, stringVars, numberVars>>

NothingLeft == /\ AtStart
               /\ AtEnd
               /\ Fail("UNEXPECTED_EOF")
               /\ UNCHANGED <<stringVars, numberVars>>

StringBegins == /\ AtStart
                /\ See({Quote})
                /\ Eat(1)
                /\ scan' = pos + 1
                /\ Goto("MEASURE")
                /\ UNCHANGED <<out_len, has_escape, raw_hash, out_buf, numberVars>>

NumberBegins == /\ AtStart
                /\ See({Minus} \cup Digit)
                /\ start' = pos
                /\ Goto("SIGN")
                /\ UNCHANGED <<pos, num, stringVars>>

\* LEX_EXPECT_LITERAL, with the byte before it.
Literal ==
  /\ AtStart
  /\ \E word \in Literals :
       /\ See({word[1]})
       /\ IF IsPrefix(word, SubSeq(src, pos, Len(src)))
            THEN Eat(Len(word)) /\ Deliver([type |-> "literal", text |-> word])
            ELSE Fail("INVALID_JSON")
  /\ UNCHANGED <<stringVars, numberVars>>

NoScalar == /\ AtStart
            /\ ~AtEnd
            /\ ~See(Space \cup {Quote, Minus} \cup Digit)
            /\ \A word \in Literals : ~See({word[1]})
            /\ Fail("INVALID_JSON")
            /\ UNCHANGED <<stringVars, numberVars>>

ScalarInit ==
  /\ src \in Texts
  /\ pos = 1
  /\ phase = "START"
  /\ err = "OK"
  /\ token = [type |-> "none"]
  /\ StringInit
  /\ NumberInit

ScalarNext ==
  \/ SkipSpace \/ NothingLeft \/ StringBegins \/ NumberBegins \/ Literal
  \/ NoScalar
  \/ StringNext /\ UNCHANGED numberVars
  \/ NumberNext /\ UNCHANGED stringVars
=============================================================================
