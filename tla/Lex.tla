-------------------------------- MODULE Lex --------------------------------
(***************************************************************************)
(* What the lexers of sJson.c share: the text, as bytes, and a place in it *)
(* (JsonLex), and the token they deliver.                                  *)
(***************************************************************************)
EXTENDS Integers, Sequences

CONSTANTS
  Texts           \* the texts to lex: sequences of bytes, from a token's start

Byte == 0..255

ASSUME TextsAssumption == \A text \in Texts : text \in Seq(Byte)

VARIABLES
  src,            \* l->src
  pos,            \* l->pos, counted from 1
  phase,          \* what the lexer is doing; "DONE" when it has returned
  err,            \* what it returned
  token           \* the value it delivered

lexVars == <<src, pos, phase, err, token>>

Quote     == 34
Plus      == 43
Minus     == 45
Dot       == 46
Digit     == 48..57
Backslash == 92
Exponent  == {69, 101}                    \* E, e
Unicode   == 117                          \* the u of \uXXXX

AtEnd  == pos > Len(src)
See(B) == ~AtEnd /\ src[pos] \in B
Goto(p) == phase' = p /\ UNCHANGED <<src, err, token>>
Eat(n)  == pos' = pos + n

\* return code
Fail(code) == /\ phase' = "DONE"
              /\ err' = code
              /\ UNCHANGED <<src, pos, token>>

\* return JSON_OK
Deliver(value) == /\ phase' = "DONE"
                  /\ err' = "OK"
                  /\ token' = value
                  /\ UNCHANGED src
=============================================================================
