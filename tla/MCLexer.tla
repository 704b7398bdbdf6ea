------------------------------ MODULE MCLexer ------------------------------
(***************************************************************************)
(* Strings of up to three pieces, with and without a closing quote, and    *)
(* at most seven bytes decoded.  Numbers of up to five bytes, and longer   *)
(* ones around the edges of the widths: 4 significant digits, a mantissa   *)
(* of 14 bits, doubles of 5 bits below 2^20, powers up to 10^2 in tables,  *)
(* 3 digits written.                                                       *)
(* Paths of up to four bytes, and of up to three selectors; indices go up  *)
(* to 12, and names to two bytes.                                          *)
(***************************************************************************)
EXTENDS Scans, SequencesExt

\* What strings are made of: an ordinary byte, whole and broken escapes,
\* well-formed characters of every length and the malformed ones next to them.
Pieces == {
  <<97>>, <<Quote>>, <<31>>, <<Backslash>>,
  <<Backslash, 110>>, <<Backslash, 120>>,
  <<Backslash, 117, 48, 48, 52, 49>>,                  \* U+0041
  <<Backslash, 117, 48, 48, 69, 57>>,                  \* U+00E9
  <<Backslash, 117, 50, 48, 97, 99>>,                  \* U+20AC
  <<Backslash, 117, 100, 56, 51, 52>>,                 \* a high surrogate
  <<Backslash, 117, 68, 68, 49, 101>>,                 \* a low surrogate
  <<Backslash, 117, 49, 50>>,
  <<195, 169>>, <<226, 130, 172>>, <<240, 157, 132, 158>>,
  <<226, 130>>, <<192, 175>>, <<224, 128, 128>>, <<237, 160, 128>>,
  <<240, 128, 128, 128>>, <<244, 144, 128, 128>>}

Spelled == {FlattenSeq(p) : p \in UNION {[1..n -> Pieces] : n \in 0..2}}
Escaped == {FlattenSeq(p) : p \in [1..3 -> {q \in Pieces : Len(q) > 4 \/ Len(q) = 1}]}

StringTexts == {<<Quote>> \o s \o end : s \in Spelled \cup Escaped,
                                        end \in {<< >>, <<Quote>>}}

\* Every short text over these, and numbers at the edges of every width.
NumberBytes == {Minus, Plus, 48, 49, 57, Dot, 101}
ShortTexts  == {<<b>> \o t : b \in {Minus, 48, 49, 57},
                             t \in UNION {[1..n -> NumberBytes] : n \in 0..4}}

Ascii(n) == LET digits[k \in 0..n] ==
                  IF k < 10 THEN <<48 + k>>
                  ELSE Append(digits[k \div 10], 48 + (k % 10))
            IN  digits[n]

Wholes == {Ascii(n) : n \in {0, 7, 31, 33, 255, 819, 8191, 8192, 8193, 9999,
                                10000, 16384, 81911}}
Fractions == {<< >>} \cup {<<Dot>> \o f : f \in {<<48>>, <<53>>, <<48, 51>>}}
Exponents == {<< >>} \cup
             {<<101>> \o sign \o e : sign \in {<< >>, <<Minus>>},
                e \in {Ascii(n) : n \in {0, 1, 2, 3, 6, 12, 99, 999}}}

EdgeTexts == {sign \o i \o f \o e : sign \in {<< >>, <<Minus>>}, i \in Wholes,
                                    f \in Fractions, e \in Exponents}
SmallTexts == {<<48, Dot>> \o zeros \o d \o e : zeros \in {<<48>>, <<48, 48, 48, 48>>},
                                                d \in {<<55>>, Ascii(327)},
                                                e \in Exponents}

\* Digits beyond a double's, times a negative power: some of the products, 844.9
\* among them, are two doubles away from the nearest.
RoundedTexts ==
  {Ascii(i) \o <<Dot>> \o Ascii(f) : i \in 840..849, f \in 0..9}
    \cup {Ascii(i) \o <<Dot, f, 55>> : i \in {0, 1, 2, 5, 11}, f \in 48..57}

OtherTexts == {<< >>, <<32>>, <<91>>, <<32, 9, 49, 32>>, <<110, 117, 108, 108>>,
               <<116, 114, 117, 101>>, <<102, 97, 108, 115, 101>>,
               <<110, 117, 108>>, <<116, 114, 117, 102>>}

MCTexts == StringTexts \cup ShortTexts \cup EdgeTexts \cup SmallTexts
             \cup RoundedTexts \cup OtherTexts

\* {"a": [{"b": 0, "abb": 0, "a.": 0, "": 0}, {"a]": 0, "a": []}]}, "b": 0}
None == << >>
Pair(k, v) == [key |-> k, val |-> v]
Other == [type |-> "other", items |-> << >>]
MCDoc == <<
  [type |-> "object", items |-> <<Pair(<<97>>, 2), Pair(<<98>>, 9)>>],
  [type |-> "array", items |-> <<Pair(None, 3), Pair(None, 4)>>],
  [type |-> "object", items |-> <<Pair(<<98>>, 5), Pair(<<97, 98, 98>>, 6),
                                  Pair(<<97, Dot>>, 7), Pair(None, 8)>>],
  [type |-> "object", items |-> <<Pair(<<97, 93>>, 10), Pair(<<97>>, 11)>>],
  Other, Other, Other, Other, Other, Other,
  [type |-> "array", items |-> << >>]>>

PathBytes == {97, 98, Dot, OpenBracket, CloseBracket, Quote, 48, 49, 51}

\* Selectors that are right somewhere in the document, and some that are not.
Selectors == {
  <<97>>, <<98>>, <<97, 98, 98>>, <<97, 93>>, <<97, 98>>,
  <<91, 48, 93>>, <<91, 49, 93>>, <<91, 48, 49, 93>>, <<91, 50, 93>>,
  <<91, 49, 50, 93>>, <<91, 49, 51, 93>>, <<91, 49, 52, 93>>, <<91, 48>>,
  <<91, 34, 34, 93>>, <<91, 34, 97, 34, 93>>, <<91, 34, 97, 46, 34, 93>>,
  <<91, 34, 97, 98, 98, 34, 93>>, <<91, 34, 98, 34>>}

Longer == {<<97>>, <<98>>, <<97, 93>>, <<91, 48, 93>>, <<91, 49, 93>>,
           <<91, 34, 97, 34, 93>>, <<91, 34, 97, 98, 98, 34, 93>>, <<97, 98, 98>>,
           <<91, 49, 51, 93>>, <<91, 48, 49, 93>>}

Dotted(S) == {d \o s : d \in {<< >>, <<Dot>>}, s \in S}
Chains == {FlattenSeq(s) : s \in UNION {[1..n -> Dotted(Selectors)] : n \in 1..2}
                                 \cup [1..3 -> Dotted(Longer)]}
MCPathTexts == Chains \cup UNION {[1..n -> PathBytes] : n \in 0..4}
=============================================================================
