---------------------------- MODULE LexerCorrect ----------------------------
(***************************************************************************)
(* What a string and a number of JSON are, said without the lexer: strings *)
(* as the UTF-16 units of RFC 8259 and the well-formed UTF-8 of the        *)
(* Unicode Standard, numbers as a grammar and the decimal they spell.      *)
(***************************************************************************)
EXTENDS Lexer, FiniteSets

Returned == phase = "DONE"

(***************************************************************************)
(* Strings.                                                                *)
(***************************************************************************)

\* Well-formed UTF-8, byte by byte (Table 3-7).
Cont == 128..191
WellFormed == {
  <<0..127>>,
  <<194..223, Cont>>,
  <<{224}, 160..191, Cont>>,
  <<(225..239) \ {237}, Cont, Cont>>,
  <<{237}, 128..159, Cont>>,
  <<{240}, 144..191, Cont, Cont>>,
  <<241..243, Cont, Cont, Cont>>,
  <<{244}, 128..143, Cont, Cont>>}

\* The characters of a text at i: none or one.
CharacterAt(text, i) ==
  {SubSeq(text, i, i + Len(row) - 1) :
     row \in {r \in WellFormed :
                /\ i + Len(r) - 1 <= Len(text)
                /\ \A j \in DOMAIN r : text[i + j - 1] \in r[j]}}

CodePoint(char) ==
  CASE Len(char) = 1 -> char[1]
    [] Len(char) = 2 -> (char[1] - 192) * 64 + char[2] - 128
    [] Len(char) = 3 -> ((char[1] - 224) * 64 + char[2] - 128) * 64
                        + char[3] - 128
    [] Len(char) = 4 -> (((char[1] - 240) * 64 + char[2] - 128) * 64
                         + char[3] - 128) * 64 + char[4] - 128

Units(cp) == IF cp < 65536 THEN <<cp>>
             ELSE <<55296 + (cp - 65536) \div 1024, 56320 + ((cp - 65536) % 1024)>>

Ill == [end |-> 0, units |-> << >>]

\* What stands at i of a string's text: its units, and where they end.
ElementAt(text, i) ==
  LET escaped(n) == i + n - 1 <= Len(text) /\ text[i] = Backslash
      hex == /\ escaped(6) /\ text[i + 1] = Unicode
             /\ \A j \in (i + 2)..(i + 5) : HexVal(text[j]) < 16
      value == ((HexVal(text[i + 2]) * 16 + HexVal(text[i + 3])) * 16
                + HexVal(text[i + 4])) * 16 + HexVal(text[i + 5])
  IN  IF text[i] = Backslash
        THEN IF hex THEN [end |-> i + 6, units |-> <<value>>]
             ELSE IF escaped(2) /\ text[i + 1] \in DOMAIN Simple
               THEN [end |-> i + 2, units |-> <<Simple[text[i + 1]]>>]
               ELSE Ill
      ELSE IF text[i] < 32 \/ CharacterAt(text, i) = {} THEN Ill
      ELSE LET char == CHOOSE c \in CharacterAt(text, i) : TRUE
           IN  [end |-> i + Len(char), units |-> Units(CodePoint(char))]

Paired(units) ==
  \A i \in DOMAIN units :
    /\ units[i] \in High => i < Len(units) /\ units[i + 1] \in Low
    /\ units[i] \in Low => i > 1 /\ units[i - 1] \in High

\* The string whose opening quote is the first byte of a text; end is its
\* closing quote.
StringOf(text) ==
  LET from[i \in 2..(Len(text) + 1)] ==
        IF i > Len(text) THEN Ill
        ELSE IF text[i] = Quote THEN [end |-> i, units |-> << >>]
        ELSE LET element == ElementAt(text, i)
             IN  IF element = Ill \/ from[element.end] = Ill THEN Ill
                 ELSE [from[element.end] EXCEPT !.units = element.units \o @]
  IN  IF Paired(from[2].units) THEN from[2] ELSE Ill

\* The units of bytes that are already decoded; -1 where they are malformed.
UnitsOf(bytes) ==
  LET from[i \in 1..(Len(bytes) + 1)] ==
        IF i > Len(bytes) THEN << >>
        ELSE IF CharacterAt(bytes, i) = {} THEN <<-1>>
        ELSE LET char == CHOOSE c \in CharacterAt(bytes, i) : TRUE
             IN  Units(CodePoint(char)) \o from[i + Len(char)]
  IN  from[1]

\* The bytes it takes to write units in UTF-8.
SizeOf(units) ==
  LET two   == {i \in DOMAIN units : units[i] \in (128..2047) \cup High \cup Low}
      three == {i \in DOMAIN units : units[i] >= 2048} \ two
  IN  Len(units) + Cardinality(two) + 2 * Cardinality(three)

\* The text from the scalar on.
Scalar == LET first == CHOOSE i \in 1..(Len(src) + 1) :
                         /\ \A j \in 1..(i - 1) : src[j] \in Space
                         /\ i <= Len(src) => src[i] \notin Space
          IN  SubSeq(src, first, Len(src))

Starts(B) == Scalar # << >> /\ Scalar[1] \in B

\* What has been consumed of it.
Consumed == pos - 1 - (Len(src) - Len(Scalar))

(***************************************************************************)
(* Numbers.                                                                *)
(***************************************************************************)

AllDigits(s) == s # << >> /\ \A i \in DOMAIN s : s[i] \in Digit
After(s, n)  == SubSeq(s, n + 1, Len(s))

IsInt(s)  == AllDigits(s) /\ (s[1] = 48 => Len(s) = 1)
IsFrac(s) == s = << >> \/ (s[1] = Dot /\ AllDigits(After(s, 1)))
IsExp(s)  == \/ s = << >>
             \/ /\ s[1] \in Exponent
                /\ \/ AllDigits(After(s, 1))
                   \/ Len(s) > 1 /\ s[2] \in {Plus, Minus} /\ AllDigits(After(s, 2))

IsNumber(s) ==
  LET unsigned == IF s # << >> /\ s[1] = Minus THEN After(s, 1) ELSE s
  IN  \E i, f \in 0..Len(unsigned) :
        /\ i <= f
        /\ IsInt(SubSeq(unsigned, 1, i))
        /\ IsFrac(SubSeq(unsigned, i + 1, f))
        /\ IsExp(After(unsigned, f))

\* The longest beginning of a text that some number begins with.
Longest(text) ==
  LET begins(n) == \E s \in {SubSeq(text, 1, n)} :
                     IsNumber(s) \/ IsNumber(Append(s, 49))
      n == CHOOSE m \in 0..Len(text) :
             /\ m = 0 \/ begins(m)
             /\ \A k \in (m + 1)..Len(text) : ~begins(k)
  IN  SubSeq(text, 1, n)

\* Where a double stands among all doubles of its sign.
Rank(x) == IF x.m = 0 THEN 0
           ELSE LET j == CHOOSE k \in 0..Precision :
                           x.m * 2^k \in 2^(Precision - 1)..(2^Precision - 1)
                IN  (x.e - j + 1000) * 2^(Precision - 1) + x.m * 2^j

(***************************************************************************)
(* Properties.                                                             *)
(***************************************************************************)

\* A string is accepted if and only if it is well formed, short enough and
\* finds memory; then the data is well-formed UTF-8 for the same characters,
\* its length and the hash, computed along the way or afterwards, belong to
\* it, and the closing quote is the last byte read.  The end of input is blamed
\* only where the text could have gone on.
StringExact ==
  Returned /\ Starts({Quote}) =>
    LET string == StringOf(Scalar)
    IN  CASE err = "OK" ->
               /\ string # Ill
               /\ Consumed = string.end
               /\ UnitsOf(token.data) = string.units
               /\ token.len = Len(token.data)
               /\ token.len <= MaxStringLen
               /\ token.hashed = token.data
          [] err = "OOM" -> string # Ill
          [] err = "OVERFLOW" ->
               string # Ill /\ SizeOf(string.units) > MaxStringLen
          [] err = "UNEXPECTED_EOF" ->
               /\ string = Ill
               /\ \/ StringOf(Scalar \o <<Quote>>) # Ill
                  \/ StringOf(Scalar \o <<110, Quote>>) # Ill
          [] OTHER -> string = Ill

\* The second pass, which checks nothing, writes into the buffer exactly what
\* the first pass counted, never a byte more on the way.
DecodedFitsMeasured ==
  /\ phase \in {"DECODE", "CLOSE"} => Len(out_buf) <= out_len
  /\ phase = "CLOSE" => Len(out_buf) = out_len

\* A number is accepted if and only if the longest text it could be is one.
\* An integer is exact, and OVERFLOW is said of exactly those int64 does not
\* hold.  A float is the nearest double where the decimal has few digits and no
\* negative power or is left to strtod.  Otherwise it is off by one double for
\* digits that are rounded before they are scaled and by one for a negative
\* power, which is rounded too: by two at most.  It keeps its sign, and only
\* what is too large is refused.
NumberExact ==
  Returned /\ Starts({Minus} \cup Digit) =>
    LET text    == Longest(Scalar)
        zeros   == Len(Scalar) > Len(text) /\ Scalar[Len(text) + 1] \in Digit
        valid   == IsNumber(text) /\ ~zeros
        d       == Decimal(text)
        value   == IF d.neg THEN -d.n ELSE d.n
        whole   == \A i \in DOMAIN text : text[i] \notin {Dot} \cup Exponent
        nearest == Strtod(d.neg, d.n, d.k)
        simple  == \/ d.k \in 0..MaxExp10 /\ d.n < 2^Precision
                   \/ d.k \notin (-MaxExp10)..MaxExp10
                   \/ Digits(d.n) > MaxSig
        off     == IF simple THEN 0
                   ELSE (IF d.n >= 2^Precision THEN 1 ELSE 0)
                        + (IF d.k < 0 THEN 1 ELSE 0)
    IN  CASE err = "OK" /\ whole ->
               valid /\ Consumed = Len(text) /\ token.val = value
          [] err = "OK" /\ ~whole ->
               /\ valid /\ Consumed = Len(text)
               /\ token.val.neg = d.neg
               /\ Rank(token.val) - Rank(nearest) \in -off..off
          [] err = "OVERFLOW" ->
               valid /\ whole /\ value \notin (-NegLimit)..PosLimit
          [] err = "OOM" -> valid /\ ~whole
          [] err = "UNEXPECTED_EOF" -> ~valid /\ text = Scalar
          [] err = "INVALID_NUMBER" ->
               valid => ~whole /\ nearest = Infinite(d.neg)

\* What fuzz/fuzz_parse.c:31-32 aborts on: a document that was written is
\* parsed and written again, and the two texts differ.  Here for one float.
WrittenFloatsReread ==
  Returned /\ err = "OK" /\ token.type = "float" =>
    LET written == Written(token.val)
    IN  Written(Reread(token.val.neg, written)) = written
=============================================================================
