------------------------------ MODULE Numbers ------------------------------
(***************************************************************************)
(* json__parse_number of sJson.c: a scan that checks the grammar, gathers  *)
(* the first significant digits on the way, and makes of them an integer,  *)
(* a float by one multiplication (JSON_FAST_FLOAT), or leaves the float to *)
(* strtod.  One digit is one step.  And jw_double, which writes floats.    *)
(*                                                                         *)
(* A double is [neg, m, e] for m * 2^e, m odd and below 2^Precision, or 0. *)
(* The widths are constants of which only the order matters, and the       *)
(* assumptions keep it.  strtod, the compiler's tables of powers and the   *)
(* conversion of an integer round to the nearest double.                   *)
(***************************************************************************)
EXTENDS Lex
LOCAL INSTANCE SequencesExt

CONSTANTS
  MaxSig,         \* significant digits gathered (19)
  MantBits,       \* width of fast_mant (64)
  Precision,      \* of a double (53)
  MaxExp10,       \* the tables of powers end here (22)
  ExpCap,         \* exp_val is not continued above this (1000)
  MaxExp2,        \* 2^MaxExp2 is infinite (1024)
  Decades,        \* and so is 10^Decades (309)
  MinDecades,     \* below 10^-MinDecades all is 0 (324)
  NumBuf,         \* sizeof num_buf (64)
  WrittenDigits   \* the 17 of %.17g

PosLimit == 2^(MantBits - 1) - 1
NegLimit == 2^(MantBits - 1)

ASSUME WidthsAssumption ==
  /\ {MaxSig, MantBits, Precision, MaxExp10, ExpCap, MaxExp2, Decades,
      MinDecades, NumBuf, WrittenDigits} \subseteq Nat \ {0}
  /\ 10^MaxSig <= 2^MantBits          \* fast_mant does not wrap
  /\ 10^(MaxSig - 1) <= PosLimit      \* int64 has as many digits as gathered
  /\ NegLimit < 10^MaxSig - 1
  /\ 5^MaxExp10 < 2^Precision         \* the positive powers are exact
  /\ Precision < MantBits
  /\ 10^(MaxSig + MaxExp10) < 2^MaxExp2
  /\ 2^MaxExp2 <= 10^Decades
  /\ MaxExp10 < MinDecades
  /\ 10^(WrittenDigits - 1) > 2^Precision
  /\ WrittenDigits < MaxSig

VARIABLES
  start,          \* where the number begins
  num             \* the locals of json__parse_number

numberVars == <<start, num>>

NoNum == [negative |-> FALSE, is_float |-> FALSE, fast_ok |-> TRUE, mant |-> 0,
          sig |-> 0, exp10 |-> 0, exp_val |-> 0, exp_neg |-> FALSE]

(***************************************************************************)
(* Binary floating point.                                                  *)
(***************************************************************************)

Zero(neg)     == [neg |-> neg, m |-> 0, e |-> 0]
Infinite(neg) == [neg |-> neg, m |-> 1, e |-> MaxExp2]

\* The e for which p/q is Precision bits times 2^e.
Scale(p, q) ==
  LET least == 2^(Precision - 1)
  IN  IF p \div q >= least
        THEN CHOOSE k \in 0..MaxExp2 : (p \div q) \div 2^k \in least..(2 * least - 1)
        ELSE -(CHOOSE k \in 1..(2 * MaxExp2) :
                 (p * 2^k) \div q \in least..(2 * least - 1))

\* m * 2^e with an odd m.
Odd(neg, m, e) ==
  LET twos == CHOOSE k \in 0..Precision : m % 2^k = 0 /\ (m \div 2^k) % 2 = 1
  IN  [neg |-> neg, m |-> m \div 2^twos, e |-> e + twos]

\* p/q to the nearest integer, ties to even.
Rounded(p, q) ==
  LET down == p \div q
      rest == p - down * q
  IN  IF 2 * rest > q \/ (2 * rest = q /\ down % 2 = 1) THEN down + 1 ELSE down

\* The double nearest to p/q > 0.
Nearest(neg, p, q) ==
  LET e == Scale(p, q)
  IN  IF e < 0 THEN Odd(neg, Rounded(p * 2^(-e), q), e)
      ELSE Odd(neg, Rounded(p, q * 2^e), e)

\* p/q * 2^e, rounded.
NearestScaled(neg, p, e) ==
  IF e < 0 THEN Nearest(neg, p, 2^(-e)) ELSE Nearest(neg, p * 2^e, 1)

Power10(k) == IF k < 0 THEN Nearest(FALSE, 1, 10^(-k))
              ELSE Nearest(FALSE, 10^k, 1)

\* json__fast_float_from_parts: the digits are rounded, the power is rounded,
\* and so is their product.
FastFloat(neg, mant, exp10) ==
  LET m == Nearest(neg, mant, 1)
      t == Power10(exp10)
  IN  NearestScaled(neg, m.m * t.m, m.e + t.e)

\* strtod of the digits n and the decimal exponent k.
Digits(n) == CHOOSE d \in 1..(2 * Decades) : n < 10^d /\ (d = 1 \/ n >= 10^(d - 1))

Strtod(neg, n, k) ==
  IF n = 0 THEN Zero(neg)
  ELSE IF Digits(n) + k <= -MinDecades THEN Zero(neg)
  ELSE IF k < 0 THEN Nearest(neg, n, 10^(-k))
  ELSE IF k >= Decades \/ n > (2^MaxExp2 - 1) \div 10^k THEN Infinite(neg)
  ELSE Nearest(neg, n * 10^k, 1)

(***************************************************************************)
(* The text of a number, apart from how it is scanned.                     *)
(***************************************************************************)

ValueOf(digits) == FoldLeft(LAMBDA n, b : 10 * n + (b - 48), 0, digits)

\* The decimal a number's text spells: digits n, exponent k.
Decimal(text) ==
  LET e        == {i \in DOMAIN text : text[i] \in Exponent}
      mantissa == SubSeq(text, 1, IF e = {} THEN Len(text)
                                  ELSE (CHOOSE i \in e : TRUE) - 1)
      dot      == {i \in DOMAIN mantissa : mantissa[i] = Dot}
      exponent == SubSeq(text, Len(mantissa) + 2, Len(text))
      IsDigit(b) == b \in Digit
      power    == ValueOf(SelectSeq(exponent, IsDigit))
  IN  [neg |-> text[1] = Minus,
       n   |-> ValueOf(SelectSeq(mantissa, IsDigit)),
       k   |-> (IF exponent # << >> /\ exponent[1] = Minus THEN -power ELSE power)
               - (IF dot = {} THEN 0 ELSE Len(mantissa) - CHOOSE i \in dot : TRUE)]

\* What has been scanned of the number.
Scanned == SubSeq(src, start, pos - 1)

(***************************************************************************)
(* The scan.                                                               *)
(***************************************************************************)

Scanning(p) == phase = p

\* JSON__FAST_DIGIT
Gathered(n, d) ==
  IF n.sig = 0 /\ d = 0 THEN n
  ELSE IF n.sig >= MaxSig THEN [n EXCEPT !.fast_ok = FALSE]
  ELSE [n EXCEPT !.mant = (@ * 10 + d) % 2^MantBits, !.sig = @ + 1]

Invalid == Fail("INVALID_NUMBER") /\ UNCHANGED numberVars

\* The optional minus.
NumberSign ==
  /\ Scanning("SIGN")
  /\ IF See({Minus})
       THEN Eat(1) /\ num' = [num EXCEPT !.negative = TRUE]
       ELSE UNCHANGED <<pos, num>>
  /\ Goto("INT")
  /\ UNCHANGED start

IntegerMissing == /\ Scanning("INT")
                  /\ AtEnd
                  /\ Fail("UNEXPECTED_EOF")
                  /\ UNCHANGED numberVars

IntegerMalformed == /\ Scanning("INT")
                    /\ ~AtEnd
                    /\ ~See(Digit)
                    /\ Invalid

LeadingZero == /\ Scanning("INT")
               /\ See({48})
               /\ pos < Len(src)
               /\ src[pos + 1] \in Digit
               /\ Invalid

IntegerZero == /\ Scanning("INT")
               /\ See({48})
               /\ ~(pos < Len(src) /\ src[pos + 1] \in Digit)
               /\ Eat(1)
               /\ Goto("FRAC")
               /\ UNCHANGED numberVars

IntegerBegins == /\ Scanning("INT")
                 /\ See(Digit \ {48})
                 /\ Goto("INTDIGITS")
                 /\ UNCHANGED <<pos, numberVars>>

\* One turn of the loop over the digits of the integer or of the fraction.
DigitGathered ==
  /\ phase \in {"INTDIGITS", "FRACDIGITS"}
  /\ See(Digit)
  /\ num' = LET n == Gathered(num, src[pos] - 48)
            IN  IF phase = "FRACDIGITS" THEN [n EXCEPT !.exp10 = @ - 1] ELSE n
  /\ Eat(1)
  /\ UNCHANGED <<src, phase, err, token, start>>

DigitsEnd == /\ phase \in {"INTDIGITS", "FRACDIGITS"}
             /\ ~See(Digit)
             /\ Goto(IF phase = "INTDIGITS" THEN "FRAC" ELSE "EXP")
             /\ UNCHANGED <<pos, numberVars>>

DigitFollows(i) == i <= Len(src) /\ src[i] \in Digit

FractionBegins == /\ Scanning("FRAC")
                  /\ See({Dot})
                  /\ DigitFollows(pos + 1)
                  /\ num' = [num EXCEPT !.is_float = TRUE]
                  /\ Eat(1)
                  /\ Goto("FRACDIGITS")
                  /\ UNCHANGED start

FractionMalformed == /\ Scanning("FRAC")
                     /\ See({Dot})
                     /\ ~DigitFollows(pos + 1)
                     /\ Invalid

NoFraction == /\ Scanning("FRAC")
              /\ ~See({Dot})
              /\ Goto("EXP")
              /\ UNCHANGED <<pos, numberVars>>

SignLength == IF pos < Len(src) /\ src[pos + 1] \in {Plus, Minus} THEN 1 ELSE 0

ExponentBegins == /\ Scanning("EXP")
                  /\ See(Exponent)
                  /\ DigitFollows(pos + 1 + SignLength)
                  /\ num' = [num EXCEPT !.is_float = TRUE,
                                        !.exp_neg = src[pos + 1] = Minus]
                  /\ Eat(1 + SignLength)
                  /\ Goto("EXPDIGITS")
                  /\ UNCHANGED start

ExponentMalformed == /\ Scanning("EXP")
                     /\ See(Exponent)
                     /\ ~DigitFollows(pos + 1 + SignLength)
                     /\ Invalid

NoExponent == /\ Scanning("EXP")
              /\ ~See(Exponent)
              /\ Goto("CONVERT")
              /\ UNCHANGED <<pos, numberVars>>

ExponentDigit ==
  /\ Scanning("EXPDIGITS")
  /\ See(Digit)
  /\ num' = IF num.exp_val > ExpCap
              THEN [num EXCEPT !.fast_ok = FALSE]
              ELSE [num EXCEPT !.exp_val = 10 * @ + (src[pos] - 48)]
  /\ Eat(1)
  /\ UNCHANGED <<src, phase, err, token, start>>

ExponentEnds ==
  /\ Scanning("EXPDIGITS")
  /\ ~See(Digit)
  /\ num' = [num EXCEPT !.exp10 =
               IF num.exp_neg THEN @ - num.exp_val ELSE @ + num.exp_val]
  /\ Goto("CONVERT")
  /\ UNCHANGED <<pos, start>>

(***************************************************************************)
(* The conversion.                                                         *)
(***************************************************************************)

\* Mutant of FitsInteger: the positive limit holds for both signs.
FitsIntegerPositive(n) == n.fast_ok /\ n.mant <= PosLimit

FitsInteger(n) == /\ n.fast_ok
                  /\ n.mant <= IF n.negative THEN NegLimit ELSE PosLimit

ConvertInteger ==
  /\ Scanning("CONVERT")
  /\ ~num.is_float
  /\ FitsInteger(num)
  /\ Deliver([type |-> "int", val |-> IF num.negative THEN -num.mant ELSE num.mant])
  /\ UNCHANGED <<pos, numberVars>>

IntegerOverflows == /\ Scanning("CONVERT")
                    /\ ~num.is_float
                    /\ ~FitsInteger(num)
                    /\ Fail("OVERFLOW")
                    /\ UNCHANGED numberVars

IsFast(n) == /\ n.fast_ok
             /\ n.sig = 0 \/ n.exp10 \in (-MaxExp10)..MaxExp10

FloatToken(x) == [type |-> "float", val |-> x]

ConvertFast ==
  /\ Scanning("CONVERT")
  /\ num.is_float
  /\ IsFast(num)
  /\ Deliver(FloatToken(IF num.sig = 0 THEN Zero(num.negative)
                        ELSE FastFloat(num.negative, num.mant, num.exp10)))
  /\ UNCHANGED <<pos, numberVars>>

StrtodScanned == LET d == Decimal(Scanned) IN Strtod(d.neg, d.n, d.k)

ConvertStrtod ==
  /\ Scanning("CONVERT")
  /\ num.is_float
  /\ ~IsFast(num)
  /\ StrtodScanned # Infinite(num.negative)
  /\ Deliver(FloatToken(StrtodScanned))
  /\ UNCHANGED <<pos, numberVars>>

FloatInfinite == /\ Scanning("CONVERT")
                 /\ num.is_float
                 /\ ~IsFast(num)
                 /\ StrtodScanned = Infinite(num.negative)
                 /\ Invalid

\* A long number is copied to the arena for strtod.
FloatRefused == /\ Scanning("CONVERT")
                /\ num.is_float
                /\ ~IsFast(num)
                /\ Len(Scanned) >= NumBuf
                /\ Fail("OOM")
                /\ UNCHANGED numberVars

NumberInit == start = pos /\ num = NoNum

NumberNext ==
  \/ NumberSign \/ IntegerMissing \/ IntegerMalformed \/ LeadingZero
  \/ IntegerZero \/ IntegerBegins \/ DigitGathered \/ DigitsEnd
  \/ FractionBegins \/ FractionMalformed \/ NoFraction
  \/ ExponentBegins \/ ExponentMalformed \/ NoExponent
  \/ ExponentDigit \/ ExponentEnds
  \/ ConvertInteger \/ IntegerOverflows
  \/ ConvertFast \/ ConvertStrtod \/ FloatInfinite \/ FloatRefused

(***************************************************************************)
(* Writing a float and reading it again.                                   *)
(***************************************************************************)

\* jw_double: %.17g prints the nearest WrittenDigits digits without trailing
\* zeros; a whole number gets ".0" unless it is long enough for an exponent.
\* As digits n and exponent k.
Written(x) ==
  LET p == IF x.e < 0 THEN x.m ELSE x.m * 2^x.e
      q == IF x.e < 0 THEN 2^(-x.e) ELSE 1
      Shifted(s) == IF s < 0 THEN Rounded(p, q * 10^(-s)) ELSE Rounded(p * 10^s, q)
      \* a double with a fraction has fewer digits before it than are written
      shift == CHOOSE s \in (IF x.e < 0 THEN 0 ELSE -Decades)..Decades :
                 Digits(Shifted(s)) = WrittenDigits
      n     == Shifted(shift)
      zeros == CHOOSE z \in 0..WrittenDigits :
                 n % 10^z = 0 /\ (n \div 10^z) % 10 # 0
      k     == zeros - shift
      whole == k >= 0 /\ Digits(n) - shift <= WrittenDigits
  IN  IF x.m = 0 THEN [n |-> 0, k |-> -1]
      ELSE IF whole THEN [n |-> (n \div 10^zeros) * 10^(k + 1), k |-> -1]
      ELSE [n |-> n \div 10^zeros, k |-> k]

\* json__parse_number of what was written.
Reread(neg, w) ==
  IF w.n = 0 THEN Zero(neg)
  ELSE IF Digits(w.n) <= MaxSig /\ w.k \in (-MaxExp10)..MaxExp10
    THEN FastFloat(neg, w.n, w.k)
    ELSE Strtod(neg, w.n, w.k)
=============================================================================
