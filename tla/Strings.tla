------------------------------ MODULE Strings ------------------------------
(***************************************************************************)
(* json__parse_string of sJson.c: a string is read twice, once to validate *)
(* it and to count the bytes it decodes to, and, when it has escapes, once *)
(* more to decode it into exactly that many.  The second pass repeats none *)
(* of the checks of the first.  One turn of either loop is one step.       *)
(***************************************************************************)
EXTENDS Lex

CONSTANTS
  MaxStringLen    \* JSON_MAX_STRING_LEN

VARIABLES
  scan,           \* scan_pos, counted from 1
  out_len,        \* bytes the first pass has counted
  has_escape,
  raw_hash,       \* the bytes hashed on the way, in place of their hash
  out_buf         \* what the second pass has written; its room is out_len

stringVars == <<scan, out_len, has_escape, raw_hash, out_buf>>

(***************************************************************************)
(* Reading hexadecimal digits and UTF-8.                                   *)
(***************************************************************************)

HexVal(b) == IF b \in Digit THEN b - 48
             ELSE IF b \in 97..102 THEN b - 87
             ELSE IF b \in 65..70 THEN b - 55
             ELSE 255

\* json__parse_hex4: four digits, within the text, and their value.
IsHex4(i) == /\ i + 3 <= Len(src)
             /\ \A j \in i..(i + 3) : HexVal(src[j]) # 255

Hex4(i) == HexVal(src[i]) * 4096 + HexVal(src[i + 1]) * 256
           + HexVal(src[i + 2]) * 16 + HexVal(src[i + 3])

High == 55296..56319                      \* 0xD800..0xDBFF
Low  == 56320..57343                      \* 0xDC00..0xDFFF

\* json__utf8_decode, the lead byte: how long, its bits, the smallest code.
Lead(b) ==
  IF b \in 194..223 THEN [count |-> 2, bits |-> b % 32, minimum |-> 128]
  ELSE IF b \in 224..239 THEN [count |-> 3, bits |-> b % 16, minimum |-> 2048]
  ELSE IF b \in 240..244 THEN [count |-> 4, bits |-> b % 8, minimum |-> 65536]
  ELSE [count |-> 0, bits |-> 0, minimum |-> 0]

\* The code point of the multi-byte character at i.
CodeAt(i) ==
  LET code[n \in 1..4] == IF n = 1 THEN Lead(src[i]).bits
                          ELSE code[n - 1] * 64 + (src[i + n - 1] % 64)
  IN  code[Lead(src[i]).count]

\* Mutant of Utf8Length: shortest form and surrogates are not looked at.
Utf8LengthLoose(i) ==
  LET lead == Lead(src[i])
  IN  IF /\ lead.count > 0
         /\ i + lead.count - 1 <= Len(src)
         /\ \A j \in (i + 1)..(i + lead.count - 1) : src[j] \div 64 = 2
        THEN lead.count
        ELSE 0

\* json__utf8_decode: the bytes of a multi-byte character, 0 if malformed.
Utf8Length(i) ==
  LET lead == Lead(src[i])
  IN  IF /\ lead.count > 0
         /\ i + lead.count - 1 <= Len(src)
         /\ \A j \in (i + 1)..(i + lead.count - 1) : src[j] \div 64 = 2
         /\ CodeAt(i) >= lead.minimum
         /\ CodeAt(i) <= 1114111
         /\ CodeAt(i) \notin High \cup Low
        THEN lead.count
        ELSE 0

\* json__encode_utf8
Encoded(cp) ==
  LET cont(shift) == 128 + ((cp \div shift) % 64)
  IN  IF cp < 128 THEN <<cp>>
      ELSE IF cp < 2048 THEN <<192 + cp \div 64, cont(1)>>
      ELSE IF cp < 65536 THEN <<224 + cp \div 4096, cont(64), cont(1)>>
      ELSE <<240 + cp \div 262144, cont(4096), cont(64), cont(1)>>

(***************************************************************************)
(* Escapes: both passes look at them, each in its own way.                 *)
(***************************************************************************)

\* What follows the backslash of a one-byte escape, and what it stands for.
Simple == [b \in {34, 47, 92, 98, 102, 110, 114, 116} |->
             CASE b = 98  -> 8
               [] b = 102 -> 12
               [] b = 110 -> 10
               [] b = 114 -> 13
               [] b = 116 -> 9
               [] OTHER   -> b]

EscapeAt(i, B) == i < Len(src) /\ src[i] = Backslash /\ src[i + 1] \in B
UnitAt(i)      == EscapeAt(i, {Unicode}) /\ IsHex4(i + 2)

\* A surrogate pair, both halves escaped.
PairAt(i) == /\ UnitAt(i) /\ Hex4(i + 2) \in High
             /\ UnitAt(i + 6) /\ Hex4(i + 8) \in Low

(***************************************************************************)
(* The first pass.                                                         *)
(***************************************************************************)

Measuring == phase = "MEASURE" /\ scan <= Len(src) /\ src[scan] # Quote

\* The next element takes so many bytes and decodes to so many.
Count(bytes, out) == /\ scan' = scan + bytes
                     /\ out_len' = out_len + out
                     /\ UNCHANGED <<lexVars, out_buf>>

MeasureRaw(count) ==
  /\ Count(count, count)
  /\ raw_hash' = raw_hash \o SubSeq(src, scan, scan + count - 1)
  /\ UNCHANGED has_escape

MeasurePlain == /\ Measuring
                /\ src[scan] \in (32..127) \ {Backslash}
                /\ MeasureRaw(1)

MeasureUtf8 == /\ Measuring
               /\ src[scan] >= 128
               /\ Utf8Length(scan) > 0
               /\ MeasureRaw(Utf8Length(scan))

MeasureEscaped(bytes, out) ==
  /\ Count(bytes, out)
  /\ has_escape' = TRUE
  /\ UNCHANGED raw_hash

MeasureSimple == /\ Measuring
                 /\ EscapeAt(scan, DOMAIN Simple)
                 /\ MeasureEscaped(2, 1)

\* Mutant of UnitLength: no unit is counted as three bytes.
UnitLengthShort(unit) == IF unit < 128 THEN 1 ELSE 2

UnitLength(unit) == IF unit < 128 THEN 1 ELSE IF unit < 2048 THEN 2 ELSE 3

MeasureUnit == /\ Measuring
               /\ UnitAt(scan)
               /\ Hex4(scan + 2) \notin High \cup Low
               /\ MeasureEscaped(6, UnitLength(Hex4(scan + 2)))

MeasurePair == /\ Measuring
               /\ PairAt(scan)
               /\ MeasureEscaped(12, 4)

MeasureControl == /\ Measuring
                  /\ src[scan] < 32
                  /\ Fail("INVALID_STRING")
                  /\ UNCHANGED stringVars

MeasureBadUtf8 == /\ Measuring
                  /\ src[scan] >= 128
                  /\ Utf8Length(scan) = 0
                  /\ Fail("INVALID_UTF8")
                  /\ UNCHANGED stringVars

MeasureBadEscape ==
  /\ Measuring
  /\ src[scan] = Backslash
  /\ ~EscapeAt(scan, DOMAIN Simple)
  /\ ~PairAt(scan)
  /\ ~(UnitAt(scan) /\ Hex4(scan + 2) \notin High \cup Low)
  /\ Fail(IF scan = Len(src) THEN "UNEXPECTED_EOF" ELSE "INVALID_STRING")
  /\ UNCHANGED stringVars

MeasureEnd == /\ phase = "MEASURE"
              /\ scan > Len(src)
              /\ Fail("UNEXPECTED_EOF")
              /\ UNCHANGED stringVars

(***************************************************************************)
(* Between the passes, and the second.                                     *)
(***************************************************************************)

Measured == phase = "MEASURE" /\ scan <= Len(src) /\ src[scan] = Quote

StringTooLong == /\ Measured
                 /\ out_len > MaxStringLen
                 /\ Fail("OVERFLOW")
                 /\ UNCHANGED stringVars

StringRefused == /\ Measured
                 /\ out_len \in 1..MaxStringLen
                 /\ Fail("OOM")
                 /\ UNCHANGED stringVars

\* Without an escape the bytes are copied as they are.
CopyRaw == /\ Measured
           /\ out_len <= MaxStringLen
           /\ ~has_escape
           /\ out_buf' = SubSeq(src, pos, pos + out_len - 1)
           /\ Eat(out_len)
           /\ Goto("CLOSE")
           /\ UNCHANGED <<scan, out_len, has_escape, raw_hash>>

DecodeBegins == /\ Measured
                /\ out_len <= MaxStringLen
                /\ has_escape
                /\ Goto("DECODE")
                /\ UNCHANGED <<pos, stringVars>>

Decoding == phase = "DECODE" /\ ~AtEnd /\ src[pos] # Quote

Write(bytes, out) == /\ Eat(bytes)
                     /\ out_buf' = out_buf \o out
                     /\ UNCHANGED <<src, phase, err, token,
                                    scan, out_len, has_escape, raw_hash>>

DecodeByte == /\ Decoding
              /\ src[pos] # Backslash
              /\ Write(1, <<src[pos]>>)

DecodeSimple == /\ Decoding
                /\ EscapeAt(pos, DOMAIN Simple)
                /\ Write(2, <<Simple[src[pos + 1]]>>)

DecodeUnit == /\ Decoding
              /\ EscapeAt(pos, {Unicode})
              /\ Hex4(pos + 2) \notin High
              /\ Write(6, Encoded(Hex4(pos + 2)))

Joined(high, low) == 65536 + (high - 55296) * 1024 + (low - 56320)

DecodePair == /\ Decoding
              /\ EscapeAt(pos, {Unicode})
              /\ Hex4(pos + 2) \in High
              /\ Write(12, Encoded(Joined(Hex4(pos + 2), Hex4(pos + 8))))

DecodeEnds == /\ phase = "DECODE"
              /\ ~Decoding
              /\ Goto("CLOSE")
              /\ UNCHANGED <<pos, stringVars>>

CloseString ==
  /\ phase = "CLOSE"
  /\ IF AtEnd
       THEN Fail("UNEXPECTED_EOF")
       ELSE /\ Eat(1)
            /\ Deliver([type |-> "string", data |-> out_buf, len |-> out_len,
                        hashed |-> IF has_escape THEN out_buf ELSE raw_hash])
  /\ UNCHANGED stringVars

StringInit == /\ scan = pos
              /\ out_len = 0
              /\ has_escape = FALSE
              /\ raw_hash = << >>
              /\ out_buf = << >>

StringNext ==
  \/ MeasurePlain \/ MeasureUtf8 \/ MeasureSimple \/ MeasureUnit \/ MeasurePair
  \/ MeasureControl \/ MeasureBadUtf8 \/ MeasureBadEscape \/ MeasureEnd
  \/ StringTooLong \/ StringRefused \/ CopyRaw \/ DecodeBegins
  \/ DecodeByte \/ DecodeSimple \/ DecodeUnit \/ DecodePair \/ DecodeEnds
  \/ CloseString
=============================================================================
