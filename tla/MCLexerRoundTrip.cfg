SPECIFICATION Spec
CONSTANTS
  Texts <- MCTexts
  MaxStringLen = 7
  MaxSig = 4
  MantBits = 14
  Precision = 5
  MaxExp10 = 2
  ExpCap = 10
  MaxExp2 = 20
  Decades = 7
  MinDecades = 3
  NumBuf = 6
  WrittenDigits = 3
  PathTexts = {}
  Doc <- MCDoc
  MaxIndex = 12
  KeyBuf = 3
INVARIANT WrittenFloatsReread
CHECK_DEADLOCK FALSE
