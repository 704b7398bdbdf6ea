SPECIFICATION Spec
CONSTANTS
  Documents <- MCDocuments
  Scalar <- MCScalar
  Key = {1, 2}
  AsDouble <- MCAsDouble
  MaxDepth = 3
  MaxArrayLen = 2
  MaxNodes = 6
  MaxBuilt = 3
INVARIANTS
  EqualIsSameValue
  CloneIsDeepCopy
  GarbageUnreachable
