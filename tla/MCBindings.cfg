SPECIFICATION Spec
CONSTANTS
  CjItem = {i1, i2, i3}
  CjDocs = 2
  MaxPrinted = 1
  CppArena = {a1, a2}
  CppValue = {v1, v2}
  CppStorages = 2
  MaxGeneration = 2
  PyThread = {t1, t2, t3}
  PyMaker = t1
  PyReads = 2
  PyMaxCalls = 1
INVARIANTS
  CppStaleIsEmpty
  ReclaimedWithLast
PROPERTIES
  ImplementsLease
  PyCallsReturn
CHECK_DEADLOCK FALSE
