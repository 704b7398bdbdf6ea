SPECIFICATION Spec
CONSTANTS
  Key <- MCKey
  Hash <- MCHash
  Value = {a, b}
  NoValue = NoValue
  MaxParsed = 3
  MaxArrayLen = 4
  FirstCap = 1
INVARIANTS
  IndexValid
  GetSound
PROPERTIES
  KeysOnlyAppended
  ImplementsDictionary
