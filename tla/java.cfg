SPECIFICATION JavaSpec
CONSTANTS
  Keys = {7, 8}
  Vals = {a, b}
  Writers = {w1, w2}
  Readers = {r1}
  ValueSize = 10
  NoThread = NoThread
  NoValue = NoValue
  Unknown = Unknown
  MaxWrites = 3
  MaxKills = 2
SYMMETRY Symmetric
INVARIANTS AckedReadable ReadExact JavaInv
CHECK_DEADLOCK FALSE
