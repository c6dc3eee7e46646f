SPECIFICATION RemoveSpec
CONSTANTS
  BP_ORDER = 4
  Keys <- PairKeys
  Vals = {a}
  Junk = 33
  Absent = Absent
  Script <- Pair
  MaxSlot = 0
  NewVals = {a}
  Updatable <- None
  Removable <- Some
INVARIANTS ChainsRight TreeSized LastKeysKept SearchFinds
