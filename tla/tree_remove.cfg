SPECIFICATION RemoveSpec
CONSTANTS
  BP_ORDER = 4
  Keys <- EightKeys
  Strings <- Eight
  BPT_MOVE_STEP = 2
  MaxRange = 5
  Vals = {a, b}
  Junk = 33
  Absent = Absent
  Script <- Ascending
  MaxSlot = 6
  NewVals = {a}
  Updatable <- OneKey
  Removable <- Removed
INVARIANTS TypeOK RangeExact KeysInOrder
PROPERTY ImplementsStringMap
