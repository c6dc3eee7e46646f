SPECIFICATION RemoveSpec
CONSTANTS
  BP_ORDER = 6
  Keys <- LentKeys
  Vals = {a}
  Junk = 133
  Absent = Absent
  Script <- Lent
  MaxSlot = 0
  NewVals = {a}
  Updatable <- None
  Removable <- Right
INVARIANT SearchFinds
