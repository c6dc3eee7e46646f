SPECIFICATION Spec
CONSTANTS
  BP_ORDER = 5
  Keys <- FullKeys
  Vals = {a}
  Junk = 133
  Absent = Absent
  Script <- Full
  MaxSlot = 1000
  NewVals = {a}
  Updatable <- None
  Removable <- None
INVARIANTS ChainsRight ParentsRight Accounted MinFill SearchFinds
