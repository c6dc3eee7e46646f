SPECIFICATION CrashSpec
CONSTANTS
  BP_ORDER = 4
  Keys <- CrashKeys
  Vals = {a, b}
  Junk = 333
  Absent = Absent
  Script <- Ascending
  MaxSlot = 13
  NewVals = {a}
  Updatable <- CrashUpdated
  MaxKills = 2
INVARIANTS SurvivorsFound SurvivorsParented
PROPERTY KillConfined
CHECK_DEADLOCK FALSE
