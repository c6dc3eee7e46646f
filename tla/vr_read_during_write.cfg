SPECIFICATION Spec
CONSTANTS
  HalfRange = 8
  WRITE_RESOURCES_NUMBER = 2
  VALUE_SIZE = 2
  NoThread = NoThread
  Threads = {w1, r1}
  Writers = {w1}
  Readers = {r1}
  Keys = {"min", "pos"}
  Vals = {v1, v2}
  Overlap = TRUE
  MaxCalls = 2
  MaxCrashes = 0
  MaxShort = 0
  RawHash <- MCRawHash
INVARIANT AckedPlaced
CHECK_DEADLOCK FALSE
