SPECIFICATION EngineSpec
CONSTANTS
  HalfRange = 8
  WRITE_RESOURCES_NUMBER = 2
  VALUE_SIZE = 2
  NoThread = NoThread
  NotFound = NotFound
  Threads = {w1, w2, r1}
  Writers = {w1, w2}
  Readers = {r1}
  Keys = {"a", "b"}
  Vals = {v1, v2}
  Overlap = TRUE
  MaxCalls = 2
  MaxCrashes = 1
  MaxShort = 0
  Wired = TRUE
  RawHash <- MCRawHash
INVARIANTS AckedStored StoredInv IndexValid WrittenIsFound EngineInv
PROPERTY UsesValueFiles
VIEW Shown
CHECK_DEADLOCK FALSE
