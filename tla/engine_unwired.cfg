SPECIFICATION EngineSpec
CONSTANTS
  HalfRange = 8
  WRITE_RESOURCES_NUMBER = 2
  VALUE_SIZE = 2
  NoThread = NoThread
  NotFound = NotFound
  Threads = {w1, r1}
  Writers = {w1}
  Readers = {r1}
  Keys = {"a", "b"}
  Vals = {v1, v2}
  Overlap = FALSE
  MaxCalls = 1
  MaxCrashes = 0
  MaxShort = 0
  Wired = FALSE
  RawHash <- MCRawHash
INVARIANT WrittenIsFound
CHECK_DEADLOCK FALSE
