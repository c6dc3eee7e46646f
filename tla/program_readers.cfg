SPECIFICATION ProgramSpec
CONSTANTS
  HalfRange = 8
  WRITE_RESOURCES_NUMBER = 2
  VALUE_SIZE = 2
  NoThread = NoThread
  NotFound = NotFound
  Threads = {w1, w2, r1, r2}
  Writers = {w1, w2}
  Readers = {r1, r2}
  Keys = {"min", "pos"}
  Vals = {"v1", "v2", "v3"}
  Overlap = TRUE
  MaxCalls = 4
  MaxCrashes = 1
  MaxShort = 0
  Wired = TRUE
  RawHash <- MCRawHash
  numWrite = 1
  numRead = 1
  numKills = 1
  KeyFromValue <- MCKeyFromValue
  MaxRuns = 1
INVARIANT NoReadError
CHECK_DEADLOCK FALSE
