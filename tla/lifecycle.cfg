SPECIFICATION LifecycleSpec
CONSTANTS
  Engines = {e1, e2}
  Callers = {t1, t2}
  MaxOpens = 3
INVARIANTS NoFreedUse OneOpenPerCall AloneIsSafe
CHECK_DEADLOCK FALSE
