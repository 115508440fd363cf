\* A request that arrives while shutdown waits for the task it cancelled.
SPECIFICATION Spec
CONSTANTS
  r1 = r1
  r2 = r2
  Requests = {r1, r2}
  None = None
  MaxBatch = 1
  MinBatch = 1
  Shutdowns = TRUE
CHECK_DEADLOCK FALSE
INVARIANT
  ShutdownServesTheQueue
