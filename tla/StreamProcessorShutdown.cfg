\* Three requests, batches of up to two, shutdown at any moment; no symmetry, it is
\* unsound for liveness.
SPECIFICATION FairSpec
CONSTANTS
  r1 = r1
  r2 = r2
  r3 = r3
  Requests = {r1, r2, r3}
  None = None
  MaxBatch = 2
  MinBatch = 2
  Shutdowns = TRUE
CHECK_DEADLOCK FALSE
INVARIANTS
  TypeOK
  NoneForgotten
  QueueIsServed
  NothingEntersIdleQueue
PROPERTIES
  OldestFirst
  EveryRequestSettled
