\* Fair workers, clean-up and time; no symmetry, it is unsound for liveness.
SPECIFICATION FairSpec
CONSTANTS
  j1 = j1
  j2 = j2
  Jobs = {j1, j2}
  NoJob = NoJob
  BatchesPerJob = 1
  QueueSize = 1
  Batches <- MCBatches
  Limit <- MCLimit
  Offered = {"high"}
  Suspends = TRUE
  Malformed = FALSE
  Expiring = {j1, j2}
  MaxStarts = 2
  CacheMax = 1
PROPERTY
  EventuallyEnded
