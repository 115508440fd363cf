\* The processor of the tree: two jobs of two batches each, two priorities,
\* queues of one job, every deadline may pass, one restart.
SPECIFICATION Spec
CONSTANTS
  j1 = j1
  j2 = j2
  Jobs = {j1, j2}
  NoJob = NoJob
  BatchesPerJob = 2
  QueueSize = 1
  Batches <- MCBatches
  Limit <- MCLimit
  Offered = {"high", "low"}
  Suspends = FALSE
  Malformed = FALSE
  Expiring = {j1, j2}
  MaxStarts = 2
  CacheMax = 1
INVARIANT
  CountsAreExact
PROPERTY
  FollowsLifecycle
