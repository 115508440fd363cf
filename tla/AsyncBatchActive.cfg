\* One job, cancelled and then past its deadline.
SPECIFICATION Spec
CONSTANTS
  j1 = j1
  Jobs = {j1}
  NoJob = NoJob
  BatchesPerJob = 1
  QueueSize = 1
  Batches <- MCBatches
  Limit <- MCLimit
  Offered = {"high"}
  Suspends = FALSE
  Malformed = FALSE
  Expiring = {j1}
  MaxStarts = 1
  CacheMax = 1
INVARIANT
  ActiveIsANumberOfJobs
