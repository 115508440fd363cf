\* One job, cancelled while its prediction has yielded the loop; no deadline.
SPECIFICATION Spec
CONSTANTS
  j1 = j1
  Jobs = {j1}
  NoJob = NoJob
  BatchesPerJob = 1
  QueueSize = 1
  Batches <- MCBatches
  Limit <- MCLimit
  Offered = {"high"}
  Suspends = TRUE
  Malformed = FALSE
  Expiring = {}
  MaxStarts = 1
  CacheMax = 1
PROPERTY
  CancelSticks
