\* A processor that yields the loop and may answer malformed lists: three jobs share a
\* queue of two and a result cache of two; one job of two batches may pass its deadline;
\* cancellations of workers at any suspension, one restart.
SPECIFICATION Spec
CONSTANTS
  j1 = j1
  j2 = j2
  j3 = j3
  Jobs = {j1, j2, j3}
  NoJob = NoJob
  BatchesPerJob = 2
  QueueSize = 2
  Batches <- MCSomeBatches
  Limit <- MCLimit
  Offered = {"high"}
  Suspends = TRUE
  Malformed = TRUE
  Expiring = {j1}
  MaxStarts = 2
  CacheMax = 2
SYMMETRY MCSymmetry
INVARIANTS
  TypeOK
  PendingIsReachable
  OneHolder
  CacheIsSound
  ResultsAreWhole
  CompletedCountsResults
  ProcessingIsHeld
  StoppedIsQuiet
PROPERTY
  EndedIsFinal
