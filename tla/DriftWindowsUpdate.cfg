\* update_baseline takes the lock twice.
SPECIFICATION Spec
CONSTANTS
  Labels = {pos, neg}
  window_size = 3
  min_samples = 2
  MaxSamples = 6
  MayUpdate = TRUE
CHECK_DEADLOCK FALSE
INVARIANTS
  UpdateReturns
