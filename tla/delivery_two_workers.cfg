\* Two workers whose messages may be reclaimed while they still execute.
CONSTANTS
  b1 = b1  i1 = i1  i2 = i2  w1 = w1  w2 = w2  p1 = p1
  Batches = {b1}
  Items = {i1, i2}
  BatchOf <- OneBatch
  Workers = {w1, w2}
  Publishers = {p1}
  NoItem = NoItem
  MaxPending = 2
  MaxPublishAttempts = 1
  Results = {"DONE", "FAILED_FINAL"}
  ReclaimCount = 1
  MaxPublisherFaults = 1
  MaxWorkerFaults = 1
  MaxRedisLosses = 0
SPECIFICATION Spec
SYMMETRY FileSymmetry
INVARIANTS DeadLetterExact VerdictSound OwnsWhatItRuns
PROPERTIES FinalIsForever
CHECK_DEADLOCK FALSE
