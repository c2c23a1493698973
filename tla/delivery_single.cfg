\* The deployed configuration: one publisher and one worker, two files, every kind of fault once.
CONSTANTS
  b1 = b1  i1 = i1  i2 = i2  w1 = w1  w2 = w2  p1 = p1
  Batches = {b1}
  Items = {i1, i2}
  BatchOf <- OneBatch
  Workers = {w1}
  Publishers = {p1}
  NoItem = NoItem
  MaxPending = 2
  MaxPublishAttempts = 2
  Results = {"DONE", "HUMAN_REVIEW", "FAILED_FINAL"}
  ReclaimCount = 1
  MaxPublisherFaults = 1
  MaxWorkerFaults = 1
  MaxRedisLosses = 1
SPECIFICATION LiveSpec
INVARIANTS TypeOK NoItemForgotten VerdictComplete
PROPERTIES AckOnlyFinished KeepsPromise EveryFileFinishes QueueDrains
CHECK_DEADLOCK FALSE
