\* Redis refuses every attempt to publish one event.
CONSTANTS
  b1 = b1  i1 = i1  i2 = i2  w1 = w1  w2 = w2  p1 = p1
  Batches = {b1}
  Items = {i1}
  BatchOf <- OneFile
  Workers = {w1}
  Publishers = {p1}
  NoItem = NoItem
  MaxPending = 1
  MaxPublishAttempts = 2
  Results = {"DONE"}
  ReclaimCount = 1
  MaxPublisherFaults = 2
  MaxWorkerFaults = 0
  MaxRedisLosses = 0
SPECIFICATION LiveSpec
PROPERTIES AllFilesBecomeFinal
CHECK_DEADLOCK FALSE
