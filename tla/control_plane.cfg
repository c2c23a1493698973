\* Requests at once at the limit of the queue; exports to one artifact; first starts.
CONSTANTS
  Clients = {c1, c2}
  Keys = {k1}
  Sources = {s1, s2}
  BatchIds = {b1, b2, b3}
  FileCounts = {0, 1, 2, 3}
  MaxBatchItems = 2
  QueueMaxPending = 3
  MaxRequests = 3
  NoKey = NoKey
  NoBatch = NoBatch
  Exporters = {e1, e2}
  MaxFinished = 2
  MaxKills = 1
  NoContent = NoContent
  Starters = {api, worker, cli}
  Versions = {v1, v2, v3}
  MaxDeaths = 2
  NoVersion = NoVersion
SPECIFICATION ControlSpec
INVARIANTS ReplayIsAnswered QueueWithinLimit ExportHonest SelectionServes
CHECK_DEADLOCK FALSE
