\* One process starts while another analyses.
SPECIFICATION Spec
CONSTANTS
  r1 = r1 r2 = r2 r3 = r3 api = api worker = worker none = none b1 = b1 b2 = b2
  Runs <- TwoRuns
  Legacy <- NoLegacy
  Apis <- OneApi
  Workers <- OneWorker
  Backfills <- NoBackfill
  MaxTrace = 2
  MaxCrashes = 1
  MaxFaults = 0
  NoProcess = none
INVARIANTS InterruptedRunsAreOver
CHECK_DEADLOCK FALSE
