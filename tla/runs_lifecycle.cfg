\* An API and a Worker, a run of an older release, two executions of the backfill.
SPECIFICATION LiveSpec
CONSTANTS
  r1 = r1 r2 = r2 r3 = r3 api = api worker = worker none = none b1 = b1 b2 = b2
  Runs <- ThreeRuns
  Legacy <- OldRun
  Apis <- OneApi
  Workers <- OneWorker
  Backfills <- TwoBackfills
  MaxTrace = 2
  MaxCrashes = 1
  MaxFaults = 1
  NoProcess = none
INVARIANTS ReportFitsStatus ReviewTaskExact AnswerMatchesStore
PROPERTIES FinishedForever EveryRunEnds
CHECK_DEADLOCK FALSE
