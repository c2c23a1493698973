\* The one deployed Worker, killed, redelivered, upgraded and with a damaged artifact.
SPECIFICATION LiveSpec
CONSTANTS
  Outputs = {1, 2}
  Verdicts = {"DONE"}
  MaxAttempts = 2
  MaxFaults = 1
  MaxDamages = 1
  MaxUpgrades = 1
  Nothing = Nothing
INVARIANTS CheckpointsAgree ResultMatchesRequest GivenUpForCause
PROPERTIES NoNeedlessAttempt FileEnds
CHECK_DEADLOCK FALSE
