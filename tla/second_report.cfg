\* A Worker dies between the persisted report and its checkpoint.
SPECIFICATION Spec
CONSTANTS
  Outputs = {1}
  Verdicts = {"DONE"}
  MaxAttempts = 1
  MaxFaults = 1
  MaxDamages = 0
  MaxUpgrades = 0
  Nothing = Nothing
INVARIANTS OneReport
CHECK_DEADLOCK FALSE
