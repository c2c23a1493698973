\* Two commands on one batch: the second one takes the first one's files over.
CONSTANTS
  f1 = f1  f2 = f2  c1 = c1  c2 = c2
  Files = {f1, f2}
  Commands = {c1, c2}
  Pool = 1
  MaxAttempts = 2
  MaxOverlaps = 1
  MaxCrashes = 1
  Nothing = Nothing
SPECIFICATION LiveSpec
PROPERTIES FinalResultStays ResumeFinishes
CHECK_DEADLOCK FALSE
