\* Two threads share the two model processes behind one permit (gpu_workers).
CONSTANTS
  t1 = t1  t2 = t2  f1 = f1  f2 = f2
  Threads = {t1, t2}
  Files = {f1, f2}
  Permits = 1
  Slots = 4
  MaxFaults = 1
  MaxDeaths = 1
  Nothing = Nothing
SPECIFICATION LiveSpec
INVARIANTS AnswerIsOfRequest OneModelInLowMemory
PROPERTIES EveryCallReturns
