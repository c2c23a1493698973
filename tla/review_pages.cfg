\* Two review pages on two tasks: one retries and switches tasks, the other competes.
SPECIFICATION Spec
CONSTANTS
  t1 = t1 t2 = t2 p1 = p1 p2 = p2
  Tasks <- TwoTasks
  Pages <- TwoPages
  Outcomes <- Drafts
  Default = "CONFIRMED_PASS"
  MaxLoads <- FewLoads
  MaxSends <- FewSends
  None = None
SYMMETRY TasksAlike
INVARIANTS DecisionExact SuccessIsTrue NoFalseConflict NoBlindSubmit
PROPERTIES DecidedForever
CHECK_DEADLOCK FALSE
