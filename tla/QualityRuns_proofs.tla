------------------------- MODULE QualityRuns_proofs -------------------------
(***************************************************************************)
(* Theorems about QualityRuns, for any number of runs, processes and       *)
(* backfill executions and every value of the bounds.                      *)
(***************************************************************************)
EXTENDS QualityRuns, TLAPS

(* The strengthened invariant is kept by every step.                       *)
LEMMA Inductive == IInv /\ [Next]_vars => IInv'
<1> SUFFICES ASSUME IInv, [Next]_vars PROVE IInv'
  OBVIOUS
<1> USE RunsAssumption
<1> USE DEF IInv, TypeOK, CallsInStep, Terminal, Live, RunStatus, Answers, Disposition, stored, call, bounds
<1>1. ASSUME NEW p \in Processes, Start(p)
      PROVE  IInv'
  <2>1. TypeOK'
    BY <1>1 DEF Start, TypeOK
  <2>2. CallsInStep'
    BY <1>1 DEF Start, CallsInStep
  <2>3. ScansPartial'
    BY <1>1 DEF Start, ScansPartial
  <2>4. ReportFitsStatus'
    BY <1>1 DEF Start, ReportFitsStatus
  <2>5. ReviewTaskExact'
    BY <1>1 DEF Start, ReviewTaskExact
  <2>6. AnswerMatchesStore'
    BY <1>1 DEF Start, AnswerMatchesStore
  <2> QED
    BY <2>1, <2>2, <2>3, <2>4, <2>5, <2>6
<1>2. ASSUME NEW p \in Processes, Crash(p)
      PROVE  IInv'
  <2>1. TypeOK'
    BY <1>2 DEF Crash, TypeOK
  <2>2. CallsInStep'
    BY <1>2 DEF Crash, CallsInStep
  <2>3. ScansPartial'
    BY <1>2 DEF Crash, ScansPartial
  <2>4. ReportFitsStatus'
    BY <1>2 DEF Crash, ReportFitsStatus
  <2>5. ReviewTaskExact'
    BY <1>2 DEF Crash, ReviewTaskExact
  <2>6. AnswerMatchesStore'
    BY <1>2 DEF Crash, AnswerMatchesStore
  <2> QED
    BY <2>1, <2>2, <2>3, <2>4, <2>5, <2>6
<1>3. ASSUME NEW p \in Processes, NEW r \in Runs, CreateRun(p, r)
      PROVE  IInv'
  <2>1. TypeOK'
    BY <1>3 DEF CreateRun, TypeOK
  <2>2. CallsInStep'
    BY <1>3 DEF CreateRun, CallsInStep
  <2>3. ScansPartial'
    BY <1>3 DEF CreateRun, ScansPartial
  <2>4. ReportFitsStatus'
    BY <1>3 DEF CreateRun, ReportFitsStatus
  <2>5. ReviewTaskExact'
    BY <1>3 DEF CreateRun, ReviewTaskExact
  <2>6. AnswerMatchesStore'
    BY <1>3 DEF CreateRun, AnswerMatchesStore
  <2> QED
    BY <2>1, <2>2, <2>3, <2>4, <2>5, <2>6
<1>4. ASSUME NEW p \in Processes, NEW r \in Runs, CreateRunRaises(p, r)
      PROVE  IInv'
  <2>1. TypeOK'
    BY <1>4 DEF CreateRunRaises, Return, Fault, TypeOK
  <2>2. CallsInStep'
    BY <1>4 DEF CreateRunRaises, Return, Fault, CallsInStep
  <2>3. ScansPartial'
    BY <1>4 DEF CreateRunRaises, Return, Fault, ScansPartial
  <2>4. ReportFitsStatus'
    BY <1>4 DEF CreateRunRaises, Return, Fault, ReportFitsStatus
  <2>5. ReviewTaskExact'
    BY <1>4 DEF CreateRunRaises, Return, Fault, ReviewTaskExact
  <2>6. AnswerMatchesStore'
    BY <1>4 DEF CreateRunRaises, Return, Fault, AnswerMatchesStore
  <2> QED
    BY <2>1, <2>2, <2>3, <2>4, <2>5, <2>6
<1>5. ASSUME NEW r \in Runs, Analyse(r)
      PROVE  IInv'
  <2>1. TypeOK'
    BY <1>5 DEF Analyse, TypeOK
  <2>2. CallsInStep'
    BY <1>5 DEF Analyse, CallsInStep
  <2>3. ScansPartial'
    BY <1>5 DEF Analyse, ScansPartial
  <2>4. ReportFitsStatus'
    BY <1>5 DEF Analyse, ReportFitsStatus
  <2>5. ReviewTaskExact'
    BY <1>5 DEF Analyse, ReviewTaskExact
  <2>6. AnswerMatchesStore'
    BY <1>5 DEF Analyse, AnswerMatchesStore
  <2> QED
    BY <2>1, <2>2, <2>3, <2>4, <2>5, <2>6
<1>6. ASSUME NEW r \in Runs, AnalyseRaises(r)
      PROVE  IInv'
  <2>1. TypeOK'
    BY <1>6 DEF AnalyseRaises, Fault, TypeOK
  <2>2. CallsInStep'
    BY <1>6 DEF AnalyseRaises, Fault, CallsInStep
  <2>3. ScansPartial'
    BY <1>6 DEF AnalyseRaises, Fault, ScansPartial
  <2>4. ReportFitsStatus'
    BY <1>6 DEF AnalyseRaises, Fault, ReportFitsStatus
  <2>5. ReviewTaskExact'
    BY <1>6 DEF AnalyseRaises, Fault, ReviewTaskExact
  <2>6. AnswerMatchesStore'
    BY <1>6 DEF AnalyseRaises, Fault, AnswerMatchesStore
  <2> QED
    BY <2>1, <2>2, <2>3, <2>4, <2>5, <2>6
<1>7. ASSUME NEW r \in Runs, AppendEvent(r)
      PROVE  IInv'
  <2>1. TypeOK'
    BY <1>7 DEF AppendEvent, TypeOK
  <2>2. CallsInStep'
    BY <1>7 DEF AppendEvent, CallsInStep
  <2>3. ScansPartial'
    BY <1>7 DEF AppendEvent, ScansPartial
  <2>4. ReportFitsStatus'
    BY <1>7 DEF AppendEvent, ReportFitsStatus
  <2>5. ReviewTaskExact'
    BY <1>7 DEF AppendEvent, ReviewTaskExact
  <2>6. AnswerMatchesStore'
    BY <1>7 DEF AppendEvent, AnswerMatchesStore
  <2> QED
    BY <2>1, <2>2, <2>3, <2>4, <2>5, <2>6
<1>8. ASSUME NEW r \in Runs, FinishRun(r)
      PROVE  IInv'
  <2>1. TypeOK'
    BY <1>8 DEF FinishRun, WriteResult, Return, EnsureTask, NeedsReviewTask, TypeOK
  <2>2. CallsInStep'
    BY <1>8 DEF FinishRun, WriteResult, Return, EnsureTask, NeedsReviewTask, CallsInStep
  <2>3. ScansPartial'
    BY <1>8 DEF FinishRun, WriteResult, Return, EnsureTask, NeedsReviewTask, ScansPartial
  <2>4. ReportFitsStatus'
    BY <1>8 DEF FinishRun, WriteResult, Return, EnsureTask, NeedsReviewTask, ReportFitsStatus
  <2>5. ReviewTaskExact'
    BY <1>8 DEF FinishRun, WriteResult, Return, EnsureTask, NeedsReviewTask, ReviewTaskExact
  <2>6. AnswerMatchesStore'
    BY <1>8 DEF FinishRun, WriteResult, Return, EnsureTask, NeedsReviewTask, AnswerMatchesStore
  <2> QED
    BY <2>1, <2>2, <2>3, <2>4, <2>5, <2>6
<1>9. ASSUME NEW r \in Runs, FinishRunRaises(r)
      PROVE  IInv'
  <2>1. TypeOK'
    BY <1>9 DEF FinishRunRaises, WriteResult, Return, Fault, EnsureTask, NeedsReviewTask, TypeOK
  <2>2. CallsInStep'
    BY <1>9 DEF FinishRunRaises, WriteResult, Return, Fault, EnsureTask, NeedsReviewTask, CallsInStep
  <2>3. ScansPartial'
    BY <1>9 DEF FinishRunRaises, WriteResult, Return, Fault, EnsureTask, NeedsReviewTask, ScansPartial
  <2>4. ReportFitsStatus'
    BY <1>9 DEF FinishRunRaises, WriteResult, Return, Fault, EnsureTask, NeedsReviewTask, ReportFitsStatus
  <2>5. ReviewTaskExact'
    BY <1>9 DEF FinishRunRaises, WriteResult, Return, Fault, EnsureTask, NeedsReviewTask, ReviewTaskExact
  <2>6. AnswerMatchesStore'
    BY <1>9 DEF FinishRunRaises, WriteResult, Return, Fault, EnsureTask, NeedsReviewTask, AnswerMatchesStore
  <2> QED
    BY <2>1, <2>2, <2>3, <2>4, <2>5, <2>6
<1>10. ASSUME NEW r \in Runs, Answer(r)
      PROVE  IInv'
  <2>1. TypeOK'
    BY <1>10 DEF Answer, Return, TypeOK
  <2>2. CallsInStep'
    BY <1>10 DEF Answer, Return, CallsInStep
  <2>3. ScansPartial'
    BY <1>10 DEF Answer, Return, ScansPartial
  <2>4. ReportFitsStatus'
    BY <1>10 DEF Answer, Return, ReportFitsStatus
  <2>5. ReviewTaskExact'
    BY <1>10 DEF Answer, Return, ReviewTaskExact
  <2>6. AnswerMatchesStore'
    BY <1>10 DEF Answer, Return, AnswerMatchesStore, ReviewTaskExact
  <2> QED
    BY <2>1, <2>2, <2>3, <2>4, <2>5, <2>6
<1>11. ASSUME NEW r \in Runs, AnswerRaises(r)
      PROVE  IInv'
  <2>1. TypeOK'
    BY <1>11 DEF AnswerRaises, Return, Fault, TypeOK
  <2>2. CallsInStep'
    BY <1>11 DEF AnswerRaises, Return, Fault, CallsInStep
  <2>3. ScansPartial'
    BY <1>11 DEF AnswerRaises, Return, Fault, ScansPartial
  <2>4. ReportFitsStatus'
    BY <1>11 DEF AnswerRaises, Return, Fault, ReportFitsStatus
  <2>5. ReviewTaskExact'
    BY <1>11 DEF AnswerRaises, Return, Fault, ReviewTaskExact
  <2>6. AnswerMatchesStore'
    BY <1>11 DEF AnswerRaises, Return, Fault, AnswerMatchesStore
  <2> QED
    BY <2>1, <2>2, <2>3, <2>4, <2>5, <2>6
<1>12. ASSUME NEW k \in Backfills, BackfillRead(k)
      PROVE  IInv'
  <2>1. TypeOK'
    BY <1>12 DEF BackfillRead, LacksTask, TypeOK
  <2>2. CallsInStep'
    BY <1>12 DEF BackfillRead, LacksTask, CallsInStep
  <2>3. ScansPartial'
    BY <1>12 DEF BackfillRead, LacksTask, ScansPartial
  <2>4. ReportFitsStatus'
    BY <1>12 DEF BackfillRead, LacksTask, ReportFitsStatus
  <2>5. ReviewTaskExact'
    BY <1>12 DEF BackfillRead, LacksTask, ReviewTaskExact
  <2>6. AnswerMatchesStore'
    BY <1>12 DEF BackfillRead, LacksTask, AnswerMatchesStore
  <2> QED
    BY <2>1, <2>2, <2>3, <2>4, <2>5, <2>6
<1>13. ASSUME NEW k \in Backfills, BackfillCommit(k)
      PROVE  IInv'
  <2>1. TypeOK'
    BY <1>13 DEF BackfillCommit, EnsureTask, TypeOK
  <2>2. CallsInStep'
    BY <1>13 DEF BackfillCommit, EnsureTask, CallsInStep
  <2>3. ScansPartial'
    BY <1>13 DEF BackfillCommit, EnsureTask, ScansPartial
  <2>4. ReportFitsStatus'
    BY <1>13 DEF BackfillCommit, EnsureTask, ReportFitsStatus
  <2>5. ReviewTaskExact'
    BY <1>13 DEF BackfillCommit, EnsureTask, ReviewTaskExact, ScansPartial
  <2>6. AnswerMatchesStore'
    BY <1>13 DEF BackfillCommit, EnsureTask, AnswerMatchesStore
  <2> QED
    BY <2>1, <2>2, <2>3, <2>4, <2>5, <2>6
<1>14. ASSUME NEW k \in Backfills, BackfillCrash(k)
      PROVE  IInv'
  <2>1. TypeOK'
    BY <1>14 DEF BackfillCrash, TypeOK
  <2>2. CallsInStep'
    BY <1>14 DEF BackfillCrash, CallsInStep
  <2>3. ScansPartial'
    BY <1>14 DEF BackfillCrash, ScansPartial
  <2>4. ReportFitsStatus'
    BY <1>14 DEF BackfillCrash, ReportFitsStatus
  <2>5. ReviewTaskExact'
    BY <1>14 DEF BackfillCrash, ReviewTaskExact
  <2>6. AnswerMatchesStore'
    BY <1>14 DEF BackfillCrash, AnswerMatchesStore
  <2> QED
    BY <2>1, <2>2, <2>3, <2>4, <2>5, <2>6
<1>15. CASE UNCHANGED vars
  BY <1>15 DEF vars, stored, call, bounds, TypeOK, CallsInStep, ScansPartial, ReportFitsStatus,
               ReviewTaskExact, AnswerMatchesStore
<1>16. QED
  BY <1>1, <1>2, <1>3, <1>4, <1>5, <1>6, <1>7, <1>8, <1>9, <1>10, <1>11, <1>12, <1>13, <1>14, <1>15
     DEF Next, CallStep, CallFault

(* Every reachable state satisfies the strengthened invariant.             *)
LEMMA Strengthened == Spec => []IInv
<1>1. Init => IInv
  BY RunsAssumption DEF Init, IInv, TypeOK, CallsInStep, ScansPartial, ReportFitsStatus, ReviewTaskExact,
     AnswerMatchesStore, RunStatus, Terminal, Answers, Live, Disposition, Processes
<1>2. QED
  BY <1>1, Inductive, PTL DEF Spec

(* A run's status and its report always agree, whatever is interrupted.    *)
THEOREM ReportsFit == Spec => []ReportFitsStatus
<1>1. IInv => ReportFitsStatus
  BY DEF IInv
<1>2. QED
  BY <1>1, Strengthened, PTL

(* Each run that needs a reviewer has one review task, the others none.    *)
THEOREM TasksExact == Spec => []ReviewTaskExact
<1>1. IInv => ReviewTaskExact
  BY DEF IInv
<1>2. QED
  BY <1>1, Strengthened, PTL

(* What analyze answers is what the database holds, from then on.          *)
THEOREM AnswersTrue == Spec => []AnswerMatchesStore
<1>1. IInv => AnswerMatchesStore
  BY DEF IInv
<1>2. QED
  BY <1>1, Strengthened, PTL

(* Nothing a step does rewrites a finished run.                            *)
LEMMA StepKeepsFinished ==
  ASSUME IInv, [Next]_vars, NEW q \in Runs, run[q] \in Terminal
  PROVE  run'[q] = run[q] /\ report'[q] = report[q] /\ cause'[q] = cause[q]
<1> USE DEF IInv, TypeOK, CallsInStep, Terminal, stored
<1>1. CASE \E p \in Processes : Start(p)
  BY <1>1 DEF Start
<1>2. CASE \E p \in Processes, r \in Runs : CreateRun(p, r) \/ CreateRunRaises(p, r)
  BY <1>2 DEF CreateRun, CreateRunRaises
<1>3. CASE \E r \in Runs : FinishRun(r) \/ FinishRunRaises(r)
  BY <1>3 DEF FinishRun, FinishRunRaises, WriteResult
<1>4. CASE UNCHANGED <<run, cause, report>>
  BY <1>4
<1>5. QED
  BY <1>1, <1>2, <1>3, <1>4 DEF Next, CallStep, CallFault, Crash, Analyse, AnalyseRaises, AppendEvent,
     Answer, AnswerRaises, BackfillRead, BackfillCommit, BackfillCrash, vars

(* A finished run is never rewritten, by nobody.                           *)
THEOREM FinishedStays == Spec => FinishedForever
<1>1. IInv /\ [Next]_vars => [\A r \in Runs : run[r] \in Terminal =>
       run'[r] = run[r] /\ report'[r] = report[r] /\ cause'[r] = cause[r]]_vars
  BY StepKeepsFinished
<1>2. QED
  BY <1>1, Strengthened, PTL DEF Spec, FinishedForever
=============================================================================
