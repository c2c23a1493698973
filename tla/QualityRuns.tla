----------------------------- MODULE QualityRuns -----------------------------
(***************************************************************************)
(* The life of a quality-analysis run in PostgreSQL.                       *)
(*                                                                         *)
(* QualityAnalysisService._analyze creates a run row, analyses the         *)
(* transcript, appends the trace and finishes the run, each in a           *)
(* transaction of its own.  The API runs many requests at once, the batch  *)
(* Worker one at a time.  Every process that builds the service first      *)
(* fails the runs it takes for leftovers of a dead process.  A maintenance *)
(* script adds review tasks to the runs of older releases.                 *)
(***************************************************************************)
EXTENDS Integers, FiniteSets

CONSTANTS
  Runs,        \* run ids: one per call of analyze, never reused
  Legacy,      \* PARTIAL runs stored by a release without review tasks
  Apis,        \* processes that serve requests concurrently
  Workers,     \* processes that analyse one file at a time
  Backfills,   \* executions of scripts/backfill_review_tasks.py
  MaxTrace,    \* bound: trace events of a run
  MaxCrashes,  \* bound: deaths of processes
  MaxFaults,   \* bound: database calls that raise
  NoProcess    \* home of a run nobody started

ASSUME RunsAssumption ==
  /\ Legacy \subseteq Runs
  /\ MaxTrace \in Nat \ {0}
  /\ MaxCrashes \in Nat
  /\ MaxFaults \in Nat
  /\ NoProcess \notin Apis \cup Workers

Processes == Apis \cup Workers

VARIABLES
  \* PostgreSQL: committed rows
  run,       \* qc_runs.status
  cause,     \* qc_runs.errors_json: none, of the analysis, or PROCESS_INTERRUPTED
  report,    \* disposition of the qc_reports row
  tasks,     \* number of review_tasks rows of the run
  loopUsed,  \* qc_runs.loop_used
  \* the processes
  up,
  \* the call of analyze that owns the run
  home, pc, outcome, trace, answer,
  \* the backfill executions
  scan,      \* runs read and not yet written; {} outside an execution
  \* bounds
  crashes, faults

stored  == <<run, cause, report, tasks, loopUsed>>
call    == <<home, pc, outcome, trace, answer>>
bounds  == <<crashes, faults>>
vars    == <<stored, up, call, scan, bounds>>

-----------------------------------------------------------------------------
(* Statuses.                                                               *)

Terminal == {"COMPLETED", "PARTIAL", "FAILED"}
RunStatus == {"ABSENT", "RUNNING"} \cup Terminal

(* A call of analyze in progress, and where it is.                         *)
Live == {"analyse", "trace", "finish", "summary"}

(* What analyze gives its caller: a result, or an exception.  CONFLICT is  *)
(* the ValueError of finish_run, which the batch retry policy takes for    *)
(* INVALID_INPUT: the file ends FAILED_FINAL.                              *)
Answers == {"none", "CONFLICT", "RAISED"} \cup Terminal

(* The disposition of the report that is stored with a status.  The gate   *)
(* rejects HUMAN_REVIEW_REQUIRED, so that a COMPLETED report is automatic; *)
(* analyze overwrites the disposition of a PARTIAL one.                    *)
Disposition(status) ==
  CASE status = "COMPLETED" -> "AUTO"
    [] status = "PARTIAL"   -> "HUMAN_REVIEW_REQUIRED"
    [] status = "FAILED"    -> "none"

NeedsReviewTask(status, disposition) ==
  /\ disposition # "none"
  /\ status # "FAILED"
  /\ ~(status = "COMPLETED" /\ disposition = "AUTO")

Fault == faults < MaxFaults /\ faults' = faults + 1

-----------------------------------------------------------------------------
Init ==
  /\ run = [r \in Runs |-> IF r \in Legacy THEN "PARTIAL" ELSE "ABSENT"]
  /\ cause = [r \in Runs |-> IF r \in Legacy THEN "ANALYSIS" ELSE "none"]
  /\ report = [r \in Runs |-> IF r \in Legacy THEN "HUMAN_REVIEW_REQUIRED" ELSE "none"]
  /\ tasks = [r \in Runs |-> 0]
  /\ loopUsed = [r \in Runs |-> FALSE]
  /\ up = [p \in Processes |-> FALSE]
  /\ home = [r \in Runs |-> NoProcess]
  /\ pc = [r \in Runs |-> IF r \in Legacy THEN "over" ELSE "new"]
  /\ outcome = [r \in Runs |-> "none"]
  /\ trace = [r \in Runs |-> 0]
  /\ answer = [r \in Runs |-> "none"]
  /\ scan = [k \in Backfills |-> {}]
  /\ crashes = 0
  /\ faults = 0

(***************************************************************************)
(* Processes.                                                              *)
(***************************************************************************)

(* Faulty variant: the start leaves the unfinished runs alone.             *)
StartOnly(p) ==
  /\ ~up[p]
  /\ up' = [up EXCEPT ![p] = TRUE]
  /\ UNCHANGED <<stored, call, scan, bounds>>

(* Faulty variant: the update has lost its WHERE clause.                   *)
StartFailsAll(p) ==
  /\ ~up[p]
  /\ up' = [up EXCEPT ![p] = TRUE]
  /\ run' = [r \in Runs |-> IF run[r] # "ABSENT" THEN "FAILED" ELSE run[r]]
  /\ UNCHANGED <<cause, report, tasks, loopUsed, call, scan, bounds>>

(* build_service at the start of a process: fail_incomplete_runs closes    *)
(* every RUNNING run there is, whoever executes it.                        *)
Start(p) ==
  /\ ~up[p]
  /\ up' = [up EXCEPT ![p] = TRUE]
  /\ run' = [r \in Runs |-> IF run[r] = "RUNNING" THEN "FAILED" ELSE run[r]]
  /\ cause' = [r \in Runs |-> IF run[r] = "RUNNING" THEN "PROCESS_INTERRUPTED" ELSE cause[r]]
  /\ UNCHANGED <<report, tasks, loopUsed, call, scan, bounds>>

(* The process dies: its calls of analyze never answer.                    *)
Crash(p) ==
  /\ up[p]
  /\ crashes < MaxCrashes
  /\ crashes' = crashes + 1
  /\ up' = [up EXCEPT ![p] = FALSE]
  /\ pc' = [r \in Runs |-> IF home[r] = p /\ pc[r] \in Live THEN "over" ELSE pc[r]]
  /\ UNCHANGED <<stored, home, outcome, trace, answer, scan, faults>>

(***************************************************************************)
(* analyze.                                                                *)
(***************************************************************************)
Return(r, what) ==
  /\ answer' = [answer EXCEPT ![r] = what]
  /\ pc' = [pc EXCEPT ![r] = "over"]

(* A worker handles its files one after the other.                         *)
Free(p) == p \in Workers => \A r \in Runs : ~(home[r] = p /\ pc[r] \in Live)

CreateRun(p, r) ==
  /\ up[p] /\ pc[r] = "new" /\ Free(p)
  /\ home' = [home EXCEPT ![r] = p]
  /\ run' = [run EXCEPT ![r] = "RUNNING"]
  /\ pc' = [pc EXCEPT ![r] = "analyse"]
  /\ UNCHANGED <<cause, report, tasks, loopUsed, up, outcome, trace, answer, scan, bounds>>

(* The insertion raises, before or after its commit.                       *)
CreateRunRaises(p, r) ==
  /\ up[p] /\ pc[r] = "new" /\ Free(p)
  /\ Fault
  /\ home' = [home EXCEPT ![r] = p]
  /\ UNCHANGED run \/ run' = [run EXCEPT ![r] = "RUNNING"]
  /\ Return(r, "RAISED")
  /\ UNCHANGED <<cause, report, tasks, loopUsed, up, outcome, trace, scan, crashes>>

(* Direct analysis, initial gate, agent loop when the gate or the report   *)
(* asks for it, final gate.  A report that needs no loop passes the final  *)
(* gate as it passed the first, and leaves a one-event trace; after a loop *)
(* the report is clean or left to a reviewer.                              *)
Analyse(r) ==
  /\ pc[r] = "analyse"
  /\ \/ /\ outcome' = [outcome EXCEPT ![r] = "COMPLETED"]
        /\ trace' = [trace EXCEPT ![r] = 1]
     \/ \E status \in {"COMPLETED", "PARTIAL"}, n \in 1..MaxTrace :
          /\ outcome' = [outcome EXCEPT ![r] = status]
          /\ trace' = [trace EXCEPT ![r] = n]
  /\ pc' = [pc EXCEPT ![r] = "trace"]
  /\ UNCHANGED <<stored, up, home, answer, scan, bounds>>

(* A PipelineFailure, or any other exception: the run will be FAILED.      *)
AnalyseRaises(r) ==
  /\ pc[r] \in {"analyse", "trace"}
  /\ Fault
  /\ outcome' = [outcome EXCEPT ![r] = "FAILED"]
  /\ trace' = [trace EXCEPT ![r] = 0]
  /\ pc' = [pc EXCEPT ![r] = "finish"]
  /\ UNCHANGED <<stored, up, home, answer, scan, crashes>>

(* append_event, whatever the status of the run.                           *)
AppendEvent(r) ==
  /\ pc[r] = "trace"
  /\ trace[r] > 0
  /\ trace' = [trace EXCEPT ![r] = @ - 1]
  /\ loopUsed' = [loopUsed EXCEPT ![r] = TRUE]
  /\ pc' = [pc EXCEPT ![r] = IF trace[r] = 1 THEN "finish" ELSE "trace"]
  /\ UNCHANGED <<run, cause, report, tasks, up, home, outcome, answer, scan, bounds>>

(* INSERT ... ON CONFLICT DO NOTHING on the run id.                        *)
EnsureTask(n) == IF n = 0 THEN 1 ELSE n

(* The transaction of finish_run: status, report and review task.          *)
WriteResult(r) ==
  /\ run' = [run EXCEPT ![r] = outcome[r]]
  /\ cause' = [cause EXCEPT ![r] = IF outcome[r] = "COMPLETED" THEN "none" ELSE "ANALYSIS"]
  /\ report' = [report EXCEPT ![r] = Disposition(outcome[r])]
  /\ tasks' = [tasks EXCEPT ![r] =
       IF NeedsReviewTask(outcome[r], Disposition(outcome[r])) THEN EnsureTask(@) ELSE @]

(* Faulty variant: the update does not ask for a RUNNING run.              *)
FinishRunAlways(r) ==
  /\ pc[r] = "finish"
  /\ WriteResult(r)
  /\ pc' = [pc EXCEPT ![r] = "summary"]
  /\ UNCHANGED <<loopUsed, up, home, outcome, trace, answer, scan, bounds>>

(* Faulty variant: a run that is already terminal is no error.             *)
FinishRunQuiet(r) ==
  /\ pc[r] = "finish"
  /\ IF run[r] = "RUNNING" THEN WriteResult(r) ELSE UNCHANGED <<run, cause, report, tasks>>
  /\ pc' = [pc EXCEPT ![r] = "summary"]
  /\ UNCHANGED <<loopUsed, up, home, outcome, trace, answer, scan, bounds>>

(* The update is conditional on the run being RUNNING; on a terminal run   *)
(* finish_run raises ValueError, which analyze does not catch.             *)
FinishRun(r) ==
  /\ pc[r] = "finish"
  /\ IF run[r] = "RUNNING"
       THEN /\ WriteResult(r)
            /\ pc' = [pc EXCEPT ![r] = "summary"]
            /\ UNCHANGED answer
       ELSE /\ Return(r, "CONFLICT")
            /\ UNCHANGED <<run, cause, report, tasks>>
  /\ UNCHANGED <<loopUsed, up, home, outcome, trace, scan, bounds>>

(* The database raises, before or after the commit.                        *)
FinishRunRaises(r) ==
  /\ pc[r] = "finish"
  /\ Fault
  /\ \/ UNCHANGED <<run, cause, report, tasks>>
     \/ run[r] = "RUNNING" /\ WriteResult(r)
  /\ Return(r, "RAISED")
  /\ UNCHANGED <<loopUsed, up, home, outcome, trace, scan, crashes>>

(* A PARTIAL result carries the summary of its review task.                *)
Answer(r) ==
  /\ pc[r] = "summary"
  /\ Return(r, outcome[r])
  /\ UNCHANGED <<stored, up, home, outcome, trace, scan, bounds>>

AnswerRaises(r) ==
  /\ pc[r] = "summary" /\ outcome[r] = "PARTIAL"
  /\ Fault
  /\ Return(r, "RAISED")
  /\ UNCHANGED <<stored, up, home, outcome, trace, scan, crashes>>

(***************************************************************************)
(* The backfill script: one transaction reads the PARTIAL runs and inserts *)
(* the tasks they lack.  What it read may be old when it commits.          *)
(***************************************************************************)
LacksTask(r) ==
  /\ run[r] = "PARTIAL" /\ NeedsReviewTask(run[r], report[r])
  /\ tasks[r] = 0

BackfillRead(k) ==
  /\ scan[k] = {}
  /\ {r \in Runs : LacksTask(r)} # {}
  /\ scan' = [scan EXCEPT ![k] = {r \in Runs : LacksTask(r)}]
  /\ UNCHANGED <<stored, up, call, bounds>>

(* Faulty variant: a plain INSERT on a table without the unique key.       *)
BackfillInserts(k) ==
  /\ scan[k] # {}
  /\ tasks' = [r \in Runs |-> IF r \in scan[k] THEN tasks[r] + 1 ELSE tasks[r]]
  /\ scan' = [scan EXCEPT ![k] = {}]
  /\ UNCHANGED <<run, cause, report, loopUsed, up, call, bounds>>

BackfillCommit(k) ==
  /\ scan[k] # {}
  /\ tasks' = [r \in Runs |-> IF r \in scan[k] THEN EnsureTask(tasks[r]) ELSE tasks[r]]
  /\ scan' = [scan EXCEPT ![k] = {}]
  /\ UNCHANGED <<run, cause, report, loopUsed, up, call, bounds>>

BackfillCrash(k) ==
  /\ scan[k] # {}
  /\ crashes < MaxCrashes
  /\ crashes' = crashes + 1
  /\ scan' = [scan EXCEPT ![k] = {}]
  /\ UNCHANGED <<stored, up, call, faults>>

-----------------------------------------------------------------------------
CallStep(r) ==
  Analyse(r) \/ AppendEvent(r) \/ FinishRun(r) \/ Answer(r)

CallFault(r) ==
  AnalyseRaises(r) \/ FinishRunRaises(r) \/ AnswerRaises(r)

Next ==
  \/ \E p \in Processes :
       \/ Start(p) \/ Crash(p)
       \/ \E r \in Runs : CreateRun(p, r) \/ CreateRunRaises(p, r)
  \/ \E r \in Runs : CallStep(r) \/ CallFault(r)
  \/ \E k \in Backfills : BackfillRead(k) \/ BackfillCommit(k) \/ BackfillCrash(k)

Spec == Init /\ [][Next]_vars

(* A call in progress goes on; a process that died is started again.       *)
Fairness ==
  /\ \A p \in Processes : WF_vars(Start(p))
  /\ \A r \in Runs : WF_vars(CallStep(r))

LiveSpec == Spec /\ Fairness

-----------------------------------------------------------------------------
(***************************************************************************)
(* Properties.                                                             *)
(***************************************************************************)

(* Every variable has its type; in particular no call appends more trace   *)
(* events than its analysis produced.                                      *)
TypeOK ==
  /\ run \in [Runs -> RunStatus]
  /\ cause \in [Runs -> {"none", "ANALYSIS", "PROCESS_INTERRUPTED"}]
  /\ report \in [Runs -> {"none", "AUTO", "HUMAN_REVIEW_REQUIRED"}]
  /\ tasks \in [Runs -> Nat]
  /\ loopUsed \in [Runs -> BOOLEAN]
  /\ up \in [Processes -> BOOLEAN]
  /\ home \in [Runs -> Processes \cup {NoProcess}]
  /\ pc \in [Runs -> {"new", "over"} \cup Live]
  /\ outcome \in [Runs -> {"none"} \cup Terminal]
  /\ trace \in [Runs -> 0..MaxTrace]
  /\ answer \in [Runs -> Answers]
  /\ scan \in [Backfills -> SUBSET Runs]
  /\ crashes \in Nat /\ faults \in Nat

(* The rows of a run agree with each other whatever was interrupted: the   *)
(* report is there exactly when the run is COMPLETED or PARTIAL, it is     *)
(* automatic in the first case and left to a reviewer in the second, and a *)
(* FAILED run, also one failed under a living analysis, has none.          *)
ReportFitsStatus ==
  \A r \in Runs :
    report[r] = IF run[r] \in Terminal THEN Disposition(run[r]) ELSE "none"

(* One review task for each run that needs a reviewer, and none for the    *)
(* others, however the finish of runs and the backfill executions          *)
(* interleave; only a run of an older release may still lack its task.     *)
ReviewTaskExact ==
  \A r \in Runs :
    /\ tasks[r] \in {0, 1}
    /\ tasks[r] = 1 => run[r] = "PARTIAL"
    /\ run[r] = "PARTIAL" /\ tasks[r] = 0 => r \in Legacy

(* The result analyze answers is the one in the database, from then on: a  *)
(* caller is never told COMPLETED or PARTIAL of a run that another process *)
(* has failed meanwhile, and a PARTIAL result has its review task.         *)
AnswerMatchesStore ==
  \A r \in Runs :
    /\ answer[r] \in Terminal => run[r] = answer[r]
    /\ answer[r] = "PARTIAL" => tasks[r] = 1

(***************************************************************************)
(* The inductive invariant behind the invariants above.                    *)
(***************************************************************************)

(* What a call of analyze knows at each point, and what nobody has         *)
(* touched before its first transaction.                                   *)
CallsInStep ==
  \A r \in Runs :
    /\ pc[r] = "new" => run[r] = "ABSENT"
    /\ pc[r] # "over" => r \notin Legacy
    /\ answer[r] # "none" => pc[r] = "over"
    /\ pc[r] = "trace" => trace[r] > 0
    /\ pc[r] \in {"trace", "finish"} => outcome[r] \in Terminal
    /\ pc[r] = "summary" => outcome[r] \in Terminal /\ run[r] = outcome[r]

(* A backfill holds runs that are PARTIAL for good.                        *)
ScansPartial ==
  \A k \in Backfills : \A r \in scan[k] : run[r] = "PARTIAL"

IInv ==
  /\ TypeOK
  /\ CallsInStep
  /\ ScansPartial
  /\ ReportFitsStatus
  /\ ReviewTaskExact
  /\ AnswerMatchesStore

(* A finished run is never written again: neither its status nor its       *)
(* report nor its errors, by a late finish, a restart or a backfill.       *)
FinishedForever ==
  [][\A r \in Runs : run[r] \in Terminal =>
       run'[r] = run[r] /\ report'[r] = report[r] /\ cause'[r] = cause[r]]_vars

(* No run stays RUNNING for ever, unless a living process could not write  *)
(* its end: then the run waits for the next start of a process.            *)
EveryRunEnds ==
  \A r \in Runs : run[r] = "RUNNING" ~> run[r] \in Terminal \/ answer[r] = "RAISED"

(* A run marked PROCESS_INTERRUPTED, "the task was not complete when the   *)
(* previous process ended", is not being executed.  The code breaks this:  *)
(* the start of any process fails the runs of all the living ones.         *)
InterruptedRunsAreOver ==
  \A r \in Runs : cause[r] = "PROCESS_INTERRUPTED" => pc[r] \notin Live
=============================================================================
