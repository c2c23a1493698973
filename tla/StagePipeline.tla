---------------------------- MODULE StagePipeline ----------------------------
(***************************************************************************)
(* How a Worker runs one file of a batch: the stages TRANSCODE, ASR,       *)
(* EMOTION and QC, each with its rows in stage_executions and its artifact *)
(* in the artifact store, so that an execution that dies is continued from *)
(* the last valid checkpoint.                                              *)
(*                                                                         *)
(* One action is one database transaction, one access to the artifact      *)
(* store or one stage action.  Claims, redeliveries and final statuses are *)
(* those of BatchDelivery, seen from one item and from the one Worker that *)
(* is deployed: an execution ends before the next one starts.              *)
(***************************************************************************)
EXTENDS Integers, Sequences, FiniteSets

CONSTANTS
  Outputs,         \* distinguishable outputs of a transcoding, of a transcription
  Verdicts,        \* final statuses an analysis may lead to
  MaxAttempts,     \* max_attempts of the batch configuration
  MaxFaults,       \* bound: crashes and raised calls
  MaxDamages,      \* bound: artifacts lost or damaged
  MaxUpgrades,     \* bound: deployments of another producer version
  Nothing          \* no value

ASSUME StageAssumption ==
  /\ MaxAttempts \in Nat \ {0}
  /\ MaxFaults \in Nat /\ MaxDamages \in Nat /\ MaxUpgrades \in Nat
  /\ Verdicts \subseteq {"DONE", "HUMAN_REVIEW"}

VARIABLES
  item,       \* batch_items.status; FINAL stands for the three final ones
  rows,       \* stage_executions of the item, in the order of their ids
  file,       \* the artifact at the fixed URI of each stage
  reports,    \* completed quality runs, with their report, of this file
  result,     \* what the finalisation wrote
  run,        \* the execution: program counter and local variables
  deployed,   \* version of the audio producers that is deployed
  faults, damages

vars == <<item, rows, file, reports, result, run, deployed, faults, damages>>

Stages == {"TRANSCODE", "ASR", "EMOTION", "QC"}
Following == [TRANSCODE |-> "ASR", ASR |-> "EMOTION", EMOTION |-> "QC"]

(* Faulty variant: a new transcript leaves the analysis of the old one.    *)
DownstreamOfWavOnly ==
  [TRANSCODE |-> {"ASR", "EMOTION", "QC"}, ASR |-> {}, EMOTION |-> {}, QC |-> {}]

(* The stages whose artifacts are made, directly or not, from a stage's.   *)
Downstream == [TRANSCODE |-> {"ASR", "EMOTION", "QC"}, ASR |-> {"QC"}, EMOTION |-> {}, QC |-> {}]

(* An artifact is what it was made from and which output it is; it stands  *)
(* for its SHA-256 too.                                                    *)
Wavs == [from : {Nothing}, n : Outputs]
Transcripts == [from : Wavs, n : Outputs]
Emotions == [from : Wavs, n : {1}]
Analyses == [from : Transcripts, n : Verdicts]
Artifacts == [TRANSCODE |-> Wavs, ASR |-> Transcripts, EMOTION |-> Emotions, QC |-> Analyses]

(* What the finalisation writes.                                           *)
FileResults == [status : Verdicts \cup {"FAILED_FINAL"}, turns : Transcripts \cup {Nothing},
                analysis : Analyses \cup {Nothing}]

ASSUME NothingAssumption ==
  /\ \A s \in Stages : Nothing \notin Artifacts[s]
  /\ Nothing \notin FileResults

(* Index of the latest row of a stage, 0 if it has none.                   *)
Last(s) ==
  LET I == {k \in DOMAIN rows : rows[k].stage = s}
  IN  IF I = {} THEN 0 ELSE CHOOSE k \in I : \A j \in I : j <= k

StatusIs(s, st) == Last(s) # 0 /\ rows[Last(s)].status = st

Attempts(s) == IF Last(s) = 0 THEN 0 ELSE rows[Last(s)].attempts

(* The file is what its latest row records.                                *)
Usable(s) == StatusIs(s, "DONE") /\ file[s] = rows[Last(s)].sha

(* batch-qc-v1 is a literal; the audio runner versions its own stages.     *)
ProducerVersion(s) == IF s = "QC" THEN 0 ELSE run.version

(* A failed stage that must not run again.                                 *)
Exhausted(s) ==
  StatusIs(s, "FAILED") /\ (~rows[Last(s)].retryable \/ Attempts(s) >= MaxAttempts)

Idle == [pc |-> "off", stage |-> "TRANSCODE", late |-> FALSE, version |-> 0, attempt |-> 0,
         sha |-> Nothing, made |-> Nothing, slow |-> FALSE, retry |-> FALSE,
         turns |-> Nothing, failed |-> FALSE]

Fault == faults < MaxFaults /\ faults' = faults + 1

Local == <<item, rows, file, reports, result, deployed, faults, damages>>
World == <<item, file, reports, result, deployed, damages>>

Running == run.pc # "off"
At(pc) == run.pc = pc
Goto(pc) == run' = [run EXCEPT !.pc = pc]

-----------------------------------------------------------------------------
Init ==
  /\ item = "PENDING"
  /\ rows = <<>>
  /\ file = [s \in Stages |-> Nothing]
  /\ reports = 0
  /\ result = Nothing
  /\ run = Idle
  /\ deployed = 0
  /\ faults = 0
  /\ damages = 0

(***************************************************************************)
(* The item: claim, redelivery, final status.                              *)
(***************************************************************************)

(* Faulty variant: an interrupted file is not taken up again.              *)
ClaimPendingOnly ==
  /\ At("off")
  /\ item = "PENDING"
  /\ item' = "RUNNING"
  /\ run' = [Idle EXCEPT !.pc = "enter", !.version = deployed]
  /\ UNCHANGED <<rows, file, reports, result, deployed, faults, damages>>

(* claim_file, then process_file with a fresh deadline.                    *)
Claim ==
  /\ At("off")
  /\ item \in {"PENDING", "INTERRUPTED"}
  /\ item' = "RUNNING"
  /\ run' = [Idle EXCEPT !.pc = "enter", !.version = deployed]
  /\ UNCHANGED <<rows, file, reports, result, deployed, faults, damages>>

(* The message of a RUNNING item is reclaimed: its execution died.         *)
Expire ==
  /\ item = "RUNNING" /\ ~Running
  /\ item' = "INTERRUPTED"
  /\ UNCHANGED <<rows, file, reports, result, run, deployed, faults, damages>>

(* process_file returned and the Worker finalises the item, which one      *)
(* Worker always finds RUNNING.  The result holds the request that was     *)
(* built and the analysis.  (BatchDelivery has the dead letter.)           *)
Finalize ==
  /\ At("final") /\ item = "RUNNING"
  /\ item' = "FINAL"
  /\ result' = IF run.failed
       THEN [status |-> "FAILED_FINAL", turns |-> Nothing, analysis |-> Nothing]
       ELSE [status |-> run.made.n, turns |-> run.turns, analysis |-> run.made]
  /\ run' = Idle
  /\ UNCHANGED <<rows, file, reports, deployed, faults, damages>>

(* An exception other than a stage failure reached the Worker.             *)
Interrupt ==
  /\ At("interrupt") /\ item = "RUNNING"
  /\ item' = "INTERRUPTED"
  /\ run' = Idle
  /\ UNCHANGED <<rows, file, reports, result, deployed, faults, damages>>

(***************************************************************************)
(* execute_stage                                                           *)
(***************************************************************************)

(* The stage has its value; the analysis ends the file.                    *)
Finished(value) ==
  LET s == run.stage
      done == [run EXCEPT !.attempt = 0, !.sha = Nothing, !.slow = FALSE, !.retry = FALSE]
  IN  run' =
        IF s = "QC" THEN [done EXCEPT !.pc = "final", !.made = value]
        ELSE [done EXCEPT !.pc = "enter", !.stage = Following[s], !.made = Nothing,
                          !.turns = IF s = "ASR" THEN value ELSE @]

(* A BatchStageFailure leaves process_file: the file is FAILED_FINAL.      *)
GiveUp == run' = [run EXCEPT !.pc = "final", !.failed = TRUE, !.made = Nothing]

(* The deadline, then the checkpoint's row.                                *)
Enter ==
  /\ At("enter")
  /\ LET s == run.stage IN
     IF run.late THEN GiveUp
     ELSE IF StatusIs(s, "DONE") /\ rows[Last(s)].version = ProducerVersion(s)
       THEN run' = [run EXCEPT !.pc = "verify", !.sha = rows[Last(s)].sha]
       ELSE Goto("check")
  /\ UNCHANGED Local

(* The artifact must have the recorded hash.  The wav is passed on as a    *)
(* path, the others are read.                                              *)
Verify ==
  /\ At("verify")
  /\ LET s == run.stage IN
     IF file[s] # run.sha THEN run' = [run EXCEPT !.pc = "check", !.sha = Nothing]
     ELSE IF s = "TRANSCODE" THEN Finished(Nothing)
     ELSE Goto("read")
  /\ UNCHANGED Local

ReadArtifact ==
  /\ At("read")
  /\ IF file[run.stage] = Nothing
       THEN run' = [run EXCEPT !.pc = "check", !.sha = Nothing]
       ELSE Finished(file[run.stage])
  /\ UNCHANGED Local

(* Faulty variant: only the number of attempts ends a stage.               *)
CheckAttemptsOnly ==
  /\ At("check")
  /\ IF StatusIs(run.stage, "FAILED") /\ Attempts(run.stage) >= MaxAttempts
       THEN GiveUp
       ELSE Goto("invalidate")
  /\ UNCHANGED Local

(* What an earlier execution recorded may be final.                        *)
Check ==
  /\ At("check")
  /\ IF Exhausted(run.stage) THEN GiveUp ELSE Goto("invalidate")
  /\ UNCHANGED Local

(* Faulty variant: only failed stages are invalidated.                     *)
InvalidateFailed ==
  /\ At("invalidate")
  /\ rows' = [k \in DOMAIN rows |->
       IF \E d \in Downstream[run.stage] : k = Last(d) /\ StatusIs(d, "FAILED")
         THEN [rows[k] EXCEPT !.status = "PENDING", !.retryable = FALSE]
         ELSE rows[k]]
  /\ Goto("begin")
  /\ UNCHANGED <<World, faults>>

(* invalidate_stages, one transaction: what was made from this stage's     *)
(* artifact is no longer a checkpoint.  The attempts stay counted.         *)
Invalidate ==
  /\ At("invalidate")
  /\ rows' = [k \in DOMAIN rows |->
       IF \E d \in Downstream[run.stage] : k = Last(d)
         THEN [rows[k] EXCEPT !.status = "PENDING", !.sha = Nothing, !.version = 0, !.retryable = FALSE]
         ELSE rows[k]]
  /\ Goto("begin")
  /\ UNCHANGED <<World, faults>>

Begin ==
  /\ At("begin")
  /\ LET s == run.stage IN
       /\ rows' = Append(rows, [stage |-> s, status |-> "RUNNING", attempts |-> Attempts(s) + 1,
                                sha |-> Nothing, version |-> 0, retryable |-> FALSE])
       /\ run' = [run EXCEPT !.pc = "act", !.attempt = Attempts(s) + 1]
  /\ UNCHANGED <<World, faults>>

(* What the stage's action reads: the wav from its path, the transcript    *)
(* from memory.                                                            *)
Input ==
  CASE run.stage = "TRANSCODE" -> Nothing
    [] run.stage \in {"ASR", "EMOTION"} -> file["TRANSCODE"]
    [] run.stage = "QC" -> run.turns

Fail(retry) ==
  run' = [run EXCEPT !.pc = "fail", !.retry = retry, !.slow = FALSE, !.made = Nothing]

(* The action runs, in time or longer than stage_timeout_seconds.  The     *)
(* quality service persists a completed run with its report.               *)
Act ==
  /\ At("act") /\ ~run.late
  /\ \E a \in Artifacts[run.stage], slow \in BOOLEAN :
       /\ a.from = Input
       /\ run' = [run EXCEPT !.pc = "acted", !.made = a, !.slow = slow]
  /\ reports' = IF run.stage = "QC" THEN reports + 1 ELSE reports
  /\ UNCHANGED <<item, rows, file, result, deployed, faults, damages>>

(* The action raises, for a reason that classify_error takes for           *)
(* retryable or not; or the deadline passed before it.  The quality        *)
(* service may have persisted its run when the answer fails.               *)
ActRaises ==
  /\ At("act")
  /\ \/ run.late /\ Fail(FALSE) /\ UNCHANGED reports
     \/ /\ ~run.late
        /\ \E retry \in BOOLEAN : Fail(retry)
        /\ \/ UNCHANGED reports
           \/ run.stage = "QC" /\ reports' = reports + 1
  /\ UNCHANGED <<item, rows, file, result, deployed, faults, damages>>

(* The budgets are checked once the action is over.                        *)
Judge ==
  /\ At("acted")
  /\ IF run.late THEN Fail(FALSE)
     ELSE IF run.slow THEN Fail(TRUE)
     ELSE Goto("put")
  /\ UNCHANGED Local

(* put_bytes replaces the artifact atomically.                             *)
Put ==
  /\ At("put")
  /\ file' = [file EXCEPT ![run.stage] = run.made]
  /\ Goto("record")
  /\ UNCHANGED <<item, rows, reports, result, deployed, faults, damages>>

(* The latest row of the stage becomes DONE, if it is RUNNING.             *)
SetDone ==
  LET s == run.stage IN
  /\ StatusIs(s, "RUNNING")
  /\ rows' = [rows EXCEPT ![Last(s)].status = "DONE", ![Last(s)].sha = run.made,
                          ![Last(s)].version = ProducerVersion(s)]

(* complete_stage, on the row that this execution began.                   *)
Record ==
  /\ At("record")
  /\ SetDone
  /\ Finished(run.made)
  /\ UNCHANGED <<World, faults>>

(* put_bytes or complete_stage raise, the latter before or after its       *)
(* commit.                                                                 *)
RecordRaises ==
  /\ Fault
  /\ \/ At("put") /\ UNCHANGED rows
     \/ At("record") /\ (SetDone \/ UNCHANGED rows)
  /\ Fail(FALSE)
  /\ UNCHANGED World

(* Faulty variant: one attempt too few.                                    *)
RecordFailureEarly ==
  /\ At("fail")
  /\ IF StatusIs(run.stage, "RUNNING")
       THEN /\ rows' = [rows EXCEPT ![Last(run.stage)].status = "FAILED",
                                    ![Last(run.stage)].retryable = run.retry]
            /\ IF run.retry /\ run.attempt + 1 < MaxAttempts
                 THEN run' = [run EXCEPT !.pc = "begin", !.retry = FALSE]
                 ELSE GiveUp
       ELSE Goto("interrupt") /\ UNCHANGED rows
  /\ UNCHANGED <<World, faults>>

(* fail_stage, then another attempt or the end.  A row that is not RUNNING *)
(* raises out of the handler.                                              *)
RecordFailure ==
  /\ At("fail")
  /\ LET s == run.stage IN
     IF StatusIs(s, "RUNNING")
       THEN /\ rows' = [rows EXCEPT ![Last(s)].status = "FAILED",
                                    ![Last(s)].retryable = run.retry]
            /\ IF run.retry /\ run.attempt < MaxAttempts
                 THEN run' = [run EXCEPT !.pc = "begin", !.retry = FALSE]
                 ELSE GiveUp
       ELSE Goto("interrupt") /\ UNCHANGED rows
  /\ UNCHANGED <<World, faults>>

(* Any other database call raises: no stage failure, the Worker handles    *)
(* it.  (A call that commits and then raises leaves what that call and one *)
(* of these faults, or Crash, leave.)                                      *)
CallRaises ==
  /\ Fault
  /\ run.pc \in {"enter", "check", "invalidate", "begin", "fail", "final"}
  /\ Goto("interrupt")
  /\ UNCHANGED <<World, rows>>

(***************************************************************************)
(* The environment.                                                        *)
(***************************************************************************)

(* The clock passes the execution's deadline; where the code reads it.     *)
DeadlinePasses ==
  /\ run.pc \in {"enter", "act", "acted"} /\ ~run.late
  /\ run' = [run EXCEPT !.late = TRUE]
  /\ UNCHANGED Local

Crash ==
  /\ Running
  /\ Fault
  /\ run' = Idle
  /\ UNCHANGED <<World, rows>>

(* An artifact is lost or damaged on disk.                                 *)
Damage(s) ==
  /\ file[s] # Nothing
  /\ damages < MaxDamages
  /\ damages' = damages + 1
  /\ file' = [file EXCEPT ![s] = Nothing]
  /\ UNCHANGED <<item, rows, reports, result, run, deployed, faults>>

(* A process that runs nothing is started again with new audio versions.   *)
Upgrade ==
  /\ ~Running
  /\ deployed < MaxUpgrades
  /\ deployed' = deployed + 1
  /\ UNCHANGED <<item, rows, file, reports, result, run, faults, damages>>

-----------------------------------------------------------------------------
Step ==
  \/ Claim \/ Enter \/ Verify \/ ReadArtifact \/ Check \/ Invalidate
  \/ Begin \/ Act \/ ActRaises \/ Judge \/ Put \/ Record
  \/ RecordFailure \/ Finalize \/ Interrupt

Next ==
  \/ Step \/ RecordRaises \/ CallRaises \/ DeadlinePasses \/ Crash
  \/ Expire
  \/ \E s \in Stages : Damage(s)
  \/ Upgrade

Spec == Init /\ [][Next]_vars

(* Stage actions return or time out, and an unacknowledged message is      *)
(* reclaimed.                                                              *)
LiveSpec == Spec /\ WF_vars(Step) /\ WF_vars(Expire)

-----------------------------------------------------------------------------
(***************************************************************************)
(* Properties.                                                             *)
(***************************************************************************)
RowStatus == {"RUNNING", "DONE", "FAILED", "PENDING"}
Hashes == {Nothing} \cup UNION {Artifacts[s] : s \in Stages}

Rows == [stage : Stages, status : RowStatus, attempts : Nat \ {0}, sha : Hashes,
         version : Nat, retryable : BOOLEAN]

Executions ==
  [pc : {"off", "enter", "verify", "read", "check", "invalidate", "begin", "act", "acted",
         "put", "record", "fail", "interrupt", "final"},
   stage : Stages, late : BOOLEAN, version : Nat, attempt : Nat, sha : Hashes, made : Hashes,
   slow : BOOLEAN, retry : BOOLEAN, turns : Transcripts \cup {Nothing}, failed : BOOLEAN]

(* Rows, artifacts and results have their types; the three that later      *)
(* steps rely on are that exactly a DONE row has a hash, of an artifact of *)
(* its stage, and that QC never runs without a transcript.                 *)
TypeOK ==
  /\ item \in {"PENDING", "RUNNING", "INTERRUPTED", "FINAL"}
  /\ rows \in Seq(Rows)
  /\ \A k \in DOMAIN rows :
       /\ rows[k].sha \in Artifacts[rows[k].stage] \cup {Nothing}
       /\ rows[k].status = "DONE" <=> rows[k].sha # Nothing
  /\ file \in [Stages -> Hashes]
  /\ \A s \in Stages : file[s] \in Artifacts[s] \cup {Nothing}
  /\ reports \in Nat /\ deployed \in Nat /\ faults \in Nat /\ damages \in Nat
  /\ run \in Executions
  /\ run.stage = "QC" => run.turns \in Transcripts
  /\ result \in FileResults \cup {Nothing}
  /\ item = "FINAL" <=> result # Nothing

(* The stages whose artifacts are made from one another.                   *)
Edges == {<<"TRANSCODE", "ASR">>, <<"TRANSCODE", "EMOTION">>, <<"ASR", "QC">>}

(* Two checkpoints that are both valid belong together: whatever was       *)
(* damaged, upgraded, retried or killed, the transcript is the one of the  *)
(* wav, and the analysis the one of the transcript.  Resuming depends on   *)
(* it, as a checkpoint is accepted on its own hash and version alone.      *)
CheckpointsAgree ==
  \A u, d \in Stages :
    <<u, d>> \in Edges /\ Usable(u) /\ Usable(d) => rows[Last(d)].sha.from = rows[Last(u)].sha

(* The stored result is the analysis of the stored request, even when one  *)
(* of them was restored from a checkpoint and the other was made again.    *)
ResultMatchesRequest ==
  result # Nothing /\ result.status # "FAILED_FINAL"
    => result.analysis.from = result.turns

(* A file is given up for a reason that its rows show: its deadline, or a  *)
(* stage whose failure is not retryable or has used up its attempts.       *)
GivenUpForCause ==
  At("final") /\ run.failed => run.late \/ Exhausted(run.stage)

(* A new attempt never repeats a stage whose checkpoint is valid for the   *)
(* running version, nor one that has finally failed.                       *)
NoNeedlessAttempt ==
  [][Begin =>
       LET s == run.stage IN
       /\ ~Exhausted(s)
       /\ ~(Usable(s) /\ rows[Last(s)].version = ProducerVersion(s))]_vars

(* The file reaches a final status: attempts, crashes, redeliveries and    *)
(* conflicts between two executions never leave it in a loop.              *)
FileEnds == <>(item = "FINAL")

(* A message consumed again produces no second valid report.               *)
OneReport == reports <= 1
=============================================================================
