----------------------------- MODULE LocalBatch -----------------------------
(***************************************************************************)
(* The command line's batches: ingest adds files to the store's tables,    *)
(* run and resume process them in a thread pool (BatchOrchestrator), and   *)
(* nothing but those tables separates two commands that process one batch  *)
(* at once: resume takes every RUNNING file for a left-over.               *)
(*                                                                         *)
(* The four stages of a file, which StagePipeline tells apart, are one     *)
(* here, with one row and one artifact.  An action is one transaction of   *)
(* the store or one execution of the stage; begin_stage is two, since its  *)
(* read is not protected from another command's.  The store is BatchStore, *)
(* over SQLite; the command line opens PostgresBatchStore today, whose     *)
(* operations of these names have the same guards.  There begin_stage adds *)
(* a row, and the latest row of the stage is the row here.                 *)
(***************************************************************************)
EXTENDS Naturals, FiniteSets

CONSTANTS
  Files,
  Commands,      \* processes of the command line
  Pool,          \* cpu_workers
  MaxAttempts,   \* max_attempts
  MaxOverlaps,   \* bound: commands started while another one runs
  MaxCrashes,    \* bound: commands killed
  Nothing        \* no artifact, no result

ASSUME LocalAssumption ==
  /\ Pool \in Nat \ {0} /\ MaxAttempts \in Nat \ {0}
  /\ MaxOverlaps \in Nat /\ MaxCrashes \in Nat
  /\ Nothing \notin Commands

VARIABLES
  status,     \* batch_files.status, absent before ingest
  result,     \* batch_files.result_json
  row,        \* file_stages: the one row of the file's stage
  artifact,   \* the file at the stage's URI, named by the command that wrote it
  command,    \* what each process does: off, marked (resume), on, or raised
              \* (on, and a file's handling has raised)
  job,        \* each process's handling of each file
  overlaps, crashes

vars == <<status, result, row, artifact, command, job, overlaps, crashes>>

Final == {"DONE", "FAILED_FINAL"}
Resumable == {"PENDING", "INTERRUPTED"}

NoRow == [status |-> "none", attempts |-> 0, retryable |-> FALSE, sha |-> Nothing]

NoJob == [pc |-> "ended", expected |-> "PENDING", attempt |-> 0, retryable |-> FALSE,
          value |-> Nothing]

(* What the report shows as not finished.                                  *)
Unfinished == {f \in Files : status[f] \in Resumable \cup {"RUNNING"}}

(* Files that the pool of a process works on.                              *)
Active(c) == {f \in Files : job[c][f].pc \notin {"queued", "ended"}}

-----------------------------------------------------------------------------
Init ==
  /\ status = [f \in Files |-> "absent"]
  /\ result = [f \in Files |-> Nothing]
  /\ row = [f \in Files |-> NoRow]
  /\ artifact = [f \in Files |-> Nothing]
  /\ command = [c \in Commands |-> "off"]
  /\ job = [c \in Commands |-> [f \in Files |-> NoJob]]
  /\ overlaps = 0
  /\ crashes = 0

(***************************************************************************)
(* The commands                                                            *)
(***************************************************************************)

(* add_file ignores a file that the batch has.                             *)
Ingest(f) ==
  /\ status[f] = "absent"
  /\ status' = [status EXCEPT ![f] = "PENDING"]
  /\ UNCHANGED <<result, row, artifact, command, job, overlaps, crashes>>

(* A process may be started while another one works.                       *)
Launch(c) ==
  /\ command[c] = "off"
  /\ \/ (\A d \in Commands : command[d] = "off") /\ UNCHANGED overlaps
     \/ /\ \E d \in Commands : command[d] # "off"
        /\ overlaps < MaxOverlaps /\ overlaps' = overlaps + 1

(* The files that may be processed, with the status they are read with.    *)
Queue(c) ==
  job' = [job EXCEPT ![c] =
    [f \in Files |-> IF status[f] \in Resumable
                     THEN [NoJob EXCEPT !.pc = "queued", !.expected = status[f]] ELSE NoJob]]

Run(c) ==
  /\ Launch(c)
  /\ \E f \in Files : status[f] \in Resumable
  /\ Queue(c)
  /\ command' = [command EXCEPT ![c] = "on"]
  /\ UNCHANGED <<status, result, row, artifact, crashes>>

(* Faulty variant: resume leaves the files that it finds RUNNING alone.    *)
MarkNothing(c) ==
  /\ Launch(c)
  /\ Unfinished # {}
  /\ command' = [command EXCEPT ![c] = "marked"]
  /\ UNCHANGED <<status, result, row, artifact, job, crashes>>

(* resume: every RUNNING file of the batch becomes INTERRUPTED.            *)
MarkInterrupted(c) ==
  /\ Launch(c)
  /\ Unfinished # {}
  /\ status' = [f \in Files |-> IF status[f] = "RUNNING" THEN "INTERRUPTED" ELSE status[f]]
  /\ command' = [command EXCEPT ![c] = "marked"]
  /\ UNCHANGED <<result, row, artifact, job, crashes>>

ResumeCandidates(c) ==
  /\ command[c] = "marked"
  /\ Queue(c)
  /\ command' = [command EXCEPT ![c] = "on"]
  /\ UNCHANGED <<status, result, row, artifact, overlaps, crashes>>

(* The exception of a file's handling reaches the caller when its result   *)
(* is read: the files that no thread has taken yet are cancelled.          *)
Cancel(c) ==
  /\ command[c] = "raised"
  /\ \E f \in Files : job[c][f].pc = "queued"
  /\ job' = [job EXCEPT ![c] = [f \in Files |-> IF job[c][f].pc = "queued" THEN NoJob ELSE job[c][f]]]
  /\ UNCHANGED <<status, result, row, artifact, command, overlaps, crashes>>

(* The pool is done: it waits for the files that its threads have taken.   *)
End(c) ==
  /\ command[c] \in {"on", "raised"} /\ \A f \in Files : job[c][f].pc = "ended"
  /\ command' = [command EXCEPT ![c] = "off"]
  /\ UNCHANGED <<status, result, row, artifact, job, overlaps, crashes>>

Crash(c) ==
  /\ command[c] # "off" /\ crashes < MaxCrashes
  /\ crashes' = crashes + 1
  /\ command' = [command EXCEPT ![c] = "off"]
  /\ job' = [job EXCEPT ![c] = [f \in Files |-> NoJob]]
  /\ UNCHANGED <<status, result, row, artifact, overlaps>>

(***************************************************************************)
(* handle: one file in one process                                         *)
(***************************************************************************)
Goto(c, f, pc) == job' = [job EXCEPT ![c][f] = [NoJob EXCEPT !.pc = pc]]

(* A StateConflictError leaves the handling: the file stays as it is.      *)
Raise(c, f) ==
  /\ job' = [job EXCEPT ![c][f] = NoJob]
  /\ command' = [command EXCEPT ![c] = "raised"]

Concludes(c, f, value) == job' = [job EXCEPT ![c][f] = [NoJob EXCEPT !.pc = "final", !.value = value]]

Claim(c, f) ==
  /\ job[c][f].pc = "queued" /\ Cardinality(Active(c)) < Pool
  /\ IF status[f] = job[c][f].expected
     THEN status' = [status EXCEPT ![f] = "RUNNING"] /\ Goto(c, f, "enter")
     ELSE UNCHANGED status /\ Goto(c, f, "ended")
  /\ UNCHANGED <<result, row, artifact, command, overlaps, crashes>>

(* The stage is given up as the deadline has passed, restored from a       *)
(* checkpoint whose artifact has the recorded hash, given up for good by   *)
(* an earlier failure, or executed.                                        *)
Enter(c, f) ==
  /\ job[c][f].pc = "enter"
  /\ LET r == row[f] IN
     \/ Concludes(c, f, Nothing)
     \/ IF r.status = "DONE" /\ artifact[f] = r.sha THEN Concludes(c, f, r.sha)
        ELSE IF r.status = "FAILED" /\ (~r.retryable \/ r.attempts >= MaxAttempts)
          THEN Concludes(c, f, Nothing)
          ELSE Goto(c, f, "begin")
  /\ UNCHANGED <<status, result, row, artifact, command, overlaps, crashes>>

(* Attempts are only ever compared with max_attempts: more need not be     *)
(* told apart.                                                             *)
Counted(attempts) == IF attempts > MaxAttempts THEN MaxAttempts ELSE attempts

(* begin_stage reads the attempts; two executions may read the same.       *)
ReadAttempts(c, f) ==
  /\ job[c][f].pc = "begin"
  /\ job' = [job EXCEPT ![c][f] = [NoJob EXCEPT !.pc = "insert", !.attempt = Counted(row[f].attempts + 1)]]
  /\ UNCHANGED <<status, result, row, artifact, command, overlaps, crashes>>

(* The stage is RUNNING again, whatever its row said, and the attempt is   *)
(* counted.                                                                *)
BeginStage(c, f) ==
  /\ job[c][f].pc = "insert"
  /\ row' = [row EXCEPT ![f] = [NoRow EXCEPT !.status = "RUNNING", !.attempts = job[c][f].attempt]]
  /\ job' = [job EXCEPT ![c][f].pc = "work"]
  /\ UNCHANGED <<status, result, artifact, command, overlaps, crashes>>

(* The stage writes its artifact, or fails or is too slow before it does,  *)
(* for a reason that is retryable or not.                                  *)
Work(c, f) ==
  /\ job[c][f].pc = "work"
  /\ \/ artifact' = [artifact EXCEPT ![f] = c] /\ Goto(c, f, "complete")
     \/ Goto(c, f, "fail") /\ UNCHANGED artifact
     \/ job' = [job EXCEPT ![c][f].pc = "fail", ![c][f].retryable = TRUE] /\ UNCHANGED artifact
  /\ UNCHANGED <<status, result, row, command, overlaps, crashes>>

(* The row is DONE, whoever began it, if it is RUNNING.  If it is not, the *)
(* StateConflictError is caught like any failure of the stage's, one that  *)
(* is not retryable.                                                       *)
CompleteStage(c, f) ==
  /\ job[c][f].pc = "complete"
  /\ IF row[f].status = "RUNNING"
     THEN /\ row' = [row EXCEPT ![f] = [@ EXCEPT !.status = "DONE", !.sha = c]]
          /\ Concludes(c, f, c)
     ELSE UNCHANGED row /\ Goto(c, f, "fail")
  /\ UNCHANGED <<status, result, artifact, command, overlaps, crashes>>

(* The row that fail_stage meets RUNNING may be another command's, which   *)
(* has begun the stage again in between: it is FAILED all the same.  A row *)
(* that is not RUNNING raises out of the handler.                          *)
FailStage(c, f) ==
  /\ job[c][f].pc = "fail"
  /\ LET j == job[c][f] IN
     IF row[f].status = "RUNNING"
     THEN /\ row' = [row EXCEPT ![f] = [@ EXCEPT !.status = "FAILED", !.retryable = j.retryable]]
          /\ IF j.retryable /\ j.attempt < MaxAttempts
             THEN Goto(c, f, "begin")
             ELSE Concludes(c, f, Nothing)
          /\ UNCHANGED command
     ELSE UNCHANGED row /\ Raise(c, f)
  /\ UNCHANGED <<status, result, artifact, overlaps, crashes>>

FinalStatus(value) == IF value = Nothing THEN "FAILED_FINAL" ELSE "DONE"

(* Faulty variant: the file need not be RUNNING.                           *)
FinalizeAlways(c, f) ==
  /\ job[c][f].pc = "final"
  /\ status' = [status EXCEPT ![f] = FinalStatus(job[c][f].value)]
  /\ result' = [result EXCEPT ![f] = job[c][f].value]
  /\ Goto(c, f, "ended")
  /\ UNCHANGED <<row, artifact, command, overlaps, crashes>>

(* The file must be RUNNING, by whoever claimed it.                        *)
Finalize(c, f) ==
  /\ job[c][f].pc = "final"
  /\ IF status[f] = "RUNNING"
     THEN /\ status' = [status EXCEPT ![f] = FinalStatus(job[c][f].value)]
          /\ result' = [result EXCEPT ![f] = job[c][f].value]
          /\ Goto(c, f, "ended") /\ UNCHANGED command
     ELSE UNCHANGED <<status, result>> /\ Raise(c, f)
  /\ UNCHANGED <<row, artifact, overlaps, crashes>>

-----------------------------------------------------------------------------
Handle(c, f) ==
  \/ Claim(c, f) \/ Enter(c, f) \/ ReadAttempts(c, f) \/ BeginStage(c, f) \/ Work(c, f)
  \/ CompleteStage(c, f) \/ FailStage(c, f) \/ Finalize(c, f)

Next ==
  \/ \E f \in Files : Ingest(f)
  \/ \E c \in Commands :
       \/ Run(c) \/ MarkInterrupted(c) \/ ResumeCandidates(c)
       \/ Cancel(c) \/ End(c) \/ Crash(c)
       \/ \E f \in Files : Handle(c, f)

Spec == Init /\ [][Next]_vars

(* A process does its work, and the operator, who sees in the report that  *)
(* files are not finished and that no command runs, resumes the batch.     *)
Fairness ==
  /\ \A c \in Commands :
       /\ WF_vars(ResumeCandidates(c)) /\ WF_vars(End(c))
       /\ \A f \in Files : WF_vars(Handle(c, f))
  /\ WF_vars((\A c \in Commands : command[c] = "off") /\ \E c \in Commands : MarkInterrupted(c))

LiveSpec == Spec /\ Fairness

-----------------------------------------------------------------------------
Rows == [status : {"none", "RUNNING", "DONE", "FAILED"}, attempts : Nat,
         retryable : BOOLEAN, sha : Commands \cup {Nothing}]

Jobs == [pc : {"ended", "queued", "enter", "begin", "insert", "work", "complete", "fail", "final"},
         expected : Resumable, attempt : Nat, retryable : BOOLEAN,
         value : Commands \cup {Nothing}]

TypeOK ==
  /\ status \in [Files -> {"absent", "RUNNING"} \cup Resumable \cup Final]
  /\ result \in [Files -> Commands \cup {Nothing}]
  /\ row \in [Files -> Rows]
  /\ artifact \in [Files -> Commands \cup {Nothing}]
  /\ command \in [Commands -> {"off", "marked", "on", "raised"}]
  /\ job \in [Commands -> [Files -> Jobs]]
  /\ overlaps \in 0..MaxOverlaps /\ crashes \in 0..MaxCrashes

(* Whatever two commands do to one batch, the first final status of a file *)
(* and the result beside it are never rewritten by the one that comes late.*)
FinalResultStays ==
  [][\A f \in Files : status[f] \in Final => status'[f] = status[f]
    /\ result'[f] = result[f]]_vars

(* Every file that was added is finished, though commands are killed, two  *)
(* of them complete and fail each other's rows, and a conflict ends the    *)
(* handling of a file that stays RUNNING and cancels those behind it.      *)
ResumeFinishes == \A f \in Files : status[f] = "PENDING" ~> status[f] \in Final
=============================================================================
