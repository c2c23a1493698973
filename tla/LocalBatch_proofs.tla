-------------------------- MODULE LocalBatch_proofs --------------------------
(***************************************************************************)
(* Theorems about LocalBatch, for any number of files, of commands that    *)
(* run at once, of attempts and of crashes.                                *)
(***************************************************************************)
EXTENDS LocalBatch, TLAPS

(* The initial values of a row and of a job are a row and a job.           *)
LEMMA Blank == NoRow \in Rows /\ NoJob \in Jobs
BY DEF NoRow, NoJob, Rows, Jobs, Resumable

-----------------------------------------------------------------------------
(***************************************************************************)
(* What a process does to its handling of a file.                          *)
(***************************************************************************)

LEMMA JobSet ==
  ASSUME TypeOK, NEW c \in Commands, NEW f \in Files, NEW j \in Jobs,
         job' = [job EXCEPT ![c][f] = j]
  PROVE  job' \in [Commands -> [Files -> Jobs]]
<1>1. [job[c] EXCEPT ![f] = j] \in [Files -> Jobs]
  BY DEF TypeOK
<1>2. QED
  BY <1>1 DEF TypeOK

LEMMA GotoTyped ==
  ASSUME TypeOK, NEW c \in Commands, NEW f \in Files,
         NEW pc \in {"ended", "queued", "enter", "begin", "insert", "work", "complete", "fail",
                     "final"},
         Goto(c, f, pc)
  PROVE  job' \in [Commands -> [Files -> Jobs]]
<1> DEFINE j == [NoJob EXCEPT !.pc = pc]
<1>1. j \in Jobs
  BY DEF NoJob, Jobs, Resumable
<1>2. job' = [job EXCEPT ![c][f] = j]
  BY DEF Goto
<1> HIDE DEF j
<1>3. QED
  BY <1>1, <1>2, JobSet

LEMMA EndsTyped ==
  ASSUME TypeOK, NEW c \in Commands, NEW f \in Files,
         \/ Raise(c, f)
         \/ \E value \in Commands \cup {Nothing} : Concludes(c, f, value)
  PROVE  job' \in [Commands -> [Files -> Jobs]]
<1>1. CASE Raise(c, f)
  BY <1>1, Blank, JobSet DEF Raise
<1>2. ASSUME NEW value \in Commands \cup {Nothing}, Concludes(c, f, value)
      PROVE  job' \in [Commands -> [Files -> Jobs]]
  <2> DEFINE j == [NoJob EXCEPT !.pc = "final", !.value = value]
  <2>1. j \in Jobs
    BY DEF NoJob, Jobs, Resumable
  <2>2. job' = [job EXCEPT ![c][f] = j]
    BY <1>2 DEF Concludes
  <2> HIDE DEF j
  <2>3. QED
    BY <2>1, <2>2, JobSet
<1>3. QED
  BY <1>1, <1>2

(* The files to process are read from the table, each with its status.     *)
LEMMA QueueTyped ==
  ASSUME TypeOK, NEW c \in Commands, Queue(c)
  PROVE  job' \in [Commands -> [Files -> Jobs]]
<1> DEFINE Read(f) == [NoJob EXCEPT !.pc = "queued", !.expected = status[f]]
           q == [f \in Files |-> IF status[f] \in Resumable THEN Read(f) ELSE NoJob]
<1>1. ASSUME NEW f \in Files, status[f] \in Resumable
      PROVE  Read(f) \in Jobs
  BY <1>1 DEF NoJob, Jobs
<1>2. q \in [Files -> Jobs]
  BY <1>1, Blank
<1>3. job' = [job EXCEPT ![c] = q]
  BY DEF Queue
<1> HIDE DEF q
<1>4. QED
  BY <1>2, <1>3 DEF TypeOK

LEMMA LaunchTyped ==
  ASSUME TypeOK, NEW c \in Commands, Launch(c)
  PROVE  overlaps' \in 0..MaxOverlaps
BY LocalAssumption DEF TypeOK, Launch

LEMMA RowSet ==
  ASSUME TypeOK, NEW f \in Files, NEW r \in Rows, row' = [row EXCEPT ![f] = r]
  PROVE  row' \in [Files -> Rows]
BY DEF TypeOK

LEMMA RaiseTyped ==
  ASSUME TypeOK, NEW c \in Commands, NEW f \in Files, Raise(c, f) \/ UNCHANGED command
  PROVE  command' \in [Commands -> {"off", "marked", "on", "raised"}]
BY DEF Raise, TypeOK

-----------------------------------------------------------------------------
(* Every step of the handling of a file keeps the types.                   *)
LEMMA HandleTyped ==
  ASSUME TypeOK, NEW c \in Commands, NEW f \in Files, Handle(c, f)
  PROVE  TypeOK'
<1>0. job[c][f] \in Jobs /\ row[f] \in Rows
  BY DEF TypeOK
<1>1. CASE Claim(c, f)
  <2>1. job' \in [Commands -> [Files -> Jobs]]
    BY <1>1, GotoTyped DEF Claim
  <2>2. status' \in [Files -> {"absent", "RUNNING"} \cup Resumable \cup Final]
    BY <1>1 DEF Claim, TypeOK
  <2>3. QED
    BY <1>1, <2>1, <2>2 DEF Claim, TypeOK
<1>2. CASE Enter(c, f)
  <2>1. row[f].sha \in Commands \cup {Nothing}
    BY <1>0 DEF Rows
  <2>2. job' \in [Commands -> [Files -> Jobs]]
    BY <1>2, <2>1, GotoTyped, EndsTyped DEF Enter
  <2>3. QED
    BY <1>2, <2>2 DEF Enter, TypeOK
<1>3. CASE ReadAttempts(c, f)
  <2> DEFINE n == Counted(row[f].attempts + 1)
             j == [NoJob EXCEPT !.pc = "insert", !.attempt = n]
  <2>1. n \in Nat
    BY <1>0, LocalAssumption DEF Rows, Counted
  <2>2. job' = [job EXCEPT ![c][f] = j]
    BY <1>3 DEF ReadAttempts
  <2> HIDE DEF n
  <2>3. j \in Jobs
    BY <2>1 DEF NoJob, Jobs, Resumable
  <2> HIDE DEF j
  <2>4. job' \in [Commands -> [Files -> Jobs]]
    BY <2>2, <2>3, JobSet
  <2>5. QED
    BY <1>3, <2>4 DEF ReadAttempts, TypeOK
<1>4. CASE BeginStage(c, f)
  <2> DEFINE n == job[c][f].attempt
             r == [NoRow EXCEPT !.status = "RUNNING", !.attempts = n]
             j == [job[c][f] EXCEPT !.pc = "work"]
  <2>1. n \in Nat
    BY <1>0 DEF Jobs
  <2>2. row' = [row EXCEPT ![f] = r] /\ job' = [job EXCEPT ![c][f] = j]
    BY <1>4 DEF BeginStage
  <2>3. j \in Jobs
    BY <1>0 DEF Jobs
  <2> HIDE DEF n, j
  <2>4. r \in Rows
    BY <2>1 DEF NoRow, Rows
  <2> HIDE DEF r
  <2>5. row' \in [Files -> Rows] /\ job' \in [Commands -> [Files -> Jobs]]
    BY <2>2, <2>3, <2>4, RowSet, JobSet
  <2>6. QED
    BY <1>4, <2>5 DEF BeginStage, TypeOK
<1>5. CASE Work(c, f)
  <2> DEFINE j == [job[c][f] EXCEPT !.pc = "fail", !.retryable = TRUE]
  <2>1. j \in Jobs
    BY <1>0 DEF Jobs
  <2>2. Goto(c, f, "complete") \/ Goto(c, f, "fail") \/ job' = [job EXCEPT ![c][f] = j]
    BY <1>5 DEF Work
  <2> HIDE DEF j
  <2>3. job' \in [Commands -> [Files -> Jobs]]
    BY <2>1, <2>2, GotoTyped, JobSet
  <2>4. artifact' \in [Files -> Commands \cup {Nothing}]
    BY <1>5 DEF Work, TypeOK
  <2>5. QED
    BY <1>5, <2>3, <2>4 DEF Work, TypeOK
<1>6. CASE CompleteStage(c, f)
  <2>1. job' \in [Commands -> [Files -> Jobs]]
    BY <1>6, GotoTyped, EndsTyped DEF CompleteStage
  <2>2. row' \in [Files -> Rows]
    <3> DEFINE r == [row[f] EXCEPT !.status = "DONE", !.sha = c]
    <3>1. r \in Rows
      BY <1>0 DEF Rows
    <3>2. row' = row \/ row' = [row EXCEPT ![f] = r]
      BY <1>6 DEF CompleteStage
    <3> HIDE DEF r
    <3>3. QED
      BY <3>1, <3>2, RowSet DEF TypeOK
  <2>3. QED
    BY <1>6, <2>1, <2>2 DEF CompleteStage, TypeOK
<1>7. CASE FailStage(c, f)
  <2>1. job' \in [Commands -> [Files -> Jobs]]
    BY <1>7, GotoTyped, EndsTyped DEF FailStage
  <2>2. row' \in [Files -> Rows]
    <3> DEFINE r == [row[f] EXCEPT !.status = "FAILED", !.retryable = job[c][f].retryable]
    <3>1. r \in Rows
      BY <1>0 DEF Rows, Jobs
    <3>2. row' = row \/ row' = [row EXCEPT ![f] = r]
      BY <1>7 DEF FailStage
    <3> HIDE DEF r
    <3>3. QED
      BY <3>1, <3>2, RowSet DEF TypeOK
  <2>3. command' \in [Commands -> {"off", "marked", "on", "raised"}]
    BY <1>7, RaiseTyped DEF FailStage
  <2>4. QED
    BY <1>7, <2>1, <2>2, <2>3 DEF FailStage, TypeOK
<1>8. CASE Finalize(c, f)
  <2>1. job' \in [Commands -> [Files -> Jobs]]
    BY <1>8, GotoTyped, EndsTyped DEF Finalize
  <2>2. job[c][f].value \in Commands \cup {Nothing}
    BY <1>0 DEF Jobs
  <2>3. /\ status' \in [Files -> {"absent", "RUNNING"} \cup Resumable \cup Final]
        /\ result' \in [Files -> Commands \cup {Nothing}]
    BY <1>8, <2>2 DEF Finalize, FinalStatus, Final, TypeOK
  <2>4. command' \in [Commands -> {"off", "marked", "on", "raised"}]
    BY <1>8, RaiseTyped DEF Finalize
  <2>5. QED
    BY <1>8, <2>1, <2>3, <2>4 DEF Finalize, TypeOK
<1>9. QED
  BY <1>1, <1>2, <1>3, <1>4, <1>5, <1>6, <1>7, <1>8 DEF Handle

(* So does every step of a command.                                        *)
LEMMA TypeInductive == TypeOK /\ [Next]_vars => TypeOK'
<1> SUFFICES ASSUME TypeOK, [Next]_vars PROVE TypeOK'
  OBVIOUS
<1>1. ASSUME NEW f \in Files, Ingest(f)
      PROVE  TypeOK'
  BY <1>1 DEF Ingest, TypeOK, Resumable
<1>2. ASSUME NEW c \in Commands, Run(c)
      PROVE  TypeOK'
  <2>1. job' \in [Commands -> [Files -> Jobs]] /\ overlaps' \in 0..MaxOverlaps
    BY <1>2, QueueTyped, LaunchTyped DEF Run
  <2>2. QED
    BY <1>2, <2>1 DEF Run, TypeOK
<1>3. ASSUME NEW c \in Commands, MarkInterrupted(c)
      PROVE  TypeOK'
  <2>1. overlaps' \in 0..MaxOverlaps
    BY <1>3, LaunchTyped DEF MarkInterrupted
  <2>2. status' \in [Files -> {"absent", "RUNNING"} \cup Resumable \cup Final]
    BY <1>3 DEF MarkInterrupted, TypeOK, Resumable
  <2>3. QED
    BY <1>3, <2>1, <2>2 DEF MarkInterrupted, TypeOK
<1>4. ASSUME NEW c \in Commands, ResumeCandidates(c)
      PROVE  TypeOK'
  <2>1. job' \in [Commands -> [Files -> Jobs]]
    BY <1>4, QueueTyped DEF ResumeCandidates
  <2>2. QED
    BY <1>4, <2>1 DEF ResumeCandidates, TypeOK
<1>5. ASSUME NEW c \in Commands, End(c)
      PROVE  TypeOK'
  BY <1>5 DEF End, TypeOK
<1>6. ASSUME NEW c \in Commands, Crash(c)
      PROVE  TypeOK'
  <2>1. job' \in [Commands -> [Files -> Jobs]]
    BY <1>6, Blank DEF Crash, TypeOK
  <2>2. crashes' \in 0..MaxCrashes
    BY <1>6, LocalAssumption DEF Crash, TypeOK
  <2>3. QED
    BY <1>6, <2>1, <2>2 DEF Crash, TypeOK
<1>7. ASSUME NEW c \in Commands, Cancel(c)
      PROVE  TypeOK'
  <2> DEFINE q == [f \in Files |-> IF job[c][f].pc = "queued" THEN NoJob ELSE job[c][f]]
  <2>1. q \in [Files -> Jobs]
    BY Blank DEF TypeOK
  <2>2. job' = [job EXCEPT ![c] = q]
    BY <1>7 DEF Cancel
  <2> HIDE DEF q
  <2>3. job' \in [Commands -> [Files -> Jobs]]
    BY <2>1, <2>2 DEF TypeOK
  <2>4. QED
    BY <1>7, <2>3 DEF Cancel, TypeOK
<1>8. CASE UNCHANGED vars
  BY <1>8 DEF vars, TypeOK
<1>9. QED
  BY <1>1, <1>2, <1>3, <1>4, <1>5, <1>6, <1>7, <1>8, HandleTyped DEF Next

(* The tables and the processes keep their types; in particular a file is  *)
(* queued with the status, PENDING or INTERRUPTED, that the claim expects. *)
THEOREM TypeCorrect == Spec => []TypeOK
<1>1. Init => TypeOK
  BY LocalAssumption, Blank DEF Init, TypeOK
<1>2. QED
  BY <1>1, TypeInductive, PTL DEF Spec

(* The claim of a file expects it unfinished, MarkInterrupted and Finalize *)
(* want it RUNNING: whatever any number of commands do to one batch at     *)
(* once, the first final status of a file and its result are never         *)
(* rewritten by a command that comes late.                                 *)
THEOREM FinalResultsStay == Spec => FinalResultStays
<1>1. ASSUME TypeOK, [Next]_vars
      PROVE  \A f \in Files :
               status[f] \in Final => status'[f] = status[f] /\ result'[f] = result[f]
  <2> SUFFICES ASSUME NEW f \in Files, status[f] \in Final
               PROVE  status'[f] = status[f] /\ result'[f] = result[f]
    OBVIOUS
  <2> USE <1>1 DEF TypeOK, Final
  <2>1. ASSUME NEW c \in Commands, NEW g \in Files, Claim(c, g)
        PROVE  status'[f] = status[f] /\ result' = result
    <3>1. job[c][g].expected \in Resumable
      BY DEF Jobs
    <3>2. QED
      BY <2>1, <3>1 DEF Claim, Resumable
  <2>2. ASSUME NEW c \in Commands, NEW g \in Files, Finalize(c, g)
        PROVE  status'[f] = status[f] /\ result'[f] = result[f]
    BY <2>2 DEF Finalize
  <2>3. ASSUME NEW c \in Commands, NEW g \in Files,
               \/ Enter(c, g) \/ ReadAttempts(c, g) \/ BeginStage(c, g) \/ Work(c, g)
               \/ CompleteStage(c, g) \/ FailStage(c, g)
        PROVE  UNCHANGED <<status, result>>
    BY <2>3 DEF Enter, ReadAttempts, BeginStage, Work, CompleteStage, FailStage
  <2>4. ASSUME NEW g \in Files, Ingest(g)
        PROVE  status'[f] = status[f] /\ result' = result
    BY <2>4 DEF Ingest
  <2>5. ASSUME NEW c \in Commands, MarkInterrupted(c)
        PROVE  status'[f] = status[f] /\ result' = result
    BY <2>5 DEF MarkInterrupted
  <2>6. ASSUME NEW c \in Commands,
               Run(c) \/ ResumeCandidates(c) \/ Cancel(c) \/ End(c) \/ Crash(c)
        PROVE  UNCHANGED <<status, result>>
    BY <2>6 DEF Run, ResumeCandidates, Cancel, End, Crash
  <2>7. QED
    BY <2>1, <2>2, <2>3, <2>4, <2>5, <2>6 DEF Next, Handle, vars
<1>2. QED
  BY <1>1, TypeCorrect, PTL DEF Spec, FinalResultStays
=============================================================================
