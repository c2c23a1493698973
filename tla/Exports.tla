------------------------------- MODULE Exports -------------------------------
(***************************************************************************)
(* python -m qc.batch export: commands that export one batch to one        *)
(* artifact, while its items still change.  The row of batch_exports and   *)
(* the artifact are two stores: begin_export, the two reads, the atomic    *)
(* replacement of the artifact and complete_export are steps that other    *)
(* exports run between.                                                    *)
(*                                                                         *)
(* The content of an export, and its hash, is what its two reads saw: the  *)
(* number of finished items.  The CSV export has only the first read.      *)
(***************************************************************************)
EXTENDS Naturals

CONSTANTS
  Exporters,    \* commands
  MaxFinished,  \* bound: items that become final meanwhile
  MaxKills,     \* bound: exports killed
  NoContent

ASSUME ExportsAssumption == MaxFinished \in Nat /\ MaxKills \in Nat /\ NoContent \notin Nat \X Nat

VARIABLES
  finished,  \* items of the batch with a final status
  record,    \* the row of batch_exports
  artifact,  \* the content under the artifact's URI
  export,    \* what each command does
  torn,      \* a command was killed since an export began alone
  kills

exportsVars == <<finished, record, artifact, export, torn, kills>>

Contents == (0..MaxFinished) \X (0..MaxFinished)

NoExport == [pc |-> "idle", files |-> 0, summary |-> 0]

InFlight == {e \in Exporters : export[e].pc # "idle"}

Content(e) == <<export[e].files, export[e].summary>>

-----------------------------------------------------------------------------
ExportsInit ==
  /\ finished = 0
  /\ record = [status |-> "none", sha |-> NoContent]
  /\ artifact = NoContent
  /\ export = [e \in Exporters |-> NoExport]
  /\ torn = FALSE
  /\ kills = 0

Step(e, from, to) == export[e].pc = from /\ export' = [export EXCEPT ![e].pc = to]

(* The row is inserted, or overwritten whatever it says.                   *)
BeginExport(e) ==
  /\ Step(e, "idle", "files")
  /\ record' = [status |-> "RUNNING", sha |-> NoContent]
  /\ torn' = (torn /\ InFlight # {})
  /\ UNCHANGED <<finished, artifact, kills>>

ListFiles(e) ==
  /\ export[e].pc = "files"
  /\ export' = [export EXCEPT ![e] = [@ EXCEPT !.pc = "summary", !.files = finished]]
  /\ UNCHANGED <<finished, record, artifact, torn, kills>>

BatchSummary(e) ==
  /\ export[e].pc = "summary"
  /\ export' = [export EXCEPT ![e] = [@ EXCEPT !.pc = "put", !.summary = finished]]
  /\ UNCHANGED <<finished, record, artifact, torn, kills>>

PutBytes(e) ==
  /\ Step(e, "put", "complete")
  /\ artifact' = Content(e)
  /\ UNCHANGED <<finished, record, torn, kills>>

(* Faulty variant: the row is completed whatever it says.                  *)
CompleteAlways(e) ==
  /\ Step(e, "complete", "resolve")
  /\ record' = [status |-> "DONE", sha |-> Content(e)]
  /\ UNCHANGED <<finished, artifact, torn, kills>>

(* complete_export raises unless the row is RUNNING, by whoever began.     *)
CompleteExport(e) ==
  /\ IF record.status = "RUNNING"
     THEN Step(e, "complete", "resolve") /\ record' = [status |-> "DONE", sha |-> Content(e)]
     ELSE Step(e, "complete", "fail") /\ UNCHANGED record
  /\ UNCHANGED <<finished, artifact, torn, kills>>

(* The path of the artifact is returned.                                   *)
Return(e) ==
  /\ Step(e, "resolve", "idle")
  /\ UNCHANGED <<finished, record, artifact, torn, kills>>

(* A read, the write of the temporary file or a transaction raises, also   *)
(* one that has committed.                                                 *)
ExportRaises(e) ==
  /\ \E pc \in {"files", "summary", "put", "complete", "resolve"} : Step(e, pc, "fail")
  /\ UNCHANGED <<finished, record, artifact, torn, kills>>

FailExport(e) ==
  /\ Step(e, "fail", "idle")
  /\ record' = [status |-> "FAILED", sha |-> NoContent]
  /\ UNCHANGED <<finished, artifact, torn, kills>>

(* The command is killed, or fail_export itself raises.                    *)
Kill(e) ==
  /\ e \in InFlight /\ kills < MaxKills
  /\ kills' = kills + 1
  /\ export' = [export EXCEPT ![e] = NoExport]
  /\ torn' = TRUE
  /\ UNCHANGED <<finished, record, artifact>>

FinishFile ==
  /\ finished < MaxFinished
  /\ finished' = finished + 1
  /\ UNCHANGED <<record, artifact, export, torn, kills>>

-----------------------------------------------------------------------------
ExportsNext ==
  \/ \E e \in Exporters :
       \/ BeginExport(e) \/ ListFiles(e) \/ BatchSummary(e) \/ PutBytes(e)
       \/ CompleteExport(e) \/ Return(e) \/ ExportRaises(e) \/ FailExport(e) \/ Kill(e)
  \/ FinishFile

ExportsSpec == ExportsInit /\ [][ExportsNext]_exportsVars

-----------------------------------------------------------------------------
Commands ==
  [pc : {"idle", "files", "summary", "put", "complete", "resolve", "fail"},
   files : 0..MaxFinished, summary : 0..MaxFinished]

ExportsTypeOK ==
  /\ finished \in 0..MaxFinished
  /\ record \in [status : {"none", "RUNNING", "DONE", "FAILED"}, sha : Contents \cup {NoContent}]
  /\ artifact \in Contents \cup {NoContent}
  /\ export \in [Exporters -> Commands]
  /\ torn \in BOOLEAN /\ kills \in 0..MaxKills

(* When the exports to an artifact have ended and none of them was killed, *)
(* a row that says DONE has the hash of the artifact that is there, in     *)
(* whatever order they began, wrote and completed.                         *)
ExportHonest ==
  InFlight = {} /\ ~torn /\ record.status = "DONE" => record.sha = artifact
=============================================================================
