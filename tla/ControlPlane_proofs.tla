------------------------- MODULE ControlPlane_proofs -------------------------
(***************************************************************************)
(* Theorems about BatchIntake, Exports and Knowledge, for any number of    *)
(* clients, commands and processes and every value of the bounds.          *)
(***************************************************************************)
EXTENDS BatchIntake, Exports, Knowledge, FiniteSetTheorems, WellFoundedInduction, TLAPS

(***************************************************************************)
(* Exports                                                                 *)
(***************************************************************************)

(* An export that still writes the row, by complete_export or fail_export. *)
Open(e) == export[e].pc \in {"files", "summary", "put", "complete", "fail"}

(* While no export was killed, a RUNNING row belongs to an open export; one*)
(* that is to complete wrote the artifact that is there, or is not the only*)
(* open one; and when a DONE row is wrong, an open export will set it.     *)
RowsFollow ==
  torn \/
    /\ record.status = "RUNNING" =>
         /\ \E e \in Exporters : Open(e)
         /\ \A e \in Exporters : export[e].pc = "complete" =>
              Content(e) = artifact \/ \E d \in Exporters \ {e} : Open(d)
    /\ record.status = "DONE" => record.sha = artifact \/ \E e \in Exporters : Open(e)

ExportsInv == ExportsTypeOK /\ RowsFollow

LEMMA ExportsInductive == ExportsInv /\ [ExportsNext]_exportsVars => ExportsInv'
<1> SUFFICES ASSUME ExportsInv, [ExportsNext]_exportsVars PROVE ExportsInv'
  OBVIOUS
<1> USE ExportsAssumption
<1> USE DEF ExportsInv
<1>1. ASSUME NEW e \in Exporters, BeginExport(e) PROVE ExportsInv'
  <2>1. ExportsTypeOK'
    BY <1>1 DEF BeginExport, Step, ExportsTypeOK, Commands
  <2>2. Open(e)' /\ record'.status = "RUNNING" /\ export'[e].pc = "files"
    BY <1>1 DEF BeginExport, Step, ExportsTypeOK, Commands, Open
  <2>3. \A d \in Exporters : export'[d].pc = "complete" => \E b \in Exporters \ {d} : Open(b)'
    BY <2>2
  <2> QED BY <2>1, <2>2, <2>3 DEF RowsFollow
<1>2. ASSUME NEW e \in Exporters, ListFiles(e) \/ BatchSummary(e) PROVE ExportsInv'
  <2> DEFINE listed == [export[e] EXCEPT !.pc = "summary", !.files = finished]
             summed == [export[e] EXCEPT !.pc = "put", !.summary = finished]
  <2>1. /\ finished \in 0..MaxFinished /\ export[e] \in Commands
        /\ export \in [Exporters -> Commands]
    BY DEF ExportsTypeOK
  <2>2. listed \in Commands /\ listed.pc = "summary"
    BY <2>1 DEF Commands
  <2>3. summed \in Commands /\ summed.pc = "put"
    BY <2>1 DEF Commands
  <2>4. PICK x \in {listed, summed} : export' = [export EXCEPT ![e] = x]
    BY <1>2 DEF ListFiles, BatchSummary
  <2> HIDE DEF listed, summed
  <2>5. /\ export' \in [Exporters -> Commands]
        /\ Open(e) /\ Open(e)' /\ export'[e].pc # "complete"
    BY <1>2, <2>1, <2>2, <2>3, <2>4 DEF ListFiles, BatchSummary, Open
  <2>6. ExportsTypeOK'
    BY <1>2, <2>5 DEF ListFiles, BatchSummary, ExportsTypeOK, Contents
  <2>7. \A d \in Exporters \ {e} : export'[d] = export[d]
    BY <1>2 DEF ListFiles, BatchSummary, ExportsTypeOK, Commands
  <2>8. UNCHANGED <<record, artifact, torn>>
    BY <1>2 DEF ListFiles, BatchSummary
  <2> QED BY <2>5, <2>6, <2>7, <2>8 DEF RowsFollow, Open, Content
<1>3. ASSUME NEW e \in Exporters, PutBytes(e) PROVE ExportsInv'
  <2>1. ExportsTypeOK'
    BY <1>3 DEF PutBytes, Step, ExportsTypeOK, Commands, Content, Contents
  <2>2. Open(e)' /\ artifact' = Content(e)'
    BY <1>3 DEF PutBytes, Step, ExportsTypeOK, Commands, Open, Content
  <2> QED BY <2>1, <2>2 DEF RowsFollow
<1>4. ASSUME NEW e \in Exporters, CompleteExport(e), record.status = "RUNNING" PROVE ExportsInv'
  <2>1. ExportsTypeOK'
    BY <1>4 DEF CompleteExport, Step, ExportsTypeOK, Commands, Content, Contents
  <2>2. record' = [status |-> "DONE", sha |-> Content(e)] /\ export[e].pc = "complete"
    BY <1>4 DEF CompleteExport, Step
  <2>3. \A d \in Exporters \ {e} : export'[d] = export[d]
    BY <1>4 DEF CompleteExport, Step, ExportsTypeOK, Commands
  <2>4. UNCHANGED <<artifact, torn>>
    BY <1>4 DEF CompleteExport
  <2> QED BY <1>4, <2>1, <2>2, <2>3, <2>4 DEF RowsFollow, Open
<1>5. ASSUME NEW e \in Exporters,
             ExportRaises(e) \/ (CompleteExport(e) /\ record.status # "RUNNING")
      PROVE  ExportsInv'
  <2>1. ExportsTypeOK'
    BY <1>5 DEF ExportRaises, CompleteExport, Step, ExportsTypeOK, Commands
  <2>2. Open(e)' /\ export'[e].pc = "fail"
    BY <1>5 DEF ExportRaises, CompleteExport, Step, ExportsTypeOK, Commands, Open
  <2>3. \A d \in Exporters \ {e} : export'[d] = export[d]
    BY <1>5 DEF ExportRaises, CompleteExport, Step, ExportsTypeOK, Commands
  <2>4. UNCHANGED <<record, artifact, torn>>
    BY <1>5 DEF ExportRaises, CompleteExport
  <2> QED BY <2>1, <2>2, <2>3, <2>4 DEF RowsFollow, Open, Content
<1>6. ASSUME NEW e \in Exporters, FailExport(e) PROVE ExportsInv'
  <2>1. ExportsTypeOK'
    BY <1>6 DEF FailExport, Step, ExportsTypeOK, Commands
  <2> QED BY <1>6, <2>1 DEF FailExport, RowsFollow
<1>7. ASSUME NEW e \in Exporters, Return(e) PROVE ExportsInv'
  <2>1. ExportsTypeOK'
    BY <1>7 DEF Return, Step, ExportsTypeOK, Commands
  <2>2. ~Open(e) /\ export'[e].pc = "idle"
    BY <1>7 DEF Return, Step, ExportsTypeOK, Commands, Open
  <2>3. \A d \in Exporters \ {e} : export'[d] = export[d]
    BY <1>7 DEF Return, Step, ExportsTypeOK, Commands
  <2>4. UNCHANGED <<record, artifact, torn>>
    BY <1>7 DEF Return
  <2> QED BY <2>1, <2>2, <2>3, <2>4 DEF RowsFollow, Open, Content
<1>8. ASSUME NEW e \in Exporters, Kill(e) PROVE ExportsInv'
  <2>1. ExportsTypeOK'
    BY <1>8 DEF Kill, NoExport, ExportsTypeOK, Commands
  <2> QED BY <1>8, <2>1 DEF Kill, RowsFollow
<1>9. CASE FinishFile
  <2>1. ExportsTypeOK'
    BY <1>9 DEF FinishFile, ExportsTypeOK, Commands, Contents
  <2> QED BY <1>9, <2>1 DEF FinishFile, RowsFollow, Open, Content
<1>10. CASE UNCHANGED exportsVars
  BY <1>10 DEF exportsVars, ExportsTypeOK, Commands, RowsFollow, Open, Content
<1> QED
  BY <1>1, <1>2, <1>3, <1>4, <1>5, <1>6, <1>7, <1>8, <1>9, <1>10 DEF ExportsNext

(* Once all exports have ended, a row that says DONE has the hash of the   *)
(* artifact, for any number of exports that overlap, fail and change their *)
(* mind about the items they saw (exporter.py, begin_export to fail_export)*)
THEOREM ExportsHonest == ExportsSpec => []ExportHonest
<1>1. ExportsInit => ExportsInv
  <2> SUFFICES ASSUME ExportsInit PROVE ExportsInv
    OBVIOUS
  <2>1. 0 \in 0..MaxFinished /\ 0 \in 0..MaxKills
    BY ExportsAssumption
  <2>2. ExportsTypeOK
    BY <2>1 DEF ExportsInit, ExportsTypeOK, Commands, NoExport
  <2>3. record.status = "none"
    BY DEF ExportsInit
  <2> QED BY <2>2, <2>3 DEF ExportsInv, RowsFollow
<1>2. ExportsInv => ExportHonest
  BY DEF ExportsInv, ExportsTypeOK, Commands, RowsFollow, Open, ExportHonest, InFlight
<1> QED BY <1>1, <1>2, ExportsInductive, PTL DEF ExportsSpec

(***************************************************************************)
(* Knowledge                                                               *)
(***************************************************************************)
Built == {"save", "publish", "demote", "pointer", "commit"}
Saved == {"publish", "demote", "pointer", "commit"}
Building == {"index"} \cup Built

(* What a process has of its version at each point of its start.           *)
StartsInStep ==
  /\ \A v \in Versions : build[v] # "none" => v \in manifests \cap indexes
  /\ \A p \in Starters : start[p].pc \in Building => start[p].version \in manifests
  /\ \A p \in Starters : start[p].pc \in Built => start[p].version \in indexes
  /\ \A p \in Starters : start[p].pc \in Saved => build[start[p].version] # "none"
  /\ \A p \in Starters : start[p].pc \in {"index", "save"} => build[start[p].version] = "none"
  /\ \A p \in Starters : \A v \in start[p].demoted : build[v] # "none"
  /\ \A p \in Starters : start[p].pc \in {"load", "lost"} => pointer # NoVersion

(* Two processes build two versions.                                       *)
VersionsApart ==
  \A p, q \in Starters :
    start[p].pc \in Building /\ start[q].pc \in Building /\ p # q =>
      start[p].version # start[q].version

KnowledgeInv == KnowledgeTypeOK /\ StartsInStep /\ VersionsApart /\ SelectionServes

(* A start that begins anew, and how it goes on.                           *)
LEMMA FreshStarts ==
  /\ Down \in Starts /\ Down.pc = "down" /\ Down.demoted = {}
  /\ \A pc \in {"build", "load", "lost"} : LET y == [Down EXCEPT !.pc = pc] IN
       y \in Starts /\ y.pc = pc /\ y.demoted = {}
  /\ \A v \in Versions : LET y == [Down EXCEPT !.pc = "serving", !.version = v] IN
       y \in Starts /\ y.pc = "serving" /\ y.demoted = {}
BY DEF Down, Starts

(* A step of one start that leaves the store and the files alone.          *)
LEMMA StartAlone ==
  ASSUME KnowledgeInv, NEW p \in Starters, NEW y \in Starts,
         start' = [start EXCEPT ![p] = y],
         UNCHANGED <<manifests, indexes, build, pointer>>, deaths' \in 0..MaxDeaths,
         y.pc \notin {"index", "save", "broken"},
         y.pc \in Saved => start[p].pc \in Saved /\ y.version = start[p].version,
         \A v \in y.demoted : build[v] # "none",
         y.pc \in {"load", "lost"} => pointer # NoVersion
  PROVE  KnowledgeInv'
<1> USE DEF KnowledgeInv, Built, Saved, Building
<1>1. KnowledgeTypeOK'
  BY DEF KnowledgeTypeOK
<1>2. start'[p] = y /\ \A q \in Starters \ {p} : start'[q] = start[q]
  BY DEF KnowledgeTypeOK
<1>3. y.pc \in Building => y.pc \in Saved
  OBVIOUS
<1>4. StartsInStep'
  BY <1>2, <1>3 DEF StartsInStep
<1>5. VersionsApart'
  BY <1>2, <1>3 DEF VersionsApart
<1>6. SelectionServes'
  BY <1>2 DEF SelectionServes
<1> QED BY <1>1, <1>4, <1>5, <1>6

LEMMA KnowledgeInductive == KnowledgeInv /\ [KnowledgeNext]_knowledgeVars => KnowledgeInv'
<1> SUFFICES ASSUME KnowledgeInv, [KnowledgeNext]_knowledgeVars PROVE KnowledgeInv'
  OBVIOUS
<1> USE KnowledgeAssumption
<1> USE DEF KnowledgeInv, KnowledgeTypeOK, Built, Saved, Building
<1>0. deaths \in 0..MaxDeaths /\ \A p \in Starters : start[p] \in Starts
  OBVIOUS
<1>1. ASSUME NEW p \in Starters, LookAtPointer(p) PROVE KnowledgeInv'
  <2> DEFINE pc == IF pointer = NoVersion THEN "build" ELSE "load"
             y  == [Down EXCEPT !.pc = pc]
  <2>1. start' = [start EXCEPT ![p] = y]
          /\ UNCHANGED <<manifests, indexes, build, pointer, deaths>>
    BY <1>1 DEF LookAtPointer
  <2>2. y \in Starts /\ y.pc = pc /\ y.demoted = {}
    BY FreshStarts
  <2> HIDE DEF y
  <2> QED BY <1>0, <2>1, <2>2, StartAlone
<1>2. ASSUME NEW p \in Starters, WriteManifest(p) PROVE KnowledgeInv'
  <2>1. PICK v \in Versions \ manifests :
          /\ manifests' = manifests \cup {v}
          /\ start' = [start EXCEPT ![p] = [@ EXCEPT !.pc = "index", !.version = v]]
    BY <1>2 DEF WriteManifest
  <2>2. build[v] = "none"
    BY <2>1 DEF StartsInStep
  <2>3. UNCHANGED <<indexes, build, pointer, deaths>>
    BY <1>2 DEF WriteManifest
  <2> DEFINE y == [start[p] EXCEPT !.pc = "index", !.version = v]
  <2>4. y \in Starts /\ y.pc = "index" /\ y.version = v /\ y.demoted = start[p].demoted
    BY <1>0 DEF Starts
  <2>5. start' = [start EXCEPT ![p] = y]
    BY <2>1
  <2> HIDE DEF y
  <2>6. KnowledgeTypeOK'
    BY <2>1, <2>3, <2>4, <2>5
  <2>7. start'[p] = y /\ \A q \in Starters \ {p} : start'[q] = start[q]
    BY <2>5
  <2>8. StartsInStep'
    BY <2>1, <2>2, <2>3, <2>4, <2>7 DEF StartsInStep
  <2>9. VersionsApart'
    BY <2>1, <2>4, <2>7 DEF StartsInStep, VersionsApart
  <2>10. SelectionServes'
    BY <2>1, <2>3, <2>4, <2>7 DEF SelectionServes
  <2> QED BY <2>6, <2>8, <2>9, <2>10
<1>3. ASSUME NEW p \in Starters, WriteIndex(p) PROVE KnowledgeInv'
  <2>1. /\ start[p].pc = "index" /\ start[p].version \in manifests
        /\ indexes' = indexes \cup {start[p].version}
        /\ UNCHANGED <<manifests, build, pointer, deaths>>
    BY <1>3 DEF WriteIndex, Move, StartsInStep
  <2> DEFINE y == [start[p] EXCEPT !.pc = "save"]
  <2>2. y \in Starts /\ y.pc = "save" /\ y.version = start[p].version
          /\ y.demoted = start[p].demoted
    BY <1>0, <2>1 DEF Starts
  <2>3. start' = [start EXCEPT ![p] = y]
    BY <1>3 DEF WriteIndex, Move
  <2> HIDE DEF y
  <2>4. KnowledgeTypeOK'
    BY <2>1, <2>2, <2>3
  <2>5. start'[p] = y /\ \A q \in Starters \ {p} : start'[q] = start[q]
    BY <2>3
  <2>6. StartsInStep'
    BY <2>1, <2>2, <2>5 DEF StartsInStep
  <2>7. VersionsApart' /\ SelectionServes'
    BY <2>1, <2>2, <2>5 DEF VersionsApart, SelectionServes
  <2> QED BY <2>4, <2>6, <2>7
<1>4. ASSUME NEW p \in Starters, SaveReady(p) PROVE KnowledgeInv'
  <2>1. /\ start[p].pc = "save" /\ build[start[p].version] = "none"
        /\ start[p].version \in manifests \cap indexes
        /\ build' = [build EXCEPT ![start[p].version] = "READY"]
        /\ UNCHANGED <<manifests, indexes, pointer, deaths>>
    BY <1>4 DEF SaveReady, Move, StartsInStep
  <2> DEFINE y == [start[p] EXCEPT !.pc = "publish"]
  <2>2. y \in Starts /\ y.pc = "publish" /\ y.version = start[p].version
          /\ y.demoted = start[p].demoted
    BY <1>0, <2>1 DEF Starts
  <2>3. start' = [start EXCEPT ![p] = y]
    BY <1>4 DEF SaveReady, Move
  <2> HIDE DEF y
  <2>4. KnowledgeTypeOK'
    BY <2>1, <2>2, <2>3
  <2>5. start'[p] = y /\ \A q \in Starters \ {p} : start'[q] = start[q]
    BY <2>3
  <2>6. /\ build'[start[p].version] = "READY"
        /\ \A v \in Versions \ {start[p].version} : build'[v] = build[v]
    BY <2>1
  <2>7. \A q \in Starters \ {p} : start[q].pc \in Building => start[q].version # start[p].version
    BY <2>1 DEF VersionsApart
  <2>8. StartsInStep'
    BY <2>1, <2>2, <2>5, <2>6, <2>7 DEF StartsInStep
  <2>9. VersionsApart'
    BY <2>1, <2>2, <2>5 DEF VersionsApart
  <2>10. SelectionServes'
    BY <2>1, <2>2, <2>5, <2>6 DEF SelectionServes
  <2> QED BY <2>4, <2>8, <2>9, <2>10
<1>5. ASSUME NEW p \in Starters, BeginPublish(p) PROVE KnowledgeInv'
  <2> DEFINE y == [start[p] EXCEPT !.pc = "demote", !.seen = Published]
  <2>1. /\ start[p].pc = "publish" /\ start' = [start EXCEPT ![p] = y]
        /\ UNCHANGED <<manifests, indexes, build, pointer, deaths>>
    BY <1>5 DEF BeginPublish
  <2>2. Published \in SUBSET Versions
    BY DEF Published
  <2>3. y \in Starts /\ y.pc = "demote" /\ y.version = start[p].version
          /\ y.demoted = start[p].demoted
    BY <1>0, <2>2 DEF Starts
  <2>4. \A v \in start[p].demoted : build[v] # "none"
    BY DEF StartsInStep
  <2> HIDE DEF y
  <2> QED BY <1>0, <2>1, <2>3, <2>4, StartAlone
<1>6. ASSUME NEW p \in Starters, Demote(p) PROVE KnowledgeInv'
  <2> DEFINE y == [start[p] EXCEPT !.pc = "pointer", !.demoted = start[p].seen \cap Published]
  <2>1. /\ start[p].pc = "demote" /\ start' = [start EXCEPT ![p] = y]
        /\ UNCHANGED <<manifests, indexes, build, pointer, deaths>>
    BY <1>6 DEF Demote
  <2>2. /\ start[p].seen \cap Published \in SUBSET Versions
        /\ \A v \in start[p].seen \cap Published : build[v] # "none"
    BY DEF Published
  <2>3. /\ y \in Starts /\ y.pc = "pointer" /\ y.version = start[p].version
        /\ y.demoted = start[p].seen \cap Published
    BY <1>0, <2>2 DEF Starts
  <2> HIDE DEF y
  <2> QED BY <1>0, <2>1, <2>2, <2>3, StartAlone
<1>7. ASSUME NEW p \in Starters, ReadPointer(p) PROVE KnowledgeInv'
  <2> DEFINE y == [start[p] EXCEPT !.pc = "commit", !.old = pointer]
  <2>1. /\ start[p].pc = "pointer" /\ start' = [start EXCEPT ![p] = y]
        /\ UNCHANGED <<manifests, indexes, build, pointer, deaths>>
    BY <1>7 DEF ReadPointer
  <2>2. y \in Starts /\ y.pc = "commit" /\ y.version = start[p].version
          /\ y.demoted = start[p].demoted
    BY <1>0 DEF Starts
  <2>3. \A v \in start[p].demoted : build[v] # "none"
    BY DEF StartsInStep
  <2> HIDE DEF y
  <2> QED BY <1>0, <2>1, <2>2, <2>3, StartAlone
<1>8. ASSUME NEW p \in Starters, CommitPublish(p), LosesPointer(p) PROVE KnowledgeInv'
  <2> DEFINE y == [Down EXCEPT !.pc = "lost"]
  <2>1. /\ start' = [start EXCEPT ![p] = y] /\ pointer # NoVersion
        /\ UNCHANGED <<manifests, indexes, build, pointer, deaths>>
    BY <1>8 DEF CommitPublish, LosesPointer
  <2>2. y \in Starts /\ y.pc = "lost" /\ y.demoted = {}
    BY FreshStarts
  <2> HIDE DEF y
  <2> QED BY <1>0, <2>1, <2>2, StartAlone
<1>9. ASSUME NEW p \in Starters, CommitPublish(p), ~LosesPointer(p) PROVE KnowledgeInv'
  <2>1. start[p].version \in Versions \cap manifests \cap indexes
          /\ build[start[p].version] # "none"
    BY <1>9 DEF CommitPublish, StartsInStep
  <2>2. /\ build' = [v \in Versions |-> IF v = start[p].version THEN "PUBLISHED"
                                        ELSE IF v \in start[p].demoted THEN "READY" ELSE build[v]]
        /\ pointer' = start[p].version
        /\ start' = [start EXCEPT ![p] = [Down EXCEPT !.pc = "load"]]
        /\ UNCHANGED <<manifests, indexes, deaths>>
    BY <1>9 DEF CommitPublish
  <2>3. KnowledgeTypeOK'
    <3>1. [Down EXCEPT !.pc = "load"] \in Starts
      BY FreshStarts
    <3>2. build' \in [Versions -> {"none", "READY", "PUBLISHED"}]
      BY <2>2
    <3> QED BY <2>1, <2>2, <3>1, <3>2
  <2>4. \A q \in Starters : start[q].pc \in {"index", "save"} =>
          start[q].version # start[p].version /\ start[q].version \notin start[p].demoted
    BY <1>9 DEF CommitPublish, StartsInStep, VersionsApart
  <2> DEFINE y == [Down EXCEPT !.pc = "load"]
  <2>5. y.pc = "load" /\ y.demoted = {}
    BY FreshStarts
  <2>6. start'[p] = y /\ \A q \in Starters \ {p} : start'[q] = start[q]
    BY <2>2
  <2>7. \A v \in Versions : build[v] # "none" => build'[v] # "none"
    BY <2>2
  <2>8. \A v \in Versions : build'[v] # "none" =>
          build[v] # "none" \/ v = start[p].version \/ v \in start[p].demoted
    BY <2>2
  <2>9. \A v \in start[p].demoted : build[v] # "none"
    BY DEF StartsInStep
  <2> HIDE DEF y
  <2>10. StartsInStep'
    <3>1. pointer' # NoVersion /\ UNCHANGED <<manifests, indexes>>
      BY <2>1, <2>2
    <3>2. \A v \in Versions : build'[v] # "none" => build[v] # "none"
      BY <2>1, <2>8, <2>9
    <3>3. \A q \in Starters \ {p} : start[q].pc \in {"index", "save"} =>
            start[q].version \in Versions /\ build'[start[q].version] = "none"
      BY <2>2, <2>4 DEF StartsInStep
    <3>4. (\A q \in Starters : start[q].pc \in Saved => build[start[q].version] # "none")'
      <4>1. ASSUME NEW q \in Starters \ {p}, start[q].pc \in Saved
            PROVE  start[q].version \in Versions /\ build[start[q].version] # "none"
        BY <4>1 DEF StartsInStep
      <4> QED BY <2>5, <2>6, <2>7, <4>1
    <3>5. (\A q \in Starters : \A v \in start[q].demoted : build[v] # "none")'
      <4>1. \A q \in Starters : start[q].demoted \in SUBSET Versions
        BY DEF Starts
      <4> QED BY <2>5, <2>6, <2>7, <4>1 DEF StartsInStep
    <3> QED BY <2>5, <2>6, <3>1, <3>2, <3>3, <3>4, <3>5 DEF StartsInStep
  <2>11. VersionsApart'
    BY <2>2 DEF VersionsApart, Down
  <2>12. SelectionServes'
    BY <2>1, <2>2 DEF SelectionServes, Down
  <2> QED BY <2>3, <2>10, <2>11, <2>12
<1>10. ASSUME NEW p \in Starters, LoadCurrentIndex(p) PROVE KnowledgeInv'
  <2> DEFINE y == [Down EXCEPT !.pc = "serving", !.version = pointer]
  <2>1. pointer \in manifests \cap indexes
    BY <1>10 DEF LoadCurrentIndex, StartsInStep, SelectionServes
  <2>2. start' = [start EXCEPT ![p] = y]
          /\ UNCHANGED <<manifests, indexes, build, pointer, deaths>>
    BY <1>10, <2>1 DEF LoadCurrentIndex
  <2>3. y \in Starts /\ y.pc = "serving" /\ y.demoted = {}
    BY <2>1 DEF Down, Starts
  <2> HIDE DEF y
  <2> QED BY <1>0, <2>2, <2>3, StartAlone
<1>11. ASSUME NEW p \in Starters, Die(p) PROVE KnowledgeInv'
  <2>1. /\ start' = [start EXCEPT ![p] = Down] /\ deaths' \in 0..MaxDeaths
        /\ UNCHANGED <<manifests, indexes, build, pointer>>
    BY <1>11 DEF Die
  <2>2. Down \in Starts /\ Down.pc = "down" /\ Down.demoted = {}
    BY FreshStarts
  <2> QED BY <2>1, <2>2, StartAlone
<1>12. CASE UNCHANGED knowledgeVars
  BY <1>12 DEF knowledgeVars, StartsInStep, VersionsApart, SelectionServes
<1> QED
  BY <1>1, <1>2, <1>3, <1>4, <1>5, <1>6, <1>7, <1>8, <1>9, <1>10, <1>11, <1>12 DEF KnowledgeNext

(* However many first starts race and die, the pointer names a version that*)
(* is published and complete, and a start that lost can be repeated        *)
(* (build_service of api_server.py, KnowledgeBuildService, publish).       *)
THEOREM SelectionAlwaysServes == KnowledgeSpec => []SelectionServes
<1>1. KnowledgeInit => KnowledgeInv
  <2> SUFFICES ASSUME KnowledgeInit PROVE KnowledgeInv
    OBVIOUS
  <2>1. KnowledgeTypeOK
    <3>1. 0 \in 0..MaxDeaths
      BY KnowledgeAssumption
    <3>2. start \in [Starters -> Starts]
      BY FreshStarts DEF KnowledgeInit
    <3> QED BY <3>1, <3>2 DEF KnowledgeInit, KnowledgeTypeOK
  <2>2. \A p \in Starters : start[p].pc = "down" /\ start[p].demoted = {}
    BY FreshStarts DEF KnowledgeInit
  <2>3. (\A v \in Versions : build[v] = "none") /\ pointer = NoVersion
    BY DEF KnowledgeInit
  <2> QED
    BY <2>1, <2>2, <2>3
    DEF KnowledgeInv, StartsInStep, VersionsApart, SelectionServes, Built, Saved, Building
<1>2. KnowledgeInv => SelectionServes
  BY DEF KnowledgeInv
<1> QED BY <1>1, <1>2, KnowledgeInductive, PTL DEF KnowledgeSpec

(***************************************************************************)
(* BatchIntake                                                             *)
(***************************************************************************)

(* A key has one batch.                                                    *)
OneBatchPerKey ==
  \A a, b \in Created : batch[a].key # NoKey /\ batch[a].key = batch[b].key => a = b

(* What a transaction that holds the lock of its key relies on: it holds it*)
(* alone, and the key has no batch.                                        *)
LockedKeyIsFree ==
  \A c \in Clients : request[c].pc \in {"count", "insert"} /\ request[c].key # NoKey =>
    /\ \A b \in Created : batch[b].key # request[c].key
    /\ \A d \in Clients \ {c} : ~HoldsKey(d, request[c].key)

(* What a request knew of its key stays true, and once it looked the key   *)
(* up in vain it knew nothing.                                             *)
KnownIsCreated ==
  \A c \in Clients : LET r == request[c] IN
    r.key # NoKey /\ r.known # NoBatch =>
      /\ r.known \in Created /\ batch[r.known].key = r.key
      /\ r.pc \in {"lookup", "answered", "idle"}

(* What a request has at each point, and that an answer names a batch.     *)
RequestsInStep ==
  \A c \in Clients : LET r == request[c] IN
    /\ r.pc # "idle" => r.source \in Sources
    /\ r.pc \in {"lookup", "recheck"} => r.key \in Keys
    /\ r.answer \in {"accepted", "conflict"} => r.batch \in Created

IntakeInv ==
  /\ IntakeTypeOK /\ OneBatchPerKey /\ LockedKeyIsFree /\ KnownIsCreated
  /\ RequestsInStep /\ ReplayIsAnswered

(* What the lookup of a key finds.                                         *)
LEMMA LookupFinds ==
  ASSUME IntakeTypeOK, NEW k \in Keys
  PROVE  /\ BatchOfKey(k) = NoBatch => \A b \in Created : batch[b].key # k
         /\ BatchOfKey(k) # NoBatch => BatchOfKey(k) \in Created /\ batch[BatchOfKey(k)].key = k
<1> USE IntakeAssumption
<1>1. CASE \E b \in Created : batch[b].key = k
  <2>1. BatchOfKey(k) = CHOOSE b \in Created : batch[b].key = k
    BY <1>1 DEF BatchOfKey
  <2>2. BatchOfKey(k) \in Created /\ batch[BatchOfKey(k)].key = k
    BY <1>1, <2>1
  <2>3. BatchOfKey(k) # NoBatch
    BY <2>2 DEF Created
  <2> QED BY <2>2, <2>3
<1>2. CASE \A b \in Created : batch[b].key # k
  BY <1>2 DEF BatchOfKey
<1> QED BY <1>1, <1>2

(* A request that was answered, and one that went on.                      *)
LEMMA RequestUpdates ==
  ASSUME NEW r \in Requests, NEW b \in BatchIds \cup {NoBatch}, NEW n \in Nat,
         NEW answer \in Answers, NEW pc \in {"discover", "recheck", "count", "insert"}
  PROVE  /\ [r EXCEPT !.pc = "answered", !.answer = answer, !.batch = b] \in Requests
         /\ [r EXCEPT !.files = n, !.pc = pc] \in Requests
BY DEF Requests

(* An answer leaves the batches, and the locks that others hold, alone.    *)
LEMMA AnswerKeepsInv ==
  ASSUME IntakeInv, NEW c \in Clients,
         NEW answer \in {"accepted", "conflict", "invalid", "capacity", "lost"},
         NEW b \in BatchIds \cup {NoBatch},
         Answer(c, answer, b), UNCHANGED <<batch, unfinished, requests>>,
         request[c].pc # "idle",
         answer \in {"accepted", "conflict"} => b \in Created,
         LET r == request[c] IN
         r.key # NoKey =>
           /\ answer = "accepted" => batch[b] = [key |-> r.key, source |-> r.source]
           /\ answer = "conflict" => batch[b].key = r.key /\ batch[b].source # r.source
           /\ r.known # NoBatch => answer = "lost" \/ b = r.known
  PROVE  IntakeInv'
<1> USE IntakeAssumption DEF IntakeInv
<1>1. request' = [request EXCEPT ![c] = [@ EXCEPT !.pc = "answered", !.answer = answer, !.batch = b]]
  BY DEF Answer
<1>2. /\ request'[c].pc = "answered" /\ request'[c].answer = answer /\ request'[c].batch = b
      /\ request'[c].key = request[c].key /\ request'[c].known = request[c].known
      /\ request'[c].source = request[c].source
      /\ \A d \in Clients \ {c} : request'[d] = request[d]
  BY <1>1 DEF IntakeTypeOK, Requests
<1>3. Created' = Created
  BY DEF Created
<1>4. IntakeTypeOK'
  <2>1. answer \in Answers
    BY DEF Answers
  <2>2. request[c] \in Requests
    BY DEF IntakeTypeOK
  <2>3. [request[c] EXCEPT !.pc = "answered", !.answer = answer, !.batch = b] \in Requests
    BY <2>1, <2>2, RequestUpdates
  <2> QED BY <1>1, <2>3 DEF IntakeTypeOK
<1>5. OneBatchPerKey'
  BY <1>3 DEF OneBatchPerKey
<1>6. LockedKeyIsFree'
  BY <1>2, <1>3 DEF LockedKeyIsFree, HoldsKey
<1>7. KnownIsCreated'
  BY <1>2, <1>3 DEF KnownIsCreated
<1>8. ReplayIsAnswered'
  BY <1>2 DEF ReplayIsAnswered
<1>9. RequestsInStep'
  BY <1>2, <1>3 DEF RequestsInStep
<1> QED BY <1>4, <1>5, <1>6, <1>7, <1>8, <1>9

(* A move of a request to its next point, with what that point needs.      *)
LEMMA MoveKeepsInv ==
  ASSUME IntakeInv, NEW c \in Clients, NEW n \in Nat,
         NEW pc \in {"discover", "recheck", "count", "insert"},
         request' = [request EXCEPT ![c] = [@ EXCEPT !.files = n, !.pc = pc]],
         UNCHANGED <<batch, unfinished, requests>>,
         request[c].pc # "idle", pc = "recheck" => request[c].key \in Keys,
         request[c].key # NoKey => request[c].known = NoBatch,
         request[c].key # NoKey /\ pc \in {"count", "insert"} =>
           /\ \A b \in Created : batch[b].key # request[c].key
           /\ \A d \in Clients \ {c} : ~HoldsKey(d, request[c].key)
  PROVE  IntakeInv'
<1> USE IntakeAssumption DEF IntakeInv
<1>1. /\ request'[c].pc = pc
      /\ request'[c].key = request[c].key /\ request'[c].known = request[c].known
      /\ request'[c].source = request[c].source /\ request'[c].answer = request[c].answer
      /\ request'[c].batch = request[c].batch
      /\ \A d \in Clients \ {c} : request'[d] = request[d]
  BY DEF IntakeTypeOK, Requests
<1>2. Created' = Created
  BY DEF Created
<1>3. IntakeTypeOK'
  <2>1. request[c] \in Requests
    BY DEF IntakeTypeOK
  <2>2. [request[c] EXCEPT !.files = n, !.pc = pc] \in Requests
    BY <2>1, RequestUpdates DEF Answers
  <2> QED BY <2>2 DEF IntakeTypeOK
<1>4. OneBatchPerKey'
  BY <1>2 DEF OneBatchPerKey
<1>5. LockedKeyIsFree'
  BY <1>1, <1>2 DEF LockedKeyIsFree, HoldsKey
<1>6. KnownIsCreated'
  BY <1>1, <1>2 DEF KnownIsCreated
<1>7. ReplayIsAnswered'
  BY <1>1 DEF ReplayIsAnswered
<1>8. RequestsInStep'
  BY <1>1, <1>2 DEF RequestsInStep
<1> QED BY <1>3, <1>4, <1>5, <1>6, <1>7, <1>8

(* A known key is answered with its batch.                                 *)
LEMMA KnownKeyAnswered ==
  ASSUME IntakeInv, NEW c \in Clients, request[c].key \in Keys, request[c].pc # "idle",
         BatchOfKey(request[c].key) # NoBatch,
         AnswerKnown(c, BatchOfKey(request[c].key)), UNCHANGED <<batch, unfinished, requests>>
  PROVE  IntakeInv'
<1> USE IntakeAssumption
<1> DEFINE b == BatchOfKey(request[c].key)
<1>1. b \in Created /\ batch[b].key = request[c].key /\ request[c].key # NoKey
  BY LookupFinds DEF IntakeInv
<1>2. b \in BatchIds /\ batch[b] \in [key : Keys \cup {NoKey}, source : Sources]
  BY <1>1 DEF Created, IntakeInv, IntakeTypeOK, Requests
<1>3. request[c].known # NoBatch => b = request[c].known
  BY <1>1 DEF IntakeInv, KnownIsCreated, OneBatchPerKey
<1> HIDE DEF b
<1>4. CASE batch[b].source = request[c].source
  <2>1. Answer(c, "accepted", b)
    BY <1>4 DEF AnswerKnown, b
  <2>2. batch[b] = [key |-> request[c].key, source |-> request[c].source]
    BY <1>1, <1>2, <1>4
  <2> QED BY <2>1, <2>2, <1>1, <1>2, <1>3, AnswerKeepsInv
<1>5. CASE batch[b].source # request[c].source
  <2>1. Answer(c, "conflict", b)
    BY <1>5 DEF AnswerKnown, b
  <2> QED BY <2>1, <1>1, <1>2, <1>3, <1>5, AnswerKeepsInv
<1> QED BY <1>4, <1>5

LEMMA IntakeInductive == IntakeInv /\ [IntakeNext]_intakeVars => IntakeInv'
<1> SUFFICES ASSUME IntakeInv, [IntakeNext]_intakeVars PROVE IntakeInv'
  OBVIOUS
<1> USE IntakeAssumption
<1>1. ASSUME NEW c \in Clients, NEW k \in Keys \cup {NoKey}, NEW s \in Sources, Ask(c, k, s)
      PROVE  IntakeInv'
  <2>1. /\ request' = [request EXCEPT ![c] =
             [NoRequest EXCEPT !.pc = IF k = NoKey THEN "discover" ELSE "lookup",
                               !.key = k, !.source = s, !.known = BatchOfKey(k)]]
        /\ requests < MaxRequests /\ requests' = requests + 1
        /\ UNCHANGED <<batch, unfinished>>
    BY <1>1 DEF Ask
  <2>2. BatchOfKey(k) \in BatchIds \cup {NoBatch} /\ (k = NoKey => BatchOfKey(k) = NoBatch)
    BY LookupFinds DEF IntakeInv, Created, BatchOfKey
  <2>3. IntakeTypeOK'
    <3>1. [NoRequest EXCEPT !.pc = IF k = NoKey THEN "discover" ELSE "lookup",
                            !.key = k, !.source = s, !.known = BatchOfKey(k)] \in Requests
      BY <2>2 DEF NoRequest, Requests, Answers
    <3>2. requests' \in 0..MaxRequests
      BY <2>1 DEF IntakeInv, IntakeTypeOK
    <3> QED BY <2>1, <3>1, <3>2 DEF IntakeInv, IntakeTypeOK
  <2>4. /\ request'[c].pc \in {"discover", "lookup"} /\ request'[c].key = k
        /\ request'[c].known = BatchOfKey(k)
        /\ k # NoKey => request'[c].pc = "lookup"
        /\ \A d \in Clients \ {c} : request'[d] = request[d]
    BY <2>1 DEF IntakeInv, IntakeTypeOK, Requests, NoRequest
  <2>5. Created' = Created
    BY <2>1 DEF Created
  <2>6. OneBatchPerKey'
    BY <2>1, <2>5 DEF IntakeInv, OneBatchPerKey
  <2>7. LockedKeyIsFree'
    BY <2>1, <2>4, <2>5 DEF IntakeInv, LockedKeyIsFree, HoldsKey
  <2>8. k # NoKey /\ BatchOfKey(k) # NoBatch => BatchOfKey(k) \in Created
          /\ batch[BatchOfKey(k)].key = k
    BY LookupFinds DEF IntakeInv
  <2>9. KnownIsCreated'
    BY <2>1, <2>4, <2>5, <2>8 DEF IntakeInv, KnownIsCreated
  <2>10. ReplayIsAnswered'
    BY <2>1, <2>4 DEF IntakeInv, ReplayIsAnswered
  <2>11. RequestsInStep'
    BY <2>1, <2>4, <2>5 DEF IntakeInv, RequestsInStep, NoRequest, IntakeTypeOK, Requests
  <2> QED BY <2>3, <2>6, <2>7, <2>9, <2>10, <2>11 DEF IntakeInv
<1>2. ASSUME NEW c \in Clients, GetIdempotentBatch(c) \/ LookAgain(c) PROVE IntakeInv'
  <2>1. request[c].pc \in {"lookup", "recheck"} /\ UNCHANGED <<batch, unfinished, requests>>
    BY <1>2 DEF GetIdempotentBatch, LookAgain
  <2>2. request[c].key \in Keys /\ request[c].files \in Nat
    BY <2>1 DEF IntakeInv, RequestsInStep, IntakeTypeOK, Requests
  <2>3. CASE BatchOfKey(request[c].key) # NoBatch
    <3>1. AnswerKnown(c, BatchOfKey(request[c].key))
      BY <1>2, <2>3 DEF GetIdempotentBatch, LookAgain
    <3> QED BY <2>1, <2>2, <2>3, <3>1, KnownKeyAnswered
  <2>4. CASE BatchOfKey(request[c].key) = NoBatch
    <3>1. PICK pc \in {"discover", "count"} :
            /\ request' = [request EXCEPT ![c].pc = pc]
            /\ pc = "count" => \A d \in Clients \ {c} : ~HoldsKey(d, request[c].key)
      BY <1>2, <2>4 DEF GetIdempotentBatch, LookAgain, Goto
    <3>2. request' = [request EXCEPT ![c] = [@ EXCEPT !.files = request[c].files, !.pc = pc]]
      BY <3>1, <2>2 DEF IntakeInv, IntakeTypeOK, Requests
    <3>3. \A b \in Created : batch[b].key # request[c].key
      BY <2>2, <2>4, LookupFinds DEF IntakeInv
    <3>4. request[c].known = NoBatch
      BY <2>2, <3>3 DEF IntakeInv, KnownIsCreated
    <3> QED BY <2>1, <2>2, <3>1, <3>2, <3>3, <3>4, MoveKeepsInv
  <2> QED BY <2>3, <2>4
<1>3. ASSUME NEW c \in Clients, Discover(c) PROVE IntakeInv'
  <2>1. request[c].pc = "discover" /\ UNCHANGED <<batch, unfinished, requests>>
    BY <1>3 DEF Discover
  <2>2. request[c].key # NoKey => request[c].known = NoBatch
    BY <2>1 DEF IntakeInv, KnownIsCreated
  <2>3. request[c].key \in Keys \cup {NoKey}
    BY DEF IntakeInv, IntakeTypeOK, Requests
  <2>4. ASSUME NEW answer \in {"invalid", "capacity"}, Answer(c, answer, NoBatch) PROVE IntakeInv'
    BY <2>1, <2>2, <2>4, AnswerKeepsInv
  <2>5. ASSUME NEW n \in FileCounts,
               request' = [request EXCEPT ![c] =
                 [@ EXCEPT !.files = n, !.pc = IF request[c].key = NoKey THEN "count" ELSE "recheck"]]
        PROVE  IntakeInv'
    <3>1. n \in Nat
      OBVIOUS
    <3>2. CASE request[c].key = NoKey
      BY <2>1, <2>2, <2>5, <3>1, <3>2, MoveKeepsInv
    <3>3. CASE request[c].key # NoKey
      BY <2>1, <2>2, <2>3, <2>5, <3>1, <3>3, MoveKeepsInv
    <3> QED BY <3>2, <3>3
  <2> QED BY <1>3, <2>4, <2>5 DEF Discover
<1>4. ASSUME NEW c \in Clients, Count(c) PROVE IntakeInv'
  <2>1. request[c].pc = "count" /\ UNCHANGED <<batch, unfinished, requests>>
    BY <1>4 DEF Count
  <2>2. request[c].key # NoKey =>
          /\ request[c].known = NoBatch
          /\ \A b \in Created : batch[b].key # request[c].key
          /\ \A d \in Clients \ {c} : ~HoldsKey(d, request[c].key)
    BY <2>1 DEF IntakeInv, KnownIsCreated, LockedKeyIsFree
  <2>3. CASE Answer(c, "capacity", NoBatch)
    BY <2>1, <2>2, <2>3, AnswerKeepsInv
  <2>4. CASE Goto(c, "insert")
    <3>1. /\ request[c].files \in Nat
          /\ request' = [request EXCEPT ![c] = [@ EXCEPT !.files = request[c].files, !.pc = "insert"]]
      BY <2>4 DEF Goto, IntakeInv, IntakeTypeOK, Requests
    <3> QED BY <2>1, <2>2, <3>1, MoveKeepsInv
  <2> QED BY <1>4, <2>3, <2>4 DEF Count
<1>5. ASSUME NEW c \in Clients, Insert(c) PROVE IntakeInv'
  <2>1. request[c].pc = "insert" /\ request[c].key \in Keys \cup {NoKey}
          /\ request[c].source \in Sources
    BY <1>5 DEF Insert, IntakeInv, IntakeTypeOK, Requests, RequestsInStep
  <2>2. request[c].key # NoKey =>
          /\ request[c].known = NoBatch
          /\ \A b \in Created : batch[b].key # request[c].key
          /\ \A d \in Clients \ {c} : ~HoldsKey(d, request[c].key)
    BY <2>1 DEF IntakeInv, KnownIsCreated, LockedKeyIsFree
  <2>3. BatchOfKey(request[c].key) = NoBatch
    BY <2>2 DEF BatchOfKey
  <2>4. PICK b \in BatchIds \ Created, answer \in {"accepted", "lost"}, n \in BatchIds \cup {NoBatch} :
          /\ batch' = [batch EXCEPT ![b] = [key |-> request[c].key, source |-> request[c].source]]
          /\ unfinished' = [unfinished EXCEPT ![b] = request[c].files]
          /\ request' = [request EXCEPT ![c] = [@ EXCEPT !.pc = "answered", !.answer = answer, !.batch = n]]
          /\ n \in {b, NoBatch} /\ (answer = "accepted" => n = b)
          /\ requests' = requests
    BY <1>5, <2>3 DEF Insert, Answer
  <2>5. /\ batch'[b] = [key |-> request[c].key, source |-> request[c].source]
        /\ \A a \in BatchIds \ {b} : batch'[a] = batch[a]
    BY <2>4 DEF IntakeInv, IntakeTypeOK, Requests
  <2>6. Created' = Created \cup {b}
    <3>1. batch'[b] # NoRow
      BY <2>1, <2>5 DEF NoRow
    <3> QED BY <2>5, <3>1 DEF Created
  <2>7. /\ request'[c].pc = "answered" /\ request'[c].answer = answer /\ request'[c].batch = n
        /\ request'[c].key = request[c].key /\ request'[c].source = request[c].source
        /\ request'[c].known = request[c].known
        /\ \A d \in Clients \ {c} : request'[d] = request[d]
    BY <2>4 DEF IntakeInv, IntakeTypeOK, Requests
  <2>8. IntakeTypeOK'
    <3>1. request[c] \in Requests /\ answer \in Answers /\ request[c].files \in Nat
      BY DEF IntakeInv, IntakeTypeOK, Requests, Answers
    <3>2. [request[c] EXCEPT !.pc = "answered", !.answer = answer, !.batch = n] \in Requests
      BY <3>1, RequestUpdates
    <3> QED BY <2>1, <2>4, <3>1, <3>2 DEF IntakeInv, IntakeTypeOK
  <2>9. Created \subseteq BatchIds \ {b}
    BY DEF Created
  <2>10. OneBatchPerKey'
    BY <2>2, <2>5, <2>6, <2>9 DEF IntakeInv, OneBatchPerKey
  <2>11. LockedKeyIsFree'
    BY <2>2, <2>5, <2>6, <2>7, <2>9 DEF IntakeInv, LockedKeyIsFree, HoldsKey
  <2>12. KnownIsCreated'
    BY <2>2, <2>5, <2>6, <2>7, <2>9 DEF IntakeInv, KnownIsCreated
  <2>13. RequestsInStep'
    BY <2>1, <2>4, <2>6, <2>7 DEF IntakeInv, RequestsInStep
  <2>14. ReplayIsAnswered'
    <3>1. ASSUME NEW d \in Clients \ {c}, request[d].pc = "answered", request[d].key # NoKey
          PROVE  request[d].answer \in {"accepted", "conflict"} => batch'[request[d].batch] = batch[request[d].batch]
      BY <2>5, <2>9 DEF IntakeInv, RequestsInStep
    <3> QED BY <2>2, <2>4, <2>5, <2>7, <3>1 DEF IntakeInv, ReplayIsAnswered
  <2> QED BY <2>8, <2>10, <2>11, <2>12, <2>13, <2>14 DEF IntakeInv
<1>6. ASSUME NEW c \in Clients, Abort(c) PROVE IntakeInv'
  BY <1>6, AnswerKeepsInv DEF Abort
<1>7. ASSUME NEW b \in BatchIds, FinishItem(b) PROVE IntakeInv'
  <2>1. IntakeTypeOK'
    BY <1>7 DEF FinishItem, IntakeInv, IntakeTypeOK, Requests
  <2>2. UNCHANGED <<batch, request>>
    BY <1>7 DEF FinishItem
  <2> QED
    BY <2>1, <2>2 DEF IntakeInv, OneBatchPerKey, LockedKeyIsFree, HoldsKey, KnownIsCreated,
         RequestsInStep, ReplayIsAnswered, Created
<1>8. CASE UNCHANGED intakeVars
  BY <1>8 DEF intakeVars, IntakeInv, IntakeTypeOK, Requests, OneBatchPerKey, LockedKeyIsFree,
     HoldsKey,
       KnownIsCreated, RequestsInStep, ReplayIsAnswered, Created
<1> QED
  BY <1>1, <1>2, <1>3, <1>4, <1>5, <1>6, <1>7, <1>8 DEF IntakeNext

LEMMA IntakeInitially == IntakeInit => IntakeInv
<1> SUFFICES ASSUME IntakeInit PROVE IntakeInv
  OBVIOUS
<1>1. Created = {}
  BY DEF IntakeInit, Created
<1>2. IntakeTypeOK
  BY IntakeAssumption DEF IntakeInit, IntakeTypeOK, Requests, Answers, NoRequest
<1> QED
  BY <1>1, <1>2 DEF IntakeInit, IntakeInv, OneBatchPerKey, LockedKeyIsFree, KnownIsCreated,
       RequestsInStep, ReplayIsAnswered, NoRequest

(* A repeated request gets the batch of its key and directory, whatever it *)
(* races with, and never meets the unique constraint                       *)
(* (PostgresBatchService.create_batch, create_batch_with_outbox).          *)
THEOREM ReplaysAnswered == IntakeSpec => []ReplayIsAnswered
<1>1. IntakeInv => ReplayIsAnswered
  BY DEF IntakeInv
<1> QED BY <1>1, IntakeInitially, IntakeInductive, PTL DEF IntakeSpec

(***************************************************************************)
(* The sum over the batches.  Its definition is recursive: what it does is *)
(* proved from the least size of a set for which it would not.             *)
(***************************************************************************)

(* A set of natural numbers has a least element.                           *)
LEMMA Least ==
  ASSUME NEW T \in SUBSET Nat, T # {}
  PROVE  \E n \in T : \A k \in T : ~(k < n)
<1> DEFINE Less == {p \in Nat \X Nat : p[1] < p[2]}
<1>1. IsWellFoundedOn(Less, Nat)
  BY NatLessThanWellFounded DEF OpToRel
<1>2. \E n \in T : \A k \in T : ~(<<k, n>> \in Less)
  BY <1>1, WFMin
<1>3. QED
  BY <1>2

(* The element that the sum takes first, and what is left.                 *)
First(s) == CHOOSE b \in s : TRUE
Rest(s) == s \ {First(s)}

LEMMA Pick ==
  ASSUME IntakeAssumption, NEW s \in SUBSET BatchIds
  PROVE  /\ IsFiniteSet(s) /\ Cardinality(s) \in Nat
         /\ Cardinality(s) <= Cardinality(BatchIds)
         /\ \A b \in s : /\ s \ {b} \in SUBSET BatchIds
                         /\ Cardinality(s \ {b}) = Cardinality(s) - 1
                         /\ Cardinality(s \ {b}) \in Nat
         /\ s # {} => First(s) \in s
<1>1. IsFiniteSet(BatchIds)
  BY DEF IntakeAssumption
<1>2. IsFiniteSet(s) /\ Cardinality(s) \in Nat /\ Cardinality(s) <= Cardinality(BatchIds)
  BY <1>1, FS_Subset, FS_CardinalityType
<1>3. ASSUME NEW b \in s
      PROVE  /\ s \ {b} \in SUBSET BatchIds
             /\ Cardinality(s \ {b}) = Cardinality(s) - 1
             /\ Cardinality(s \ {b}) \in Nat
  BY <1>2, FS_RemoveElement, FS_CardinalityType
<1>4. QED
  BY <1>2, <1>3 DEF First

(* A set of sets of batches has a smallest one.                            *)
LEMMA Smallest ==
  ASSUME IntakeAssumption, NEW D \in SUBSET SUBSET BatchIds, D # {}
  PROVE  \E s \in D : \A r \in D : ~(Cardinality(r) < Cardinality(s))
<1> DEFINE T == {Cardinality(s) : s \in D}
<1>1. T \in SUBSET Nat /\ T # {}
  BY Pick
<1>2. PICK n \in T : \A k \in T : ~(k < n)
  BY <1>1, Least
<1>3. QED
  BY <1>2

Summand(v, g, s) == IF s = {} THEN 0 ELSE v[First(s)] + g[Rest(s)]

Sums(v) == CHOOSE g : g = [s \in SUBSET BatchIds |-> Summand(v, g, s)]

LEMMA PendingIsSum == PendingItemCount = Sums(unfinished)[BatchIds]
BY DEF PendingItemCount, MapThenSumSet, MapThenFoldSet, Sums, Summand, First, Rest

(* There is such a function.                                               *)
LEMMA SumsDefined ==
  ASSUME IntakeAssumption, NEW v \in [BatchIds -> Nat]
  PROVE  /\ Sums(v) \in [SUBSET BatchIds -> Nat]
         /\ \A s \in SUBSET BatchIds : Sums(v)[s] = Summand(v, Sums(v), s)
<1> DEFINE UpTo(g, n) == \A s \in SUBSET BatchIds :
                           Cardinality(s) <= n => g[s] = Summand(v, g, s)
           Bad == {n \in Nat : ~\E g \in [SUBSET BatchIds -> Nat] : UpTo(g, n)}
<1>1. \A g \in [SUBSET BatchIds -> Nat], s \in SUBSET BatchIds : Summand(v, g, s) \in Nat
  BY Pick DEF Summand, Rest
<1>2. Bad = {}
  <2>1. SUFFICES ASSUME Bad # {}
                 PROVE  FALSE
    OBVIOUS
  <2>2. PICK n \in Bad : \A k \in Bad : ~(k < n)
    BY <2>1, Least
  <2>3. n \in Nat
    OBVIOUS
  <2>4. \E g \in [SUBSET BatchIds -> Nat] : \A s \in SUBSET BatchIds :
          Cardinality(s) < n => g[s] = Summand(v, g, s)
    <3>1. CASE n = 0
      <4> DEFINE g == [s \in SUBSET BatchIds |-> 0]
      <4>1. g \in [SUBSET BatchIds -> Nat]
        OBVIOUS
      <4>2. \A s \in SUBSET BatchIds : ~(Cardinality(s) < n)
        BY <3>1, Pick
      <4>3. QED
        BY <4>1, <4>2
    <3>2. CASE n # 0
      <4>1. n - 1 \in Nat /\ n - 1 < n
        BY <2>3, <3>2
      <4>2. n - 1 \notin Bad
        BY <2>2, <4>1
      <4>3. PICK g \in [SUBSET BatchIds -> Nat] : UpTo(g, n - 1)
        BY <4>1, <4>2
      <4>4. \A s \in SUBSET BatchIds : Cardinality(s) < n => Cardinality(s) <= n - 1
        BY <2>3, Pick
      <4>5. QED
        BY <4>3, <4>4
    <3>3. QED
      BY <3>1, <3>2
  <2>5. PICK g \in [SUBSET BatchIds -> Nat] : \A s \in SUBSET BatchIds :
          Cardinality(s) < n => g[s] = Summand(v, g, s)
    BY <2>4
  <2> DEFINE h == [s \in SUBSET BatchIds |-> Summand(v, g, s)]
  <2>6. h \in [SUBSET BatchIds -> Nat]
    BY <1>1
  <2>7. ASSUME NEW s \in SUBSET BatchIds, Cardinality(s) <= n
        PROVE  h[s] = Summand(v, h, s)
    <3>1. CASE s = {}
      BY <3>1 DEF Summand
    <3>2. CASE s # {}
      <4>1. /\ Rest(s) \in SUBSET BatchIds /\ Cardinality(Rest(s)) = Cardinality(s) - 1
            /\ Cardinality(s) \in Nat
        BY <3>2, Pick DEF Rest
      <4>2. Cardinality(Rest(s)) < n
        BY <4>1, <2>3, <2>7
      <4>3. h[Rest(s)] = g[Rest(s)]
        BY <2>5, <4>1, <4>2
      <4>4. QED
        BY <3>2, <4>3 DEF Summand
    <3>3. QED
      BY <3>1, <3>2
  <2> HIDE DEF h
  <2>8. n \notin Bad
    BY <2>6, <2>7
  <2>9. QED
    BY <2>8
<1>3. PICK g \in [SUBSET BatchIds -> Nat] : UpTo(g, Cardinality(BatchIds))
  <2>1. Cardinality(BatchIds) \in Nat
    BY FS_CardinalityType DEF IntakeAssumption
  <2>2. QED
    BY <1>2, <2>1
<1>4. \A s \in SUBSET BatchIds : g[s] = Summand(v, g, s)
  BY <1>3, Pick
<1>5. g = [s \in SUBSET BatchIds |-> Summand(v, g, s)]
  BY <1>4
<1>6. Sums(v) = [s \in SUBSET BatchIds |-> Summand(v, Sums(v), s)]
  BY <1>5 DEF Sums
<1>7. \A s \in SUBSET BatchIds : Sums(v)[s] = Summand(v, Sums(v), s)
  BY <1>6
<1>8. \A s \in SUBSET BatchIds : Sums(v)[s] \in Nat
  <2> DEFINE D == {s \in SUBSET BatchIds : Sums(v)[s] \notin Nat}
  <2>1. SUFFICES ASSUME D # {}
                 PROVE  FALSE
    OBVIOUS
  <2>2. PICK s \in D : \A r \in D : ~(Cardinality(r) < Cardinality(s))
    BY <2>1, Smallest
  <2>3. s # {}
    BY <1>7 DEF Summand
  <2>4. /\ First(s) \in BatchIds /\ Rest(s) \in SUBSET BatchIds
        /\ Cardinality(Rest(s)) < Cardinality(s)
    BY <2>3, Pick DEF Rest
  <2>5. Sums(v)[Rest(s)] \in Nat
    BY <2>2, <2>4
  <2>6. Sums(v)[s] = v[First(s)] + Sums(v)[Rest(s)]
    BY <1>7, <2>3 DEF Summand
  <2>7. QED
    BY <2>4, <2>5, <2>6
<1>9. QED
  BY <1>6, <1>7, <1>8

LEMMA SumOfRest ==
  ASSUME IntakeAssumption, NEW v \in [BatchIds -> Nat], NEW s \in SUBSET BatchIds, s # {}
  PROVE  /\ Sums(v)[s] = v[First(s)] + Sums(v)[Rest(s)]
         /\ Rest(s) \in SUBSET BatchIds /\ First(s) \in s
         /\ Cardinality(Rest(s)) < Cardinality(s)
         /\ Sums(v)[Rest(s)] \in Nat /\ v[First(s)] \in Nat
<1>1. First(s) \in s /\ Rest(s) \in SUBSET BatchIds /\ Cardinality(Rest(s)) < Cardinality(s)
  BY Pick DEF Rest
<1>2. QED
  BY <1>1, SumsDefined DEF Summand

(* Any batch may be taken first.                                           *)
LEMMA SumWithout ==
  ASSUME IntakeAssumption, NEW v \in [BatchIds -> Nat]
  PROVE  \A s \in SUBSET BatchIds : \A b \in s : Sums(v)[s] = v[b] + Sums(v)[s \ {b}]
<1> DEFINE D == {s \in SUBSET BatchIds : \E b \in s : Sums(v)[s] # v[b] + Sums(v)[s \ {b}]}
<1>1. SUFFICES ASSUME D # {}
               PROVE  FALSE
  OBVIOUS
<1>2. PICK s \in D : \A r \in D : ~(Cardinality(r) < Cardinality(s))
  BY <1>1, Smallest
<1>3. PICK b \in s : Sums(v)[s] # v[b] + Sums(v)[s \ {b}]
  BY <1>2
<1> DEFINE a == First(s)
<1>4. /\ Sums(v)[s] = v[a] + Sums(v)[s \ {a}] /\ a \in s
      /\ v[a] \in Nat /\ v[b] \in Nat
  BY SumOfRest DEF Rest
<1> HIDE DEF a
<1>5. a # b
  BY <1>3, <1>4
<1>6. /\ s \ {a} \in SUBSET BatchIds /\ Cardinality(s \ {a}) < Cardinality(s)
      /\ s \ {b} \in SUBSET BatchIds /\ Cardinality(s \ {b}) < Cardinality(s)
  BY <1>4, Pick
<1>7. Sums(v)[s \ {a}] = v[b] + Sums(v)[(s \ {a}) \ {b}]
  BY <1>2, <1>5, <1>6
<1>8. Sums(v)[s \ {b}] = v[a] + Sums(v)[(s \ {b}) \ {a}]
  BY <1>2, <1>4, <1>5, <1>6
<1>9. (s \ {a}) \ {b} = (s \ {b}) \ {a} /\ (s \ {b}) \ {a} \in SUBSET BatchIds
  OBVIOUS
<1>10. PICK n \in Nat : n = Sums(v)[(s \ {b}) \ {a}]
  BY <1>9, SumsDefined
<1>11. Sums(v)[s] = v[a] + (v[b] + n) /\ Sums(v)[s \ {b}] = v[a] + n
  BY <1>4, <1>7, <1>8, <1>9, <1>10
<1>12. QED
  BY <1>3, <1>4, <1>11

(* The sum is of the values in the set.                                    *)
LEMMA SumsAgree ==
  ASSUME IntakeAssumption, NEW v \in [BatchIds -> Nat], NEW w \in [BatchIds -> Nat]
  PROVE  \A s \in SUBSET BatchIds : (\A b \in s : v[b] = w[b]) => Sums(v)[s] = Sums(w)[s]
<1> DEFINE D == {s \in SUBSET BatchIds :
                   (\A b \in s : v[b] = w[b]) /\ Sums(v)[s] # Sums(w)[s]}
<1>1. SUFFICES ASSUME D # {}
               PROVE  FALSE
  OBVIOUS
<1>2. PICK s \in D : \A r \in D : ~(Cardinality(r) < Cardinality(s))
  BY <1>1, Smallest
<1>3. s # {}
  BY SumsDefined DEF Summand
<1>4. /\ Rest(s) \in SUBSET BatchIds /\ First(s) \in s
      /\ Cardinality(Rest(s)) < Cardinality(s)
      /\ Sums(v)[s] = v[First(s)] + Sums(v)[Rest(s)]
      /\ Sums(w)[s] = w[First(s)] + Sums(w)[Rest(s)]
  BY <1>3, SumOfRest
<1>5. \A b \in Rest(s) : v[b] = w[b]
  BY DEF Rest
<1>6. Sums(v)[Rest(s)] = Sums(w)[Rest(s)]
  BY <1>2, <1>4, <1>5
<1>7. QED
  BY <1>4, <1>6

LEMMA SumOfNothing ==
  ASSUME IntakeAssumption, NEW v \in [BatchIds -> Nat], \A b \in BatchIds : v[b] = 0
  PROVE  \A s \in SUBSET BatchIds : Sums(v)[s] = 0
<1> DEFINE D == {s \in SUBSET BatchIds : Sums(v)[s] # 0}
<1>1. SUFFICES ASSUME D # {}
               PROVE  FALSE
  OBVIOUS
<1>2. PICK s \in D : \A r \in D : ~(Cardinality(r) < Cardinality(s))
  BY <1>1, Smallest
<1>3. s # {}
  BY SumsDefined DEF Summand
<1>4. /\ Rest(s) \in SUBSET BatchIds /\ First(s) \in s
      /\ Cardinality(Rest(s)) < Cardinality(s)
      /\ Sums(v)[s] = v[First(s)] + Sums(v)[Rest(s)]
  BY <1>3, SumOfRest
<1>5. Sums(v)[Rest(s)] = 0
  BY <1>2, <1>4
<1>6. QED
  BY <1>4, <1>5

LEMMA PendingCounted ==
  ASSUME IntakeAssumption, unfinished \in [BatchIds -> Nat]
  PROVE  PendingItemCount \in Nat
<1>1. BatchIds \in SUBSET BatchIds
  OBVIOUS
<1>2. QED
  BY <1>1, PendingIsSum, SumsDefined

LEMMA PendingSame ==
  ASSUME UNCHANGED unfinished
  PROVE  PendingItemCount' = PendingItemCount
<1>1. PICK v : v = unfinished /\ v = unfinished'
  OBVIOUS
<1>2. PendingItemCount = Sums(v)[BatchIds] /\ PendingItemCount' = Sums(v)[BatchIds]
  BY <1>1
  DEF PendingItemCount, MapThenSumSet, MapThenFoldSet, Sums, Summand, First, Rest
<1>3. QED
  BY <1>2

(* What the pending items become when one batch has other ones.            *)
LEMMA PendingMoves ==
  ASSUME IntakeAssumption, unfinished \in [BatchIds -> Nat], NEW b \in BatchIds, NEW n \in Nat,
         unfinished' = [unfinished EXCEPT ![b] = n]
  PROVE  /\ PendingItemCount \in Nat /\ PendingItemCount' \in Nat
         /\ PendingItemCount' + unfinished[b] = PendingItemCount + n
<1>1. PICK v \in [BatchIds -> Nat] : v = unfinished
  OBVIOUS
<1>2. PICK w \in [BatchIds -> Nat] : w = unfinished'
  OBVIOUS
<1>3. PendingItemCount = Sums(v)[BatchIds] /\ PendingItemCount' = Sums(w)[BatchIds]
  BY <1>1, <1>2
  DEF PendingItemCount, MapThenSumSet, MapThenFoldSet, Sums, Summand, First, Rest
<1>4. BatchIds \in SUBSET BatchIds /\ BatchIds \ {b} \in SUBSET BatchIds
  OBVIOUS
<1>5. /\ Sums(v)[BatchIds] = v[b] + Sums(v)[BatchIds \ {b}]
      /\ Sums(w)[BatchIds] = w[b] + Sums(w)[BatchIds \ {b}]
  <2>1. \A s \in SUBSET BatchIds : \A c \in s : Sums(v)[s] = v[c] + Sums(v)[s \ {c}]
    BY SumWithout
  <2>2. \A s \in SUBSET BatchIds : \A c \in s : Sums(w)[s] = w[c] + Sums(w)[s \ {c}]
    BY SumWithout
  <2>3. QED
    BY <1>4, <2>1, <2>2
<1>6. Sums(v)[BatchIds \ {b}] = Sums(w)[BatchIds \ {b}]
  BY <1>1, <1>2, <1>4, SumsAgree
<1>7. /\ Sums(v)[BatchIds] \in Nat /\ Sums(w)[BatchIds] \in Nat
      /\ Sums(v)[BatchIds \ {b}] \in Nat
  BY <1>4, SumsDefined
<1>8. w[b] = n /\ v[b] = unfinished[b] /\ v[b] \in Nat
  BY <1>1, <1>2
<1>9. QED
  BY <1>3, <1>5, <1>6, <1>7, <1>8

(***************************************************************************)
(* The limit of the queue.                                                 *)
(***************************************************************************)

(* The lock of the capacity is held alone, and what its holder is about to *)
(* insert still fits.                                                      *)
CapacityReserved ==
  /\ PendingItemCount <= QueueMaxPending
  /\ \A c \in Clients : HoldsCapacity(c) =>
       /\ PendingItemCount + request[c].files <= QueueMaxPending
       /\ \A d \in Clients \ {c} : ~HoldsCapacity(d)

(* A request that does not come to hold the capacity reserves nothing.     *)
LEMMA NothingReserved ==
  ASSUME CapacityReserved, NEW c \in Clients, UNCHANGED unfinished,
         \A d \in Clients \ {c} : request'[d] = request[d],
         request'[c].pc # "insert"
  PROVE  CapacityReserved'
<1>1. PendingItemCount' = PendingItemCount
  BY PendingSame
<1>2. QED
  BY <1>1 DEF CapacityReserved, HoldsCapacity

LEMMA RequestMoves ==
  ASSUME IntakeTypeOK, NEW c \in Clients
  PROVE  /\ \A pc : Goto(c, pc) =>
              /\ \A d \in Clients \ {c} : request'[d] = request[d]
              /\ request'[c].pc = pc /\ request'[c].files = request[c].files
         /\ \A answer, b : Answer(c, answer, b) =>
              /\ \A d \in Clients \ {c} : request'[d] = request[d]
              /\ request'[c].pc = "answered"
<1>1. PICK r \in Requests : r = request[c]
  BY DEF IntakeTypeOK
<1>2. ASSUME NEW pc, Goto(c, pc)
      PROVE  /\ \A d \in Clients \ {c} : request'[d] = request[d]
             /\ request'[c].pc = pc /\ request'[c].files = request[c].files
  BY <1>1, <1>2 DEF IntakeTypeOK, Requests, Goto
<1>3. ASSUME NEW answer, NEW b, Answer(c, answer, b)
      PROVE  /\ \A d \in Clients \ {c} : request'[d] = request[d]
             /\ request'[c].pc = "answered"
  <2> DEFINE x == [r EXCEPT !.pc = "answered", !.answer = answer, !.batch = b]
  <2>1. x.pc = "answered"
    BY DEF Requests
  <2>2. request' = [request EXCEPT ![c] = x]
    BY <1>1, <1>3 DEF Answer
  <2> HIDE DEF x
  <2>3. QED
    BY <2>1, <2>2 DEF IntakeTypeOK
<1>4. QED
  BY <1>2, <1>3

LEMMA ReservedKept ==
  ASSUME IntakeTypeOK, CapacityReserved, [IntakeNext]_intakeVars
  PROVE  CapacityReserved'
<1> USE DEF IntakeTypeOK
<1>1. ASSUME NEW c \in Clients, NEW k \in Keys \cup {NoKey}, NEW s \in Sources, Ask(c, k, s)
      PROVE  CapacityReserved'
  <2>1. /\ \A d \in Clients \ {c} : request'[d] = request[d]
        /\ request'[c].pc # "insert"
    BY <1>1 DEF Ask, NoRequest
  <2>2. QED
    BY <1>1, <2>1, NothingReserved DEF Ask
<1>2. ASSUME NEW c \in Clients, GetIdempotentBatch(c) \/ LookAgain(c) \/ Abort(c)
      PROVE  CapacityReserved'
  <2>1. /\ UNCHANGED unfinished
        /\ \/ Goto(c, "discover") \/ Goto(c, "count")
           \/ \E answer, b : Answer(c, answer, b)
    BY <1>2 DEF GetIdempotentBatch, LookAgain, Abort, AnswerKnown
  <2>2. QED
    BY <2>1, RequestMoves, NothingReserved
<1>3. ASSUME NEW c \in Clients, Discover(c)
      PROVE  CapacityReserved'
  <2>1. UNCHANGED unfinished
    BY <1>3 DEF Discover
  <2>2. \/ \E answer, b : Answer(c, answer, b)
        \/ \E n \in Nat : request' = [request EXCEPT ![c] =
             [@ EXCEPT !.files = n, !.pc = IF request[c].key = NoKey THEN "count" ELSE "recheck"]]
    BY <1>3, IntakeAssumption DEF Discover
  <2>3. CASE \E answer, b : Answer(c, answer, b)
    BY <2>1, <2>3, RequestMoves, NothingReserved
  <2>4. ASSUME NEW n \in Nat, NEW pc \in {"count", "recheck"},
               request' = [request EXCEPT ![c] = [@ EXCEPT !.files = n, !.pc = pc]]
        PROVE  CapacityReserved'
    <3>1. /\ \A d \in Clients \ {c} : request'[d] = request[d]
          /\ request'[c].pc = pc
      BY <2>4 DEF Requests
    <3>2. QED
      BY <2>1, <3>1, NothingReserved
  <2>5. QED
    BY <2>2, <2>3, <2>4
<1>4. ASSUME NEW c \in Clients, Count(c)
      PROVE  CapacityReserved'
  <2>1. UNCHANGED unfinished /\ \A d \in Clients \ {c} : ~HoldsCapacity(d)
    BY <1>4 DEF Count
  <2>2. CASE Answer(c, "capacity", NoBatch)
    BY <2>1, <2>2, RequestMoves, NothingReserved
  <2>3. CASE Goto(c, "insert") /\ ~(PendingItemCount + request[c].files > QueueMaxPending)
    <3>1. PendingItemCount' = PendingItemCount
      BY <2>1, PendingSame
    <3>2. PendingItemCount \in Nat /\ request[c].files \in Nat /\ QueueMaxPending \in Nat
      BY IntakeAssumption, PendingCounted DEF Requests
    <3>3. PendingItemCount + request[c].files <= QueueMaxPending
      BY <2>3, <3>2
    <3>4. /\ \A d \in Clients \ {c} : request'[d] = request[d]
          /\ request'[c].files = request[c].files
      BY <2>3, RequestMoves
    <3>5. QED
      BY <2>1, <3>1, <3>3, <3>4 DEF CapacityReserved, HoldsCapacity
  <2>4. QED
    BY <1>4, <2>2, <2>3 DEF Count
<1>5. ASSUME NEW c \in Clients, Insert(c)
      PROVE  CapacityReserved'
  <2>1. HoldsCapacity(c)
    BY <1>5 DEF Insert, HoldsCapacity
  <2>2. \E answer, b : Answer(c, answer, b)
    BY <1>5 DEF Insert
  <2>3. /\ \A d \in Clients \ {c} : request'[d] = request[d] /\ ~HoldsCapacity(d)
        /\ request'[c].pc = "answered"
    BY <2>1, <2>2, RequestMoves DEF CapacityReserved
  <2>4. CASE UNCHANGED unfinished
    BY <2>3, <2>4, NothingReserved
  <2>5. ASSUME NEW b \in BatchIds, unfinished' = [unfinished EXCEPT ![b] = request[c].files]
        PROVE  CapacityReserved'
    <3>1. request[c].files \in Nat /\ unfinished[b] \in Nat
      BY DEF Requests
    <3>2. PICK n \in Nat : n = request[c].files
      BY <3>1
    <3>3. /\ PendingItemCount \in Nat /\ PendingItemCount' \in Nat
          /\ PendingItemCount' + unfinished[b] = PendingItemCount + n
      BY <2>5, <3>2, IntakeAssumption, PendingMoves
    <3>4. PendingItemCount' <= QueueMaxPending
      BY <2>1, <3>1, <3>2, <3>3, IntakeAssumption DEF CapacityReserved
    <3>5. \A d \in Clients : ~HoldsCapacity(d)'
      BY <2>3 DEF HoldsCapacity
    <3>6. QED
      BY <3>4, <3>5 DEF CapacityReserved
  <2>6. QED
    BY <1>5, <2>4, <2>5 DEF Insert
<1>6. ASSUME NEW b \in BatchIds, FinishItem(b)
      PROVE  CapacityReserved'
  <2>1. PICK n \in Nat : n = unfinished[b] - 1 /\ unfinished[b] \in Nat
    BY <1>6 DEF FinishItem
  <2>2. unfinished' = [unfinished EXCEPT ![b] = n] /\ UNCHANGED request
    BY <1>6, <2>1 DEF FinishItem
  <2>3. /\ PendingItemCount \in Nat /\ PendingItemCount' \in Nat
        /\ PendingItemCount' + unfinished[b] = PendingItemCount + n
    BY <2>2, IntakeAssumption, PendingMoves
  <2>4. PendingItemCount' <= PendingItemCount
    BY <2>1, <2>3
  <2>5. \A c \in Clients : request[c].files \in Nat
    BY DEF Requests
  <2>6. QED
    BY <2>2, <2>3, <2>4, <2>5, IntakeAssumption DEF CapacityReserved, HoldsCapacity
<1>7. CASE UNCHANGED intakeVars
  BY <1>7, PendingSame DEF intakeVars, CapacityReserved, HoldsCapacity
<1>8. QED
  BY <1>1, <1>2, <1>3, <1>4, <1>5, <1>6, <1>7 DEF IntakeNext

(* The items that are not final never exceed queue_max_pending, because a  *)
(* request counts them under a lock that it holds until its insert has     *)
(* committed, and no other step adds any                                   *)
(* (PostgresBatchService.create_batch, create_batch_with_outbox).          *)
THEOREM QueueBounded == IntakeSpec => []QueueWithinLimit
<1>1. IntakeInit => IntakeInv /\ CapacityReserved
  <2> SUFFICES ASSUME IntakeInit PROVE IntakeInv /\ CapacityReserved
    OBVIOUS
  <2>1. IntakeInv
    BY IntakeInitially
  <2>2. PendingItemCount = 0
    <3>1. PICK v \in [BatchIds -> Nat] : v = unfinished /\ \A b \in BatchIds : v[b] = 0
      BY DEF IntakeInit
    <3>2. \A s \in SUBSET BatchIds : Sums(v)[s] = 0
      BY <3>1, SumOfNothing, IntakeAssumption
    <3>3. QED
      BY <3>1, <3>2, PendingIsSum
  <2>3. \A c \in Clients : ~HoldsCapacity(c)
    BY DEF IntakeInit, HoldsCapacity, NoRequest
  <2>4. QED
    BY <2>1, <2>2, <2>3, IntakeAssumption DEF CapacityReserved
<1>2. IntakeInv /\ CapacityReserved /\ [IntakeNext]_intakeVars => IntakeInv' /\ CapacityReserved'
  BY IntakeInductive, ReservedKept DEF IntakeInv
<1>3. CapacityReserved => QueueWithinLimit
  BY DEF CapacityReserved, QueueWithinLimit
<1>4. QED
  BY <1>1, <1>2, <1>3, PTL DEF IntakeSpec
=============================================================================
