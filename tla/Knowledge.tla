------------------------------ MODULE Knowledge ------------------------------
(***************************************************************************)
(* The start of a process that builds the quality service (the API, the    *)
(* Worker, the command line): the version that the single pointer of the   *)
(* database names is loaded; when there is no pointer, a new version is    *)
(* built into local files, saved, published and then loaded.  The          *)
(* processes share the database and the files, and start at once.          *)
(*                                                                         *)
(* publish is one READ COMMITTED transaction.  Its UPDATE that demotes the *)
(* published builds sees those of its own snapshot, waits for the row      *)
(* locks of another publish, and tests the row again.                      *)
(***************************************************************************)
EXTENDS Naturals

CONSTANTS
  Starters,     \* processes
  Versions,     \* knowledge versions: each build has a new one
  MaxDeaths,    \* bound: processes that end
  NoVersion

ASSUME KnowledgeAssumption == MaxDeaths \in Nat /\ NoVersion \notin Versions

VARIABLES
  manifests, \* versions whose manifest is on the disk
  indexes,   \* versions whose chunks and vectors are, too
  build,     \* knowledge_builds
  pointer,   \* knowledge_current_pointer
  start,     \* what each process does
  deaths

knowledgeVars == <<manifests, indexes, build, pointer, start, deaths>>

Down == [pc |-> "down", version |-> NoVersion, seen |-> {}, demoted |-> {}, old |-> NoVersion]

Published == {v \in Versions : build[v] = "PUBLISHED"}

-----------------------------------------------------------------------------
KnowledgeInit ==
  /\ manifests = {} /\ indexes = {}
  /\ build = [v \in Versions |-> "none"]
  /\ pointer = NoVersion
  /\ start = [p \in Starters |-> Down]
  /\ deaths = 0

Move(p, from, to) == start[p].pc = from /\ start' = [start EXCEPT ![p].pc = to]

(* build_service.current()                                                 *)
LookAtPointer(p) ==
  /\ start[p].pc \in {"down", "lost"}
  /\ start' = [start EXCEPT ![p] =
       [Down EXCEPT !.pc = IF pointer = NoVersion THEN "build" ELSE "load"]]
  /\ UNCHANGED <<manifests, indexes, build, pointer, deaths>>

(* The manifest of a version that no other process has is written first.   *)
WriteManifest(p) ==
  /\ start[p].pc = "build"
  /\ \E v \in Versions \ manifests :
       /\ manifests' = manifests \cup {v}
       /\ start' = [start EXCEPT ![p] = [@ EXCEPT !.pc = "index", !.version = v]]
  /\ UNCHANGED <<indexes, build, pointer, deaths>>

WriteIndex(p) ==
  /\ Move(p, "index", "save")
  /\ indexes' = indexes \cup {start[p].version}
  /\ UNCHANGED <<manifests, build, pointer, deaths>>

SaveReady(p) ==
  /\ Move(p, "save", "publish")
  /\ build' = [build EXCEPT ![start[p].version] = "READY"]
  /\ UNCHANGED <<manifests, indexes, pointer, deaths>>

(* publish finds the manifest and the build, and its UPDATE takes its      *)
(* snapshot.                                                               *)
BeginPublish(p) ==
  /\ start[p].pc = "publish"
  /\ start[p].version \in manifests /\ build[start[p].version] \in {"READY", "PUBLISHED"}
  /\ start' = [start EXCEPT ![p] = [@ EXCEPT !.pc = "demote", !.seen = Published]]
  /\ UNCHANGED <<manifests, indexes, build, pointer, deaths>>

(* The rows that are still PUBLISHED when their locks are free.            *)
Demote(p) ==
  /\ start[p].pc = "demote"
  /\ \A q \in Starters \ {p} : start[q].demoted \cap start[p].seen = {}
  /\ start' = [start EXCEPT ![p] =
       [@ EXCEPT !.pc = "pointer", !.demoted = start[p].seen \cap Published]]
  /\ UNCHANGED <<manifests, indexes, build, pointer, deaths>>

ReadPointer(p) ==
  /\ start[p].pc = "pointer"
  /\ start' = [start EXCEPT ![p] = [@ EXCEPT !.pc = "commit", !.old = pointer]]
  /\ UNCHANGED <<manifests, indexes, build, pointer, deaths>>

(* A pointer that was inserted after the read fails the insert.            *)
LosesPointer(p) == start[p].old = NoVersion /\ pointer # NoVersion

(* Faulty variant: the pointer of the one that came first stays.           *)
PublishKeepsPointer(p) ==
  /\ start[p].pc = "commit"
  /\ IF LosesPointer(p)
     THEN /\ start' = [start EXCEPT ![p] = [Down EXCEPT !.pc = "lost"]]
          /\ UNCHANGED <<build, pointer>>
     ELSE /\ build' = [v \in Versions |-> IF v = start[p].version THEN "PUBLISHED"
                                          ELSE IF v \in start[p].demoted THEN "READY" ELSE build[v]]
          /\ pointer' = IF pointer = NoVersion THEN start[p].version ELSE pointer
          /\ start' = [start EXCEPT ![p] = [Down EXCEPT !.pc = "load"]]
  /\ UNCHANGED <<manifests, indexes, deaths>>

CommitPublish(p) ==
  /\ start[p].pc = "commit"
  /\ IF LosesPointer(p)
     THEN /\ start' = [start EXCEPT ![p] = [Down EXCEPT !.pc = "lost"]]
          /\ UNCHANGED <<build, pointer>>
     ELSE /\ build' = [v \in Versions |-> IF v = start[p].version THEN "PUBLISHED"
                                          ELSE IF v \in start[p].demoted THEN "READY" ELSE build[v]]
          /\ pointer' = start[p].version
          /\ start' = [start EXCEPT ![p] = [Down EXCEPT !.pc = "load"]]
  /\ UNCHANGED <<manifests, indexes, deaths>>

(* load_current_index reads the pointer again; without its files the start *)
(* fails.                                                                  *)
LoadCurrentIndex(p) ==
  /\ start[p].pc = "load"
  /\ start' = [start EXCEPT ![p] =
       IF pointer \in manifests \cap indexes
       THEN [Down EXCEPT !.pc = "serving", !.version = pointer]
       ELSE [Down EXCEPT !.pc = "broken"]]
  /\ UNCHANGED <<manifests, indexes, build, pointer, deaths>>

(* A process ends, at work or in the middle of its start.                  *)
Die(p) ==
  /\ start[p].pc \notin {"down", "broken"} /\ deaths < MaxDeaths
  /\ deaths' = deaths + 1
  /\ start' = [start EXCEPT ![p] = Down]
  /\ UNCHANGED <<manifests, indexes, build, pointer>>

-----------------------------------------------------------------------------
KnowledgeNext ==
  \E p \in Starters :
    \/ LookAtPointer(p) \/ WriteManifest(p) \/ WriteIndex(p) \/ SaveReady(p)
    \/ BeginPublish(p) \/ Demote(p) \/ ReadPointer(p) \/ CommitPublish(p)
    \/ LoadCurrentIndex(p) \/ Die(p)

KnowledgeSpec == KnowledgeInit /\ [][KnowledgeNext]_knowledgeVars

-----------------------------------------------------------------------------
Starts ==
  [pc : {"down", "build", "index", "save", "publish", "demote", "pointer", "commit",
         "load", "serving", "lost", "broken"},
   version : Versions \cup {NoVersion}, seen : SUBSET Versions,
   demoted : SUBSET Versions, old : Versions \cup {NoVersion}]

KnowledgeTypeOK ==
  /\ indexes \subseteq manifests /\ manifests \subseteq Versions
  /\ build \in [Versions -> {"none", "READY", "PUBLISHED"}]
  /\ pointer \in Versions \cup {NoVersion}
  /\ start \in [Starters -> Starts]
  /\ deaths \in 0..MaxDeaths

(* Whatever starts race and die in the middle, the pointer names a version *)
(* that is PUBLISHED and whose files are complete; a start that lost the   *)
(* race for the pointer finds one when it is repeated, and no start finds  *)
(* a pointer that it cannot load.                                          *)
SelectionServes ==
  /\ pointer # NoVersion => build[pointer] = "PUBLISHED" /\ pointer \in manifests \cap indexes
  /\ \A p \in Starters : start[p].pc = "lost" => pointer # NoVersion
  /\ \A p \in Starters : start[p].pc # "broken"
=============================================================================
