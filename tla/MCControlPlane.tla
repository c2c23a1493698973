--------------------------- MODULE MCControlPlane ---------------------------
(***************************************************************************)
(* Small instances of BatchIntake, Exports and Knowledge for TLC.  The     *)
(* three share no table, file or process, so that nothing is lost by       *)
(* letting each behaviour exercise one of them: focus says which.          *)
(***************************************************************************)
EXTENDS BatchIntake, Exports, Knowledge

VARIABLE focus

controlVars == <<intakeVars, exportsVars, knowledgeVars, focus>>

ControlInit == IntakeInit /\ ExportsInit /\ KnowledgeInit /\ focus \in {"intake", "exports", "knowledge"}

ControlNext ==
  /\ UNCHANGED focus
  /\ \/ focus = "intake" /\ IntakeNext /\ UNCHANGED <<exportsVars, knowledgeVars>>
     \/ focus = "exports" /\ ExportsNext /\ UNCHANGED <<intakeVars, knowledgeVars>>
     \/ focus = "knowledge" /\ KnowledgeNext /\ UNCHANGED <<intakeVars, exportsVars>>

ControlSpec == ControlInit /\ [][ControlNext]_controlVars
=============================================================================
