---------------------------- MODULE MCStagePipeline ----------------------------
(* Finite instances of StagePipeline.                                      *)
EXTENDS StagePipeline
=============================================================================
