---------------------------- MODULE MCQualityRuns ----------------------------
(* Instances of QualityRuns for TLC.                                       *)
EXTENDS QualityRuns

CONSTANTS r1, r2, r3, api, worker, none, b1, b2

OneApi == {api}
OneWorker == {worker}
ThreeRuns == {r1, r2, r3}
OldRun == {r3}
TwoBackfills == {b1, b2}
NoBackfill == {}
NoLegacy == {}
TwoRuns == {r1, r2}
=============================================================================
