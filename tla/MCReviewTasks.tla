---------------------------- MODULE MCReviewTasks ----------------------------
(* Instances of ReviewTasks for TLC.                                       *)
EXTENDS ReviewTasks, TLC

CONSTANTS t1, t2, p1, p2

TwoTasks == {t1, t2}
TwoPages == {p1, p2}
FewLoads == (p1 :> 3) @@ (p2 :> 1)
FewSends == (p1 :> 2) @@ (p2 :> 1)
Drafts == {"CONFIRMED_PASS", "UNRESOLVED"}

TasksAlike == Permutations(TwoTasks)
=============================================================================
