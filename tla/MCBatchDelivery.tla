--------------------------- MODULE MCBatchDelivery ---------------------------
(***************************************************************************)
(* Small instances of BatchDelivery for TLC.                               *)
(***************************************************************************)
EXTENDS BatchDelivery, TLC

CONSTANTS b1, i1, i2, w1, w2, p1

(* One batch of two files.                                                 *)
OneBatch == (i1 :> b1) @@ (i2 :> b1)

(* A single file.                                                          *)
OneFile == (i1 :> b1)

(* The files of one batch, and the workers, are interchangeable.           *)
FileSymmetry == Permutations(Items) \cup Permutations(Workers)

(* A behaviour sends each file's event once, and once more per fault.      *)
LiveSpec == Spec /\ Fairness(1..(Cardinality(Items) + MaxPublisherFaults))
=============================================================================
