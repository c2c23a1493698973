---------------------------- MODULE MCLocalBatch ----------------------------
EXTENDS LocalBatch, TLC
CONSTANTS f1, f2, c1, c2
=============================================================================
