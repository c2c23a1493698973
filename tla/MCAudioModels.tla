--------------------------- MODULE MCAudioModels ---------------------------
EXTENDS AudioModels, TLC
CONSTANTS t1, t2, f1, f2
=============================================================================
