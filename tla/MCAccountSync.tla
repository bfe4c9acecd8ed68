--------------------------- MODULE MCAccountSync ---------------------------
EXTENDS AccountSync
CONSTANTS f1, f2, f3, p1, p2
=============================================================================
