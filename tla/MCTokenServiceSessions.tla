------------------------ MODULE MCTokenServiceSessions ------------------------
EXTENDS TokenServiceSessions, TLC
RequestSymmetry == Permutations(Requests)
=============================================================================
