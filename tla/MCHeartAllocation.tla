--------------------------- MODULE MCHeartAllocation ---------------------------
EXTENDS HeartAllocation, TLC

LiveSymmetry == Permutations(Live)
=============================================================================
