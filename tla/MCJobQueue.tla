----------------------------- MODULE MCJobQueue -----------------------------
EXTENDS JobQueue, TLC

CONSTANTS j1, j2

MCSymmetry == Permutations(Jobs)
=============================================================================
