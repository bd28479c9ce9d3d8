---------------------------- MODULE MCAsyncMutex ----------------------------
EXTENDS AsyncMutex, TLC

CONSTANTS t1, t2, t3

Symmetry == Permutations(Task)
=============================================================================
