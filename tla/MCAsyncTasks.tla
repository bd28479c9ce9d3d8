---------------------------- MODULE MCAsyncTasks ----------------------------
EXTENDS AsyncTasks, TLC

CONSTANTS a1, a2

Symmetry == Permutations(Awaiter)
=============================================================================
