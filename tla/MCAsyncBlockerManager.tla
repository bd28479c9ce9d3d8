----------------------- MODULE MCAsyncBlockerManager -----------------------
EXTENDS AsyncBlockerManager, TLC

CONSTANTS c1, c2, c3, l1, l2

Symmetry == Permutations(Owner) \cup Permutations(Locker)
=============================================================================
