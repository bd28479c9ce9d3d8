CONSTANTS
    a1 = a1  a2 = a2
    Awaiter = {a1, a2}
    MaxTasks = 3
SPECIFICATION FairSpec
CHECK_DEADLOCK FALSE
INVARIANTS VerdictSound NothingLost
PROPERTY GroupEnds
