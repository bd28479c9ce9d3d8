SPECIFICATION FairSpec
CHECK_DEADLOCK FALSE
CONSTANTS
    c1 = c1
    c2 = c2
    c3 = c3
    l1 = l1
    l2 = l2
    Owner = {c1,c2}
    Locker = {l1}
    Priority = {0}
    Target = 1
    MinBatch = 1
    MaxId = 2
    MaxRounds = 2
    Cancels = FALSE
    Leaves = TRUE
INVARIANTS BatchHeld Settled NoLostReady
PROPERTIES HeldStill CallsReturn
