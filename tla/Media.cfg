SPECIFICATION FairSpec
CONSTANTS
    Reader = {"p", "q", "a"}
    App = "a"
    Kinds <- MCKinds
    Tries <- MCTries
    Capacity = 2
    MaxSeq = 2
    MaxMsgs = 4
    PosterMsgs = 2
    Limit = 1
INVARIANTS ArrivalOrder OneToken NoLostWakeup
PROPERTIES PostersEnd HungryGoesOn
CHECK_DEADLOCK FALSE
