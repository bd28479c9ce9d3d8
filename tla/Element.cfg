SPECIFICATION FairSpec
CONSTANTS
    Client <- MCClient
    Mode = {"raw", "parse"}
    MaxHandles = 2
    MaxRefs = 1
    MaxTasks = 2
    Ssrc = {1, 2}
    SrcPad = {1}
    MaxChannels = 2
INVARIANTS GhostsMatchMode PausedIsQuiet OwnerLives HandleCounts
PROPERTIES ClosedEnds
CHECK_DEADLOCK FALSE
