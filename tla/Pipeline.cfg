SPECIFICATION FairSpec
CONSTANTS
    Name <- MCName
    Words <- MCWords
    Number = {"0", "1"}
    Pad = {1, 3, 4}
    Linker = {1, 2}
    Wants <- MCWants
    Getter = {3}
    Asks <- MCAsks
INVARIANTS LinkTables CanceledIsGone PadSeen
PROPERTIES ReadyEnds
CHECK_DEADLOCK FALSE
